SPECIFICATION Spec
INVARIANTS
    TypeOK
    ClickedTabHighlighted
    ClickedTabOpensItsPage
