\* Two submissions (a double click) while uiConfig may deliver a changed
\* newCreateProjectUI flag, and a cancel: feedback for every submission.
CONSTANTS
    Subs = {s1, s2}

SPECIFICATION Spec

INVARIANT TypeOK

PROPERTY SubmissionAnswered

\* After the submissions end (or React refused a render) the page idles.
CHECK_DEADLOCK FALSE
