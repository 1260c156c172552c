---------------------------- MODULE ProjectTabs ----------------------------
(***************************************************************************)
(* The project page's navigation (src/frontend/src/component/project/     *)
(* Project/Project.tsx): the tab list built from the UI flags, the tab     *)
(* highlighted for the current pathname, the sub-route <Routes> renders,   *)
(* the mount effect that toasts ?created / ?edited, and the page's own    *)
(* state: the import modal and the change-request overwrite flag.          *)
(*                                                                         *)
(* A pathname is the sequence of its segments below /projects/:projectId.  *)
(* pathname.startsWith(tab.path) is a prefix test on those strings; on the *)
(* pathnames modelled no tab's last segment is a proper string prefix of   *)
(* another segment, so it coincides with IsPrefix on segment sequences.    *)
(***************************************************************************)
EXTENDS Naturals, Sequences, SequencesExt

VARIABLES
    flags,     \* projectOverviewRefactor, isOss(), uiConfig.flags.sdkReporting
    notFound,  \* useProject's error has status 404
    query,     \* the ?created / ?edited query parameters the page opened with
    toast,     \* the toast the page has shown
    mounted,   \* the mount effect has run
    pathname,  \* useLocation().pathname below the project's base path
    via,       \* the name of the tab whose click set pathname, or "url"
    canUpdate, \* the user holds UPDATE_FEATURE on the project
    modalOpen, \* the import modal is open
    overwrite  \* changeRequestChangesWillOverwrite

vars == <<flags, notFound, query, toast, mounted, pathname, via, canUpdate,
          modalOpen, overwrite>>

page == <<canUpdate, modalOpen, overwrite>>

Flags == [refactor : BOOLEAN, oss : BOOLEAN, sdkReporting : BOOLEAN,
          featuresExportImport : BOOLEAN]
NoFlag == "none"
NoTab == [name |-> "none", path |-> <<"none">>, flag |-> NoFlag, isEnterprise |-> FALSE]

Tab(name, path, flag, isEnterprise) ==
    [name |-> name, path |-> path, flag |-> flag, isEnterprise |-> isEnterprise]

\* The tabs array (lines 90-148).
Tabs(f) ==
    << Tab("overview", <<>>, NoFlag, FALSE) >>
    \o (IF f.refactor THEN << Tab("insights", <<"insights">>, NoFlag, FALSE) >> ELSE <<>>)
    \o << Tab("health", <<"health">>, NoFlag, FALSE),
          Tab("archive", <<"archive">>, NoFlag, FALSE),
          Tab("change-request", <<"change-requests">>, NoFlag, TRUE) >>
    \o (IF ~f.refactor THEN << Tab("dora", <<"metrics">>, NoFlag, TRUE) >> ELSE <<>>)
    \o << Tab("applications", <<"applications">>, "sdkReporting", FALSE),
          Tab("logs", <<"logs">>, NoFlag, FALSE),
          Tab("settings", IF f.oss THEN <<"settings", "environments">>
                                   ELSE <<"settings">>, NoFlag, FALSE) >>

\* filteredTabs (lines 150-157): a flagged tab needs its flag on, and OSS
\* hides the enterprise tabs.
FilteredTabs(f) ==
    SelectSeq(SelectSeq(Tabs(f), LAMBDA t : t.flag = NoFlag \/ f[t.flag]),
              LAMBDA t : ~(f.oss /\ t.isEnterprise))

\* Mutant: find without the reverse.
ActiveTabNoReverse(f, p) ==
    LET i == SelectInSeq(FilteredTabs(f), LAMBDA t : IsPrefix(t.path, p))
    IN  IF i = 0 THEN NoTab ELSE FilteredTabs(f)[i]

\* activeTab (lines 159-161): the last filtered tab whose path starts the
\* pathname.
ActiveTab(f, p) ==
    LET r == Reverse(FilteredTabs(f))
        i == SelectInSeq(r, LAMBDA t : IsPrefix(t.path, p))
    IN  IF i = 0 THEN NoTab ELSE r[i]

\* Mutant: the insights route is mounted when the refactor flag is off.
RenderedInsightsInverted(f, p) ==
    CASE p = <<"health">>                             -> "ProjectHealth"
      [] p = <<"environments">>                       -> "ProjectEnvironment"
      [] p = <<"archive">>                            -> "ProjectFeaturesArchive"
      [] p = <<"insights">> /\ ~f.refactor            -> "ProjectInsights"
      [] p = <<"logs">>                               -> "ProjectLog"
      [] p = <<"change-requests">>                    -> "ProjectChangeRequests"
      [] Len(p) = 2 /\ p[1] = "change-requests"       -> "ChangeRequestOverview"
      [] Len(p) >= 1 /\ p[1] = "settings"             -> "ProjectSettings"
      [] p = <<"metrics">> /\ ~f.refactor             -> "ProjectDoraMetrics"
      [] p = <<"applications">>                       -> "ProjectApplications"
      [] OTHER                                        -> "ProjectOverview"

\* The element <Routes> renders for a pathname (lines 307-349); the
\* 'access/*' route never renders, it redirects (see Redirected).
Rendered(f, p) ==
    CASE p = <<"health">>                             -> "ProjectHealth"
      [] p = <<"environments">>                       -> "ProjectEnvironment"
      [] p = <<"archive">>                            -> "ProjectFeaturesArchive"
      [] p = <<"insights">> /\ f.refactor             -> "ProjectInsights"
      [] p = <<"logs">>                               -> "ProjectLog"
      [] p = <<"change-requests">>                    -> "ProjectChangeRequests"
      [] Len(p) = 2 /\ p[1] = "change-requests"       -> "ChangeRequestOverview"
      [] Len(p) >= 1 /\ p[1] = "settings"             -> "ProjectSettings"
      [] p = <<"metrics">> /\ ~f.refactor             -> "ProjectDoraMetrics"
      [] p = <<"applications">>                       -> "ProjectApplications"
      [] OTHER                                        -> "ProjectOverview"

\* Mutant: the redirect target resolved relative to the access route.
RedirectedRelative(p) ==
    IF Len(p) >= 1 /\ p[1] = "access" THEN p \o <<"settings", "access">> ELSE p

\* 'access/*' renders <Navigate replace to=".../settings/access"> (309-317).
Redirected(p) ==
    IF Len(p) >= 1 /\ p[1] = "access" THEN <<"settings", "access">> ELSE p

\* Pathnames a user or a link can open below the project.
URLs == { <<>>, <<"health">>, <<"insights">>, <<"archive">>, <<"metrics">>,
          <<"applications">>, <<"logs">>, <<"change-requests">>,
          <<"change-requests", "1">>, <<"settings">>,
          <<"settings", "environments">>, <<"access">>, <<"environments">> }

Queries == {"none", "created", "edited", "both"}

\* The mount effect (lines 163-175).  It is declared before the 404 return,
\* so it runs on the not-found page as well.
Mount ==
    /\ ~mounted
    /\ mounted' = TRUE
    /\ toast' = CASE query \in {"created", "both"} -> "Project created"
                  [] query = "edited"              -> "Project updated"
                  [] OTHER                         -> toast
    /\ UNCHANGED <<flags, notFound, query, pathname, via>> /\ UNCHANGED page

\* A tab's onClick: navigate(tab.path) (line 270).  The tabs are not
\* rendered on the 404 page (lines 177-186).
ClickTab ==
    /\ ~notFound
    /\ \E i \in DOMAIN FilteredTabs(flags) :
          /\ pathname' = FilteredTabs(flags)[i].path
          /\ via' = FilteredTabs(flags)[i].name
    /\ UNCHANGED <<flags, notFound, query, toast, mounted>> /\ UNCHANGED page

\* The pathname changes through a link or the address bar.
Visit ==
    /\ \E u \in URLs : pathname' = Redirected(u)
    /\ via' = "url"
    /\ UNCHANGED <<flags, notFound, query, toast, mounted>> /\ UNCHANGED page

\* The import button (lines 233-249) is rendered with featuresExportImport
\* on; PermissionIconButton only lets a user with UPDATE_FEATURE click it.
OpenImport ==
    /\ ~notFound /\ flags.featuresExportImport /\ canUpdate
    /\ modalOpen' = TRUE
    /\ UNCHANGED <<flags, notFound, query, toast, mounted, pathname, via,
                   canUpdate, overwrite>>

\* ImportModal calls setOpen(false) (lines 350-354).
CloseImport ==
    /\ modalOpen
    /\ modalOpen' = FALSE
    /\ UNCHANGED <<flags, notFound, query, toast, mounted, pathname, via,
                   canUpdate, overwrite>>

\* The change request overview calls registerWillOverwriteStrategyChanges
\* from the provider Project wraps it in (lines 328-342); the flag lives in
\* Project and is never reset.
RegisterOverwrite ==
    /\ ~notFound /\ Rendered(flags, pathname) = "ChangeRequestOverview"
    /\ overwrite' = TRUE
    /\ UNCHANGED <<flags, notFound, query, toast, mounted, pathname, via,
                   canUpdate, modalOpen>>

Init ==
    /\ flags \in Flags
    /\ notFound \in BOOLEAN
    /\ query \in Queries
    /\ toast = "none"
    /\ mounted = FALSE
    /\ pathname \in {Redirected(u) : u \in URLs}
    /\ via = "url"
    /\ canUpdate \in BOOLEAN
    /\ modalOpen = FALSE
    /\ overwrite = FALSE

Next ==
    \/ Mount \/ ClickTab \/ Visit
    \/ OpenImport \/ CloseImport \/ RegisterOverwrite

Spec == Init /\ [][Next]_vars
-----------------------------------------------------------------------------
(* Properties *)

\* The page each tab stands for.
TabPage ==
    ("overview" :> "ProjectOverview") @@ ("insights" :> "ProjectInsights")
    @@ ("health" :> "ProjectHealth") @@ ("archive" :> "ProjectFeaturesArchive")
    @@ ("change-request" :> "ProjectChangeRequests")
    @@ ("dora" :> "ProjectDoraMetrics")
    @@ ("applications" :> "ProjectApplications") @@ ("logs" :> "ProjectLog")
    @@ ("settings" :> "ProjectSettings")

TypeOK ==
    /\ flags \in Flags /\ notFound \in BOOLEAN /\ query \in Queries
    /\ toast \in {"none", "Project created", "Project updated"}
    /\ mounted \in BOOLEAN
    /\ pathname \in URLs \cup {<<"settings", "access">>} \cup {t.path : t \in Range(Tabs(flags))}
    /\ via \in DOMAIN TabPage \cup {"url"}
    /\ canUpdate \in BOOLEAN /\ modalOpen \in BOOLEAN /\ overwrite \in BOOLEAN

\* Clicking a tab highlights that tab: the tab list is ordered so that the
\* reverse find of activeTab (lines 159-161) picks the clicked tab even
\* though Overview's path starts every pathname, under every flag setting.
ClickedTabHighlighted ==
    via # "url" => ActiveTab(flags, pathname).name = via

\* Clicking a tab opens its page: every tab filteredTabs shows has a route
\* in <Routes> for its path, under the same flags (lines 90-157 and 307-349
\* are written apart, and each list gates insights and metrics on
\* projectOverviewRefactor itself).
ClickedTabOpensItsPage ==
    via # "url" => Rendered(flags, pathname) = TabPage[via]
===========================================================================
