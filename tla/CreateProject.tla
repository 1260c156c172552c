--------------------------- MODULE CreateProject ---------------------------
(***************************************************************************)
(* The create-project form (src/frontend/src/component/project/Project/   *)
(* CreateProject/CreateProject.tsx).                                       *)
(*                                                                         *)
(* Rendering: React calls the component again on every update and checks  *)
(* that it calls as many hooks as the previous render did.  The component *)
(* reads the newCreateProjectUI flag from uiConfig, which the UI-config    *)
(* hook (outside src/) may deliver or refresh while the form is mounted.  *)
(*                                                                         *)
(* Submitting: handleSubmit validates the name (synchronous), awaits the   *)
(* server's project-id validation, then awaits createProject; the user may *)
(* submit again while an earlier submission is still awaiting.  The server *)
(* (outside src/) refuses an id that exists; a reply may be lost after the *)
(* server created the project.                                             *)
(***************************************************************************)
EXTENDS Naturals

CONSTANTS
    Subs    \* submissions the user can make while the form is shown

VARIABLES
    flag,       \* newCreateProjectUI as useUiFlag returns it
    hooks,      \* hooks the last render called (0: not mounted)
    hookError,  \* React refused a render whose hook count changed
    exists,     \* the server has a project with the form's id
    sub,        \* per submission: where handleSubmit is, and what it saw
    location    \* the route shown: the form, the new form, back, or the project

vars == <<flag, hooks, hookError, exists, sub, location>>

\* Mutant: one more hook after the early return.
HooksOfOneMore(newForm) == IF newForm THEN 7 ELSE 10

\* Hooks a render calls (lines 27-67): seven before the early return, and
\* useState and useProjectApi after it.
HooksOf(newForm) == IF newForm THEN 7 ELSE 9

\* A render with the current flag: the early return (lines 55-57) renders
\* <Navigate>; otherwise the form.  React compares the hook count with the
\* previous render's.
Render(newForm) ==
    /\ hooks' = HooksOf(newForm)
    /\ hookError' = (hookError \/ (hooks # 0 /\ hooks # HooksOf(newForm)))

\* The first render at /projects/create; with the flag on, the <Navigate>
\* it returns leaves for /projects?create=true.
Mount ==
    /\ hooks = 0 /\ location = "form"
    /\ Render(flag)
    /\ location' = IF flag THEN "newForm" ELSE "form"
    /\ UNCHANGED <<flag, exists, sub>>

\* uiConfig delivers a different flag value; the component re-renders.
FlagChanged ==
    /\ hooks # 0 /\ ~hookError /\ location = "form"
    /\ flag' = ~flag
    /\ Render(~flag)
    /\ UNCHANGED <<exists, sub, location>>

FormShown == hooks = HooksOf(FALSE) /\ ~flag /\ ~hookError /\ location = "form"

\* handleCancel (lines 113-115): navigate(GO_BACK) leaves the form; a
\* submission still awaiting goes on.
Cancel ==
    /\ FormShown
    /\ location' = "back"
    /\ UNCHANGED <<flag, hooks, hookError, exists, sub>>

\* handleSubmit up to its first await (lines 69-73): clearErrors,
\* validateName, then validateProjectId is awaited.  useNewProjectForm is
\* false in any render that defined this handler, so the id is validated.
Submit(s) ==
    /\ FormShown
    /\ sub[s].phase = "idle"
    /\ \E validName \in BOOLEAN :
          sub' = [sub EXCEPT ![s] = [phase |-> "validating",
                                     validName |-> validName,
                                     validId |-> FALSE, outcome |-> "none"]]
    /\ UNCHANGED <<flag, hooks, hookError, exists, location>>

\* validateProjectId resolves (line 73): the id is free on the server now.
\* With both valid the create request goes out (lines 76-80); otherwise the
\* form shows its errors.
IdValidated(s) ==
    /\ sub[s].phase = "validating"
    /\ LET validId == ~exists IN
       sub' = [sub EXCEPT ![s].validId = validId,
                          ![s].phase = IF sub[s].validName /\ validId
                                         THEN "creating" ELSE "done",
                          ![s].outcome = IF sub[s].validName /\ validId
                                           THEN "none" ELSE "invalid"]
    /\ UNCHANGED <<flag, hooks, hookError, exists, location>>

\* Mutant: no catch; a refused create rejects handleSubmit unseen.
CreatedNoCatch(s) ==
    /\ sub[s].phase = "creating"
    /\ ~exists
    /\ exists' = TRUE
    /\ sub' = [sub EXCEPT ![s].phase = "done", ![s].outcome = "navigated"]
    /\ location' = "project"
    /\ UNCHANGED <<flag, hooks, hookError>>

\* createProject settles (lines 79-98).  Success: refetchUser, navigate to
\* the new project, success toast, analytics.  A refusal (the id exists by
\* now) or a lost reply: the catch shows an API error toast.
Created(s) ==
    /\ sub[s].phase = "creating"
    /\ \/ /\ ~exists
          /\ exists' = TRUE
          /\ sub' = [sub EXCEPT ![s].phase = "done", ![s].outcome = "navigated"]
          /\ location' = "project"
       \/ /\ exists
          /\ sub' = [sub EXCEPT ![s].phase = "done", ![s].outcome = "error"]
          /\ UNCHANGED <<exists, location>>
       \/ /\ ~exists
          /\ exists' = TRUE
          /\ sub' = [sub EXCEPT ![s].phase = "done", ![s].outcome = "error"]
          /\ UNCHANGED location
    /\ UNCHANGED <<flag, hooks, hookError>>

Init ==
    /\ flag \in BOOLEAN
    /\ hooks = 0
    /\ hookError = FALSE
    /\ exists \in BOOLEAN
    /\ sub = [s \in Subs |-> [phase |-> "idle", validName |-> FALSE,
                              validId |-> FALSE, outcome |-> "none"]]
    /\ location = "form"

Next ==
    \/ Mount \/ Cancel
    \/ FlagChanged
    \/ \E s \in Subs : Submit(s) \/ IdValidated(s) \/ Created(s)

\* The awaited validation and creation requests settle; the user and the
\* UI-config refresh are not obliged to act.
Spec == Init /\ [][Next]_vars
             /\ \A s \in Subs : WF_vars(IdValidated(s) \/ Created(s))

-----------------------------------------------------------------------------
(* Properties *)

TypeOK ==
    /\ flag \in BOOLEAN /\ hookError \in BOOLEAN /\ exists \in BOOLEAN
    /\ hooks \in {0, 7, 9}
    /\ sub \in [Subs -> [phase : {"idle", "validating", "creating", "done"},
                         validName : BOOLEAN, validId : BOOLEAN,
                         outcome : {"none", "invalid", "navigated", "error"}]]
    /\ location \in {"form", "newForm", "back", "project"}

\* React's rule of hooks: every render of the mounted component calls the
\* same hooks; React throws when the count differs from the last render.
HooksConsistent == ~hookError

\* Every submission ends with feedback: validation errors, navigation to
\* the created project, or an error toast from the catch (lines 96-98).
SubmissionAnswered ==
    \A s \in Subs : sub[s].phase \in {"validating", "creating"}
                      ~> sub[s].phase = "done" /\ sub[s].outcome # "none"
===========================================================================
