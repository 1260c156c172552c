---------------------------- MODULE Controller ----------------------------
(***************************************************************************)
(* The Controller base class (src/src/lib/routes/controller.ts): how a     *)
(* route is registered on the express Router, and how a request runs      *)
(* through the chain it builds: checkPermission, the content-type check,  *)
(* extra middleware (the OpenAPI validPath for routeWithOpenApi), and the  *)
(* handler wrapped in try/catch.  Collaborators outside src/ are inputs:   *)
(* req.checkRbac (may be absent; its promise grants, denies or rejects),   *)
(* requireContentType and validPath (pass or answer 415 / 400), the file   *)
(* handler and the route handler (succeed or throw), and the middleware   *)
(* a parent controller mounts a child's router behind (passes or answers). *)
(***************************************************************************)
EXTENDS Naturals, Sequences, FiniteSets

CONSTANTS
    NONE,          \* the permission that means "no permission needed"
    PermNames,     \* permission names, NONE among them
    Calls,         \* the registration calls a controller makes (records)
    Reqs,          \* request identifiers
    RbacMayReject, \* whether the promise of req.checkRbac can reject
    FileHandlerMayReject \* whether fileupload's async file handler can reject

ASSUME NONE \in PermNames /\ RbacMayReject \in BOOLEAN /\ FileHandlerMayReject \in BOOLEAN

VARIABLES
    routes,  \* the router: the handler chains registered so far
    req      \* per request: where it is in its route's chain, and what it got

vars == <<routes, req>>

Methods == {"get", "post", "put", "patch", "delete"}

\* A Permission is a name or an array of names (line 28).
Permission == PermNames \cup Seq(PermNames)

Mounts == {"use", "useWithMiddleware"}

\* A route registration: which entry point, and the options it is given.
IsRouteCall(c) ==
    /\ c.call \in Methods \cup {"route", "openapi", "fileupload"}
    /\ c.method \in Methods
    /\ c.permission \in Permission
    /\ c.acceptAny \in BOOLEAN /\ c.hasParam \in BOOLEAN

\* A registration call is a route registration, or a use / useWithMiddleware
\* of a child controller's router holding one such route.
ASSUME \A c \in Calls : IsRouteCall(c) \/ (c.call \in Mounts /\ IsRouteCall(c.child))

(***************************************************************************)
(* Registration                                                           *)
(***************************************************************************)

\* The options get/post/put/patch/delete build for route() (lines 164-234);
\* "route" and "openapi" calls carry their options themselves.
RouteOptions(c) ==
    CASE c.call \in {"route", "openapi"} -> c
      [] c.call = "delete" -> [c EXCEPT !.method = "delete", !.acceptAny = TRUE]
      [] OTHER             -> [c EXCEPT !.method = c.call, !.acceptAny = FALSE]

\* useContentTypeMiddleware (lines 105-111): every non-GET route checks the
\* content type unless it accepts any, ahead of its own middleware.
ContentTypeMiddleware(o, middleware) ==
    IF o.method = "get" \/ o.acceptAny THEN middleware
    ELSE <<"ctype">> \o middleware

\* Mutant: the content-type middleware is mounted ahead of checkPermission.
RouteChainSwapped(o, middleware) ==
    ContentTypeMiddleware(o, middleware) \o <<"perm">> \o <<"handler">>

\* route (lines 113-120): the chain express runs for the route.
RouteChain(o, middleware) ==
    <<"perm">> \o ContentTypeMiddleware(o, middleware) \o <<"handler">>

\* routeWithOpenApi (lines 127-145): the error codes written into the
\* route's OpenAPI document.  The permission test is a !== against NONE.
ErrorCodes(o) ==
    {401}
    \cup (IF o.method \in {"put", "post", "patch"} THEN {400, 413, 415} ELSE {})
    \cup (IF o.hasParam THEN {404} ELSE {})
    \cup (IF o.permission # NONE THEN {403} ELSE {})

\* The chain a route registration installs, with the error codes its
\* OpenAPI document lists (routeWithOpenApi) or {} (no document).
RouteInstalled(c) ==
    LET o == RouteOptions(c) IN
    CASE c.call = "openapi" ->
            [call |-> c, chain |-> RouteChain(o, <<"validPath">>), docs |-> ErrorCodes(o)]
      [] c.call = "fileupload" ->
            [call |-> c, chain |-> <<"perm", "filehandler", "handler">>, docs |-> {}]
      [] OTHER ->
            [call |-> c, chain |-> RouteChain(o, <<>>), docs |-> {}]

\* use (lines 250-252) mounts the child's router as it is;
\* useWithMiddleware (lines 254-257) puts the middleware ahead of it.
MountChain(c) ==
    LET child == RouteInstalled(c.child) IN
    [child EXCEPT !.chain = IF c.call = "useWithMiddleware"
                               THEN <<"mw">> \o @ ELSE @]

\* What a registration call installs: a route's own chain keeps its call,
\* so a mounted route is checked and documented as its controller said.
Installed(c) == IF c.call \in Mounts THEN MountChain(c) ELSE RouteInstalled(c)

Register(c) ==
    /\ Installed(c) \notin routes
    /\ routes' = routes \cup {Installed(c)}
    /\ UNCHANGED req

(***************************************************************************)
(* Requests                                                               *)
(***************************************************************************)

\* checkPermission (lines 52-54): the array form, with NONE filtered out.
RequiredPermissions(p) ==
    LET list == IF p \in PermNames THEN <<p>> ELSE p IN
    SelectSeq(list, LAMBDA x : x # NONE)

\* A request not yet sent; its route field is a placeholder until it arrives.
Idle == [phase |-> "idle", route |-> Installed(CHOOSE c \in Calls : TRUE),
         at |-> 0, hasRbac |-> FALSE, granted |-> FALSE, handled |-> FALSE,
         status |-> 0]

Current(r) == req[r].route.chain[req[r].at]

\* A request arrives for a registered route; the authentication layer may
\* or may not have put checkRbac on it.
Arrive(r) ==
    /\ req[r].phase = "idle"
    /\ \E rt \in routes, hasRbac \in BOOLEAN :
          req' = [req EXCEPT ![r] = [@ EXCEPT !.phase = "run", !.route = rt,
                                              !.at = 1, !.hasRbac = hasRbac]]
    /\ UNCHANGED routes

Proceed(r) == req' = [req EXCEPT ![r].at = @ + 1]

\* Mutant: the middleware answers but the chain goes on running.
RespondKeepRunning(r, code) == req' = [req EXCEPT ![r].status = code]

Respond(r, code) == req' = [req EXCEPT ![r].phase = "done", ![r].status = code]

\* Mutant: the 403 for a request without checkRbac is never sent.
CheckPermissionNo403(r) ==
    /\ req[r].phase = "run" /\ Current(r) = "perm"
    /\ LET perms == RequiredPermissions(RouteOptions(req[r].route.call).permission) IN
       \/ perms = <<>> /\ Proceed(r)
       \/ perms # <<>> /\ req[r].hasRbac
          /\ req' = [req EXCEPT ![r].phase = "rbac"]
    /\ UNCHANGED routes

\* checkPermission, up to its await (lines 51-62).
CheckPermission(r) ==
    /\ req[r].phase = "run" /\ Current(r) = "perm"
    /\ LET perms == RequiredPermissions(RouteOptions(req[r].route.call).permission) IN
       \/ perms = <<>> /\ Proceed(r)
       \/ perms # <<>> /\ req[r].hasRbac
          /\ req' = [req EXCEPT ![r].phase = "rbac"]
       \/ perms # <<>> /\ ~req[r].hasRbac /\ Respond(r, 403)
    /\ UNCHANGED routes

\* The awaited req.checkRbac(permissions) settles (line 59).  A rejection
\* escapes the async middleware: nothing calls next(err) or answers.
RbacSettled(r) ==
    /\ req[r].phase = "rbac"
    /\ \/ req' = [req EXCEPT ![r].phase = "run", ![r].granted = TRUE,
                             ![r].at = @ + 1]
       \/ Respond(r, 403)
       \/ RbacMayReject /\ req' = [req EXCEPT ![r].phase = "hung"]
    /\ UNCHANGED routes

\* requireContentType and validPath answer 415 / 400 or call next().
Validate(r) ==
    /\ req[r].phase = "run" /\ Current(r) \in {"ctype", "validPath"}
    /\ \/ Proceed(r)
       \/ Respond(r, IF Current(r) = "ctype" THEN 415 ELSE 400)
    /\ UNCHANGED routes

\* The middleware useWithMiddleware mounted calls next() or answers
\* (an authentication middleware's 401).
MountMiddleware(r) ==
    /\ req[r].phase = "run" /\ Current(r) = "mw"
    /\ Proceed(r) \/ Respond(r, 401)
    /\ UNCHANGED routes

\* fileupload's file handler, an IRequestHandler, is bound but not wrapped
\* by useRouteErrorHandler (line 245): it calls next, or passes an error to
\* next for express's default handler (500), or its promise rejects and
\* express 4 ignores the rejection.
FileHandler(r) ==
    /\ req[r].phase = "run" /\ Current(r) = "filehandler"
    /\ \/ Proceed(r)
       \/ Respond(r, 500)
       \/ FileHandlerMayReject /\ req' = [req EXCEPT ![r].phase = "hung"]
    /\ UNCHANGED routes

\* useRouteErrorHandler (lines 95-103): the awaited handler answers, or
\* throws and handleErrors answers with the error's status.
Handler(r) ==
    /\ req[r].phase = "run" /\ Current(r) = "handler"
    /\ \E code \in {200, 500} :
          req' = [req EXCEPT ![r].phase = "done", ![r].status = code,
                             ![r].handled = TRUE]
    /\ UNCHANGED routes

Init ==
    /\ routes = {}
    /\ req = [r \in Reqs |-> Idle]

Step(r) ==
    \/ MountMiddleware(r) \/ CheckPermission(r) \/ RbacSettled(r) \/ Validate(r)
    \/ FileHandler(r) \/ Handler(r)

Next ==
    \/ \E c \in Calls : Register(c)
    \/ \E r \in Reqs : Arrive(r) \/ Step(r)

\* The event loop runs each request's middleware and the RBAC lookup
\* eventually settles; clients are not obliged to send requests.
Spec == Init /\ [][Next]_vars /\ \A r \in Reqs : WF_vars(Step(r))
-----------------------------------------------------------------------------
(* Properties *)

Phases == {"idle", "run", "rbac", "done", "hung"}

TypeOK ==
    /\ routes \subseteq {Installed(c) : c \in Calls}
    /\ \A r \in Reqs :
          /\ req[r].phase \in Phases
          /\ req[r].route \in {Installed(c) : c \in Calls}
          /\ req[r].at \in 0..Len(req[r].route.chain)
          /\ req[r].status \in {0, 200, 400, 401, 403, 415, 500}
          /\ (req[r].status # 0) <=> (req[r].phase = "done")

\* The middleware of its chain that a request has run (or is running).
Executed(r) ==
    {req[r].route.chain[i] : i \in 1..req[r].at - 1}
    \cup IF req[r].phase \in {"rbac", "hung", "done"}
            THEN {req[r].route.chain[req[r].at]} ELSE {}

Authorized(r) ==
    /\ "perm" \in Executed(r)
    /\ \/ RequiredPermissions(RouteOptions(req[r].route.call).permission) = <<>>
       \/ req[r].granted

\* route() puts checkPermission first: a request runs nothing of its
\* controller's route (no content-type check, no schema validation, no
\* file handler, no handler) unless its permissions are all NONE or
\* checkRbac resolved true, also when the route is reached through a
\* parent's use or useWithMiddleware.  So a caller without permission only
\* ever learns 403 (or the parent middleware's answer).
AuthorizationFirst ==
    \A r \in Reqs : Executed(r) \ {"perm", "mw"} # {} => Authorized(r)


\* The class comment (lines 65-73) promises try/catch around the handler:
\* every request that arrived is eventually answered.
EveryRequestAnswered ==
    \A r \in Reqs : req[r].phase = "run" ~> req[r].phase = "done"

\* routeWithOpenApi documents the error codes of its route: a 403 or 415
\* that the route's own middleware sends is listed in its OpenAPI document.
DocumentedErrorCodes ==
    \A r \in Reqs :
        /\ req[r].route.call.call = "openapi"
        /\ req[r].status \in {403, 415}
        => req[r].status \in req[r].route.docs
===========================================================================
