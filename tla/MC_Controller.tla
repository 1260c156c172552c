-------------------------- MODULE MC_Controller --------------------------
(* A controller that registers one route through each entry point of the *)
(* Controller class, with the permission shapes the Permission type      *)
(* allows: NONE, a name, and arrays holding NONE; and a child           *)
(* controller's route mounted through use and through useWithMiddleware. *)
EXTENDS Controller

CONSTANTS UPDATE_FEATURE

Call(call, method, permission, acceptAny, hasParam) ==
    [call |-> call, method |-> method, permission |-> permission,
     acceptAny |-> acceptAny, hasParam |-> hasParam]

MCPermNames == {NONE, UPDATE_FEATURE}

MCCalls ==
    { Call("get", "get", NONE, FALSE, FALSE),
      Call("post", "post", UPDATE_FEATURE, FALSE, FALSE),
      Call("delete", "delete", UPDATE_FEATURE, FALSE, TRUE),
      Call("openapi", "patch", <<NONE, UPDATE_FEATURE>>, FALSE, TRUE),
      Call("openapi", "delete", UPDATE_FEATURE, FALSE, TRUE),
      Call("openapi", "get", <<NONE>>, FALSE, FALSE),
      Call("fileupload", "post", UPDATE_FEATURE, FALSE, FALSE),
      [call |-> "use", child |-> Call("put", "put", UPDATE_FEATURE, FALSE, TRUE)],
      [call |-> "useWithMiddleware",
       child |-> Call("openapi", "post", UPDATE_FEATURE, FALSE, FALSE)] }
===========================================================================
