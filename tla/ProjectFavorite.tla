--------------------------- MODULE ProjectFavorite ---------------------------
(***************************************************************************)
(* The favourite star of the project page (onFavorite, Project.tsx lines  *)
(* 188-199, and its button, lines 218-221) against the SWR cache that      *)
(* useProject reads.                                                       *)
(*                                                                         *)
(* onFavorite reads project.favorite from the cache, awaits favorite or    *)
(* unfavorite, then calls refetch() without awaiting it; the user can     *)
(* click again at any time.  The server (outside src/) applies a request  *)
(* or fails it.  Every fetch of the project (the first load, a refetch,   *)
(* SWR's revalidation on focus) reads the server when served and lands    *)
(* later; as SWR does, a fetch's response updates the cache only if no   *)
(* later fetch of the key has been started.                               *)
(***************************************************************************)
EXTENDS Naturals, Sequences, FiniteSets

CONSTANTS
    MaxClicks,  \* onFavorite calls in a behaviour
    MaxFocus    \* revalidations on window focus in a behaviour

ASSUME MaxClicks \in Nat /\ MaxFocus \in Nat

VARIABLES
    server,   \* the user's favourite flag for the project on the server
    loaded,   \* SWR's cache holds the project (the first load has landed)
    cache,    \* project.favorite in SWR's cache, once loaded
    clicks,   \* onFavorite calls, in click order: the request sent and its phase
    fetches,  \* fetches of the project, in start order: value read and phase
    focus,    \* focus revalidations so far
    toast     \* setToastApiError has been called

vars == <<server, loaded, cache, clicks, fetches, focus, toast>>

\* Starting a fetch of the project.
StartFetch == fetches' = Append(fetches, [value |-> FALSE, phase |-> "started"])

\* onFavorite up to its await (lines 189-193): the request is chosen by the
\* cached flag; while the project loads, project?.favorite is undefined.
Click ==
    /\ Len(clicks) < MaxClicks
    /\ clicks' = Append(clicks, [kind |-> IF loaded /\ cache THEN "unfavorite"
                                                          ELSE "favorite",
                                 phase |-> "sent"])
    /\ UNCHANGED <<server, loaded, cache, fetches, focus, toast>>

\* The server handles favorite / unfavorite, or the request fails.
ServerHandles(i) ==
    /\ clicks[i].phase = "sent"
    /\ \/ /\ server' = (clicks[i].kind = "favorite")
          /\ clicks' = [clicks EXCEPT ![i].phase = "applied"]
       \/ /\ clicks' = [clicks EXCEPT ![i].phase = "failed"]
          /\ UNCHANGED server
    /\ UNCHANGED <<loaded, cache, fetches, focus, toast>>

SettleRefetchAlways(i) ==
    /\ clicks[i].phase \in {"applied", "failed"}
    /\ clicks' = [clicks EXCEPT ![i].phase = IF @ = "applied" THEN "refetched"
                                                             ELSE "reported"]
    /\ toast' = (toast \/ clicks[i].phase = "failed")
    /\ StartFetch
    /\ UNCHANGED <<server, loaded, cache, focus>>

\* onFavorite after its await (lines 194-198): refetch() on success, the
\* error toast from the catch on failure.
Settle(i) ==
    /\ clicks[i].phase \in {"applied", "failed"}
    /\ clicks' = [clicks EXCEPT ![i].phase = IF @ = "applied" THEN "refetched"
                                                             ELSE "reported"]
    /\ IF clicks[i].phase = "applied"
          THEN StartFetch /\ UNCHANGED toast
          ELSE toast' = TRUE /\ UNCHANGED fetches
    /\ UNCHANGED <<server, loaded, cache, focus>>

\* SWR revalidates on window focus.
Focus ==
    /\ focus < MaxFocus
    /\ focus' = focus + 1
    /\ StartFetch
    /\ UNCHANGED <<server, loaded, cache, clicks, toast>>

\* The server answers a fetch with the current flag.
Serve(j) ==
    /\ fetches[j].phase = "started"
    /\ fetches' = [fetches EXCEPT ![j] = [value |-> server, phase |-> "served"]]
    /\ UNCHANGED <<server, loaded, cache, clicks, focus, toast>>

\* The response reaches SWR: it is written to the cache unless a later
\* fetch was started meanwhile.
Land(j) ==
    /\ fetches[j].phase = "served"
    /\ fetches' = [fetches EXCEPT ![j].phase = "landed"]
    /\ IF j = Len(fetches)
          THEN cache' = fetches[j].value /\ loaded' = TRUE
          ELSE UNCHANGED <<cache, loaded>>
    /\ UNCHANGED <<server, clicks, focus, toast>>

\* The page is mounted: useProject starts the first load.
Init ==
    /\ server \in BOOLEAN
    /\ loaded = FALSE
    /\ cache = FALSE
    /\ clicks = <<>>
    /\ fetches = << [value |-> FALSE, phase |-> "started"] >>
    /\ focus = 0
    /\ toast = FALSE

Next ==
    \/ Click \/ Focus
    \/ \E i \in DOMAIN clicks : ServerHandles(i) \/ Settle(i)
    \/ \E j \in DOMAIN fetches : Serve(j) \/ Land(j)

\* Requests and fetches in flight are eventually answered and their
\* continuations run; the user is not obliged to click, nor the window to
\* regain focus.
Spec == Init /\ [][Next]_vars
        /\ \A i \in 1..MaxClicks : WF_vars(i \in DOMAIN clicks /\ (ServerHandles(i) \/ Settle(i)))
        /\ \A j \in 1..(1 + MaxClicks + MaxFocus) :
              WF_vars(j \in DOMAIN fetches /\ (Serve(j) \/ Land(j)))
-----------------------------------------------------------------------------
(* Properties *)

\* Every variable has its type, and the fetches are exactly the first load,
\* one refetch per applied request whose continuation ran, and the focus
\* revalidations: a failed request does not refetch.
TypeOK ==
    /\ server \in BOOLEAN /\ loaded \in BOOLEAN /\ cache \in BOOLEAN
    /\ clicks \in Seq([kind : {"favorite", "unfavorite"},
                       phase : {"sent", "applied", "failed", "refetched", "reported"}])
    /\ fetches \in Seq([value : BOOLEAN, phase : {"started", "served", "landed"}])
    /\ Len(fetches) = 1 + focus
                      + Cardinality({i \in DOMAIN clicks : clicks[i].phase = "refetched"})
    /\ focus \in 0..MaxFocus /\ toast \in BOOLEAN

===========================================================================
