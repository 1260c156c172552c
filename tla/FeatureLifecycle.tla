------------------------- MODULE FeatureLifecycle -------------------------
(***************************************************************************)
(* The feature lifecycle service (spec.md 4.1, 5, 6).  Its source is not   *)
(* part of src/ (only its test is: feature-lifecycle-service.test.ts), so  *)
(* this module is written from the spec.                                   *)
(*                                                                         *)
(* The feature service emits domain events on the event store and the SDK  *)
(* metrics pipeline emits CLIENT_METRICS on the event bus.  Each emission  *)
(* runs the lifecycle handler synchronously up to its first await: the     *)
(* enablement check happens there.  The rest of the handler runs later, in *)
(* steps split at the awaited store calls: "read" (environment lookup and  *)
(* the feature's current stage), "write" (the insert commits in the store) *)
(* and "announce" (the continuation after the awaited insert, which emits  *)
(* STAGE_ENTERED for what was recorded); another handler's commit can fall *)
(* between the last two.  How far handlers may overlap is the constant     *)
(* Delivery:                                                               *)
(*   "serial"     one handler at a time.  Nothing guarantees it (the unit  *)
(*                test's bus is a plain EventEmitter and lines 74-76 emit  *)
(*                three reports unawaited); it checks the per-event table  *)
(*                with no race;                                            *)
(*   "perType"    handlers of one event type run one at a time, handlers   *)
(*                of different types interleave (spec.md section 5);       *)
(*   "concurrent" any handlers interleave (a plain Node EventEmitter, and  *)
(*                section 5's "concurrent metrics events ... could race"). *)
(***************************************************************************)
EXTENDS Naturals, Sequences, FiniteSets, SequencesExt

CONSTANTS
    Features,   \* feature names
    Envs,       \* environment names that metrics may be reported from
    EnvType,    \* the environment store: a function from the known names to a type
    MaxEvents,  \* bound on the number of events emitted in a behaviour
    Delivery    \* "serial", "perType" or "concurrent"

ASSUME /\ DOMAIN EnvType \subseteq Envs
       /\ MaxEvents \in Nat
       /\ Delivery \in {"serial", "perType", "concurrent"}

VARIABLES
    enabled,  \* what the injected flag resolver answers
    status,   \* the feature store: "absent", "active" or "archived" per feature
    history,  \* the lifecycle store: the stage log of each feature
    entered,  \* the STAGE_ENTERED notifications observers received, per feature
    pending,  \* handler invocations started and not yet finished
    emitted   \* events emitted so far

vars == <<enabled, status, history, entered, pending, emitted>>

Stages == {"initial", "pre-live", "live", "completed", "archived"}
NoStage == "none"
Kinds == {"created", "completed", "archived", "revived", "metrics"}

\* Environments the environment store knows to be production.
ProdEnvs == {e \in DOMAIN EnvType : EnvType[e] = "production"}

Handler ==
    [id : Nat, kind : Kinds, features : SUBSET Features, env : Envs,
     pc : {"read", "write", "announce"}, seen : [Features -> Stages \cup {NoStage}],
     news : [Features -> Stages \cup {NoStage}]]

CurrentStage(f) == IF history[f] = <<>> THEN NoStage ELSE Last(history[f])

Snapshot == [f \in Features |-> CurrentStage(f)]

\* Whether a handler of this kind may start now, given how the bus delivers.
CanStart(kind) ==
    CASE Delivery = "serial"     -> pending = {}
      [] Delivery = "perType"    -> \A p \in pending : p.kind # kind
      [] Delivery = "concurrent" -> TRUE

(***************************************************************************)
(* Emitting an event: the handler's synchronous prefix.  When the flag     *)
(* resolver says disabled the handler returns at once; otherwise it is    *)
(* pending at its first await.                                             *)
(***************************************************************************)
Invoke(kind, fs, e, firstPc) ==
    /\ emitted < MaxEvents
    /\ CanStart(kind)
    /\ emitted' = emitted + 1
    /\ pending' = IF enabled
                    THEN pending \cup {[id |-> emitted, kind |-> kind,
                                        features |-> fs, env |-> e,
                                        pc |-> firstPc, seen |-> Snapshot,
                                        news |-> [f \in Features |-> NoStage]]}
                    ELSE pending

\* Every domain event names one feature; its env is irrelevant.
AnyEnv == CHOOSE e \in Envs : TRUE

FeatureCreated(f) ==
    /\ status[f] = "absent"
    /\ status' = [status EXCEPT ![f] = "active"]
    /\ Invoke("created", {f}, AnyEnv, "write")
    /\ UNCHANGED <<enabled, history, entered>>

FeatureCompleted(f) ==
    /\ status[f] = "active"
    /\ Invoke("completed", {f}, AnyEnv, "read")
    /\ UNCHANGED <<enabled, status, history, entered>>

FeatureArchived(f) ==
    /\ status[f] = "active"
    /\ status' = [status EXCEPT ![f] = "archived"]
    /\ Invoke("archived", {f}, AnyEnv, "write")
    /\ UNCHANGED <<enabled, history, entered>>

FeatureRevived(f) ==
    /\ status[f] = "archived"
    /\ status' = [status EXCEPT ![f] = "active"]
    /\ Invoke("revived", {f}, AnyEnv, "write")
    /\ UNCHANGED <<enabled, history, entered>>

\* CLIENT_METRICS {bucket: {toggles: fs}, environment: e}.  SDKs report
\* whatever names they evaluated, so fs is not limited to active features.
ClientMetrics(fs, e) ==
    /\ fs # {}
    /\ Invoke("metrics", fs, e, "read")
    /\ UNCHANGED <<enabled, status, history, entered>>

(***************************************************************************)
(* The awaited read: the environment lookup (an unknown environment ends   *)
(* the handler, no error) and the current stage of each named feature.     *)
(***************************************************************************)
ReadStages(p) ==
    /\ p \in pending
    /\ p.pc = "read"
    /\ pending' = (pending \ {p}) \cup
                  IF p.kind = "metrics" /\ p.env \notin DOMAIN EnvType
                    THEN {}
                    ELSE {[p EXCEPT !.pc = "write", !.seen = Snapshot]}
    /\ UNCHANGED <<enabled, status, history, entered, emitted>>

\* Mutant: production traffic promotes from any stage but "live".
TargetLiveFromAnyStage(p, f) ==
    CASE p.kind = "created"   -> "initial"
      [] p.kind = "archived"  -> "archived"
      [] p.kind = "revived"   -> "initial"
      [] p.kind = "completed" ->
            IF p.seen[f] \in {"initial", "pre-live", "live"}
              THEN "completed" ELSE NoStage
      [] p.kind = "metrics" /\ p.env \in ProdEnvs ->
            IF p.seen[f] # "live" THEN "live" ELSE NoStage
      [] p.kind = "metrics" ->
            IF p.seen[f] = "initial" THEN "pre-live" ELSE NoStage

\* Mutant: production traffic promotes only from "initial".
TargetLiveFromInitialOnly(p, f) ==
    CASE p.kind = "created"   -> "initial"
      [] p.kind = "archived"  -> "archived"
      [] p.kind = "revived"   -> "initial"
      [] p.kind = "completed" ->
            IF p.seen[f] \in {"initial", "pre-live", "live"}
              THEN "completed" ELSE NoStage
      [] p.kind = "metrics" /\ p.env \in ProdEnvs ->
            IF p.seen[f] = "initial" THEN "live" ELSE NoStage
      [] p.kind = "metrics" ->
            IF p.seen[f] = "initial" THEN "pre-live" ELSE NoStage

\* The stage a handler writes for feature f, from what it read; NoStage
\* when it writes nothing.  Domain events do not read, except completion.
Target(p, f) ==
    CASE p.kind = "created"   -> "initial"
      [] p.kind = "archived"  -> "archived"
      [] p.kind = "revived"   -> "initial"
      [] p.kind = "completed" ->
            IF p.seen[f] \in {"initial", "pre-live", "live"}
              THEN "completed" ELSE NoStage
      [] p.kind = "metrics" /\ p.env \in ProdEnvs ->
            IF p.seen[f] \in {"initial", "pre-live"} THEN "live" ELSE NoStage
      [] p.kind = "metrics" ->
            IF p.seen[f] = "initial" THEN "pre-live" ELSE NoStage

\* Mutant: the insert is issued even when there is nothing to write.
InsertedNoSkip(p, f) ==
    LET s == Target(p, f) IN
    CASE p.kind = "revived"      -> <<"initial">>
      [] CurrentStage(f) = s     -> history[f]
      [] OTHER                   -> Append(history[f], s)

\* "insert stage if not already current"; revival is "clear and reinsert
\* initial".  Returns the feature's new log.
Inserted(p, f) ==
    LET s == Target(p, f) IN
    CASE p.kind = "revived"              -> <<"initial">>
      [] s = NoStage \/ CurrentStage(f) = s -> history[f]
      [] OTHER                           -> Append(history[f], s)

\* The awaited insert commits in the store; its continuation has not run.
WriteStages(p) ==
    /\ p \in pending
    /\ p.pc = "write"
    /\ history' = [f \in Features |->
                     IF f \in p.features THEN Inserted(p, f) ELSE history[f]]
    /\ pending' = (pending \ {p}) \cup
                  {[p EXCEPT !.pc = "announce",
                             !.news = [f \in Features |->
                                         IF f \in p.features /\ Inserted(p, f) # history[f]
                                           THEN Last(Inserted(p, f)) ELSE NoStage]]}
    /\ UNCHANGED <<enabled, status, entered, emitted>>

\* The continuation: STAGE_ENTERED for each stage the insert recorded.
Announce(p) ==
    /\ p \in pending
    /\ p.pc = "announce"
    /\ entered' = [f \in Features |->
                     IF p.news[f] # NoStage THEN Append(entered[f], p.news[f])
                                            ELSE entered[f]]
    /\ pending' = pending \ {p}
    /\ UNCHANGED <<enabled, status, history, emitted>>

Init ==
    /\ enabled \in BOOLEAN
    /\ status = [f \in Features |-> "absent"]
    /\ history = [f \in Features |-> <<>>]
    /\ entered = [f \in Features |-> <<>>]
    /\ pending = {}
    /\ emitted = 0

Next ==
    \/ \E f \in Features :
          \/ FeatureCreated(f)
          \/ FeatureCompleted(f)
          \/ FeatureArchived(f)
          \/ FeatureRevived(f)
    \/ \E fs \in SUBSET Features, e \in Envs : ClientMetrics(fs, e)
    \/ \E p \in pending : ReadStages(p) \/ WriteStages(p) \/ Announce(p)

\* Awaited store calls resolve and the event loop runs their continuations;
\* nothing forces anyone to emit an event.
Fairness == \A i \in 0..MaxEvents :
                WF_vars(\E p \in pending : p.id = i /\ (ReadStages(p) \/ WriteStages(p) \/ Announce(p)))

Spec == Init /\ [][Next]_vars /\ Fairness

-----------------------------------------------------------------------------
(* Properties *)

TypeOK ==
    /\ enabled \in BOOLEAN
    /\ status \in [Features -> {"absent", "active", "archived"}]
    /\ history \in [Features -> Seq(Stages)]
    /\ entered \in [Features -> Seq(Stages)]
    /\ pending \subseteq Handler
    /\ emitted \in 0..MaxEvents

StageMachine == INSTANCE FeatureLifecycleStages WITH stage <- Snapshot

\* Section 4.1 / 8: a feature's stage log starts at "initial" and every
\* later entry follows the transition table (revival replaces the log, so
\* it never shows up inside one).  The metrics, completion and archive
\* handlers decide from a stage read before an await.
TransitionsFollowGraph ==
    \A f \in Features :
        history[f] # <<>> =>
            /\ history[f][1] = "initial"
            /\ \A i \in 1..Len(history[f]) - 1 :
                  /\ <<history[f][i], history[f][i + 1]>> \in StageMachine!Graph
                  /\ history[f][i + 1] # "initial"

\* Section 8: a stage log "never regresses except via revival, which
\* replaces the entire history"; in particular a live feature stays live
\* until it is completed or archived (section 4.1: non-production traffic
\* moves a feature to pre-live only from initial).  The metrics handler
\* decides from a stage it read before its awaited insert.
NoRegression ==
    [][\A f \in Features :
         CurrentStage(f) = "live" =>
            \/ CurrentStage(f)' \in {"live", "completed", "archived"}
            \/ history'[f] = <<"initial">>]_vars

\* A production metrics report for a feature that is in "initial" or
\* "pre-live" when its handler starts leads to the feature being live or in
\* a later stage (section 8, second bullet).
ProdReportPending(f) ==
    \E p \in pending :
        /\ p.kind = "metrics" /\ p.pc = "read"
        /\ f \in p.features /\ p.env \in ProdEnvs
        /\ CurrentStage(f) \in {"initial", "pre-live"}

ProdTrafficGoesLive ==
    \A f \in Features :
        ProdReportPending(f) ~> CurrentStage(f) \in {"live", "completed", "archived"}
===========================================================================
