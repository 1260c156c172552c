---------------------- MODULE FeatureLifecycleStages ----------------------
(***************************************************************************)
(* What the feature lifecycle service promises (spec.md section 4.1): each *)
(* feature has one current stage, and it moves only along the transition  *)
(* table.  "none" is a feature with no recorded stage                    *)
(* (getFeatureLifecycle returns the empty list).                           *)
(***************************************************************************)
CONSTANTS Features

VARIABLES stage

Stages == {"initial", "pre-live", "live", "completed", "archived"}

\* The table of section 4.1 as a relation: <<s, t>> when t may follow s.
\* Leaving "archived" is the revival, which restarts at "initial".
Graph ==
       {<<"none", "initial">>, <<"archived", "initial">>}
  \cup ({"initial"} \X {"pre-live", "live", "completed", "archived"})
  \cup ({"pre-live"} \X {"live", "completed", "archived"})
  \cup ({"live"} \X {"completed", "archived"})
  \cup ({"completed"} \X {"archived"})

Init == stage = [f \in Features |-> "none"]

\* One event (a CLIENT_METRICS bucket names several features) moves each
\* feature it touches one step along the table.
Next ==
    /\ stage' \in [Features -> Stages \cup {"none"}]
    /\ \A f \in Features : stage'[f] = stage[f] \/ <<stage[f], stage'[f]>> \in Graph

Spec == Init /\ [][Next]_stage
===========================================================================
