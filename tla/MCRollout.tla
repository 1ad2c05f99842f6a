----------------------------- MODULE MCRollout -----------------------------
(***************************************************************************)
(* Instances of Rollout for TLC: one model_ref that went live with v0.     *)
(***************************************************************************)
EXTENDS Rollout, TLC

CONSTANTS m, v0   \* the model_ref and its first version

MCBootstrapped == m :> v0

(***************************************************************************)
(* An automatic call is entered with the stage its rollout is at.  It may  *)
(* be stale as soon as the call reads the row; what a reconciler may have  *)
(* observed long before is the subject of Reconciler.                      *)
(***************************************************************************)
MCEnterCall(c) ==
    \/ \E ref \in ModelRefs, v \in Versions : CreateRollout(c, ref, v)
    \/ \E id \in RolloutIDs : PromoteRollout(c, id) \/ AbortRollout(c, id)
    \/ \E id \in {i \in RolloutIDs : rollout[i] # NoRow} :
          \/ AutoAdvance(c, id, rollout[id].stage)
          \/ AutoRollback(c, id, rollout[id].stage)

MCNext == \E c \in Callers : MCEnterCall(c) \/ CallStep(c) \/ Fail(c)

MCSpec == Init /\ [][MCNext]_rolloutVars

MCSymmetry == Permutations(Callers) \cup Permutations(RolloutIDs)
=============================================================================
