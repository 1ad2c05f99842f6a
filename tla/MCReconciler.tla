---------------------------- MODULE MCReconciler ----------------------------
(***************************************************************************)
(* Instances of Reconciler for TLC: one model_ref that went live with v0.  *)
(***************************************************************************)
EXTENDS Reconciler, TLC

CONSTANTS m, v0   \* the model_ref and its first version

MCBootstrapped == m :> v0
MCCallers == Humans \cup Replicas
MCSymmetry == Permutations(Replicas)

(***************************************************************************)
(* The handover instance starts where CreateRollout has inserted its row   *)
(* and died: a rollout of v0 is running at stage pending, nobody leads,    *)
(* and no operator interferes.                                             *)
(***************************************************************************)
OrphanInit ==
    /\ rollout = [id \in RolloutIDs |->
                    [ref |-> m, version |-> v0, stable |-> v0,
                     stage |-> "pending", status |-> "running"]]
    /\ model_active = Bootstrapped
    /\ active = [ref \in ModelRefs |->
                   [stable |-> v0, canary |-> NoVersion, percent |-> 0]]
    /\ call = [c \in Callers |-> Idle]
    /\ runs = [o \in Observed |-> << >>]
    /\ holder = NoHolder
    /\ mode = [p \in Replicas |-> "candidate"]
    /\ todo = [p \in Replicas |-> {}]
    /\ creating = [p \in Replicas |-> {}]
    /\ calm = FALSE

OrphanSpec == OrphanInit /\ [][AnalysisNext]_vars
=============================================================================
