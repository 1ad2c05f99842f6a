----------------------------- MODULE StagedGate -----------------------------
(***************************************************************************)
(* What a staged canary promises, with no mention of how it is kept: a     *)
(* rollout starts at the first stage, climbs the stages one at a time, and *)
(* once it has ended it never moves again.  Nothing here says who moves    *)
(* it, what is published to etcd, or which replica does the work: that is  *)
(* the business of Rollout, which is shown to implement this module.       *)
(***************************************************************************)
EXTENDS Naturals

CONSTANTS
    Rollouts,   \* identities of rollouts
    LastStage   \* number of the final stage; the first one is 0

VARIABLES
    level,      \* the stage a rollout has reached, as a number
    outcome     \* "unborn", "running", or how it ended

gateVars == <<level, outcome>>

Ended == {"promoted", "aborted", "rolled_back"}

GateTypeOK ==
    /\ level \in [Rollouts -> 0..LastStage]
    /\ outcome \in [Rollouts -> {"unborn", "running"} \cup Ended]

GateInit ==
    /\ level = [r \in Rollouts |-> 0]
    /\ outcome = [r \in Rollouts |-> "unborn"]

Start(r) ==
    /\ outcome[r] = "unborn"
    /\ outcome' = [outcome EXCEPT ![r] = "running"]
    /\ UNCHANGED level

\* One stage up; the last one is reached exactly when the rollout is promoted.
Climb(r) ==
    /\ outcome[r] = "running"
    /\ level[r] < LastStage
    /\ level' = [level EXCEPT ![r] = level[r] + 1]
    /\ outcome' = [outcome EXCEPT
                     ![r] = IF level[r] + 1 = LastStage THEN "promoted" ELSE "running"]

\* A rollout that is stopped keeps the stage it had.
Stop(r) ==
    /\ outcome[r] = "running"
    /\ \E how \in {"aborted", "rolled_back"} :
          outcome' = [outcome EXCEPT ![r] = how]
    /\ UNCHANGED level

GateNext == \E r \in Rollouts : Start(r) \/ Climb(r) \/ Stop(r)

GateSpec == GateInit /\ [][GateNext]_gateVars
=============================================================================
