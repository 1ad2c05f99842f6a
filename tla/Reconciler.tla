----------------------------- MODULE Reconciler -----------------------------
(***************************************************************************)
(* control-plane/internal/analysis on top of Rollout: the replicas of      *)
(* control-plane, the lease that is to make one of them the leader, the    *)
(* leader's polling reconciler, and the AnalysisRuns of Argo Rollouts      *)
(* whose verdicts it turns into AutoAdvance and AutoRollback.  Human       *)
(* operators call the same service at the same time.                       *)
(***************************************************************************)
EXTENDS Rollout, Sequences

CONSTANTS
    Humans,     \* gRPC calls of operators that may be in flight together
    Replicas,   \* control-plane processes
    NoHolder,   \* nobody holds the lease
    MaxRuns     \* bound: AnalysisRuns ever created per rollout and stage

ASSUME CallersAssumption ==
    /\ Callers = Humans \cup Replicas
    /\ Humans \cap Replicas = {}
    /\ NoHolder \notin Replicas
    /\ MaxRuns \in Nat \ {0}

\* AnalysisRun phases.  Pending and Running are one to the reconciler, and so
\* are Failed, Error and Inconclusive: one name stands for each group.
Phases == {"Running", "Successful", "Failed"}

\* What ListRunningRollouts returned about a rollout: its id and its stage.
Observed == RolloutIDs \X Stages

VARIABLES
    runs,       \* phases of the AnalysisRuns labelled with a rollout and stage
    holder,     \* holderIdentity of the Lease object
    mode,       \* a replica's part in the election
    todo,       \* rows of the leader's current pass it has not handled yet
    creating,   \* pairs the leader found no AnalysisRun for and will create one
    calm        \* nothing fails, dies or loses its lease any more

analysisVars == <<runs, holder, mode, todo, creating, calm>>
vars == <<rollout, model_active, active, call, runs, holder, mode, todo, creating, calm>>

\* ended: RunOrDie has returned, and nothing in this process calls it again.
Modes == {"candidate", "leading", "ended"}

AnalysisTypeOK ==
    /\ TypeOK
    /\ runs \in [Observed -> Seq(Phases)]
    /\ holder \in Replicas \cup {NoHolder}
    /\ mode \in [Replicas -> Modes]
    /\ todo \in [Replicas -> SUBSET Observed]
    /\ creating \in [Replicas -> SUBSET Observed]
    /\ calm \in BOOLEAN

AnalysisInit ==
    /\ Init
    /\ runs = [o \in Observed |-> << >>]
    /\ holder = NoHolder
    /\ mode = [p \in Replicas |-> "candidate"]
    /\ todo = [p \in Replicas |-> {}]
    /\ creating = [p \in Replicas |-> {}]
    /\ calm = FALSE

(***************************************************************************)
(* The election (external: client-go's leaderelection).  A lease can pass  *)
(* to another replica before the old leader has noticed: it is paused, or  *)
(* its clock is slow.                                                      *)
(***************************************************************************)
AcquireLease(p) ==
    /\ mode[p] = "candidate"
    /\ holder \in {NoHolder, p}
    /\ holder' = p
    /\ mode' = [mode EXCEPT ![p] = "leading"]
    /\ UNCHANGED <<rolloutVars, runs, todo, creating, calm>>

\* The lease is not renewed in time (or its holder is gone): anybody may take it.
LeaseExpires ==
    /\ holder # NoHolder
    /\ holder' = NoHolder
    /\ UNCHANGED <<rolloutVars, runs, mode, todo, creating, calm>>

(***************************************************************************)
(* The renew loop gives up: client-go cancels the context given to the     *)
(* reconciler, so that its store accesses fail from here on, runs          *)
(* OnStoppedLeading and returns from RunOrDie.  runWithLock returns, and   *)
(* the goroutine of main that called it ends; the process serves on.       *)
(***************************************************************************)
StopLeading(p) ==
    /\ mode[p] = "leading"
    /\ holder # p
    /\ mode' = [mode EXCEPT ![p] = "ended"]
    /\ todo' = [todo EXCEPT ![p] = {}]
    /\ creating' = [creating EXCEPT ![p] = {}]
    /\ Goto(p, Idle)
    /\ UNCHANGED <<rollout, model_active, active, runs, holder, calm>>

\* The process dies and is started again under the same POD_NAME.
Restart(p) ==
    /\ mode' = [mode EXCEPT ![p] = "candidate"]
    /\ todo' = [todo EXCEPT ![p] = {}]
    /\ creating' = [creating EXCEPT ![p] = {}]
    /\ Goto(p, Idle)
    /\ UNCHANGED <<rollout, model_active, active, runs, holder, calm>>

(***************************************************************************)
(* reconcileAll: the running rollouts are listed afresh, then handled one  *)
(* after the other, each from the row as it was listed.                    *)
(***************************************************************************)
Free(p) == mode[p] = "leading" /\ call[p] = Idle /\ creating[p] = {}

ListRunningRollouts(p) ==
    /\ Free(p)
    /\ todo[p] = {}
    /\ todo' = [todo EXCEPT ![p] =
         {<<id, rollout[id].stage>> : id \in {i \in RolloutIDs : Running(i)}}]
    /\ UNCHANGED <<rolloutVars, runs, holder, mode, creating, calm>>

Handled(p, o) == todo' = [todo EXCEPT ![p] = @ \ {o}]

\* FindForStage takes the first item of the list; names are random, so any.
FirstOf(o, phase) == \E i \in 1..Len(runs[o]) : runs[o][i] = phase

\* No AnalysisRun for the stage: one is to be created if the stage has lasted
\* for stageGrace, else the rollout is left for a later pass.
FindNone(p, o) ==
    /\ Free(p)
    /\ o \in todo[p]
    /\ runs[o] = << >>
    /\ creating' = [creating EXCEPT ![p] = {o}]
    /\ Handled(p, o)
    /\ UNCHANGED <<rolloutVars, runs, holder, mode, calm>>

WithinGrace(p, o) ==
    /\ Free(p)
    /\ o \in todo[p]
    /\ runs[o] = << >>
    /\ Handled(p, o)
    /\ UNCHANGED <<rolloutVars, runs, holder, mode, creating, calm>>

FindRunning(p, o) ==
    /\ Free(p)
    /\ o \in todo[p]
    /\ FirstOf(o, "Running")
    /\ Handled(p, o)
    /\ UNCHANGED <<rolloutVars, runs, holder, mode, creating, calm>>

FindSuccessful(p, o) ==
    /\ Free(p)
    /\ o \in todo[p]
    /\ FirstOf(o, "Successful")
    /\ AutoAdvance(p, o[1], o[2])
    /\ Handled(p, o)
    /\ UNCHANGED <<runs, holder, mode, creating, calm>>

\* mutant: a failed or inconclusive analysis is waited for like a running one
FindFailedWaits(p, o) ==
    /\ Free(p)
    /\ o \in todo[p]
    /\ FirstOf(o, "Failed")
    /\ Handled(p, o)
    /\ UNCHANGED <<rolloutVars, runs, holder, mode, creating, calm>>

FindFailed(p, o) ==
    /\ Free(p)
    /\ o \in todo[p]
    /\ FirstOf(o, "Failed")
    /\ AutoRollback(p, o[1], o[2])
    /\ Handled(p, o)
    /\ UNCHANGED <<runs, holder, mode, creating, calm>>

\* CreateForStage, under a fresh name: a second one for the stage is not refused.
CreateForStage(p, o) ==
    /\ o \in creating[p]
    /\ runs' = [runs EXCEPT ![o] = IF Len(@) < MaxRuns THEN Append(@, "Running") ELSE @]
    /\ creating' = [creating EXCEPT ![p] = {}]
    /\ UNCHANGED <<rolloutVars, holder, mode, todo, calm>>

\* Looking up an AnalysisRun, or creating one, returns an error: the rollout is
\* left for a later pass.  (A failed listing leaves nothing to do.)
FindFails(p, o) ==
    /\ Free(p)
    /\ o \in todo[p]
    /\ Handled(p, o)
    /\ UNCHANGED <<rolloutVars, runs, holder, mode, creating, calm>>

CreateFails(p) ==
    /\ creating[p] # {}
    /\ creating' = [creating EXCEPT ![p] = {}]
    /\ UNCHANGED <<rolloutVars, runs, holder, mode, todo, calm>>

\* Argo Rollouts (external) measures once and gives its verdict for good.
Verdict(o) ==
    /\ \E i \in 1..Len(runs[o]), phase \in {"Successful", "Failed"} :
         /\ runs[o][i] = "Running"
         /\ runs' = [runs EXCEPT ![o][i] = phase]
    /\ UNCHANGED <<rolloutVars, holder, mode, todo, creating, calm>>

(***************************************************************************)
(* The whole control-plane.                                                *)
(***************************************************************************)
HumanCall(c) ==
    \/ \E ref \in ModelRefs, v \in Versions :
         /\ \E id \in RolloutIDs : rollout[id] = NoRow     \* bound: ids last
         /\ CreateRollout(c, ref, v)
         /\ UNCHANGED analysisVars
    \/ \E id \in RolloutIDs : PromoteRollout(c, id) /\ UNCHANGED analysisVars
    \/ \E id \in RolloutIDs : AbortRollout(c, id) /\ UNCHANGED analysisVars

ServiceStep(c) == CallStep(c) /\ UNCHANGED analysisVars

Reconcile(p) ==
    \/ ListRunningRollouts(p)
    \/ \E o \in Observed :
         \/ FindNone(p, o) \/ WithinGrace(p, o) \/ FindRunning(p, o)
         \/ FindSuccessful(p, o) \/ FindFailed(p, o) \/ CreateForStage(p, o)

Fault ==
    \/ \E c \in Callers : ~calm /\ Fail(c) /\ UNCHANGED analysisVars
    \/ \E p \in Replicas : ~calm /\ Restart(p)
    \/ \E p \in Replicas : ~calm /\ CreateFails(p)
    \/ \E p \in Replicas, o \in Observed : ~calm /\ FindFails(p, o)
    \/ ~calm /\ LeaseExpires

AnalysisNext ==
    \/ \E c \in Humans : HumanCall(c)
    \/ \E c \in Callers : ServiceStep(c)
    \/ \E p \in Replicas : AcquireLease(p) \/ StopLeading(p) \/ Reconcile(p)
    \/ \E o \in Observed : Verdict(o)
    \/ Fault

AnalysisSpec == AnalysisInit /\ [][AnalysisNext]_vars

(***************************************************************************)
(* Fairness.  The reconciler ticks every 5s for as long as it leads, and a *)
(* store access that does not fail returns; client-go retries to acquire   *)
(* the lease every 2s; Argo Rollouts ends every AnalysisRun (count 1,      *)
(* consecutiveErrorLimit 3).  WithinGrace cannot be the answer forever: a  *)
(* stage that lasts outlives stageGrace.  Faults happen, and then end.     *)
(* Nothing is assumed of operators, nor that a lost lease comes back.      *)
(***************************************************************************)
FaultsEnd ==
    /\ ~calm
    /\ calm' = TRUE
    /\ UNCHANGED <<rolloutVars, runs, holder, mode, todo, creating>>

Fairness ==
    /\ \A p \in Replicas :
         /\ WF_vars(ServiceStep(p))
         /\ WF_vars(Reconcile(p))
         /\ SF_vars(\E o \in Observed : FindNone(p, o))
         /\ WF_vars(AcquireLease(p))
    /\ \A o \in Observed : WF_vars(Verdict(o))
    /\ WF_vars(FaultsEnd)

FairSpec == AnalysisInit /\ [][AnalysisNext \/ FaultsEnd]_vars /\ Fairness

(***************************************************************************)
(* Properties.                                                             *)
(***************************************************************************)

(* The gate is not bypassed: when the reconciler moves a rollout, some     *)
(* AnalysisRun of the very stage it moves it from was Successful.  Between *)
(* the listing, the verdict and the swap other replicas and operators may  *)
(* have moved the rollout; a verdict about one stage never moves it from   *)
(* another (requireStage and the compare-and-swap).                        *)
AutoAdvanceIsEarned ==
    [][\A p \in Replicas :
         (/\ At(p, "update")
          /\ call[p].op = "auto_advance"
          /\ rollout'[call[p].id] # rollout[call[p].id]
          /\ call'[p] = Idle)
         => FirstOf(<<call[p].id, rollout[call[p].id].stage>>, "Successful")]_vars

(* A rollout is recorded as rolled back only when an AnalysisRun of the    *)
(* stage it was stopped at has failed: a late failure of an earlier stage  *)
(* never stops a rollout that has moved on.                                *)
RollbackIsEarned ==
    \A id \in RolloutIDs :
        (rollout[id] # NoRow /\ rollout[id].status = "rolled_back") =>
            FirstOf(<<id, rollout[id].stage>>, "Failed")

(* No rollout is orphaned: if some replica comes to hold the lease for     *)
(* good, every running rollout ends, also one whose creator died before    *)
(* the first stage or whose last leader died between two writes.           *)
RolloutsResolve ==
    <>[](\E p \in Replicas : mode[p] = "leading" /\ holder = p)
        => \A id \in RolloutIDs : Running(id) ~> ~Running(id)
=============================================================================
