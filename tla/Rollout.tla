------------------------------ MODULE Rollout ------------------------------
(***************************************************************************)
(* control-plane/internal/rollout: the staged canary of a model version.   *)
(*                                                                         *)
(* Three stores are involved and none of them is updated together with     *)
(* another: the rollout table and the model_active table in CockroachDB,   *)
(* and the active-pointer envelope in etcd, which is what live traffic     *)
(* follows.  A call (a gRPC handler of a human operator, or the reconciler *)
(* of a replica) performs one read or write of one store at a time; calls  *)
(* of different callers interleave between any two of them, and any of     *)
(* them may fail or die with its process.                                  *)
(***************************************************************************)
EXTENDS Naturals

CONSTANTS
    RolloutIDs,     \* rollout_id values (uuids) that may be drawn
    ModelRefs,      \* model_ref values
    Versions,       \* version_id of the manifests registered and signed
    NoVersion,      \* the empty version_id
    NoRow,          \* GetRollout found nothing
    Bootstrapped,   \* the version each model_ref went live with, or NoVersion
    Callers         \* threads of control that call the service

Stages   == {"pending", "canary_1", "canary_10", "canary_50", "stable"}
Statuses == {"running", "promoted", "aborted", "rolled_back"}

\* One row of the rollout table.
Row == [ref : ModelRefs, version : Versions, stable : Versions,
        stage : Stages, status : Statuses]

\* The value of the key /onezox/active/{model_ref} in etcd.
Envelope == [stable : Versions \cup {NoVersion},
             canary : Versions \cup {NoVersion},
             percent : Nat]

ASSUME ConstantsAssumption ==
    /\ NoVersion \notin Versions
    /\ NoRow \notin Row
    /\ Bootstrapped \in [ModelRefs -> Versions \cup {NoVersion}]

VARIABLES
    rollout,        \* the rollout table: a row, or NoRow, per rollout_id
    model_active,   \* the model_active table: the stable version per model_ref
    active,         \* the envelopes in etcd
    call            \* what each caller is in the middle of

rolloutVars == <<rollout, model_active, active, call>>

(***************************************************************************)
(* The stages.                                                             *)
(***************************************************************************)
nextStage ==
    [s \in Stages |-> CASE s = "pending"   -> "canary_1"
                        [] s = "canary_1"  -> "canary_10"
                        [] s = "canary_10" -> "canary_50"
                        [] s = "canary_50" -> "stable"
                        [] s = "stable"    -> ""]

stagePercent ==
    [s \in Stages |-> CASE s = "pending"   -> 0
                        [] s = "canary_1"  -> 1
                        [] s = "canary_10" -> 10
                        [] s = "canary_50" -> 50
                        [] s = "stable"    -> 100]

(***************************************************************************)
(* Calls.  pc names the store access that comes next.                      *)
(***************************************************************************)
Ops == {"create", "promote", "abort", "auto_advance", "auto_rollback"}

Advances(op) == op \in {"create", "promote", "auto_advance"}

resultStatus(op) == IF op = "abort" THEN "aborted" ELSE "rolled_back"

Idle == [pc |-> "idle"]

\* A CreateRollout before and after it has captured the stable version.
Validated == [pc : {"get_active"}, ref : ModelRefs, version : Versions]
Creating  == [pc : {"get_running", "insert"}, ref : ModelRefs,
              version : Versions, stable : Versions]

\* advanceStage or revertCanary about to read the rollout it was called for.
Reading == [pc : {"get"}, op : Ops, id : RolloutIDs, requireStage : Stages \cup {""}]

\* advanceStage or revertCanary after its checks; row is what it has read.
Writing == [pc : {"set_active", "publish_active", "publish", "update"},
            op : Ops, id : RolloutIDs, row : Row]

Calls == {Idle} \cup Validated \cup Creating \cup Reading \cup Writing

TypeOK ==
    /\ rollout \in [RolloutIDs -> Row \cup {NoRow}]
    /\ model_active \in [ModelRefs -> Versions \cup {NoVersion}]
    /\ active \in [ModelRefs -> Envelope]
    /\ call \in [Callers -> Calls]

Init ==
    /\ rollout = [id \in RolloutIDs |-> NoRow]
    /\ model_active = Bootstrapped
    /\ active = [ref \in ModelRefs |->
                   [stable |-> Bootstrapped[ref], canary |-> NoVersion, percent |-> 0]]
    /\ call = [c \in Callers |-> Idle]

Goto(c, next) == call' = [call EXCEPT ![c] = next]

At(c, pc) == call[c].pc = pc

Running(id) == rollout[id] # NoRow /\ rollout[id].status = "running"

(***************************************************************************)
(* CreateRollout: the target version is registered and verifies (a request *)
(* with a bad version or bad JSON is answered with an error and changes    *)
(* nothing), the stable version is captured, a running rollout refuses the *)
(* call, a row is inserted, and the canary is started with advanceStage.   *)
(***************************************************************************)
CreateRollout(c, ref, v) ==
    /\ call[c] = Idle
    /\ Goto(c, [pc |-> "get_active", ref |-> ref, version |-> v])
    /\ UNCHANGED <<rollout, model_active, active>>

GetActiveManifest(c) ==
    /\ At(c, "get_active")
    /\ LET k == call[c]
           v == model_active[k.ref]
       IN Goto(c, IF v = NoVersion THEN Idle   \* ErrNoActiveVersion
                  ELSE [pc |-> "get_running", ref |-> k.ref, version |-> k.version,
                        stable |-> v])
    /\ UNCHANGED <<rollout, model_active, active>>

GetRunningRolloutByModelRef(c) ==
    /\ At(c, "get_running")
    /\ Goto(c, IF \E id \in RolloutIDs : Running(id) /\ rollout[id].ref = call[c].ref
               THEN Idle                      \* ErrAlreadyRunning
               ELSE [call[c] EXCEPT !.pc = "insert"])
    /\ UNCHANGED <<rollout, model_active, active>>

InsertRollout(c) ==
    /\ At(c, "insert")
    /\ \E id \in RolloutIDs :
         /\ rollout[id] = NoRow
         /\ rollout' = [rollout EXCEPT ![id] =
                [ref |-> call[c].ref, version |-> call[c].version,
                 stable |-> call[c].stable, stage |-> "pending", status |-> "running"]]
         /\ Goto(c, [pc |-> "get", op |-> "create", id |-> id, requireStage |-> ""])
    /\ UNCHANGED <<model_active, active>>

(***************************************************************************)
(* The other entry points only choose an operation and the stage the       *)
(* caller's decision was about ("" when it was about none).                *)
(***************************************************************************)
Enter(c, op, id, requireStage) ==
    /\ call[c] = Idle
    /\ Goto(c, [pc |-> "get", op |-> op, id |-> id, requireStage |-> requireStage])
    /\ UNCHANGED <<rollout, model_active, active>>

PromoteRollout(c, id) == Enter(c, "promote", id, "")

AbortRollout(c, id) == Enter(c, "abort", id, "")

\* mutant: the stage the verdict was about is not passed on
AutoAdvanceUnpinned(c, id, fromStage) == Enter(c, "auto_advance", id, "")

AutoAdvance(c, id, fromStage) == Enter(c, "auto_advance", id, fromStage)

\* mutant: likewise
AutoRollbackUnpinned(c, id, fromStage) == Enter(c, "auto_rollback", id, "")

AutoRollback(c, id, fromStage) == Enter(c, "auto_rollback", id, fromStage)

(***************************************************************************)
(* advanceStage and revertCanary: the read and the checks on what was read *)
(* (ErrNotFound, ErrConcurrentUpdate, ErrNotRunning, ErrAlreadyFullyPromo- *)
(* ted all leave before anything is written) ...                           *)
(***************************************************************************)
\* mutant: the version is activated one stage early
ActivatesEarly(op, row) ==
    IF Advances(op) /\ nextStage[row.stage] \in {"canary_50", "stable"}
    THEN "set_active" ELSE "publish"

\* mutant: a promotion is recorded before anything is activated
RecordsFirst(op, row) ==
    IF Advances(op) /\ nextStage[row.stage] = "stable" THEN "update" ELSE "publish"

FirstWrite(op, row) ==
    IF Advances(op) /\ nextStage[row.stage] = "stable" THEN "set_active" ELSE "publish"

GetRollout(c) ==
    /\ At(c, "get")
    /\ LET k   == call[c]
           row == rollout[k.id]
       IN Goto(c, IF \/ row = NoRow
                     \/ k.requireStage # "" /\ row.stage # k.requireStage
                     \/ row.status # "running"
                     \/ Advances(k.op) /\ nextStage[row.stage] = ""
                  THEN Idle
                  ELSE [pc |-> FirstWrite(k.op, row), op |-> k.op, id |-> k.id, row |-> row])
    /\ UNCHANGED <<rollout, model_active, active>>

(***************************************************************************)
(* ... then the version is made live when the next stage is the last one   *)
(* (registry.ActivateVersion: the table first, etcd second) ...            *)
(***************************************************************************)
SetActive(c) ==
    /\ At(c, "set_active")
    /\ model_active' = [model_active EXCEPT ![call[c].row.ref] = call[c].row.version]
    /\ Goto(c, [call[c] EXCEPT !.pc = "publish_active"])
    /\ UNCHANGED <<rollout, active>>

PublishActive(c) ==
    /\ At(c, "publish_active")
    /\ active' = [active EXCEPT ![call[c].row.ref] =
            [stable |-> call[c].row.version, canary |-> NoVersion, percent |-> 0]]
    /\ Goto(c, [call[c] EXCEPT !.pc = "update"])
    /\ UNCHANGED <<rollout, model_active>>

\* mutant: the percentage of the stage after the next one
CanaryStateDoubled(op, row) ==
    IF Advances(op)
    THEN [stable |-> row.stable, canary |-> row.version,
          percent |-> stagePercent[nextStage[nextStage[row.stage]]]]
    ELSE [stable |-> row.stable, canary |-> NoVersion, percent |-> 0]

\* ... or, at any other stage, the split of the traffic is published ...
CanaryState(op, row) ==
    IF Advances(op)
    THEN [stable |-> row.stable, canary |-> row.version,
          percent |-> stagePercent[nextStage[row.stage]]]
    ELSE [stable |-> row.stable, canary |-> NoVersion, percent |-> 0]

PublishCanaryState(c) ==
    /\ At(c, "publish")
    /\ active' = [active EXCEPT ![call[c].row.ref] = CanaryState(call[c].op, call[c].row)]
    /\ Goto(c, [call[c] EXCEPT !.pc = "update"])
    /\ UNCHANGED <<rollout, model_active>>

(***************************************************************************)
(* ... and last the row is updated, by a compare-and-swap on the stage     *)
(* that was read and on status = 'running'.  A refused swap                *)
(* (ErrConcurrentUpdate) changes nothing in the table.                     *)
(***************************************************************************)
\* mutant: the swap does not look at the status
SwapIgnoringStatus(id, expectedStage) ==
    rollout[id] # NoRow /\ rollout[id].stage = expectedStage

SwapApplies(id, expectedStage) ==
    Running(id) /\ rollout[id].stage = expectedStage

NewRow(op, row) ==
    IF ~Advances(op)
    THEN [row EXCEPT !.status = resultStatus(op)]
    ELSE [row EXCEPT !.stage  = nextStage[row.stage],
                     !.status = IF nextStage[row.stage] = "stable" THEN "promoted"
                                ELSE "running"]

UpdateRollout(c) ==
    /\ At(c, "update")
    /\ LET k == call[c] IN
         rollout' = IF SwapApplies(k.id, k.row.stage)
                    THEN [rollout EXCEPT ![k.id] = NewRow(k.op, rollout[k.id])]
                    ELSE rollout
    /\ Goto(c, Idle)
    /\ UNCHANGED <<model_active, active>>

(***************************************************************************)
(* A store access returns an error, the request is cancelled, or the       *)
(* process dies: the call ends where it is and nothing is undone.  An      *)
(* access that took effect although its caller saw an error is the access  *)
(* followed by this step.                                                  *)
(***************************************************************************)
Fail(c) ==
    /\ call[c] # Idle
    /\ Goto(c, Idle)
    /\ UNCHANGED <<rollout, model_active, active>>

\* The steps of a call that has been entered, failures aside.
CallStep(c) ==
    \/ GetActiveManifest(c) \/ GetRunningRolloutByModelRef(c) \/ InsertRollout(c)
    \/ GetRollout(c) \/ SetActive(c) \/ PublishActive(c) \/ PublishCanaryState(c)
    \/ UpdateRollout(c)

EnterCall(c) ==
    \/ \E ref \in ModelRefs, v \in Versions : CreateRollout(c, ref, v)
    \/ \E id \in RolloutIDs : PromoteRollout(c, id) \/ AbortRollout(c, id)
    \/ \E id \in RolloutIDs, s \in Stages : AutoAdvance(c, id, s) \/ AutoRollback(c, id, s)

Next == \E c \in Callers : EnterCall(c) \/ CallStep(c) \/ Fail(c)

Spec == Init /\ [][Next]_rolloutVars

(***************************************************************************)
(* Properties.                                                             *)
(***************************************************************************)

\* How far along a stage is.
Level == [s \in Stages |-> CASE s = "pending"   -> 0
                             [] s = "canary_1"  -> 1
                             [] s = "canary_10" -> 2
                             [] s = "canary_50" -> 3
                             [] s = "stable"    -> 4]

\* The versions of ref that some rollout has brought to half of the traffic.
RolledOut(ref) ==
    {v \in Versions : \E id \in RolloutIDs :
        /\ rollout[id] # NoRow
        /\ rollout[id].ref = ref
        /\ rollout[id].version = v
        /\ rollout[id].stage \in {"canary_50", "stable"}}

\* The versions of ref that may be served to everybody.
Vetted(ref) == {Bootstrapped[ref]} \cup RolledOut(ref)

(* No version becomes the stable one, in the table or in etcd, unless a     *)
(* rollout of it has reached canary_50: however creations, promotions,     *)
(* aborts and reconcilers interleave, and wherever a call dies,            *)
(* advanceStage never makes live what the stages have not vetted, and      *)
(* revertCanary never reverts to such a version.                           *)
OnlyVettedIsLive ==
    \A ref \in ModelRefs :
        /\ model_active[ref] \in Vetted(ref)
        /\ active[ref].stable \in Vetted(ref)

(* The share of live traffic a canary gets in etcd is never more than one  *)
(* stage ahead of what the rollout table records for it.  The envelope is  *)
(* published before the row is swapped, from a row read earlier, so the    *)
(* two do disagree; this bounds by how much.                               *)
ExposureBounded ==
    \A ref \in ModelRefs : active[ref].canary # NoVersion =>
        \E id \in RolloutIDs :
            /\ rollout[id] # NoRow
            /\ rollout[id].ref = ref
            /\ rollout[id].version = active[ref].canary
            /\ \E s \in Stages :
                 /\ Level[s] <= Level[rollout[id].stage] + 1
                 /\ active[ref].percent <= stagePercent[s]

(* A rollout recorded as promoted has been made live: model_active never   *)
(* stays behind at the version the model_ref was bootstrapped with, unless *)
(* that version was itself rolled out again.  advanceStage activates       *)
(* before it records, so a crash in between loses the record and not the   *)
(* activation.                                                             *)
PromotedWasActivated ==
    \A id \in RolloutIDs :
        (rollout[id] # NoRow /\ rollout[id].status = "promoted") =>
            model_active[rollout[id].ref] \in RolledOut(rollout[id].ref)

(* The staged gate, as StagedGate states it: rows climb one stage at a     *)
(* time, an ended rollout never moves or runs again, and the last stage is *)
(* reached exactly by being promoted, whoever races with whom.             *)
Gate == INSTANCE StagedGate WITH
    Rollouts  <- RolloutIDs,
    LastStage <- 4,
    level     <- [id \in RolloutIDs |->
                    IF rollout[id] = NoRow THEN 0 ELSE Level[rollout[id].stage]],
    outcome   <- [id \in RolloutIDs |->
                    IF rollout[id] = NoRow THEN "unborn" ELSE rollout[id].status]

StagedGateHolds == Gate!GateSpec

(* What docs and comments say and the code does not keep (see README).     *)

(* A canary that was aborted or rolled back gets no traffic once no call   *)
(* is working on its rollout any more.                                     *)
StoppedCanaryGetsNoTraffic ==
    \A id \in RolloutIDs :
        (/\ rollout[id] # NoRow
         /\ rollout[id].status \in {"aborted", "rolled_back"}
         /\ \A c \in Callers : call[c] = Idle)
        => active[rollout[id].ref].canary = NoVersion
=============================================================================
