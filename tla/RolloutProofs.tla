--------------------------- MODULE RolloutProofs ---------------------------
(***************************************************************************)
(* Proofs about Rollout and Reconciler.  The first part is for any sets of *)
(* rollouts, model_refs, versions and callers, and for callers that may    *)
(* enter any call at any time.                                             *)
(*                                                                         *)
(* The types come first.  The safety invariants are not inductive as they  *)
(* stand: what a call is about to write depends on a row it has read       *)
(* earlier and that others may have changed since.  InFlight says what is  *)
(* still true of such a row, RowsInv what every stored row satisfies, and  *)
(* IInv, their conjunction with the invariants, is inductive.              *)
(*                                                                         *)
(* The second part is about Reconciler, for any sets of operators,         *)
(* replicas and AnalysisRuns, and for leases that change hands at any      *)
(* time.  Every step of the whole control-plane is, on the stores and the  *)
(* calls, a step of Rollout, so that what the first part shows of callers  *)
(* holds of the replicas.  That a verdict about one stage moves the        *)
(* rollout from no other is not inductive: EarnedInv follows the verdict   *)
(* from the finding through the read of the row to the swap.               *)
(***************************************************************************)
EXTENDS Reconciler, TLAPS

-----------------------------------------------------------------------------
(* Stages and the shapes of calls.                                         *)

\* The percentages are numbers.
LEMMA StagePercents == \A s \in Stages : stagePercent[s] \in Nat
  <1>. SUFFICES ASSUME NEW s \in Stages PROVE stagePercent[s] \in Nat
    OBVIOUS
  <1>1. CASE s = "pending"   BY <1>1 DEF stagePercent, Stages
  <1>2. CASE s = "canary_1"  BY <1>2 DEF stagePercent, Stages
  <1>3. CASE s = "canary_10" BY <1>3 DEF stagePercent, Stages
  <1>4. CASE s = "canary_50" BY <1>4 DEF stagePercent, Stages
  <1>5. CASE s = "stable"    BY <1>5 DEF stagePercent, Stages
  <1>. QED BY <1>1, <1>2, <1>3, <1>4, <1>5 DEF Stages

\* Levels are the numbers of the stages.
LEMMA LevelOfStage ==
    ASSUME NEW s \in Stages
    PROVE  /\ Level[s] \in Nat
           /\ Level[s] <= 4
           /\ Level[s] = 4 <=> s = "stable"
           /\ Level[s] >= 3 <=> s \in {"canary_50", "stable"}
  <1>1. CASE s = "pending"     BY <1>1 DEF Stages, Level
  <1>2. CASE s = "canary_1"    BY <1>2 DEF Stages, Level
  <1>3. CASE s = "canary_10"   BY <1>3 DEF Stages, Level
  <1>4. CASE s = "canary_50"   BY <1>4 DEF Stages, Level
  <1>5. CASE s = "stable"      BY <1>5 DEF Stages, Level
  <1>. QED BY <1>1, <1>2, <1>3, <1>4, <1>5 DEF Stages

\* Only the last stage has no next one, and only canary_50 is next to it.
LEMMA NextOfStage ==
    ASSUME NEW s \in Stages
    PROVE  /\ nextStage[s] = "" <=> s = "stable"
           /\ nextStage[s] = "stable" <=> s = "canary_50"
           /\ s # "stable" => nextStage[s] \in Stages
  <1>1. CASE s = "pending"     BY <1>1 DEF Stages, nextStage
  <1>2. CASE s = "canary_1"    BY <1>2 DEF Stages, nextStage
  <1>3. CASE s = "canary_10"   BY <1>3 DEF Stages, nextStage
  <1>4. CASE s = "canary_50"   BY <1>4 DEF Stages, nextStage
  <1>5. CASE s = "stable"      BY <1>5 DEF Stages, nextStage
  <1>. QED BY <1>1, <1>2, <1>3, <1>4, <1>5 DEF Stages

\* The next stage is one level up.
LEMMA NextStageClimbs ==
    ASSUME NEW s \in Stages
    PROVE  s # "stable" => Level[nextStage[s]] = Level[s] + 1
  <1>1. CASE s = "pending"     BY <1>1 DEF Stages, Level, nextStage
  <1>2. CASE s = "canary_1"    BY <1>2 DEF Stages, Level, nextStage
  <1>3. CASE s = "canary_10"   BY <1>3 DEF Stages, Level, nextStage
  <1>4. CASE s = "canary_50"   BY <1>4 DEF Stages, Level, nextStage
  <1>5. CASE s = "stable"      BY <1>5 DEF Stages, Level, nextStage
  <1>. QED BY <1>1, <1>2, <1>3, <1>4, <1>5 DEF Stages

\* What a call carries follows from its pc.
LEMMA CallShapes ==
    ASSUME NEW k \in Calls
    PROVE  /\ k.pc = "get_active" => k \in Validated
           /\ k.pc \in {"get_running", "insert"} => k \in Creating
           /\ k.pc = "get" => k \in Reading
           /\ k.pc \in {"set_active", "publish_active", "publish", "update"} => k \in Writing
  <1>1. Idle.pc = "idle"
    BY DEF Idle
  <1>2. \A x \in Validated : x.pc = "get_active"
    BY DEF Validated
  <1>3. \A x \in Creating : x.pc \in {"get_running", "insert"}
    BY DEF Creating
  <1>4. \A x \in Reading : x.pc = "get"
    BY DEF Reading
  <1>5. \A x \in Writing : x.pc \in {"set_active", "publish_active", "publish", "update"}
    BY DEF Writing
  <1>. QED BY <1>1, <1>2, <1>3, <1>4, <1>5 DEF Calls

\* A call at work has one shape: Idle and the others do not overlap.
LEMMA Disjoint ==
    /\ Idle \notin Creating \cup Writing
    /\ \A k \in Validated \cup Reading : k \notin Creating \cup Writing
    /\ \A k \in Creating : k \notin Writing
  <1>1. Idle \notin Creating \cup Writing
    BY DEF Idle, Creating, Writing
  <1>2. \A k \in Validated \cup Reading : k \notin Creating \cup Writing
    BY DEF Validated, Reading, Creating, Writing
  <1>3. \A k \in Creating : k \notin Writing
    BY DEF Creating, Writing
  <1>. QED BY <1>1, <1>2, <1>3

\* Moving a call on to its next access keeps what it carries.
LEMMA WritingMoves ==
    ASSUME NEW k \in Writing, NEW pc \in {"publish_active", "update"}
    PROVE  /\ [k EXCEPT !.pc = pc] \in Writing
           /\ [k EXCEPT !.pc = pc].pc = pc
           /\ [k EXCEPT !.pc = pc].op = k.op
           /\ [k EXCEPT !.pc = pc].id = k.id
           /\ [k EXCEPT !.pc = pc].row = k.row
  BY DEF Writing

\* Likewise for a CreateRollout on its way to the insertion.
LEMMA CreatingMoves ==
    ASSUME NEW k \in Creating
    PROVE  /\ [k EXCEPT !.pc = "insert"] \in Creating
           /\ [k EXCEPT !.pc = "insert"].ref = k.ref
           /\ [k EXCEPT !.pc = "insert"].stable = k.stable
  BY DEF Creating

-----------------------------------------------------------------------------
(* Types.                                                                  *)

\* An envelope published by a call is an envelope.
LEMMA CanaryStateType ==
    ASSUME NEW op \in Ops, NEW row \in Row,
           Advances(op) => row.stage # "stable"
    PROVE  CanaryState(op, row) \in Envelope
  <1>1. row.version \in Versions /\ row.stable \in Versions /\ row.stage \in Stages
    BY DEF Row
  <1>2. Advances(op) => stagePercent[nextStage[row.stage]] \in Nat
    BY <1>1, NextOfStage, StagePercents
  <1>. QED BY <1>1, <1>2 DEF CanaryState, Envelope

\* What a swap stores is a row.
LEMMA NewRowType ==
    ASSUME NEW op \in Ops, NEW row \in Row,
           Advances(op) => row.stage # "stable"
    PROVE  /\ NewRow(op, row) \in Row
           /\ NewRow(op, row).ref = row.ref
           /\ NewRow(op, row).version = row.version
           /\ NewRow(op, row).stable = row.stable
           /\ Advances(op) =>
                /\ NewRow(op, row).stage = nextStage[row.stage]
                /\ NewRow(op, row).status =
                      IF nextStage[row.stage] = "stable" THEN "promoted" ELSE "running"
           /\ ~Advances(op) =>
                /\ NewRow(op, row).stage = row.stage
                /\ NewRow(op, row).status \in {"aborted", "rolled_back"}
  <1>1. row.stage \in Stages
    BY DEF Row
  <1>2. Advances(op) => nextStage[row.stage] \in Stages
    BY <1>1, NextOfStage
  <1>3. resultStatus(op) \in {"aborted", "rolled_back"}
    BY DEF resultStatus
  <1>4. CASE Advances(op)
    <2>1. \A st \in {"promoted", "running"} :
            [row EXCEPT !.stage = nextStage[row.stage], !.status = st] \in Row
      BY <1>2, <1>4 DEF Row, Statuses
    <2>. QED BY <1>4, <2>1 DEF NewRow, Row
  <1>5. CASE ~Advances(op)
    BY <1>3, <1>5 DEF NewRow, Row, Statuses
  <1>. QED BY <1>4, <1>5

\* The initial state is well typed.
LEMMA InitTypeOK == Init => TypeOK
  BY ConstantsAssumption DEF Init, TypeOK, Envelope, Calls

\* A step of Goto to a well-formed call is well typed.
LEMMA GotoType ==
    ASSUME TypeOK, NEW c \in Callers, NEW k \in Calls, Goto(c, k)
    PROVE  /\ call' \in [Callers -> Calls]
           /\ call'[c] = k
           /\ \A d \in Callers : d # c => call'[d] = call[d]
  BY DEF TypeOK, Goto

-----------------------------------------------------------------------------
(* The inductive invariant.                                                *)

\* What holds between a call that is about to write, the row it has read and
\* the row as it now is: the rollout is the same one and has not gone back,
\* the call's next write fits the stage it read, and once model_active has
\* been set for it, model_active holds a version that was rolled out.
WriteOK(k) ==
    /\ rollout[k.id] # NoRow
    /\ rollout[k.id].ref = k.row.ref
    /\ rollout[k.id].version = k.row.version
    /\ rollout[k.id].stable = k.row.stable
    /\ Level[k.row.stage] <= Level[rollout[k.id].stage]
    /\ Advances(k.op) => k.row.stage # "stable"
    /\ k.pc \in {"set_active", "publish_active"} =>
          Advances(k.op) /\ k.row.stage = "canary_50"
    /\ k.pc = "publish" => ~(Advances(k.op) /\ k.row.stage = "canary_50")
    /\ (/\ k.pc \in {"publish_active", "update"}
        /\ Advances(k.op)
        /\ k.row.stage = "canary_50") => model_active[k.row.ref] \in RolledOut(k.row.ref)

InFlight ==
    \A c \in Callers :
        /\ call[c] \in Creating => call[c].stable \in Vetted(call[c].ref)
        /\ call[c] \in Writing => WriteOK(call[c])

\* Every row reverts to a vetted version and is at the last stage only if
\* it was promoted.
RowsInv ==
    \A id \in RolloutIDs : rollout[id] # NoRow =>
        /\ rollout[id].stable \in Vetted(rollout[id].ref)
        /\ rollout[id].status = "promoted" <=> rollout[id].stage = "stable"

IInv ==
    /\ TypeOK
    /\ InFlight
    /\ RowsInv
    /\ OnlyVettedIsLive
    /\ ExposureBounded
    /\ PromotedWasActivated

\* The inductive invariant holds at the start.
LEMMA InitIInv == Init => IInv
  <1>. SUFFICES ASSUME Init PROVE IInv
    OBVIOUS
  <1>1. TypeOK
    BY InitTypeOK
  <1>2. \A c \in Callers : call[c] = Idle
    BY DEF Init
  <1>3. \A id \in RolloutIDs : rollout[id] = NoRow
    BY DEF Init
  <1>4. InFlight
    BY <1>2, Disjoint DEF InFlight
  <1>5. OnlyVettedIsLive
    BY DEF Init, OnlyVettedIsLive, Vetted
  <1>6. ExposureBounded
    BY DEF Init, ExposureBounded
  <1>. QED BY <1>1, <1>3, <1>4, <1>5, <1>6 DEF IInv, RowsInv, PromotedWasActivated

-----------------------------------------------------------------------------
(* What a step does to the tables.                                         *)

\* Rows are never removed, never change identity and never go back a stage.
RowsGrow ==
    \A id \in RolloutIDs : rollout[id] # NoRow =>
        /\ rollout'[id] # NoRow
        /\ rollout'[id].ref = rollout[id].ref
        /\ rollout'[id].version = rollout[id].version
        /\ rollout'[id].stable = rollout[id].stable
        /\ Level[rollout[id].stage] <= Level[rollout'[id].stage]

\* The action behind a step that is not one of the writes leaves the stores alone.
Quiet == UNCHANGED <<rollout, model_active, active>>

\* Only five actions write to a store.
LEMMA StepKinds ==
    ASSUME NEW c \in Callers, EnterCall(c) \/ CallStep(c) \/ Fail(c)
    PROVE  \/ Quiet \/ InsertRollout(c) \/ SetActive(c) \/ PublishActive(c)
           \/ PublishCanaryState(c) \/ UpdateRollout(c)
  <1>1. EnterCall(c) => Quiet
    BY DEF EnterCall, CreateRollout, PromoteRollout, AbortRollout, AutoAdvance,
           AutoRollback, Enter, Quiet
  <1>2. GetActiveManifest(c) \/ GetRunningRolloutByModelRef(c) \/ GetRollout(c) => Quiet
    BY DEF GetActiveManifest, GetRunningRolloutByModelRef, GetRollout, Quiet
  <1>3. Fail(c) => Quiet
    BY DEF Fail, Quiet
  <1>. QED BY <1>1, <1>2, <1>3 DEF CallStep

\* What a call carries, in a well-typed state in which InFlight holds.
LEMMA WritingCall ==
    ASSUME IInv, NEW c \in Callers,
           call[c].pc \in {"set_active", "publish_active", "publish", "update"}
    PROVE  /\ call[c] \in Writing
           /\ call[c].id \in RolloutIDs
           /\ call[c].op \in Ops
           /\ call[c].row \in Row
           /\ call[c].row.stage \in Stages
           /\ call[c].row.ref \in ModelRefs
           /\ call[c].row.version \in Versions
           /\ call[c].row.stable \in Versions
           /\ rollout[call[c].id] \in Row
           /\ rollout[call[c].id].stage \in Stages
           /\ WriteOK(call[c])
  <1>1. call[c] \in Writing
    BY CallShapes DEF IInv, TypeOK
  <1>2. WriteOK(call[c])
    BY <1>1 DEF IInv, InFlight
  <1>3. call[c].id \in RolloutIDs /\ call[c].op \in Ops /\ call[c].row \in Row
    BY <1>1 DEF Writing
  <1>4. rollout[call[c].id] \in Row
    BY <1>2, <1>3 DEF IInv, TypeOK, WriteOK
  <1>. QED BY <1>1, <1>2, <1>3, <1>4 DEF Row

\* The swap, seen on the row it is about.
LEMMA SwapEffect ==
    ASSUME IInv, NEW c \in Callers, UpdateRollout(c)
    PROVE  \/ rollout' = rollout
           \/ /\ Running(call[c].id)
              /\ rollout[call[c].id].stage = call[c].row.stage
              /\ Advances(call[c].op) => rollout[call[c].id].stage # "stable"
              /\ rollout' = [rollout EXCEPT ![call[c].id] =
                               NewRow(call[c].op, rollout[call[c].id])]
  <1>1. call[c].pc = "update"
    BY DEF UpdateRollout, At
  <1>2. Advances(call[c].op) => call[c].row.stage # "stable"
    BY <1>1, WritingCall DEF WriteOK
  <1>. QED BY <1>2 DEF UpdateRollout, SwapApplies

\* Whatever a step does, no row is lost or goes back.
LEMMA StepRowsGrow ==
    ASSUME IInv, NEW c \in Callers, EnterCall(c) \/ CallStep(c) \/ Fail(c)
    PROVE  RowsGrow
  <1>0. \A id \in RolloutIDs : rollout[id] # NoRow => Level[rollout[id].stage] \in Nat
    BY LevelOfStage DEF IInv, TypeOK, Row
  <1>1. CASE rollout' = rollout
    BY <1>0, <1>1 DEF RowsGrow
  <1>2. CASE InsertRollout(c)
    <2>1. PICK id \in RolloutIDs :
            /\ rollout[id] = NoRow
            /\ \A j \in RolloutIDs : j # id => rollout'[j] = rollout[j]
      BY <1>2 DEF InsertRollout, IInv, TypeOK
    <2>. QED BY <1>0, <2>1 DEF RowsGrow
  <1>3. CASE UpdateRollout(c) /\ rollout' # rollout
    <2> DEFINE k == call[c]
    <2>1. k.pc = "update"
      BY <1>3 DEF UpdateRollout, At
    <2>2. k.id \in RolloutIDs /\ k.op \in Ops /\ rollout[k.id] \in Row
          /\ rollout[k.id].stage \in Stages
      BY <2>1, WritingCall
    <2>3. /\ Advances(k.op) => rollout[k.id].stage # "stable"
          /\ rollout' = [rollout EXCEPT ![k.id] = NewRow(k.op, rollout[k.id])]
      BY <1>3, SwapEffect
    <2>4. /\ rollout'[k.id] = NewRow(k.op, rollout[k.id])
          /\ \A j \in RolloutIDs : j # k.id => rollout'[j] = rollout[j]
      BY <2>2, <2>3 DEF IInv, TypeOK
    <2>5. /\ rollout'[k.id] \in Row
          /\ rollout'[k.id].ref = rollout[k.id].ref
          /\ rollout'[k.id].version = rollout[k.id].version
          /\ rollout'[k.id].stable = rollout[k.id].stable
          /\ rollout'[k.id].stage \in {rollout[k.id].stage, nextStage[rollout[k.id].stage]}
      BY <2>2, <2>3, <2>4, NewRowType
    <2>6. Level[rollout[k.id].stage] <= Level[rollout'[k.id].stage]
      <3>1. CASE rollout'[k.id].stage = rollout[k.id].stage
        BY <2>2, <3>1, LevelOfStage
      <3>2. CASE rollout'[k.id].stage # rollout[k.id].stage
        <4>1. rollout'[k.id].stage = nextStage[rollout[k.id].stage]
          BY <2>5, <3>2
        <4>2. rollout[k.id].stage # "stable"
          BY <2>2, <2>3, <2>4, <3>2, NewRowType
        <4>. QED BY <2>2, <4>1, <4>2, NextStageClimbs, LevelOfStage
      <3>. QED BY <3>1, <3>2
    <2>7. rollout'[k.id] # NoRow
      BY <2>5, ConstantsAssumption
    <2>. QED BY <1>0, <2>4, <2>5, <2>6, <2>7 DEF RowsGrow
  <1>4. rollout' = rollout \/ InsertRollout(c) \/ UpdateRollout(c)
    BY StepKinds DEF Quiet, SetActive, PublishActive, PublishCanaryState
  <1>. QED BY <1>1, <1>2, <1>3, <1>4

-----------------------------------------------------------------------------
(* Each step preserves the types, and moves its caller to a call of a      *)
(* known shape.                                                            *)

\* Entering a call.
LEMMA EnterMoves ==
    ASSUME TypeOK, NEW c \in Callers, EnterCall(c)
    PROVE  \E k \in Validated \cup Reading : Goto(c, k)
  <1>1. ASSUME NEW ref \in ModelRefs, NEW v \in Versions, CreateRollout(c, ref, v)
        PROVE  \E k \in Validated : Goto(c, k)
    BY <1>1 DEF CreateRollout, Validated
  <1>2. ASSUME NEW op \in Ops, NEW id \in RolloutIDs, NEW s \in Stages \cup {""},
               Enter(c, op, id, s)
        PROVE  \E k \in Reading : Goto(c, k)
    BY <1>2 DEF Enter, Reading
  <1>. QED
    BY <1>1, <1>2
    DEF EnterCall, PromoteRollout, AbortRollout, AutoAdvance, AutoRollback, Ops

\* GetActiveManifest ends the call or captures the stable version.
LEMMA GetActiveMoves ==
    ASSUME TypeOK, NEW c \in Callers, GetActiveManifest(c)
    PROVE  \/ Goto(c, Idle)
           \/ \E k \in Creating : Goto(c, k) /\ k.ref \in ModelRefs /\ k.stable = model_active[k.ref]
  <1>1. call[c] \in Validated
    BY CallShapes DEF GetActiveManifest, At, TypeOK
  <1>2. call[c].ref \in ModelRefs /\ call[c].version \in Versions
    BY <1>1 DEF Validated
  <1>3. CASE model_active[call[c].ref] = NoVersion
    BY <1>3 DEF GetActiveManifest
  <1>4. CASE model_active[call[c].ref] # NoVersion
    <2> DEFINE k == [pc |-> "get_running", ref |-> call[c].ref, version |-> call[c].version,
                     stable |-> model_active[call[c].ref]]
    <2>1. k \in Creating
      BY <1>2, <1>4 DEF TypeOK, Creating
    <2>2. Goto(c, k)
      BY <1>4 DEF GetActiveManifest
    <2>. QED BY <1>2, <2>1, <2>2
  <1>. QED BY <1>3, <1>4

\* GetRunningRolloutByModelRef ends the call or lets it pass unchanged.
LEMMA GetRunningMoves ==
    ASSUME TypeOK, NEW c \in Callers, GetRunningRolloutByModelRef(c)
    PROVE  \/ Goto(c, Idle)
           \/ /\ call[c] \in Creating
              /\ \E k \in Creating : Goto(c, k) /\ k.ref = call[c].ref /\ k.stable = call[c].stable
  <1>1. call[c] \in Creating
    BY CallShapes DEF GetRunningRolloutByModelRef, At, TypeOK
  <1>. QED BY <1>1, CreatingMoves DEF GetRunningRolloutByModelRef

\* InsertRollout adds a pending row with what the call had captured.
LEMMA InsertMoves ==
    ASSUME TypeOK, NEW c \in Callers, InsertRollout(c)
    PROVE  /\ call[c] \in Creating
           /\ \E k \in Reading : Goto(c, k)
           /\ \E id \in RolloutIDs, row \in Row :
                /\ rollout[id] = NoRow
                /\ rollout' = [rollout EXCEPT ![id] = row]
                /\ row.ref = call[c].ref
                /\ row.stable = call[c].stable
                /\ row.stage = "pending"
                /\ row.status = "running"
  <1>1. call[c] \in Creating
    BY CallShapes DEF InsertRollout, At, TypeOK
  <1>2. call[c].ref \in ModelRefs /\ call[c].version \in Versions /\ call[c].stable \in Versions
    BY <1>1 DEF Creating
  <1>3. PICK id \in RolloutIDs :
         /\ rollout[id] = NoRow
         /\ rollout' = [rollout EXCEPT ![id] =
                [ref |-> call[c].ref, version |-> call[c].version,
                 stable |-> call[c].stable, stage |-> "pending", status |-> "running"]]
         /\ Goto(c, [pc |-> "get", op |-> "create", id |-> id, requireStage |-> ""])
    BY DEF InsertRollout
  <1>4. [pc |-> "get", op |-> "create", id |-> id, requireStage |-> ""] \in Reading
    BY DEF Reading, Ops
  <1>5. [ref |-> call[c].ref, version |-> call[c].version, stable |-> call[c].stable,
         stage |-> "pending", status |-> "running"] \in Row
    BY <1>2 DEF Row, Stages, Statuses
  <1>. QED BY <1>1, <1>3, <1>4, <1>5

\* After its checks a call holds the row as it is, and starts with the write
\* that fits the row's stage.
LEMMA GetMoves ==
    ASSUME TypeOK, NEW c \in Callers, GetRollout(c)
    PROVE  \/ Goto(c, Idle)
           \/ \E k \in Writing :
                /\ Goto(c, k)
                /\ rollout[k.id] # NoRow
                /\ k.row = rollout[k.id]
                /\ k.row \in Row
                /\ Advances(k.op) => k.row.stage # "stable"
                /\ k.pc = "set_active" => Advances(k.op) /\ k.row.stage = "canary_50"
                /\ k.pc = "publish" => ~(Advances(k.op) /\ k.row.stage = "canary_50")
                /\ k.pc \in {"set_active", "publish"}
  <1>1. call[c] \in Reading
    BY CallShapes DEF GetRollout, At, TypeOK
  <1>2. call[c].id \in RolloutIDs /\ call[c].op \in Ops
    BY <1>1 DEF Reading
  <1> DEFINE row == rollout[call[c].id]
             k == [pc |-> FirstWrite(call[c].op, row), op |-> call[c].op,
                   id |-> call[c].id, row |-> row]
  <1>3. SUFFICES ASSUME ~Goto(c, Idle)
                 PROVE  \E x \in {k} :
                          /\ x \in Writing
                          /\ Goto(c, x)
                          /\ row # NoRow
                          /\ row \in Row
                          /\ Advances(x.op) => row.stage # "stable"
                          /\ x.pc = "set_active" => Advances(x.op) /\ row.stage = "canary_50"
                          /\ x.pc = "publish" => ~(Advances(x.op) /\ row.stage = "canary_50")
                          /\ x.pc \in {"set_active", "publish"}
    OBVIOUS
  <1>4. /\ row # NoRow
        /\ ~(Advances(call[c].op) /\ nextStage[row.stage] = "")
        /\ Goto(c, k)
    BY <1>3 DEF GetRollout
  <1>5. row \in Row /\ row.stage \in Stages
    BY <1>2, <1>4 DEF TypeOK, Row
  <1>6. FirstWrite(call[c].op, row) \in {"set_active", "publish"}
    BY DEF FirstWrite
  <1>7. k \in Writing
    BY <1>2, <1>5, <1>6 DEF Writing
  <1>8. Advances(call[c].op) => row.stage # "stable"
    BY <1>4, <1>5, NextOfStage
  <1>9. FirstWrite(call[c].op, row) = "set_active" <=> (Advances(call[c].op) /\ row.stage = "canary_50")
    BY <1>5, NextOfStage DEF FirstWrite
  <1>. QED BY <1>4, <1>5, <1>6, <1>7, <1>8, <1>9

\* Every step preserves the types.
LEMMA StepTypeOK ==
    ASSUME IInv, NEW c \in Callers, EnterCall(c) \/ CallStep(c) \/ Fail(c)
    PROVE  TypeOK'
  <1>0. TypeOK
    BY DEF IInv
  <1>1. ASSUME NEW k \in Calls, Goto(c, k)
        PROVE  call' \in [Callers -> Calls]
    BY <1>0, <1>1, GotoType
  <1>2. CASE EnterCall(c)
    <2>1. Quiet
      BY <1>2 DEF EnterCall, CreateRollout, PromoteRollout, AbortRollout, AutoAdvance,
                  AutoRollback, Enter, Quiet
    <2>. QED BY <1>0, <1>1, <1>2, <2>1, EnterMoves DEF TypeOK, Calls, Quiet
  <1>3. CASE GetActiveManifest(c)
    BY <1>0, <1>1, <1>3, GetActiveMoves DEF TypeOK, Calls, GetActiveManifest
  <1>4. CASE GetRunningRolloutByModelRef(c)
    BY <1>0, <1>1, <1>4, GetRunningMoves DEF TypeOK, Calls, GetRunningRolloutByModelRef
  <1>5. CASE InsertRollout(c)
    <2>1. call' \in [Callers -> Calls]
      BY <1>0, <1>1, <1>5, InsertMoves DEF Calls
    <2>2. rollout' \in [RolloutIDs -> Row \cup {NoRow}]
      BY <1>0, <1>5, InsertMoves DEF TypeOK
    <2>. QED BY <1>0, <1>5, <2>1, <2>2 DEF TypeOK, InsertRollout
  <1>6. CASE GetRollout(c)
    BY <1>0, <1>1, <1>6, GetMoves DEF TypeOK, Calls, GetRollout
  <1>7. CASE SetActive(c)
    <2>1. call[c].pc = "set_active"
      BY <1>7 DEF SetActive, At
    <2>2. call' \in [Callers -> Calls]
      BY <1>1, <1>7, <2>1, WritingCall, WritingMoves DEF SetActive, Calls
    <2>3. model_active' \in [ModelRefs -> Versions \cup {NoVersion}]
      BY <1>0, <1>7, <2>1, WritingCall DEF SetActive, TypeOK
    <2>. QED BY <1>0, <1>7, <2>2, <2>3 DEF TypeOK, SetActive
  <1>8. CASE PublishActive(c)
    <2>1. call[c].pc = "publish_active"
      BY <1>8 DEF PublishActive, At
    <2>2. call' \in [Callers -> Calls]
      BY <1>1, <1>8, <2>1, WritingCall, WritingMoves DEF PublishActive, Calls
    <2>3. [stable |-> call[c].row.version, canary |-> NoVersion, percent |-> 0] \in Envelope
      BY <2>1, WritingCall DEF Envelope
    <2>4. active' \in [ModelRefs -> Envelope]
      BY <1>0, <1>8, <2>3 DEF PublishActive, TypeOK
    <2>. QED BY <1>0, <1>8, <2>2, <2>4 DEF TypeOK, PublishActive
  <1>9. CASE PublishCanaryState(c)
    <2>1. call[c].pc = "publish"
      BY <1>9 DEF PublishCanaryState, At
    <2>2. call' \in [Callers -> Calls]
      BY <1>1, <1>9, <2>1, WritingCall, WritingMoves DEF PublishCanaryState, Calls
    <2>3. CanaryState(call[c].op, call[c].row) \in Envelope
      BY <2>1, WritingCall, CanaryStateType DEF WriteOK
    <2>4. active' \in [ModelRefs -> Envelope]
      BY <1>0, <1>9, <2>3 DEF PublishCanaryState, TypeOK
    <2>. QED BY <1>0, <1>9, <2>2, <2>4 DEF TypeOK, PublishCanaryState
  <1>10. CASE UpdateRollout(c)
    <2>1. call[c].pc = "update"
      BY <1>10 DEF UpdateRollout, At
    <2>2. call' \in [Callers -> Calls]
      BY <1>1, <1>10 DEF UpdateRollout, Calls
    <2>3. rollout' \in [RolloutIDs -> Row \cup {NoRow}]
      BY <1>0, <1>10, <2>1, WritingCall, SwapEffect, NewRowType DEF TypeOK
    <2>. QED BY <1>0, <1>10, <2>2, <2>3 DEF TypeOK, UpdateRollout
  <1>11. CASE Fail(c)
    BY <1>0, <1>1, <1>11 DEF Fail, TypeOK, Calls
  <1>. QED BY <1>2, <1>3, <1>4, <1>5, <1>6, <1>7, <1>8, <1>9, <1>10, <1>11 DEF CallStep

-----------------------------------------------------------------------------
(* What was rolled out stays rolled out, and model_active only moves to    *)
(* what was rolled out.                                                    *)

\* Rows do not go back, so the sets of vetted versions only grow.
LEMMA RolledOutGrows ==
    ASSUME IInv, TypeOK', RowsGrow, NEW ref \in ModelRefs
    PROVE  RolledOut(ref) \subseteq RolledOut(ref)' /\ Vetted(ref) \subseteq Vetted(ref)'
  <1>1. ASSUME NEW id \in RolloutIDs, rollout[id] # NoRow,
               rollout[id].stage \in {"canary_50", "stable"}
        PROVE  rollout'[id].stage \in {"canary_50", "stable"}
    <2>1. rollout[id].stage \in Stages
      BY <1>1 DEF IInv, TypeOK, Row
    <2>2. rollout'[id] # NoRow /\ Level[rollout[id].stage] <= Level[rollout'[id].stage]
      BY <1>1 DEF RowsGrow
    <2>3. rollout'[id].stage \in Stages
      BY <2>2 DEF TypeOK, Row
    <2>4. Level[rollout[id].stage] >= 3
      BY <1>1, <2>1, LevelOfStage
    <2>5. Level[rollout'[id].stage] >= 3
      BY <2>1, <2>2, <2>3, <2>4, LevelOfStage
    <2>. QED BY <2>3, <2>5, LevelOfStage
  <1>2. RolledOut(ref) \subseteq RolledOut(ref)'
    BY <1>1 DEF RolledOut, RowsGrow
  <1>. QED BY <1>2 DEF Vetted

\* A call that has passed its checks at canary_50 is about a rolled-out version.
LEMMA ActivatedIsRolledOut ==
    ASSUME IInv, NEW c \in Callers, call[c].pc \in {"set_active", "publish_active"}
    PROVE  call[c].row.version \in RolledOut(call[c].row.ref)
  <1> DEFINE k == call[c]
  <1>1. /\ k.id \in RolloutIDs /\ k.row.version \in Versions
        /\ rollout[k.id].stage \in Stages /\ WriteOK(k)
    BY WritingCall
  <1>2. /\ k.row.stage = "canary_50"
        /\ Level[k.row.stage] <= Level[rollout[k.id].stage]
        /\ rollout[k.id] # NoRow
        /\ rollout[k.id].ref = k.row.ref
        /\ rollout[k.id].version = k.row.version
    BY <1>1 DEF WriteOK
  <1>3. Level["canary_50"] >= 3 /\ Level["canary_50"] \in Nat
    BY LevelOfStage DEF Stages
  <1>4. Level[rollout[k.id].stage] >= 3
    BY <1>1, <1>2, <1>3, LevelOfStage
  <1>5. rollout[k.id].stage \in {"canary_50", "stable"}
    BY <1>1, <1>4, LevelOfStage
  <1>. QED BY <1>1, <1>2, <1>5 DEF RolledOut

\* model_active moves only to rolled-out versions.
LEMMA ActiveStaysRolledOut ==
    ASSUME IInv, TypeOK', RowsGrow, NEW c \in Callers,
           EnterCall(c) \/ CallStep(c) \/ Fail(c), NEW ref \in ModelRefs
    PROVE  /\ model_active[ref] \in RolledOut(ref) => model_active'[ref] \in RolledOut(ref)'
           /\ model_active'[ref] = model_active[ref] \/ model_active'[ref] \in RolledOut(ref)'
  <1>1. RolledOut(ref) \subseteq RolledOut(ref)'
    BY RolledOutGrows
  <1>2. CASE model_active' = model_active
    BY <1>1, <1>2
  <1>3. CASE SetActive(c)
    <2>1. call[c].pc = "set_active"
      BY <1>3 DEF SetActive, At
    <2>2. call[c].row.version \in RolledOut(call[c].row.ref)
      BY <2>1, ActivatedIsRolledOut
    <2>3. model_active'[ref] = IF ref = call[c].row.ref THEN call[c].row.version
                               ELSE model_active[ref]
      BY <1>3 DEF SetActive, IInv, TypeOK
    <2>. QED BY <1>1, <2>2, <2>3
  <1>4. model_active' = model_active \/ SetActive(c)
    BY StepKinds DEF Quiet, InsertRollout, PublishActive, PublishCanaryState, UpdateRollout
  <1>. QED BY <1>2, <1>3, <1>4

-----------------------------------------------------------------------------
(* InFlight.                                                               *)

\* Whatever a step does, it leaves the calls of the others in order.
LEMMA OthersInFlight ==
    ASSUME IInv, TypeOK', RowsGrow,
           NEW c \in Callers, EnterCall(c) \/ CallStep(c) \/ Fail(c),
           NEW d \in Callers, call'[d] = call[d]
    PROVE  /\ (call[d] \in Creating => call[d].stable \in Vetted(call[d].ref))'
           /\ (call[d] \in Writing => WriteOK(call[d]))'
  <1>1. ASSUME call[d] \in Creating
        PROVE  (call[d].stable \in Vetted(call[d].ref))'
    <2>1. call[d].ref \in ModelRefs
      BY <1>1 DEF Creating
    <2>. QED BY <1>1, <2>1, RolledOutGrows DEF IInv, InFlight
  <1>2. ASSUME call[d] \in Writing
        PROVE  WriteOK(call[d])'
    <2> DEFINE k == call[d]
    <2>1. WriteOK(k)
      BY <1>2 DEF IInv, InFlight
    <2>2. k.id \in RolloutIDs /\ k.row \in Row
      BY <1>2 DEF Writing
    <2>3. k.row.ref \in ModelRefs /\ k.row.stage \in Stages
      BY <2>2 DEF Row
    <2>4. /\ rollout[k.id] # NoRow
          /\ rollout[k.id].ref = k.row.ref
          /\ rollout[k.id].version = k.row.version
          /\ rollout[k.id].stable = k.row.stable
          /\ Level[k.row.stage] <= Level[rollout[k.id].stage]
      BY <2>1 DEF WriteOK
    <2>5. /\ rollout'[k.id] # NoRow
          /\ rollout'[k.id].ref = k.row.ref
          /\ rollout'[k.id].version = k.row.version
          /\ rollout'[k.id].stable = k.row.stable
          /\ Level[rollout[k.id].stage] <= Level[rollout'[k.id].stage]
      BY <2>2, <2>4 DEF RowsGrow
    <2>6. rollout[k.id].stage \in Stages /\ rollout'[k.id].stage \in Stages
      BY <2>2, <2>4, <2>5 DEF IInv, TypeOK, Row
    <2>7. Level[k.row.stage] <= Level[rollout'[k.id].stage]
      BY <2>3, <2>4, <2>5, <2>6, LevelOfStage
    <2>8. model_active[k.row.ref] \in RolledOut(k.row.ref)
            => model_active'[k.row.ref] \in RolledOut(k.row.ref)'
      BY <2>3, ActiveStaysRolledOut
    <2>. QED BY <2>1, <2>5, <2>7, <2>8 DEF WriteOK
  <1>. QED BY <1>1, <1>2

\* The caller that moves is in order after its step, too.
LEMMA MoverInFlight ==
    ASSUME IInv, TypeOK', RowsGrow,
           NEW c \in Callers, EnterCall(c) \/ CallStep(c) \/ Fail(c)
    PROVE  /\ (call[c] \in Creating => call[c].stable \in Vetted(call[c].ref))'
           /\ (call[c] \in Writing => WriteOK(call[c]))'
  <1> DEFINE Fine == /\ (call[c] \in Creating => call[c].stable \in Vetted(call[c].ref))'
                     /\ (call[c] \in Writing => WriteOK(call[c]))'
  <1>0. TypeOK
    BY DEF IInv
  <1>1. ASSUME NEW k \in {Idle} \cup Validated \cup Reading, Goto(c, k)
        PROVE  Fine
    <2>1. call'[c] = k
      BY <1>0, <1>1, GotoType DEF Calls
    <2>. QED BY <2>1, Disjoint
  <1>2. ASSUME NEW k \in Creating, Goto(c, k), k.stable \in Vetted(k.ref), k.ref \in ModelRefs
        PROVE  Fine
    <2>1. call'[c] = k
      BY <1>0, <1>2, GotoType DEF Calls
    <2>2. k.stable \in Vetted(k.ref)'
      BY <1>2, RolledOutGrows
    <2>. QED BY <2>1, <2>2, Disjoint
  <1>3. ASSUME NEW k \in Writing, Goto(c, k), WriteOK(k)'
        PROVE  Fine
    <2>1. call'[c] = k
      BY <1>0, <1>3, GotoType DEF Calls
    <2>. QED BY <1>3, <2>1, Disjoint
  <1>4. CASE EnterCall(c)
    BY <1>0, <1>1, <1>4, EnterMoves
  <1>5. CASE GetActiveManifest(c)
    <2>1. \A ref \in ModelRefs : model_active[ref] \in Vetted(ref)
      BY DEF IInv, OnlyVettedIsLive
    <2>2. CASE Goto(c, Idle)
      BY <1>1, <2>2
    <2>3. CASE ~Goto(c, Idle)
      <3>1. PICK k \in Creating : Goto(c, k) /\ k.ref \in ModelRefs /\ k.stable = model_active[k.ref]
        BY <1>0, <1>5, <2>3, GetActiveMoves
      <3>. QED BY <1>2, <2>1, <3>1
    <2>. QED BY <2>2, <2>3
  <1>6. CASE GetRunningRolloutByModelRef(c)
    <2>1. CASE Goto(c, Idle)
      BY <1>1, <2>1
    <2>2. CASE ~Goto(c, Idle)
      <3>1. /\ call[c] \in Creating
            /\ \E k \in Creating : Goto(c, k) /\ k.ref = call[c].ref /\ k.stable = call[c].stable
        BY <1>0, <1>6, <2>2, GetRunningMoves
      <3>2. call[c].stable \in Vetted(call[c].ref)
        BY <3>1 DEF IInv, InFlight
      <3>3. call[c].ref \in ModelRefs
        BY <3>1 DEF Creating
      <3>. QED BY <1>2, <3>1, <3>2, <3>3
    <2>. QED BY <2>1, <2>2
  <1>7. CASE InsertRollout(c)
    BY <1>0, <1>1, <1>7, InsertMoves
  <1>8. CASE GetRollout(c)
    <2>1. CASE Goto(c, Idle)
      BY <1>1, <2>1
    <2>2. CASE ~Goto(c, Idle)
      <3>1. PICK k \in Writing :
                /\ Goto(c, k)
                /\ rollout[k.id] # NoRow
                /\ k.row = rollout[k.id]
                /\ k.row \in Row
                /\ Advances(k.op) => k.row.stage # "stable"
                /\ k.pc = "set_active" => Advances(k.op) /\ k.row.stage = "canary_50"
                /\ k.pc = "publish" => ~(Advances(k.op) /\ k.row.stage = "canary_50")
                /\ k.pc \in {"set_active", "publish"}
        BY <1>0, <1>8, <2>2, GetMoves
      <3>2. rollout' = rollout
        BY <1>8 DEF GetRollout
      <3>3. Level[k.row.stage] \in Nat
        BY <3>1, LevelOfStage DEF Row
      <3>4. WriteOK(k)'
        BY <3>1, <3>2, <3>3 DEF WriteOK
      <3>. QED BY <1>3, <3>1, <3>4
    <2>. QED BY <2>1, <2>2
  <1>9. CASE SetActive(c)
    <2>1. call[c].pc = "set_active"
      BY <1>9 DEF SetActive, At
    <2>2. call[c] \in Writing /\ WriteOK(call[c]) /\ call[c].row.ref \in ModelRefs
      BY <2>1, WritingCall
    <2>3. PICK k \in Writing :
            /\ k = [call[c] EXCEPT !.pc = "publish_active"]
            /\ k.pc = "publish_active" /\ k.op = call[c].op
            /\ k.id = call[c].id /\ k.row = call[c].row
      BY <2>2, WritingMoves
    <2>4. rollout' = rollout /\ Goto(c, k)
      BY <1>9, <2>3 DEF SetActive
    <2>5. model_active'[k.row.ref] \in RolledOut(k.row.ref)'
      <3>1. model_active'[k.row.ref] = k.row.version
        BY <1>9, <2>2, <2>3 DEF SetActive, IInv, TypeOK
      <3>2. k.row.version \in RolledOut(k.row.ref)
        BY <2>1, <2>3, ActivatedIsRolledOut
      <3>. QED BY <2>2, <2>3, <3>1, <3>2, RolledOutGrows
    <2>6. WriteOK(k)'
      BY <2>1, <2>2, <2>3, <2>4, <2>5 DEF WriteOK
    <2>. QED BY <1>3, <2>3, <2>4, <2>6
  <1>10. CASE PublishActive(c)
    <2>1. call[c].pc = "publish_active"
      BY <1>10 DEF PublishActive, At
    <2>2. call[c] \in Writing /\ WriteOK(call[c])
      BY <2>1, WritingCall
    <2>3. PICK k \in Writing :
            /\ k = [call[c] EXCEPT !.pc = "update"]
            /\ k.pc = "update" /\ k.op = call[c].op
            /\ k.id = call[c].id /\ k.row = call[c].row
      BY <2>2, WritingMoves
    <2>4. rollout' = rollout /\ model_active' = model_active /\ Goto(c, k)
      BY <1>10, <2>3 DEF PublishActive
    <2>5. RolledOut(k.row.ref)' = RolledOut(k.row.ref)
      BY <2>4 DEF RolledOut
    <2>6. WriteOK(k)'
      BY <2>1, <2>2, <2>3, <2>4, <2>5 DEF WriteOK
    <2>. QED BY <1>3, <2>3, <2>4, <2>6
  <1>11. CASE PublishCanaryState(c)
    <2>1. call[c].pc = "publish"
      BY <1>11 DEF PublishCanaryState, At
    <2>2. call[c] \in Writing /\ WriteOK(call[c])
      BY <2>1, WritingCall
    <2>3. PICK k \in Writing :
            /\ k = [call[c] EXCEPT !.pc = "update"]
            /\ k.pc = "update" /\ k.op = call[c].op
            /\ k.id = call[c].id /\ k.row = call[c].row
      BY <2>2, WritingMoves
    <2>4. rollout' = rollout /\ Goto(c, k)
      BY <1>11, <2>3 DEF PublishCanaryState
    <2>5. WriteOK(k)'
      BY <2>1, <2>2, <2>3, <2>4 DEF WriteOK
    <2>. QED BY <1>3, <2>3, <2>4, <2>5
  <1>12. CASE UpdateRollout(c) \/ Fail(c)
    BY <1>1, <1>12 DEF UpdateRollout, Fail
  <1>. QED BY <1>4, <1>5, <1>6, <1>7, <1>8, <1>9, <1>10, <1>11, <1>12 DEF CallStep

\* InFlight is kept.
LEMMA StepInFlight ==
    ASSUME IInv, TypeOK', RowsGrow,
           NEW c \in Callers, EnterCall(c) \/ CallStep(c) \/ Fail(c)
    PROVE  InFlight'
  <1>1. \A d \in Callers : d # c => call'[d] = call[d]
    BY DEF IInv, TypeOK, Goto, EnterCall, CreateRollout, PromoteRollout, AbortRollout,
           AutoAdvance, AutoRollback, Enter, CallStep, GetActiveManifest,
           GetRunningRolloutByModelRef, InsertRollout, GetRollout, SetActive,
           PublishActive, PublishCanaryState, UpdateRollout, Fail
  <1>2. ASSUME NEW d \in Callers
        PROVE  /\ (call[d] \in Creating => call[d].stable \in Vetted(call[d].ref))'
               /\ (call[d] \in Writing => WriteOK(call[d]))'
    <2>1. CASE d = c
      BY <2>1, MoverInFlight
    <2>2. CASE d # c
      BY <1>1, <2>2, OthersInFlight
    <2>. QED BY <2>1, <2>2
  <1>. QED BY <1>2 DEF InFlight

-----------------------------------------------------------------------------
(* The rows and the envelopes.                                             *)

\* RowsInv is kept.
LEMMA StepRowsInv ==
    ASSUME IInv, TypeOK', RowsGrow,
           NEW c \in Callers, EnterCall(c) \/ CallStep(c) \/ Fail(c)
    PROVE  RowsInv'
  <1>0. ASSUME NEW id \in RolloutIDs, rollout[id] # NoRow
        PROVE  (rollout[id].stable \in Vetted(rollout[id].ref))'
    <2>1. PICK ref \in ModelRefs : ref = rollout[id].ref
      BY <1>0 DEF IInv, TypeOK, Row
    <2>2. rollout[id].stable \in Vetted(ref)
      BY <1>0, <2>1 DEF IInv, RowsInv
    <2>3. Vetted(ref) \subseteq Vetted(ref)'
      BY RolledOutGrows
    <2>4. rollout'[id].ref = ref /\ rollout'[id].stable = rollout[id].stable
      BY <1>0, <2>1 DEF RowsGrow
    <2>. QED BY <2>2, <2>3, <2>4
  <1>1. ASSUME NEW id \in RolloutIDs, rollout'[id] = rollout[id], rollout[id] # NoRow
        PROVE  /\ (rollout[id].stable \in Vetted(rollout[id].ref))'
               /\ (rollout[id].status = "promoted" <=> rollout[id].stage = "stable")'
    BY <1>0, <1>1 DEF IInv, RowsInv
  <1>2. CASE rollout' = rollout
    BY <1>1, <1>2 DEF RowsInv
  <1>3. CASE InsertRollout(c)
    <2>1. TypeOK
      BY DEF IInv
    <2>2. call[c] \in Creating
      BY <1>3, <2>1, InsertMoves
    <2>3. PICK id \in RolloutIDs, row \in Row :
                /\ rollout[id] = NoRow
                /\ rollout' = [rollout EXCEPT ![id] = row]
                /\ row.ref = call[c].ref
                /\ row.stable = call[c].stable
                /\ row.stage = "pending"
                /\ row.status = "running"
      BY <1>3, <2>1, InsertMoves
    <2>4. rollout'[id] = row /\ \A j \in RolloutIDs : j # id => rollout'[j] = rollout[j]
      BY <2>1, <2>3 DEF TypeOK
    <2>5. row.ref \in ModelRefs
      BY DEF Row
    <2>6. row.stable \in Vetted(row.ref)
      BY <2>2, <2>3 DEF IInv, InFlight
    <2>7. row.stable \in Vetted(row.ref)'
      BY <2>5, <2>6, RolledOutGrows
    <2>. QED BY <1>1, <2>3, <2>4, <2>7 DEF RowsInv
  <1>4. CASE UpdateRollout(c) /\ rollout' # rollout
    <2>1. call[c].pc = "update"
      BY <1>4 DEF UpdateRollout, At
    <2>2. PICK k \in Writing : k = call[c]
      BY <2>1, WritingCall
    <2>3. /\ k.id \in RolloutIDs /\ k.op \in Ops /\ rollout[k.id] \in Row
          /\ rollout[k.id].stage \in Stages
      BY <2>1, <2>2, WritingCall
    <2>4. /\ Running(k.id)
          /\ Advances(k.op) => rollout[k.id].stage # "stable"
          /\ rollout' = [rollout EXCEPT ![k.id] = NewRow(k.op, rollout[k.id])]
      BY <1>4, <2>2, SwapEffect
    <2>5. PICK row \in Row : row = rollout[k.id]
      BY <2>3
    <2>6. /\ rollout'[k.id] = NewRow(k.op, row)
          /\ \A j \in RolloutIDs : j # k.id => rollout'[j] = rollout[j]
      BY <2>3, <2>4, <2>5 DEF IInv, TypeOK
    <2>7. row.status = "running" /\ row.stage # "stable"
      <3>1. row # NoRow /\ row.status = "running"
        BY <2>4, <2>5 DEF Running
      <3>. QED BY <2>3, <2>5, <3>1 DEF IInv, RowsInv
    <2>8. NewRow(k.op, row).status = "promoted" <=> NewRow(k.op, row).stage = "stable"
      BY <2>3, <2>7, NewRowType
    <2>9. rollout[k.id] # NoRow
      BY <2>3, ConstantsAssumption
    <2>. QED BY <1>0, <1>1, <2>3, <2>6, <2>8, <2>9 DEF RowsInv
  <1>5. rollout' = rollout \/ InsertRollout(c) \/ UpdateRollout(c)
    BY StepKinds DEF Quiet, SetActive, PublishActive, PublishCanaryState
  <1>. QED BY <1>2, <1>3, <1>4, <1>5

\* OnlyVettedIsLive is kept.
LEMMA StepOnlyVettedIsLive ==
    ASSUME IInv, TypeOK', RowsGrow,
           NEW c \in Callers, EnterCall(c) \/ CallStep(c) \/ Fail(c)
    PROVE  OnlyVettedIsLive'
  <1>. SUFFICES ASSUME NEW ref \in ModelRefs
                PROVE  (model_active[ref] \in Vetted(ref) /\ active[ref].stable \in Vetted(ref))'
    BY DEF OnlyVettedIsLive
  <1>1. /\ model_active[ref] \in Vetted(ref) /\ active[ref].stable \in Vetted(ref)
        /\ Vetted(ref) \subseteq Vetted(ref)'
    BY RolledOutGrows DEF IInv, OnlyVettedIsLive
  <1>2. model_active'[ref] \in Vetted(ref)'
    BY <1>1, ActiveStaysRolledOut DEF Vetted
  <1>3. CASE active'[ref] = active[ref]
    BY <1>1, <1>2, <1>3
  <1>4. CASE PublishActive(c) /\ ref = call[c].row.ref
    <2>1. call[c].pc = "publish_active"
      BY <1>4 DEF PublishActive, At
    <2>2. call[c].row.version \in Vetted(ref)
      BY <1>4, <2>1, ActivatedIsRolledOut DEF Vetted
    <2>3. active'[ref].stable = call[c].row.version
      BY <1>4 DEF PublishActive, IInv, TypeOK
    <2>. QED BY <1>1, <1>2, <2>2, <2>3
  <1>5. CASE PublishCanaryState(c) /\ ref = call[c].row.ref
    <2>1. call[c].pc = "publish"
      BY <1>5 DEF PublishCanaryState, At
    <2>2. WriteOK(call[c]) /\ call[c].id \in RolloutIDs
      BY <2>1, WritingCall
    <2>3. call[c].row.stable \in Vetted(ref)
      BY <1>5, <2>2 DEF WriteOK, IInv, RowsInv
    <2>4. active'[ref].stable = call[c].row.stable
      BY <1>5 DEF PublishCanaryState, CanaryState, IInv, TypeOK
    <2>. QED BY <1>1, <1>2, <2>3, <2>4
  <1>6. \/ active'[ref] = active[ref]
        \/ (PublishActive(c) \/ PublishCanaryState(c)) /\ ref = call[c].row.ref
    <2>1. ASSUME NEW r, NEW e, active' = [active EXCEPT ![r] = e]
          PROVE  active'[ref] = active[ref] \/ ref = r
      BY <2>1 DEF IInv, TypeOK
    <2>. QED BY <2>1, StepKinds DEF Quiet, InsertRollout, SetActive, PublishActive,
                                    PublishCanaryState, UpdateRollout
  <1>. QED BY <1>3, <1>4, <1>5, <1>6

\* The rollout that explains an envelope's canary goes on explaining it.
Explains(id, ref, env) ==
    /\ rollout[id] # NoRow
    /\ rollout[id].ref = ref
    /\ rollout[id].version = env.canary
    /\ \E s \in Stages :
         /\ Level[s] <= Level[rollout[id].stage] + 1
         /\ env.percent <= stagePercent[s]

\* An explanation survives every step.
LEMMA ExplainsGrows ==
    ASSUME IInv, TypeOK', RowsGrow, NEW id \in RolloutIDs, NEW ref, NEW env,
           Explains(id, ref, env)
    PROVE  Explains(id, ref, env)'
  <1>1. /\ rollout[id] # NoRow /\ rollout'[id] # NoRow
        /\ rollout'[id].ref = ref /\ rollout'[id].version = env.canary
        /\ Level[rollout[id].stage] <= Level[rollout'[id].stage]
    BY DEF Explains, RowsGrow
  <1>2. PICK s \in Stages : Level[s] <= Level[rollout[id].stage] + 1 /\ env.percent <= stagePercent[s]
    BY DEF Explains
  <1>3. rollout[id].stage \in Stages /\ rollout'[id].stage \in Stages
    BY <1>1 DEF IInv, TypeOK, Row
  <1>4. Level[s] <= Level[rollout'[id].stage] + 1
    BY <1>1, <1>2, <1>3, LevelOfStage
  <1>. QED BY <1>1, <1>2, <1>4 DEF Explains

\* ExposureBounded is kept.
LEMMA StepExposureBounded ==
    ASSUME IInv, TypeOK', RowsGrow,
           NEW c \in Callers, EnterCall(c) \/ CallStep(c) \/ Fail(c)
    PROVE  ExposureBounded'
  <1>. SUFFICES ASSUME NEW ref \in ModelRefs, active'[ref].canary # NoVersion
                PROVE  \E id \in RolloutIDs : Explains(id, ref, active[ref])'
    BY DEF ExposureBounded, Explains
  <1>1. CASE active'[ref] = active[ref]
    <2>1. PICK id \in RolloutIDs : Explains(id, ref, active[ref])
      BY <1>1 DEF IInv, ExposureBounded, Explains
    <2>2. PICK env : env = active[ref]
      OBVIOUS
    <2>3. Explains(id, ref, env)'
      BY <2>1, <2>2, ExplainsGrows
    <2>. QED BY <1>1, <2>2, <2>3
  <1>2. CASE PublishActive(c) /\ ref = call[c].row.ref
    <2>1. active'[ref].canary = NoVersion
      BY <1>2 DEF PublishActive, IInv, TypeOK
    <2>. QED BY <2>1
  <1>3. CASE PublishCanaryState(c) /\ ref = call[c].row.ref
    <2>1. call[c].pc = "publish"
      BY <1>3 DEF PublishCanaryState, At
    <2>2. PICK k \in Writing : k = call[c]
      BY <2>1, WritingCall
    <2>3. /\ WriteOK(k) /\ k.id \in RolloutIDs /\ k.row.stage \in Stages
          /\ rollout[k.id].stage \in Stages
      BY <2>1, <2>2, WritingCall
    <2>4. PICK env : env = CanaryState(k.op, k.row)
      OBVIOUS
    <2>5. active'[ref] = env
      BY <1>3, <2>2, <2>4 DEF PublishCanaryState, IInv, TypeOK
    <2>6. Advances(k.op)
      BY <2>4, <2>5 DEF CanaryState
    <2>7. env.canary = k.row.version /\ env.percent = stagePercent[nextStage[k.row.stage]]
      BY <2>4, <2>6 DEF CanaryState
    <2>8. k.row.stage # "stable"
      BY <2>3, <2>6 DEF WriteOK
    <2>9. nextStage[k.row.stage] \in Stages
      BY <2>3, <2>8, NextOfStage
    <2>10. Level[nextStage[k.row.stage]] <= Level[rollout[k.id].stage] + 1
      <3>1. Level[nextStage[k.row.stage]] = Level[k.row.stage] + 1
        BY <2>3, <2>8, NextStageClimbs
      <3>2. Level[k.row.stage] <= Level[rollout[k.id].stage]
        BY <2>3 DEF WriteOK
      <3>. QED BY <2>3, <3>1, <3>2, LevelOfStage
    <2>11. env.percent <= stagePercent[nextStage[k.row.stage]]
      BY <2>7, <2>9, StagePercents
    <2>12. Explains(k.id, ref, env)
      BY <1>3, <2>2, <2>3, <2>7, <2>9, <2>10, <2>11 DEF Explains, WriteOK
    <2>13. Explains(k.id, ref, env)'
      BY <2>3, <2>12, ExplainsGrows
    <2>. QED BY <2>3, <2>5, <2>13
  <1>4. \/ active'[ref] = active[ref]
        \/ (PublishActive(c) \/ PublishCanaryState(c)) /\ ref = call[c].row.ref
    <2>1. ASSUME NEW r, NEW e, active' = [active EXCEPT ![r] = e]
          PROVE  active'[ref] = active[ref] \/ ref = r
      BY <2>1 DEF IInv, TypeOK
    <2>. QED BY <2>1, StepKinds DEF Quiet, InsertRollout, SetActive, PublishActive,
                                    PublishCanaryState, UpdateRollout
  <1>. QED BY <1>1, <1>2, <1>3, <1>4

\* PromotedWasActivated is kept.
LEMMA StepPromotedWasActivated ==
    ASSUME IInv, TypeOK', RowsGrow,
           NEW c \in Callers, EnterCall(c) \/ CallStep(c) \/ Fail(c)
    PROVE  PromotedWasActivated'
  <1>0. ASSUME NEW id \in RolloutIDs, rollout[id] # NoRow, rollout[id].status = "promoted"
        PROVE  (model_active[rollout[id].ref] \in RolledOut(rollout[id].ref))'
    <2>1. PICK ref \in ModelRefs : ref = rollout[id].ref
      BY <1>0 DEF IInv, TypeOK, Row
    <2>2. model_active[ref] \in RolledOut(ref)
      BY <1>0, <2>1 DEF IInv, PromotedWasActivated
    <2>3. (model_active[ref] \in RolledOut(ref))'
      BY <2>2, ActiveStaysRolledOut
    <2>4. rollout'[id].ref = ref
      BY <1>0, <2>1 DEF RowsGrow
    <2>. QED BY <2>3, <2>4
  <1>1. CASE rollout' = rollout
    BY <1>0, <1>1 DEF PromotedWasActivated
  <1>2. CASE InsertRollout(c)
    <2>1. TypeOK
      BY DEF IInv
    <2>2. PICK id \in RolloutIDs, row \in Row :
                rollout' = [rollout EXCEPT ![id] = row] /\ row.status = "running"
      BY <1>2, <2>1, InsertMoves
    <2>3. rollout'[id] = row /\ \A j \in RolloutIDs : j # id => rollout'[j] = rollout[j]
      BY <2>1, <2>2 DEF TypeOK
    <2>. QED BY <1>0, <2>2, <2>3 DEF PromotedWasActivated
  <1>3. CASE UpdateRollout(c) /\ rollout' # rollout
    <2>1. call[c].pc = "update"
      BY <1>3 DEF UpdateRollout, At
    <2>2. PICK k \in Writing : k = call[c]
      BY <2>1, WritingCall
    <2>3. /\ WriteOK(k) /\ k.id \in RolloutIDs /\ k.op \in Ops /\ rollout[k.id] \in Row
          /\ k.row.ref \in ModelRefs /\ rollout[k.id].stage \in Stages
      BY <2>1, <2>2, WritingCall
    <2>4. /\ rollout[k.id].stage = k.row.stage
          /\ Advances(k.op) => rollout[k.id].stage # "stable"
          /\ rollout' = [rollout EXCEPT ![k.id] = NewRow(k.op, rollout[k.id])]
      BY <1>3, <2>2, SwapEffect
    <2>5. PICK row \in Row : row = rollout[k.id]
      BY <2>3
    <2>6. /\ rollout'[k.id] = NewRow(k.op, row)
          /\ \A j \in RolloutIDs : j # k.id => rollout'[j] = rollout[j]
      BY <2>3, <2>4, <2>5 DEF IInv, TypeOK
    <2>7. ASSUME NewRow(k.op, row).status = "promoted"
          PROVE  (model_active[rollout[k.id].ref] \in RolledOut(rollout[k.id].ref))'
      <3>1. Advances(k.op) /\ nextStage[row.stage] = "stable"
        BY <2>3, <2>4, <2>5, <2>7, NewRowType
      <3>2. k.row.stage = "canary_50"
        BY <2>3, <2>4, <2>5, <3>1, NextOfStage
      <3>3. model_active[k.row.ref] \in RolledOut(k.row.ref)
        BY <2>1, <2>2, <2>3, <3>1, <3>2 DEF WriteOK
      <3>4. (model_active[k.row.ref] \in RolledOut(k.row.ref))'
        BY <2>3, <3>3, ActiveStaysRolledOut
      <3>5. rollout'[k.id].ref = k.row.ref
        BY <2>3 DEF WriteOK, RowsGrow
      <3>. QED BY <3>4, <3>5
    <2>. QED BY <1>0, <2>6, <2>7 DEF PromotedWasActivated
  <1>4. rollout' = rollout \/ InsertRollout(c) \/ UpdateRollout(c)
    BY StepKinds DEF Quiet, SetActive, PublishActive, PublishCanaryState
  <1>. QED BY <1>1, <1>2, <1>3, <1>4

-----------------------------------------------------------------------------
(* The theorems.                                                           *)

\* IInv is kept by every step.
LEMMA StepIInv == IInv /\ [Next]_rolloutVars => IInv'
  <1>. SUFFICES ASSUME IInv, [Next]_rolloutVars PROVE IInv'
    OBVIOUS
  <1>1. CASE Next
    <2>1. PICK c \in Callers : EnterCall(c) \/ CallStep(c) \/ Fail(c)
      BY <1>1 DEF Next
    <2>2. TypeOK'
      BY <2>1, StepTypeOK
    <2>3. RowsGrow
      BY <2>1, StepRowsGrow
    <2>4. InFlight' /\ RowsInv'
      BY <2>1, <2>2, <2>3, StepInFlight, StepRowsInv
    <2>5. OnlyVettedIsLive' /\ ExposureBounded' /\ PromotedWasActivated'
      BY <2>1, <2>2, <2>3, StepOnlyVettedIsLive, StepExposureBounded,
         StepPromotedWasActivated
    <2>. QED BY <2>2, <2>4, <2>5 DEF IInv
  <1>2. CASE UNCHANGED rolloutVars
    <2>. USE <1>2 DEF rolloutVars
    <2>1. RowsInv' /\ TypeOK'
      BY DEF IInv, RowsInv, TypeOK, Vetted, RolledOut
    <2>2. InFlight'
      BY DEF IInv, InFlight, WriteOK, Vetted, RolledOut
    <2>3. OnlyVettedIsLive' /\ ExposureBounded' /\ PromotedWasActivated'
      BY DEF IInv, OnlyVettedIsLive, ExposureBounded, PromotedWasActivated, Vetted, RolledOut
    <2>. QED BY <2>1, <2>2, <2>3 DEF IInv
  <1>. QED BY <1>1, <1>2

\* The inductive invariant holds in every reachable state.
THEOREM Invariance == Spec => []IInv
  <1>1. Init => IInv
    BY InitIInv
  <1>2. IInv /\ [Next]_rolloutVars => IInv'
    BY StepIInv
  <1>. QED BY <1>1, <1>2, PTL DEF Spec

(* Rows, tables, envelopes and calls keep their types: in particular an    *)
(* advance never stores the empty stage that nextStage gives for the last. *)
THEOREM TypeCorrect == Spec => []TypeOK
  <1>1. IInv => TypeOK
    BY DEF IInv
  <1>. QED BY <1>1, Invariance, PTL

(* Nothing becomes the stable version, in model_active or in etcd, that no *)
(* rollout has brought to canary_50 (advanceStage and revertCanary, under  *)
(* any interleaving and with calls dying at any point).                    *)
THEOREM VettedLive == Spec => []OnlyVettedIsLive
  <1>1. IInv => OnlyVettedIsLive
    BY DEF IInv
  <1>. QED BY <1>1, Invariance, PTL

(* The share of traffic in etcd is at most one stage ahead of the rollout  *)
(* table, although the envelope is written first and from a stale row.     *)
THEOREM BoundedExposure == Spec => []ExposureBounded
  <1>1. IInv => ExposureBounded
    BY DEF IInv
  <1>. QED BY <1>1, Invariance, PTL

(* What the rollout table calls promoted has been activated before.        *)
THEOREM PromotedActivated == Spec => []PromotedWasActivated
  <1>1. IInv => PromotedWasActivated
    BY DEF IInv
  <1>. QED BY <1>1, Invariance, PTL

-----------------------------------------------------------------------------
(* Rollout implements StagedGate.                                          *)

\* A swap that applies climbs one stage, or stops the rollout where it is.
LEMMA SwapIsGateStep ==
    ASSUME IInv, NEW c \in Callers, UpdateRollout(c), rollout' # rollout
    PROVE  \E id \in RolloutIDs : Gate!Climb(id) \/ Gate!Stop(id)
  <1> DEFINE lev == [id \in RolloutIDs |->
                       IF rollout[id] = NoRow THEN 0 ELSE Level[rollout[id].stage]]
             out == [id \in RolloutIDs |->
                       IF rollout[id] = NoRow THEN "unborn" ELSE rollout[id].status]
  <1>1. call[c].pc = "update"
    BY DEF UpdateRollout, At
  <1>2. PICK k \in Writing : k = call[c]
    BY <1>1, WritingCall
  <1>3. /\ k.id \in RolloutIDs /\ k.op \in Ops /\ rollout[k.id] \in Row
        /\ rollout[k.id].stage \in Stages
    BY <1>1, <1>2, WritingCall
  <1>4. /\ Running(k.id)
        /\ Advances(k.op) => rollout[k.id].stage # "stable"
        /\ rollout' = [rollout EXCEPT ![k.id] = NewRow(k.op, rollout[k.id])]
    BY <1>2, SwapEffect
  <1>5. PICK row \in Row : row = rollout[k.id]
    BY <1>3
  <1>6. /\ rollout'[k.id] = NewRow(k.op, row)
        /\ \A j \in RolloutIDs : j # k.id => rollout'[j] = rollout[j]
    BY <1>3, <1>4, <1>5 DEF IInv, TypeOK
  <1>7. /\ row # NoRow /\ row.status = "running"
        /\ row.stage \in Stages
        /\ Advances(k.op) => row.stage # "stable"
    BY <1>3, <1>4, <1>5 DEF Running
  <1>8. NewRow(k.op, row) # NoRow
    BY <1>3, <1>7, NewRowType, ConstantsAssumption
  <1>9. lev[k.id] = Level[row.stage] /\ out[k.id] = "running"
    BY <1>3, <1>5, <1>7
  <1>10. /\ lev' = [lev EXCEPT ![k.id] = Level[NewRow(k.op, row).stage]]
         /\ out' = [out EXCEPT ![k.id] = NewRow(k.op, row).status]
    BY <1>3, <1>6, <1>8
  <1>11. CASE Advances(k.op)
    <2>1. /\ NewRow(k.op, row).stage = nextStage[row.stage]
          /\ NewRow(k.op, row).status =
                IF nextStage[row.stage] = "stable" THEN "promoted" ELSE "running"
      BY <1>3, <1>7, <1>11, NewRowType
    <2>2. Level[nextStage[row.stage]] = Level[row.stage] + 1
      BY <1>7, <1>11, NextStageClimbs
    <2>3. nextStage[row.stage] = "stable" <=> row.stage = "canary_50"
      BY <1>7, NextOfStage
    <2>4. Level[row.stage] + 1 = 4 <=> row.stage = "canary_50"
      BY <1>7, <1>11, LevelOfStage
    <2>5. Level[row.stage] < 4
      BY <1>7, <1>11, LevelOfStage
    <2>6. lev' = [lev EXCEPT ![k.id] = lev[k.id] + 1]
      BY <1>9, <1>10, <2>1, <2>2
    <2>7. out' = [out EXCEPT ![k.id] = IF lev[k.id] + 1 = 4 THEN "promoted" ELSE "running"]
      BY <1>9, <1>10, <2>1, <2>3, <2>4
    <2>8. Gate!Climb(k.id)
      BY <1>9, <2>5, <2>6, <2>7 DEF Gate!Climb
    <2>. QED BY <1>3, <2>8
  <1>12. CASE ~Advances(k.op)
    <2>1. /\ NewRow(k.op, row).stage = row.stage
          /\ NewRow(k.op, row).status \in {"aborted", "rolled_back"}
      BY <1>3, <1>7, <1>12, NewRowType
    <2>2. lev' = lev
      BY <1>9, <1>10, <2>1
    <2>3. Gate!Stop(k.id)
      BY <1>9, <1>10, <2>1, <2>2 DEF Gate!Stop
    <2>. QED BY <1>3, <2>3
  <1>. QED BY <1>11, <1>12

\* An insertion starts a rollout.
LEMMA InsertIsGateStep ==
    ASSUME IInv, NEW c \in Callers, InsertRollout(c)
    PROVE  \E id \in RolloutIDs : Gate!Start(id)
  <1> DEFINE lev == [id \in RolloutIDs |->
                       IF rollout[id] = NoRow THEN 0 ELSE Level[rollout[id].stage]]
             out == [id \in RolloutIDs |->
                       IF rollout[id] = NoRow THEN "unborn" ELSE rollout[id].status]
  <1>1. TypeOK
    BY DEF IInv
  <1>2. PICK i \in RolloutIDs, row \in Row :
              /\ rollout[i] = NoRow
              /\ rollout' = [rollout EXCEPT ![i] = row]
              /\ row.stage = "pending"
              /\ row.status = "running"
    BY <1>1, InsertMoves
  <1>3. rollout'[i] = row /\ \A j \in RolloutIDs : j # i => rollout'[j] = rollout[j]
    BY <1>1, <1>2 DEF TypeOK
  <1>4. row # NoRow
    BY ConstantsAssumption
  <1>5. Level["pending"] = 0
    BY DEF Level, Stages
  <1>6. lev' = lev
    BY <1>2, <1>3, <1>4, <1>5
  <1>7. out[i] = "unborn" /\ out' = [out EXCEPT ![i] = "running"]
    <2>1. out[i] = "unborn"
      BY <1>2
    <2>2. row.status = "running"
      BY <1>2
    <2>3. out' = [out EXCEPT ![i] = row.status]
      BY <1>3, <1>4
    <2>. QED BY <2>1, <2>2, <2>3
  <1>8. Gate!Start(i)
    BY <1>6, <1>7 DEF Gate!Start
  <1>. QED BY <1>8

(* The rollout table is a staged gate (StagedGate): whichever calls race,  *)
(* stages are climbed one at a time and an ended rollout stays ended.      *)
THEOREM ImplementsGate == Spec => StagedGateHolds
  <1>1. Init => Gate!GateInit
    BY DEF Init, Gate!GateInit
  <1>2. IInv /\ [Next]_rolloutVars => [Gate!GateNext]_(Gate!gateVars)
    <2>. SUFFICES ASSUME IInv, [Next]_rolloutVars
                  PROVE  [Gate!GateNext]_(Gate!gateVars)
      OBVIOUS
    <2>1. CASE rollout' = rollout
      BY <2>1 DEF Gate!gateVars
    <2>2. CASE rollout' # rollout
      <3>1. PICK c \in Callers : EnterCall(c) \/ CallStep(c) \/ Fail(c)
        BY <2>2 DEF Next, rolloutVars
      <3>2. InsertRollout(c) \/ UpdateRollout(c)
        BY <2>2, <3>1, StepKinds DEF Quiet, SetActive, PublishActive, PublishCanaryState
      <3>3. CASE InsertRollout(c)
        BY <3>3, InsertIsGateStep DEF Gate!GateNext
      <3>4. CASE UpdateRollout(c)
        BY <2>2, <3>4, SwapIsGateStep DEF Gate!GateNext
      <3>. QED BY <3>2, <3>3, <3>4
    <2>. QED BY <2>1, <2>2
  <1>. QED BY <1>1, <1>2, Invariance, PTL DEF Spec, StagedGateHolds, Gate!GateSpec

(***************************************************************************)
(* The reconciler.                                                         *)
(***************************************************************************)
\* The steps of the control-plane, whether or not faults are over.
ControlPlaneNext == AnalysisNext \/ FaultsEnd

ControlPlaneSpec == AnalysisInit /\ [][ControlPlaneNext]_vars

\* It covers the specification with fairness and the one without.
LEMMA SpecsCovered == (AnalysisSpec => ControlPlaneSpec) /\ (FairSpec => ControlPlaneSpec)
  <1>1. [AnalysisNext]_vars => [ControlPlaneNext]_vars
    BY DEF ControlPlaneNext
  <1>2. [AnalysisNext \/ FaultsEnd]_vars => [ControlPlaneNext]_vars
    BY DEF ControlPlaneNext
  <1>. QED BY <1>1, <1>2, PTL DEF AnalysisSpec, FairSpec, ControlPlaneSpec

-----------------------------------------------------------------------------
(* The inductive invariant.                                                *)

\* The analysis has given the verdict that op acts on, about this stage.
Earned(op, id, stage) ==
    /\ op = "auto_advance" => FirstOf(<<id, stage>>, "Successful")
    /\ op = "auto_rollback" => FirstOf(<<id, stage>>, "Failed")

\* A call of the reconciler is pinned to the stage of a verdict, and once it has
\* read the row, that is the stage it has read.
CallEarned(k) ==
    /\ k \in Reading /\ k.op \in {"auto_advance", "auto_rollback"} =>
          k.requireStage \in Stages /\ Earned(k.op, k.id, k.requireStage)
    /\ k \in Writing => Earned(k.op, k.id, k.row.stage)

EarnedInv ==
    /\ AnalysisTypeOK
    /\ IInv
    /\ \A c \in Callers : CallEarned(call[c])
    /\ RollbackIsEarned

\* The inductive invariant holds at the start.
LEMMA InitEarned == AnalysisInit => EarnedInv
  <1>. SUFFICES ASSUME AnalysisInit PROVE EarnedInv
    OBVIOUS
  <1>1. IInv /\ TypeOK
    BY InitIInv, InitTypeOK DEF AnalysisInit
  <1>2. AnalysisTypeOK
    <2>1. \A o \in Observed : runs[o] \in Seq(Phases)
      BY DEF AnalysisInit
    <2>. QED BY <1>1, <2>1 DEF AnalysisInit, AnalysisTypeOK, Modes
  <1>3. \A c \in Callers : call[c] = Idle
    BY DEF AnalysisInit, Init
  <1>4. Idle \notin Reading /\ Idle \notin Writing
    BY DEF Idle, Reading, Writing
  <1>5. RollbackIsEarned
    BY DEF AnalysisInit, Init, RollbackIsEarned
  <1>. QED BY <1>1, <1>2, <1>3, <1>4, <1>5 DEF EarnedInv, CallEarned

-----------------------------------------------------------------------------
(* The stores and the calls: every step is one of Rollout.                 *)

\* A caller whose process dies or stops leading, busy or not.
LEMMA DropIsRolloutStep ==
    ASSUME TypeOK, NEW c \in Callers, Goto(c, Idle), Quiet
    PROVE  Fail(c) \/ UNCHANGED rolloutVars
  <1>1. CASE call[c] = Idle
    <2>1. call' = call
      BY <1>1 DEF Goto, TypeOK
    <2>. QED BY <2>1 DEF Quiet, rolloutVars
  <1>2. CASE call[c] # Idle
    BY <1>2 DEF Fail, Quiet
  <1>. QED BY <1>1, <1>2

\* What a step of the control-plane is to the stores and the calls.
LEMMA StepIsRolloutStep ==
    ASSUME TypeOK, ControlPlaneNext
    PROVE  \/ UNCHANGED rolloutVars
           \/ \E c \in Callers : EnterCall(c) \/ CallStep(c) \/ Fail(c)
  <1>0. Humans \subseteq Callers /\ Replicas \subseteq Callers
    BY CallersAssumption
  <1>1. ASSUME NEW c \in Humans, HumanCall(c)
        PROVE  EnterCall(c)
    BY <1>1 DEF HumanCall, EnterCall
  <1>2. ASSUME NEW c \in Callers, ServiceStep(c)
        PROVE  CallStep(c)
    BY <1>2 DEF ServiceStep
  <1>3. ASSUME NEW p \in Replicas, AcquireLease(p)
        PROVE  UNCHANGED rolloutVars
    BY <1>3 DEF AcquireLease
  <1>4. ASSUME NEW p \in Replicas, StopLeading(p) \/ Restart(p)
        PROVE  Fail(p) \/ UNCHANGED rolloutVars
    <2>1. Goto(p, Idle) /\ Quiet
      BY <1>4 DEF StopLeading, Restart, Quiet
    <2>. QED BY <1>0, <2>1, DropIsRolloutStep
  <1>5. ASSUME NEW p \in Replicas, Reconcile(p)
        PROVE  EnterCall(p) \/ UNCHANGED rolloutVars
    <2>1. ASSUME ListRunningRollouts(p)
          PROVE  UNCHANGED rolloutVars
      BY <2>1 DEF ListRunningRollouts
    <2>2. ASSUME NEW o \in Observed,
                 FindNone(p, o) \/ WithinGrace(p, o) \/ FindRunning(p, o) \/ CreateForStage(p, o)
          PROVE  UNCHANGED rolloutVars
      BY <2>2 DEF FindNone, WithinGrace, FindRunning, CreateForStage
    <2>3. ASSUME NEW o \in Observed, FindSuccessful(p, o) \/ FindFailed(p, o)
          PROVE  EnterCall(p)
      <3>1. o[1] \in RolloutIDs /\ o[2] \in Stages
        BY DEF Observed
      <3>. QED BY <2>3, <3>1 DEF FindSuccessful, FindFailed, EnterCall
    <2>. QED BY <1>5, <2>1, <2>2, <2>3 DEF Reconcile
  <1>6. ASSUME NEW o \in Observed, Verdict(o)
        PROVE  UNCHANGED rolloutVars
    BY <1>6 DEF Verdict
  <1>7. ASSUME Fault
        PROVE  UNCHANGED rolloutVars \/ \E c \in Callers : Fail(c)
    <2>1. ASSUME NEW p \in Replicas, NEW o \in Observed, CreateFails(p) \/ FindFails(p, o)
          PROVE  UNCHANGED rolloutVars
      BY <2>1 DEF CreateFails, FindFails
    <2>2. ASSUME LeaseExpires
          PROVE  UNCHANGED rolloutVars
      BY <2>2 DEF LeaseExpires
    <2>3. ASSUME NEW p \in Replicas, CreateFails(p)
          PROVE  UNCHANGED rolloutVars
      BY <2>3 DEF CreateFails
    <2>. QED BY <1>0, <1>4, <1>7, <2>1, <2>2, <2>3 DEF Fault
  <1>8. FaultsEnd => UNCHANGED rolloutVars
    BY DEF FaultsEnd
  <1>. QED BY <1>0, <1>1, <1>2, <1>3, <1>4, <1>5, <1>6, <1>7, <1>8
           DEF ControlPlaneNext, AnalysisNext

\* Rollout's invariant is kept by every step of the control-plane.
LEMMA StepKeepsRollout ==
    ASSUME IInv, [ControlPlaneNext]_vars
    PROVE  IInv' /\ [Next]_rolloutVars
  <1>1. [Next]_rolloutVars
    <2>1. CASE ControlPlaneNext
      BY <2>1, StepIsRolloutStep DEF IInv, Next
    <2>2. CASE UNCHANGED vars
      BY <2>2 DEF vars, rolloutVars
    <2>. QED BY <2>1, <2>2
  <1>. QED BY <1>1, StepIInv

-----------------------------------------------------------------------------
(* The AnalysisRuns.                                                       *)

\* What a step does to the AnalysisRuns: it leaves them, creates one, or lets
\* one that is running come to its verdict.
RunsMove ==
    \/ runs' = runs
    \/ \E o \in Observed : runs' = [runs EXCEPT ![o] = Append(runs[o], "Running")]
    \/ \E o \in Observed : \E i \in 1..Len(runs[o]), phase \in {"Successful", "Failed"} :
         /\ runs[o][i] = "Running"
         /\ runs' = [runs EXCEPT ![o] = [runs[o] EXCEPT ![i] = phase]]

\* Only CreateForStage and Verdict touch them.
LEMMA StepRunsMove ==
    ASSUME AnalysisTypeOK, [ControlPlaneNext]_vars
    PROVE  RunsMove
  <1>1. ASSUME NEW c \in Callers, HumanCall(c) \/ ServiceStep(c)
        PROVE  runs' = runs
    BY <1>1 DEF HumanCall, ServiceStep, analysisVars
  <1>2. ASSUME NEW p \in Replicas,
               AcquireLease(p) \/ StopLeading(p) \/ Restart(p) \/ ListRunningRollouts(p)
               \/ CreateFails(p)
        PROVE  runs' = runs
    BY <1>2 DEF AcquireLease, StopLeading, Restart, ListRunningRollouts, CreateFails
  <1>3. ASSUME NEW p \in Replicas, NEW o \in Observed,
               \/ FindNone(p, o) \/ WithinGrace(p, o) \/ FindRunning(p, o)
               \/ FindSuccessful(p, o) \/ FindFailed(p, o) \/ FindFails(p, o)
        PROVE  runs' = runs
    BY <1>3 DEF FindNone, WithinGrace, FindRunning, FindSuccessful, FindFailed, FindFails
  <1>4. ASSUME NEW p \in Replicas, NEW o \in Observed, CreateForStage(p, o)
        PROVE  RunsMove
    <2>1. CASE Len(runs[o]) < MaxRuns
      BY <1>4, <2>1 DEF CreateForStage, RunsMove
    <2>2. CASE ~(Len(runs[o]) < MaxRuns)
      BY <1>4, <2>2 DEF CreateForStage, AnalysisTypeOK, RunsMove
    <2>. QED BY <2>1, <2>2
  <1>5. ASSUME NEW o \in Observed, Verdict(o)
        PROVE  RunsMove
    BY <1>5 DEF Verdict, RunsMove
  <1>6. ASSUME NEW c \in Callers, Fail(c) /\ UNCHANGED analysisVars
        PROVE  runs' = runs
    BY <1>6 DEF analysisVars
  <1>7. ASSUME LeaseExpires \/ FaultsEnd \/ UNCHANGED vars
        PROVE  runs' = runs
    BY <1>7 DEF LeaseExpires, FaultsEnd, vars
  <1>8. ASSUME NEW p \in Replicas, Reconcile(p)
        PROVE  RunsMove
    BY <1>2, <1>3, <1>4, <1>8 DEF Reconcile, RunsMove
  <1>9. ASSUME Fault
        PROVE  RunsMove
    <2>1. runs' = runs
      BY <1>2, <1>3, <1>6, <1>7, <1>9 DEF Fault
    <2>. QED BY <2>1 DEF RunsMove
  <1>10. Humans \subseteq Callers
    BY CallersAssumption
  <1>11. runs' = runs => RunsMove
    BY DEF RunsMove
  <1>. QED BY <1>1, <1>2, <1>5, <1>7, <1>8, <1>9, <1>10, <1>11
           DEF ControlPlaneNext, AnalysisNext

\* A list of phases stays one when it grows or one of them is replaced.
LEMMA PhasesMove ==
    ASSUME NEW s \in Seq(Phases)
    PROVE  /\ Append(s, "Running") \in Seq(Phases)
           /\ Len(Append(s, "Running")) = Len(s) + 1
           /\ \A j \in 1..Len(s) : Append(s, "Running")[j] = s[j]
           /\ \A i \in 1..Len(s), phase \in {"Successful", "Failed"} :
                /\ [s EXCEPT ![i] = phase] \in Seq(Phases)
                /\ Len([s EXCEPT ![i] = phase]) = Len(s)
                /\ \A j \in 1..Len(s) : j # i => [s EXCEPT ![i] = phase][j] = s[j]
  <1>1. "Running" \in Phases /\ {"Successful", "Failed"} \subseteq Phases
    BY DEF Phases
  <1>2. /\ Append(s, "Running") \in Seq(Phases)
        /\ Len(Append(s, "Running")) = Len(s) + 1
        /\ \A j \in 1..Len(s) : Append(s, "Running")[j] = s[j]
    BY <1>1
  <1>3. ASSUME NEW i \in 1..Len(s), NEW phase \in {"Successful", "Failed"}
        PROVE  /\ [s EXCEPT ![i] = phase] \in Seq(Phases)
               /\ Len([s EXCEPT ![i] = phase]) = Len(s)
               /\ \A j \in 1..Len(s) : j # i => [s EXCEPT ![i] = phase][j] = s[j]
    BY <1>1
  <1>. QED BY <1>2, <1>3

\* A verdict is for good: whatever else is created or decided, an AnalysisRun
\* that has ended so stays, and the lists stay lists of phases.
LEMMA VerdictsStay ==
    ASSUME AnalysisTypeOK, RunsMove
    PROVE  /\ runs' \in [Observed -> Seq(Phases)]
           /\ \A o \in Observed, phase \in {"Successful", "Failed"} :
                FirstOf(o, phase) => FirstOf(o, phase)'
  <1>0. runs \in [Observed -> Seq(Phases)]
    BY DEF AnalysisTypeOK
  <1>1. CASE runs' = runs
    BY <1>0, <1>1 DEF FirstOf
  <1>2. ASSUME NEW o \in Observed, runs' = [runs EXCEPT ![o] = Append(runs[o], "Running")]
        PROVE  /\ runs' \in [Observed -> Seq(Phases)]
               /\ \A x \in Observed, phase \in {"Successful", "Failed"} :
                    FirstOf(x, phase) => FirstOf(x, phase)'
    <2>1. PICK s \in Seq(Phases) : s = runs[o]
      BY <1>0
    <2>2. PICK t \in Seq(Phases) : /\ t = Append(s, "Running")
                                   /\ Len(t) = Len(s) + 1
                                   /\ \A j \in 1..Len(s) : t[j] = s[j]
      BY PhasesMove
    <2>3. /\ runs' \in [Observed -> Seq(Phases)]
          /\ runs'[o] = t
          /\ \A x \in Observed : x # o => runs'[x] = runs[x]
      BY <1>0, <1>2, <2>1, <2>2
    <2>4. ASSUME NEW phase \in {"Successful", "Failed"}, FirstOf(o, phase)
          PROVE  FirstOf(o, phase)'
      <3>1. PICK j \in 1..Len(s) : s[j] = phase
        BY <2>1, <2>4 DEF FirstOf
      <3>2. j \in 1..Len(t)
        BY <2>2
      <3>3. t[j] = phase
        BY <2>2, <3>1
      <3>. QED BY <2>3, <3>2, <3>3 DEF FirstOf
    <2>. QED BY <2>3, <2>4 DEF FirstOf
  <1>3. ASSUME NEW o \in Observed, NEW i \in 1..Len(runs[o]),
               NEW verdict \in {"Successful", "Failed"}, runs[o][i] = "Running",
               runs' = [runs EXCEPT ![o] = [runs[o] EXCEPT ![i] = verdict]]
        PROVE  /\ runs' \in [Observed -> Seq(Phases)]
               /\ \A x \in Observed, phase \in {"Successful", "Failed"} :
                    FirstOf(x, phase) => FirstOf(x, phase)'
    <2>1. PICK s \in Seq(Phases) : s = runs[o]
      BY <1>0
    <2>2. PICK t : t = [s EXCEPT ![i] = verdict]
      OBVIOUS
    <2>3. /\ t \in Seq(Phases)
          /\ Len(t) = Len(s)
          /\ \A j \in 1..Len(s) : j # i => t[j] = s[j]
      <3>1. i \in 1..Len(s)
        BY <2>1
      <3>. QED BY <2>2, <3>1, PhasesMove
    <2>4. /\ runs' \in [Observed -> Seq(Phases)]
          /\ runs'[o] = t
          /\ \A x \in Observed : x # o => runs'[x] = runs[x]
      BY <1>0, <1>3, <2>1, <2>2, <2>3
    <2>5. ASSUME NEW phase \in {"Successful", "Failed"}, FirstOf(o, phase)
          PROVE  FirstOf(o, phase)'
      <3>1. PICK j \in 1..Len(s) : s[j] = phase
        BY <2>1, <2>5 DEF FirstOf
      <3>2. j # i
        BY <1>3, <2>1, <3>1
      <3>3. j \in 1..Len(t) /\ t[j] = phase
        BY <2>3, <3>1, <3>2
      <3>. QED BY <2>4, <3>3 DEF FirstOf
    <2>. QED BY <2>4, <2>5 DEF FirstOf
  <1>. QED BY <1>1, <1>2, <1>3 DEF RunsMove

\* What was earned stays earned.
LEMMA EarnedStays ==
    ASSUME AnalysisTypeOK, RunsMove, NEW op, NEW id \in RolloutIDs, NEW stage \in Stages,
           Earned(op, id, stage)
    PROVE  Earned(op, id, stage)'
  <1>1. <<id, stage>> \in Observed
    BY DEF Observed
  <1>2. \A phase \in {"Successful", "Failed"} :
          FirstOf(<<id, stage>>, phase) => FirstOf(<<id, stage>>, phase)'
    BY <1>1, VerdictsStay
  <1>. QED BY <1>2 DEF Earned

-----------------------------------------------------------------------------
(* The calls.                                                              *)

\* What a step does to the calls: it leaves them, or moves one to a call whose
\* verdict, if it acts on one, has been given.
CallsMove ==
    \/ call' = call
    \/ \E c \in Callers, k \in Calls : Goto(c, k) /\ CallEarned(k)

\* A call that neither reads nor writes a rollout needs no verdict.
LEMMA OthersNeedNone ==
    ASSUME NEW k \in {Idle} \cup Validated \cup Creating
    PROVE  k \in Calls /\ CallEarned(k)
  <1>0. k.pc \in {"idle", "get_active", "get_running", "insert"}
    BY DEF Idle, Validated, Creating
  <1>1. k \notin Reading
    BY <1>0 DEF Reading
  <1>2. k \notin Writing
    BY <1>0 DEF Writing
  <1>. QED BY <1>1, <1>2 DEF CallEarned, Calls

\* Entering a call, with the verdict if it is the reconciler's.
LEMMA EnterEarned ==
    ASSUME NEW c \in Callers, NEW op \in Ops, NEW id \in RolloutIDs,
           NEW stage \in Stages \cup {""},
           Goto(c, [pc |-> "get", op |-> op, id |-> id, requireStage |-> stage]),
           op \in {"auto_advance", "auto_rollback"} => stage \in Stages /\ Earned(op, id, stage)
    PROVE  CallsMove
  <1>1. PICK k : k = [pc |-> "get", op |-> op, id |-> id, requireStage |-> stage]
    OBVIOUS
  <1>2. k.pc = "get" /\ k.op = op /\ k.id = id /\ k.requireStage = stage
    BY <1>1
  <1>3. k \in Reading
    BY <1>1 DEF Reading
  <1>4. k \notin Writing
    BY <1>2 DEF Writing
  <1>5. CallEarned(k)
    BY <1>2, <1>3, <1>4 DEF CallEarned
  <1>6. k \in Calls
    BY <1>3 DEF Calls
  <1>7. Goto(c, k)
    BY <1>1
  <1>. QED BY <1>5, <1>6, <1>7 DEF CallsMove

\* What GetRollout lets pass is the stage the verdict was about.
LEMMA GetEarned ==
    ASSUME TypeOK, NEW c \in Callers, CallEarned(call[c]), GetRollout(c)
    PROVE  CallsMove
  <1>1. call[c] \in Reading
    BY CallShapes DEF GetRollout, At, TypeOK
  <1>2. PICK k \in Reading : k = call[c]
    BY <1>1
  <1>3. k.id \in RolloutIDs /\ k.op \in Ops
    BY DEF Reading
  <1>4. PICK row : row = rollout[k.id]
    OBVIOUS
  <1>5. CASE Goto(c, Idle)
    BY <1>5, OthersNeedNone DEF CallsMove
  <1>6. CASE ~Goto(c, Idle)
    <2>1. /\ row # NoRow
          /\ k.requireStage \in Stages => row.stage = k.requireStage
          /\ Goto(c, [pc |-> FirstWrite(k.op, row), op |-> k.op, id |-> k.id, row |-> row])
      <3>1. \A s \in Stages : s # ""
        BY DEF Stages
      <3>. QED BY <1>2, <1>4, <1>6, <3>1 DEF GetRollout
    <2>2. row \in Row
      BY <1>3, <1>4, <2>1 DEF TypeOK
    <2>3. FirstWrite(k.op, row) \in {"set_active", "publish"}
      BY DEF FirstWrite
    <2>4. PICK n : n = [pc |-> FirstWrite(k.op, row), op |-> k.op, id |-> k.id, row |-> row]
      OBVIOUS
    <2>5. n \in Writing /\ n.op = k.op /\ n.id = k.id /\ n.row = row
      BY <1>3, <2>2, <2>3, <2>4 DEF Writing
    <2>6. n \notin Reading
      BY <2>3, <2>4 DEF Reading
    <2>7. Earned(k.op, k.id, row.stage)
      <3>1. CASE k.op \in {"auto_advance", "auto_rollback"}
        BY <1>2, <2>1, <3>1 DEF CallEarned
      <3>2. CASE k.op \notin {"auto_advance", "auto_rollback"}
        BY <3>2 DEF Earned
      <3>. QED BY <3>1, <3>2
    <2>8. CallEarned(n)
      BY <2>5, <2>6, <2>7 DEF CallEarned
    <2>9. n \in Calls /\ Goto(c, n)
      BY <2>1, <2>4, <2>5 DEF Calls
    <2>. QED BY <2>8, <2>9 DEF CallsMove
  <1>. QED BY <1>5, <1>6

\* A call that goes on to its next write is still about the same stage.
LEMMA WriteEarned ==
    ASSUME TypeOK, NEW c \in Callers, CallEarned(call[c]),
           NEW pc \in {"publish_active", "update"},
           call[c].pc \in {"set_active", "publish_active", "publish"},
           Goto(c, [call[c] EXCEPT !.pc = pc])
    PROVE  CallsMove
  <1>1. call[c] \in Calls
    BY DEF TypeOK
  <1>2. PICK k \in Writing : k = call[c]
    BY <1>1, CallShapes
  <1>3. PICK n : n = [k EXCEPT !.pc = pc]
    OBVIOUS
  <1>4. n \in Writing /\ n.pc = pc /\ n.op = k.op /\ n.id = k.id /\ n.row = k.row
    BY <1>3, WritingMoves
  <1>5. n \notin Reading
    BY <1>4 DEF Reading
  <1>6. CallEarned(n)
    BY <1>2, <1>4, <1>5 DEF CallEarned
  <1>7. n \in Calls /\ Goto(c, n)
    BY <1>2, <1>3, <1>4 DEF Calls
  <1>. QED BY <1>6, <1>7 DEF CallsMove

\* The steps of the service.
LEMMA CallStepEarned ==
    ASSUME TypeOK, NEW c \in Callers, CallEarned(call[c]), CallStep(c)
    PROVE  CallsMove
  <1>1. ASSUME NEW k \in {Idle} \cup Validated \cup Creating, Goto(c, k)
        PROVE  CallsMove
    BY <1>1, OthersNeedNone DEF CallsMove
  <1>2. CASE GetActiveManifest(c)
    BY <1>1, <1>2, GetActiveMoves
  <1>3. CASE GetRunningRolloutByModelRef(c)
    BY <1>1, <1>3, GetRunningMoves
  <1>4. CASE InsertRollout(c)
    <2>1. PICK id \in RolloutIDs :
            Goto(c, [pc |-> "get", op |-> "create", id |-> id, requireStage |-> ""])
      BY <1>4 DEF InsertRollout
    <2>2. "create" \in Ops /\ "create" \notin {"auto_advance", "auto_rollback"}
      BY DEF Ops
    <2>3. "" \in Stages \cup {""}
      OBVIOUS
    <2>. QED BY <2>1, <2>2, <2>3, EnterEarned
  <1>5. CASE GetRollout(c)
    BY <1>5, GetEarned
  <1>6. CASE SetActive(c)
    BY <1>6, WriteEarned DEF SetActive, At
  <1>7. CASE PublishActive(c)
    BY <1>7, WriteEarned DEF PublishActive, At
  <1>8. CASE PublishCanaryState(c)
    BY <1>8, WriteEarned DEF PublishCanaryState, At
  <1>9. CASE UpdateRollout(c)
    BY <1>1, <1>9 DEF UpdateRollout
  <1>. QED BY <1>2, <1>3, <1>4, <1>5, <1>6, <1>7, <1>8, <1>9 DEF CallStep

\* Every step of the control-plane.
LEMMA StepCallsMove ==
    ASSUME TypeOK, \A c \in Callers : CallEarned(call[c]), [ControlPlaneNext]_vars
    PROVE  CallsMove
  <1>0. Humans \subseteq Callers /\ Replicas \subseteq Callers
    BY CallersAssumption
  <1>1. call' = call => CallsMove
    BY DEF CallsMove
  <1>2. ASSUME NEW c \in Callers, Goto(c, Idle)
        PROVE  CallsMove
    BY <1>2, OthersNeedNone DEF CallsMove
  <1>3. ASSUME NEW c \in Callers, HumanCall(c)
        PROVE  CallsMove
    <2>1. ASSUME NEW ref \in ModelRefs, NEW v \in Versions, CreateRollout(c, ref, v)
          PROVE  CallsMove
      <3>1. [pc |-> "get_active", ref |-> ref, version |-> v] \in Validated
        BY DEF Validated
      <3>. QED BY <2>1, <3>1, OthersNeedNone DEF CreateRollout, CallsMove
    <2>2. ASSUME NEW id \in RolloutIDs, PromoteRollout(c, id)
          PROVE  CallsMove
      <3>1. "promote" \in Ops /\ "promote" \notin {"auto_advance", "auto_rollback"}
        BY DEF Ops
      <3>2. "" \in Stages \cup {""}
        OBVIOUS
      <3>. QED BY <2>2, <3>1, <3>2, EnterEarned DEF PromoteRollout, Enter
    <2>3. ASSUME NEW id \in RolloutIDs, AbortRollout(c, id)
          PROVE  CallsMove
      <3>1. "abort" \in Ops /\ "abort" \notin {"auto_advance", "auto_rollback"}
        BY DEF Ops
      <3>2. "" \in Stages \cup {""}
        OBVIOUS
      <3>. QED BY <2>3, <3>1, <3>2, EnterEarned DEF AbortRollout, Enter
    <2>. QED BY <1>3, <2>1, <2>2, <2>3 DEF HumanCall
  <1>4. ASSUME NEW c \in Callers, ServiceStep(c)
        PROVE  CallsMove
    BY <1>4, CallStepEarned DEF ServiceStep
  <1>5. ASSUME NEW p \in Replicas, NEW o \in Observed, FindSuccessful(p, o)
        PROVE  CallsMove
    <2>1. o[1] \in RolloutIDs /\ o[2] \in Stages /\ o = <<o[1], o[2]>>
      BY DEF Observed
    <2>2. Earned("auto_advance", o[1], o[2])
      BY <1>5, <2>1 DEF FindSuccessful, Earned
    <2>3. "auto_advance" \in Ops /\ o[2] \in Stages \cup {""}
      BY <2>1 DEF Ops
    <2>4. Goto(p, [pc |-> "get", op |-> "auto_advance", id |-> o[1], requireStage |-> o[2]])
      BY <1>5 DEF FindSuccessful, AutoAdvance, Enter
    <2>. QED BY <1>0, <2>1, <2>2, <2>3, <2>4, EnterEarned
  <1>6. ASSUME NEW p \in Replicas, NEW o \in Observed, FindFailed(p, o)
        PROVE  CallsMove
    <2>1. o[1] \in RolloutIDs /\ o[2] \in Stages /\ o = <<o[1], o[2]>>
      BY DEF Observed
    <2>2. Earned("auto_rollback", o[1], o[2])
      BY <1>6, <2>1 DEF FindFailed, Earned
    <2>3. "auto_rollback" \in Ops /\ o[2] \in Stages \cup {""}
      BY <2>1 DEF Ops
    <2>4. Goto(p, [pc |-> "get", op |-> "auto_rollback", id |-> o[1], requireStage |-> o[2]])
      BY <1>6 DEF FindFailed, AutoRollback, Enter
    <2>. QED BY <1>0, <2>1, <2>2, <2>3, <2>4, EnterEarned
  <1>7. ASSUME NEW p \in Replicas, Reconcile(p)
        PROVE  CallsMove
    <2>1. ASSUME ListRunningRollouts(p)
          PROVE  call' = call
      BY <2>1 DEF ListRunningRollouts, rolloutVars
    <2>2. ASSUME NEW o \in Observed,
                 FindNone(p, o) \/ WithinGrace(p, o) \/ FindRunning(p, o) \/ CreateForStage(p, o)
          PROVE  call' = call
      BY <2>2 DEF FindNone, WithinGrace, FindRunning, CreateForStage, rolloutVars
    <2>. QED BY <1>1, <1>5, <1>6, <1>7, <2>1, <2>2 DEF Reconcile
  <1>8. ASSUME NEW p \in Replicas, AcquireLease(p) \/ StopLeading(p) \/ Restart(p) \/ CreateFails(p)
        PROVE  CallsMove
    <2>1. AcquireLease(p) \/ CreateFails(p) => call' = call
      BY DEF AcquireLease, CreateFails, rolloutVars
    <2>2. StopLeading(p) \/ Restart(p) => Goto(p, Idle)
      BY DEF StopLeading, Restart
    <2>. QED BY <1>0, <1>1, <1>2, <1>8, <2>1, <2>2
  <1>9. ASSUME NEW o \in Observed, Verdict(o)
        PROVE  CallsMove
    <2>1. call' = call
      BY <1>9 DEF Verdict, rolloutVars
    <2>. QED BY <1>1, <2>1
  <1>10. ASSUME Fault
         PROVE  CallsMove
    <2>1. ASSUME NEW c \in Callers, Fail(c)
          PROVE  CallsMove
      BY <1>2, <2>1 DEF Fail
    <2>2. ASSUME NEW p \in Replicas, NEW o \in Observed, FindFails(p, o)
          PROVE  call' = call
      BY <2>2 DEF FindFails, rolloutVars
    <2>3. LeaseExpires => call' = call
      BY DEF LeaseExpires, rolloutVars
    <2>. QED BY <1>1, <1>8, <1>10, <2>1, <2>2, <2>3 DEF Fault
  <1>11. FaultsEnd \/ UNCHANGED vars => call' = call
    BY DEF FaultsEnd, rolloutVars, vars
  <1>. QED BY <1>0, <1>1, <1>3, <1>4, <1>7, <1>8, <1>9, <1>10, <1>11
           DEF ControlPlaneNext, AnalysisNext

\* The verdicts behind the calls stay given.
LEMMA CallsStayEarned ==
    ASSUME AnalysisTypeOK, TypeOK', RunsMove, CallsMove,
           \A c \in Callers : CallEarned(call[c])
    PROVE  \A c \in Callers : CallEarned(call[c])'
  <1>1. ASSUME NEW k \in Calls, CallEarned(k)
        PROVE  CallEarned(k)'
    <2>1. ASSUME k \in Reading, k.op \in {"auto_advance", "auto_rollback"}
          PROVE  k.requireStage \in Stages /\ Earned(k.op, k.id, k.requireStage)'
      <3>1. k.id \in RolloutIDs
        BY <2>1 DEF Reading
      <3>2. k.requireStage \in Stages /\ Earned(k.op, k.id, k.requireStage)
        BY <1>1, <2>1 DEF CallEarned
      <3>. QED BY <3>1, <3>2, EarnedStays
    <2>2. ASSUME k \in Writing
          PROVE  Earned(k.op, k.id, k.row.stage)'
      <3>1. k.id \in RolloutIDs /\ k.row.stage \in Stages
        BY <2>2 DEF Writing, Row
      <3>2. Earned(k.op, k.id, k.row.stage)
        BY <1>1, <2>2 DEF CallEarned
      <3>. QED BY <3>1, <3>2, EarnedStays
    <2>. QED BY <2>1, <2>2 DEF CallEarned
  <1>2. TypeOK
    BY DEF AnalysisTypeOK
  <1>3. ASSUME NEW c \in Callers
        PROVE  \E k \in Calls : call'[c] = k /\ CallEarned(k)
    <2>1. CASE call' = call
      BY <1>2, <2>1 DEF TypeOK
    <2>2. ASSUME NEW d \in Callers, NEW k \in Calls, Goto(d, k), CallEarned(k)
          PROVE  \E n \in Calls : call'[c] = n /\ CallEarned(n)
      <3>1. call'[c] = k \/ call'[c] = call[c]
        BY <1>2, <2>2, GotoType
      <3>. QED BY <1>2, <2>2, <3>1 DEF TypeOK
    <2>. QED BY <2>1, <2>2 DEF CallsMove
  <1>4. SUFFICES ASSUME NEW c \in Callers
                 PROVE  CallEarned(call[c])'
    OBVIOUS
  <1>5. PICK k \in Calls : call'[c] = k /\ CallEarned(k)
    BY <1>3
  <1>6. CallEarned(k)'
    BY <1>1, <1>5
  <1>7. call'[c] = k
    BY <1>5
  <1>8. /\ k \in Reading /\ k.op \in {"auto_advance", "auto_rollback"} =>
             k.requireStage \in Stages /\ Earned(k.op, k.id, k.requireStage)'
        /\ k \in Writing => Earned(k.op, k.id, k.row.stage)'
    BY <1>6 DEF CallEarned
  <1>9. /\ call'[c] \in Reading /\ call'[c].op \in {"auto_advance", "auto_rollback"} =>
             call'[c].requireStage \in Stages /\ Earned(call[c].op, call[c].id, call[c].requireStage)'
    BY <1>7, <1>8 DEF Earned, FirstOf
  <1>10. call'[c] \in Writing => Earned(call[c].op, call[c].id, call[c].row.stage)'
    BY <1>7, <1>8 DEF Earned, FirstOf
  <1>. QED BY <1>9, <1>10 DEF CallEarned

-----------------------------------------------------------------------------
(* The swap.                                                               *)

\* A step that changes the table inserts a row or swaps one.
LEMMA TableMoves ==
    ASSUME IInv, [ControlPlaneNext]_vars, rollout' # rollout
    PROVE  \E c \in Callers : InsertRollout(c) \/ UpdateRollout(c)
  <1>1. ControlPlaneNext /\ ~UNCHANGED rolloutVars
    BY DEF vars, rolloutVars
  <1>2. PICK c \in Callers : EnterCall(c) \/ CallStep(c) \/ Fail(c)
    BY <1>1, StepIsRolloutStep DEF IInv
  <1>. QED BY <1>2, StepKinds DEF Quiet, SetActive, PublishActive, PublishCanaryState

\* Swapping in the outcome of a rollback that was earned at the very stage.
LEMMA StepRollbackIsEarned ==
    ASSUME EarnedInv, IInv', RunsMove, [ControlPlaneNext]_vars
    PROVE  RollbackIsEarned'
  <1>. SUFFICES ASSUME NEW id \in RolloutIDs, rollout'[id] # NoRow,
                       rollout'[id].status = "rolled_back"
                PROVE  FirstOf(<<id, rollout[id].stage>>, "Failed")'
    BY DEF RollbackIsEarned
  <1>0. IInv /\ TypeOK /\ AnalysisTypeOK
    BY DEF EarnedInv, IInv
  <1>1. SUFFICES ASSUME NEW st, st = rollout'[id].stage
                 PROVE  st \in Stages /\ FirstOf(<<id, st>>, "Failed")
    <2>1. PICK st : st = rollout'[id].stage
      OBVIOUS
    <2>2. st \in Stages /\ FirstOf(<<id, st>>, "Failed")
      BY <1>1, <2>1
    <2>3. <<id, st>> \in Observed
      BY <2>2 DEF Observed
    <2>4. FirstOf(<<id, st>>, "Failed")'
      BY <1>0, <2>2, <2>3, VerdictsStay
    <2>. QED BY <2>1, <2>4 DEF FirstOf
  <1>2. st \in Stages
    <2>1. rollout'[id] \in Row
      BY DEF IInv, TypeOK
    <2>. QED BY <1>1, <2>1 DEF Row
  <1>3. CASE rollout'[id] = rollout[id]
    BY <1>1, <1>2, <1>3 DEF EarnedInv, RollbackIsEarned
  <1>4. CASE rollout'[id] # rollout[id]
    <2>1. PICK c \in Callers : InsertRollout(c) \/ UpdateRollout(c)
      BY <1>0, <1>4, TableMoves
    <2>2. ~InsertRollout(c)
      <3>1. SUFFICES ASSUME InsertRollout(c) PROVE FALSE
        OBVIOUS
      <3>2. PICK j \in RolloutIDs, row \in Row :
                  rollout' = [rollout EXCEPT ![j] = row] /\ row.status = "running"
        BY <1>0, <3>1, InsertMoves
      <3>. QED BY <1>0, <1>4, <3>2 DEF TypeOK
    <2>3. UpdateRollout(c) /\ rollout' # rollout
      BY <1>4, <2>1, <2>2
    <2>4. call[c].pc = "update"
      BY <2>3 DEF UpdateRollout, At
    <2>5. PICK k \in Writing : k = call[c]
      BY <1>0, <2>4, WritingCall
    <2>6. k.id \in RolloutIDs /\ k.op \in Ops /\ rollout[k.id] \in Row
      BY <1>0, <2>4, <2>5, WritingCall
    <2>7. /\ rollout[k.id].stage = k.row.stage
          /\ Running(k.id)
          /\ Advances(k.op) => rollout[k.id].stage # "stable"
          /\ rollout' = [rollout EXCEPT ![k.id] = NewRow(k.op, rollout[k.id])]
      BY <1>0, <2>3, <2>5, SwapEffect
    <2>8. id = k.id /\ rollout'[id] = NewRow(k.op, rollout[k.id])
      BY <1>0, <1>4, <2>6, <2>7 DEF TypeOK
    <2>9. ~Advances(k.op)
      <3>1. SUFFICES ASSUME Advances(k.op) PROVE FALSE
        OBVIOUS
      <3>2. NewRow(k.op, rollout[k.id]).status \in {"promoted", "running"}
        BY <2>6, <2>7, <3>1, NewRowType
      <3>. QED BY <2>8, <3>2
    <2>10. st = k.row.stage
      BY <1>1, <2>6, <2>7, <2>8, <2>9, NewRowType
    <2>11. k.op # "abort"
      <3>1. rollout[k.id] \in Row
        BY <2>6
      <3>2. NewRow(k.op, rollout[k.id]).status = resultStatus(k.op)
        BY <2>9, <3>1 DEF NewRow, Row
      <3>. QED BY <2>8, <3>2 DEF resultStatus
    <2>12. k.op = "auto_rollback"
      BY <2>6, <2>9, <2>11 DEF Ops, Advances
    <2>13. Earned(k.op, k.id, k.row.stage)
      BY <2>5 DEF EarnedInv, CallEarned
    <2>. QED BY <1>2, <2>8, <2>10, <2>12, <2>13 DEF Earned
  <1>. QED BY <1>3, <1>4

\* Types of the election and of the reconciler's pass.
LEMMA StepAnalysisTypeOK ==
    ASSUME AnalysisTypeOK, TypeOK', RunsMove, [ControlPlaneNext]_vars
    PROVE  AnalysisTypeOK'
  <1> DEFINE PassOK == /\ holder \in Replicas \cup {NoHolder}
                       /\ mode \in [Replicas -> Modes]
                       /\ todo \in [Replicas -> SUBSET Observed]
                       /\ creating \in [Replicas -> SUBSET Observed]
                       /\ calm \in BOOLEAN
  <1>0. PassOK
    BY DEF AnalysisTypeOK
  <1>00. Humans \subseteq Callers /\ Replicas \subseteq Callers
    BY CallersAssumption
  <1>1. ASSUME UNCHANGED analysisVars
        PROVE  PassOK'
    BY <1>0, <1>1 DEF analysisVars
  <1>2. ASSUME NEW p \in Replicas, AcquireLease(p) \/ StopLeading(p) \/ Restart(p) \/ CreateFails(p)
        PROVE  PassOK'
    BY <1>0, <1>2 DEF AcquireLease, StopLeading, Restart, CreateFails, Modes
  <1>3. ASSUME NEW p \in Replicas, ListRunningRollouts(p)
        PROVE  PassOK'
    <2>1. {<<id, rollout[id].stage>> : id \in {i \in RolloutIDs : Running(i)}} \in SUBSET Observed
      BY DEF AnalysisTypeOK, TypeOK, Row, Running, Observed
    <2>. QED BY <1>0, <1>3, <2>1 DEF ListRunningRollouts
  <1>4. ASSUME NEW p \in Replicas, NEW o \in Observed,
               \/ FindNone(p, o) \/ WithinGrace(p, o) \/ FindRunning(p, o)
               \/ FindSuccessful(p, o) \/ FindFailed(p, o) \/ FindFails(p, o)
               \/ CreateForStage(p, o)
        PROVE  PassOK'
    <2>1. Handled(p, o) => todo' \in [Replicas -> SUBSET Observed]
      BY <1>0 DEF Handled
    <2>2. FindNone(p, o) \/ CreateForStage(p, o) => creating' \in [Replicas -> SUBSET Observed]
      BY <1>0 DEF FindNone, CreateForStage
    <2>. QED BY <1>0, <1>4, <2>1, <2>2
         DEF FindNone, WithinGrace, FindRunning, FindSuccessful, FindFailed, FindFails,
             CreateForStage
  <1>5. ASSUME NEW o \in Observed, Verdict(o)
        PROVE  PassOK'
    BY <1>0, <1>5 DEF Verdict
  <1>6. LeaseExpires \/ FaultsEnd \/ UNCHANGED vars => PassOK'
    BY <1>0 DEF LeaseExpires, FaultsEnd, vars
  <1>7. ASSUME NEW c \in Callers, HumanCall(c) \/ ServiceStep(c)
        PROVE  UNCHANGED analysisVars
    BY <1>7 DEF HumanCall, ServiceStep
  <1>8. ASSUME NEW p \in Replicas, Reconcile(p)
        PROVE  PassOK'
    BY <1>3, <1>4, <1>8 DEF Reconcile
  <1>9. Fault => PassOK'
    BY <1>1, <1>2, <1>4, <1>6 DEF Fault
  <1>10. PassOK'
    <2>. HIDE DEF PassOK
    <2>. QED BY <1>00, <1>1, <1>2, <1>5, <1>6, <1>7, <1>8, <1>9 DEF ControlPlaneNext, AnalysisNext
  <1>11. runs' \in [Observed -> Seq(Phases)]
    BY VerdictsStay
  <1>. QED BY <1>10, <1>11 DEF AnalysisTypeOK

-----------------------------------------------------------------------------
(* The theorems.                                                           *)

\* EarnedInv is kept by every step.
LEMMA StepEarned == EarnedInv /\ [ControlPlaneNext]_vars => EarnedInv'
  <1>. SUFFICES ASSUME EarnedInv, [ControlPlaneNext]_vars PROVE EarnedInv'
    OBVIOUS
  <1>1. AnalysisTypeOK /\ IInv /\ TypeOK /\ \A c \in Callers : CallEarned(call[c])
    BY DEF EarnedInv, IInv
  <1>2. IInv' /\ TypeOK'
    BY <1>1, StepKeepsRollout DEF IInv
  <1>3. RunsMove
    BY <1>1, StepRunsMove
  <1>4. AnalysisTypeOK'
    BY <1>1, <1>2, <1>3, StepAnalysisTypeOK
  <1>5. \A c \in Callers : CallEarned(call[c])'
    BY <1>1, <1>2, <1>3, StepCallsMove, CallsStayEarned
  <1>6. RollbackIsEarned'
    BY <1>2, <1>3, StepRollbackIsEarned
  <1>. QED BY <1>2, <1>4, <1>5, <1>6 DEF EarnedInv

\* The inductive invariant holds in every reachable state.
THEOREM EarnedInvariance == ControlPlaneSpec => []EarnedInv
  <1>1. AnalysisInit => EarnedInv
    BY InitEarned
  <1>2. EarnedInv /\ [ControlPlaneNext]_vars => EarnedInv'
    BY StepEarned
  <1>. QED BY <1>1, <1>2, PTL DEF ControlPlaneSpec

(* The replicas, the election and the reconciler call the rollout service  *)
(* as Rollout allows its callers to: all that is proved of Rollout, the    *)
(* staged gate and the vetting of live versions first, holds of the whole  *)
(* control-plane.                                                          *)
THEOREM ReconcilerIsRollout == ControlPlaneSpec => Spec
  <1>1. AnalysisInit => Init
    BY DEF AnalysisInit
  <1>2. EarnedInv /\ [ControlPlaneNext]_vars => [Next]_rolloutVars
    BY StepKeepsRollout DEF EarnedInv
  <1>. QED BY <1>1, <1>2, EarnedInvariance, PTL DEF ControlPlaneSpec, Spec

(* Lists of AnalysisRuns, the lease, the modes of the replicas and their   *)
(* passes over the rollouts keep their types.                              *)
THEOREM AnalysisTypeCorrect == ControlPlaneSpec => []AnalysisTypeOK
  <1>1. EarnedInv => AnalysisTypeOK
    BY DEF EarnedInv
  <1>. QED BY <1>1, EarnedInvariance, PTL

(* A rollout is rolled back only at a stage some AnalysisRun of which has  *)
(* failed, however many replicas believe to lead and whatever operators do *)
(* between the listing, the verdict, the read and the swap.                *)
THEOREM RollbacksAreEarned == ControlPlaneSpec => []RollbackIsEarned
  <1>1. EarnedInv => RollbackIsEarned
    BY DEF EarnedInv
  <1>. QED BY <1>1, EarnedInvariance, PTL

(* The reconciler moves a rollout only from a stage some AnalysisRun of    *)
(* which was successful.                                                   *)
THEOREM AdvancesAreEarned == ControlPlaneSpec => AutoAdvanceIsEarned
  <1> DEFINE Advance == \A p \in Replicas :
               (/\ At(p, "update")
                /\ call[p].op = "auto_advance"
                /\ rollout'[call[p].id] # rollout[call[p].id]
                /\ call'[p] = Idle)
               => FirstOf(<<call[p].id, rollout[call[p].id].stage>>, "Successful")
  <1>1. EarnedInv /\ [ControlPlaneNext]_vars => [Advance]_vars
    <2>. SUFFICES ASSUME EarnedInv, [ControlPlaneNext]_vars, NEW p \in Replicas,
                         At(p, "update"), call[p].op = "auto_advance",
                         rollout' # rollout, call'[p] = Idle
                  PROVE  FirstOf(<<call[p].id, rollout[call[p].id].stage>>, "Successful")
      OBVIOUS
    <2>1. IInv /\ TypeOK /\ p \in Callers /\ call[p].pc = "update"
      BY CallersAssumption DEF EarnedInv, IInv, At
    <2>2. PICK c \in Callers : InsertRollout(c) \/ UpdateRollout(c)
      BY <2>1, TableMoves
    <2>3. c = p
      <3>1. \E k \in Calls : Goto(c, k)
        <4>1. InsertRollout(c) => \E k \in Reading : Goto(c, k)
          BY <2>1, InsertMoves
        <4>. QED BY <2>2, <4>1 DEF UpdateRollout, Calls
      <3>2. call'[p] # call[p]
        BY <2>1 DEF Idle
      <3>. QED BY <2>1, <3>1, <3>2, GotoType
    <2>4. UpdateRollout(p)
      BY <2>1, <2>2, <2>3 DEF InsertRollout, At
    <2>5. rollout[call[p].id].stage = call[p].row.stage
      BY <2>1, <2>4, SwapEffect
    <2>6. Earned(call[p].op, call[p].id, call[p].row.stage)
      BY <2>1, WritingCall DEF EarnedInv, CallEarned
    <2>. QED BY <2>5, <2>6 DEF Earned
  <1>. QED BY <1>1, EarnedInvariance, PTL DEF ControlPlaneSpec, AutoAdvanceIsEarned
=============================================================================
