---------------------------- MODULE BreakerProofs ----------------------------
(***************************************************************************)
(* Proofs about Breaker, for any set of callers and any threshold.         *)
(*                                                                         *)
(* TripIsEarned is not inductive: a report writes what it read earlier,    *)
(* plus one.  Accounted says what is true of every record that is stored   *)
(* or held by a caller: unless the threshold is reached, its failures and  *)
(* all the failures that still wait to be stored were counted.             *)
(***************************************************************************)
EXTENDS Breaker, FiniteSets, FiniteSetTheorems, TLAPS

-----------------------------------------------------------------------------
(* Records and the shapes of calls.                                        *)

\* What a call carries follows from its pc.
LEMMA CallShapes ==
    ASSUME NEW k \in Calls
    PROVE  /\ k.pc \in {"idle", "check", "calling", "claim", "report", "store"}
           /\ k.pc = "idle" <=> k = Idle
           /\ k.pc \in {"claim", "store"} => k.read \in Record
           /\ k.pc \in {"report", "store"} => k.success \in BOOLEAN
  BY DEF Calls, Idle

\* The values calls are given are calls.
LEMMA CallValues ==
    /\ Idle \in Calls
    /\ [pc |-> "check"] \in Calls
    /\ [pc |-> "calling"] \in Calls
    /\ \A r \in Record : [pc |-> "claim", read |-> r] \in Calls
    /\ \A b \in BOOLEAN : [pc |-> "report", success |-> b] \in Calls
    /\ \A b \in BOOLEAN, r \in Record : [pc |-> "store", success |-> b, read |-> r] \in Calls
  BY DEF Calls, Idle

\* Counting stops at the threshold.
LEMMA UpToThresholdBounds ==
    ASSUME NEW n \in Nat
    PROVE  /\ UpToThreshold(n) \in 0..FailureThreshold
           /\ UpToThreshold(n) <= n
           /\ n >= FailureThreshold => UpToThreshold(n) = FailureThreshold
           /\ n < FailureThreshold => UpToThreshold(n) = n
  BY ThresholdAssumption DEF UpToThreshold

\* What a report stores is a record.
LEMMA ResolvedType ==
    ASSUME NEW r \in Record, NEW success \in BOOLEAN
    PROVE  Resolved(r, success) \in Record
  <1>1. r.failures \in Nat /\ r.failures + 1 \in Nat
    BY ThresholdAssumption DEF Record
  <1>2. \A n \in 0..FailureThreshold : Closed(n) \in Record /\ Open(n) \in Record
    BY DEF Closed, Open, Record
  <1>3. 0 \in 0..FailureThreshold /\ FailureThreshold \in 0..FailureThreshold
    BY ThresholdAssumption
  <1>. QED BY <1>1, <1>2, <1>3, UpToThresholdBounds DEF Resolved

-----------------------------------------------------------------------------
(* Types.                                                                  *)

\* Every step of the breaker and its callers keeps the types.
LEMMA TypeStep == TypeOK /\ [Next]_vars => TypeOK'
  <1>. SUFFICES ASSUME TypeOK, [Next]_vars PROVE TypeOK'
    OBVIOUS
  <1>. USE DEF TypeOK
  <1>1. \A c \in Callers, k \in Calls : [call EXCEPT ![c] = k] \in [Callers -> Calls]
    OBVIOUS
  <1>2. \A c \in Callers : Goto(c, Idle) => call' \in [Callers -> Calls]
    BY <1>1, CallValues DEF Goto
  <1>3. ASSUME NEW c \in Callers, Begin(c) \/ BeginBlind(c) PROVE TypeOK'
    BY <1>1, <1>3, CallValues DEF Begin, BeginBlind, Goto
  <1>4. ASSUME NEW c \in Callers, CheckGet(c) PROVE TypeOK'
    BY <1>1, <1>4, CallValues DEF CheckGet, Goto
  <1>5. ASSUME NEW c \in Callers, ClaimTrial(c) PROVE TypeOK'
    <2>1. call[c].read \in Record
      BY <1>5, CallShapes DEF ClaimTrial, At
    <2>2. record' \in Record
      BY <1>5, <2>1 DEF ClaimTrial, Record
    <2>. QED BY <1>1, <1>5, <2>2, CallValues DEF ClaimTrial, Goto
  <1>6. ASSUME NEW c \in Callers, CheckFails(c) PROVE TypeOK'
    BY <1>1, <1>6, CallValues DEF CheckFails, Goto
  <1>7. ASSUME NEW c \in Callers, AdapterEnds(c) PROVE TypeOK'
    <2>1. failed + 1 \in Nat
      BY ThresholdAssumption
    <2>2. failed' \in 0..FailureThreshold
      BY <1>7, <2>1, UpToThresholdBounds DEF AdapterEnds
    <2>. QED BY <1>1, <1>7, <2>2, CallValues DEF AdapterEnds, Goto
  <1>8. ASSUME NEW c \in Callers, ReportGet(c) PROVE TypeOK'
    <2>1. call[c].success \in BOOLEAN
      BY <1>8, CallShapes DEF ReportGet, At
    <2>. QED BY <1>1, <1>8, <2>1, CallValues DEF ReportGet, Goto
  <1>9. ASSUME NEW c \in Callers, ReportSet(c) PROVE TypeOK'
    <2>1. call[c].success \in BOOLEAN /\ call[c].read \in Record
      BY <1>9, CallShapes DEF ReportSet, At
    <2>. QED BY <1>2, <1>9, <2>1, ResolvedType DEF ReportSet
  <1>10. ASSUME NEW c \in Callers, LoseResult(c) PROVE TypeOK'
    BY <1>2, <1>10 DEF LoseResult
  <1>11. CASE OpenDurationPasses
    BY <1>11 DEF OpenDurationPasses, Record
  <1>12. CASE ProviderChanges \/ FaultsEnd
    BY <1>12 DEF ProviderChanges, FaultsEnd
  <1>13. CASE UNCHANGED vars
    BY <1>13 DEF vars
  <1>. QED
    BY <1>3, <1>4, <1>5, <1>6, <1>7, <1>8, <1>9, <1>10, <1>11, <1>12, <1>13 DEF Next, Work

\* The breaker starts with values of the declared types.
LEMMA TypeInit == Init => TypeOK
  <1>. SUFFICES ASSUME Init PROVE TypeOK
    OBVIOUS
  <1>1. Closed(0) \in Record /\ failed \in 0..FailureThreshold
    BY ThresholdAssumption DEF Init, Closed, Record
  <1>2. call \in [Callers -> Calls]
    BY CallValues DEF Init
  <1>. QED BY <1>1, <1>2 DEF Init, TypeOK

(* The record, the calls on their way through Check and ReportResult and   *)
(* the history are always of their types: a caller never acts on half a    *)
(* record, whatever it read before.                                        *)
THEOREM TypeCorrect == Spec => []TypeOK
  BY TypeInit, TypeStep, PTL DEF Spec

-----------------------------------------------------------------------------
(* TripIsEarned.                                                           *)

\* Failed calls whose failure is not stored yet.
Failing ==
    {c \in Callers : call[c].pc \in {"report", "store"} /\ ~call[c].success}

\* A record that may be stored, or added to by every failure still on its way.
Covered(r) ==
    failed = FailureThreshold \/ (r.state = "closed" /\ r.failures + Cardinality(Failing) <= failed)

Accounted ==
    /\ IsFiniteSet(Failing)
    /\ Covered(record)
    /\ \A c \in Callers : call[c].pc \in {"claim", "store"} => Covered(call[c].read)
    /\ \A c \in Callers : call[c].pc = "claim" => call[c].read.state = "open"

IInv == TypeOK /\ Accounted

\* The failures on their way and what they were, one caller apart.
LEMMA FailingMoves ==
    ASSUME IInv, NEW c \in Callers, NEW k \in Calls, call' = [call EXCEPT ![c] = k]
    PROVE  /\ k.pc \in {"report", "store"} /\ ~k.success => Failing' = Failing \cup {c}
           /\ ~(k.pc \in {"report", "store"} /\ ~k.success) => Failing' = Failing \ {c}
  <1>1. call \in [Callers -> Calls]
    BY DEF IInv, TypeOK
  <1>2. call'[c] = k /\ \A x \in Callers \ {c} : call'[x] = call[x]
    BY <1>1
  <1>. QED BY <1>2 DEF Failing

\* How many they are, with one caller less and one more.
LEMMA FailingCounts ==
    ASSUME IInv, NEW c
    PROVE  /\ Cardinality(Failing) \in Nat
           /\ IsFiniteSet(Failing \ {c}) /\ Cardinality(Failing \ {c}) \in Nat
           /\ Cardinality(Failing \ {c}) <= Cardinality(Failing)
           /\ c \in Failing => Cardinality(Failing \ {c}) = Cardinality(Failing) - 1
           /\ IsFiniteSet(Failing \cup {c}) /\ Cardinality(Failing \cup {c}) \in Nat
           /\ Cardinality(Failing \cup {c}) <= Cardinality(Failing) + 1
  <1>1. IsFiniteSet(Failing)
    BY DEF IInv, Accounted
  <1>2. Cardinality(Failing) \in Nat
    BY <1>1, FS_CardinalityType
  <1>3. /\ IsFiniteSet(Failing \ {c})
        /\ Cardinality(Failing \ {c}) = IF c \in Failing THEN Cardinality(Failing) - 1 ELSE Cardinality(Failing)
    BY <1>1, FS_RemoveElement
  <1>4. /\ IsFiniteSet(Failing \cup {c})
        /\ Cardinality(Failing \cup {c}) = IF c \in Failing THEN Cardinality(Failing) ELSE Cardinality(Failing) + 1
    BY <1>1, FS_AddElement
  <1>5. Cardinality(Failing \ {c}) \in Nat /\ Cardinality(Failing \cup {c}) \in Nat
    BY <1>3, <1>4, FS_CardinalityType
  <1>. QED BY <1>2, <1>3, <1>4, <1>5

\* A failure is added to those on their way only when it is counted, so a
\* record that is covered stays covered.
LEMMA CoverStays ==
    ASSUME IInv, NEW c \in Callers, NEW k \in Calls, call' = [call EXCEPT ![c] = k],
           \/ /\ failed' = failed
              /\ k.pc \in {"report", "store"} /\ ~k.success => c \in Failing
           \/ failed' = UpToThreshold(failed + 1)
    PROVE  IsFiniteSet(Failing') /\ \A r \in Record : Covered(r) => Covered(r)'
  <1>1. failed \in Nat /\ failed <= FailureThreshold
    BY ThresholdAssumption DEF IInv, TypeOK
  <1>2. Failing' = Failing \/ Failing' = Failing \ {c}
          \/ (Failing' = Failing \cup {c} /\ failed' = UpToThreshold(failed + 1))
    BY FailingMoves
  <1>3. /\ Cardinality(Failing) \in Nat
        /\ IsFiniteSet(Failing \ {c}) /\ Cardinality(Failing \ {c}) \in Nat
        /\ Cardinality(Failing \ {c}) <= Cardinality(Failing)
        /\ IsFiniteSet(Failing \cup {c}) /\ Cardinality(Failing \cup {c}) \in Nat
        /\ Cardinality(Failing \cup {c}) <= Cardinality(Failing) + 1
    BY FailingCounts
  <1>4. IsFiniteSet(Failing)
    BY DEF IInv, Accounted
  <1>5. /\ failed = FailureThreshold => failed' = FailureThreshold
        /\ failed' = failed \/ failed' = failed + 1 \/ failed' = FailureThreshold
        /\ failed' = UpToThreshold(failed + 1) => failed' = failed + 1 \/ failed' = FailureThreshold
    BY <1>1, ThresholdAssumption DEF UpToThreshold
  <1>6. /\ IsFiniteSet(Failing') /\ Cardinality(Failing') \in Nat
        /\ \/ Cardinality(Failing') <= Cardinality(Failing)
           \/ /\ Cardinality(Failing') <= Cardinality(Failing) + 1
              /\ failed' = failed + 1 \/ failed' = FailureThreshold
    <2>1. CASE Failing' = Failing
      BY <1>3, <1>4, <2>1
    <2>2. CASE Failing' = Failing \ {c}
      BY <1>3, <2>2
    <2>3. CASE Failing' = Failing \cup {c} /\ failed' = UpToThreshold(failed + 1)
      BY <1>3, <1>5, <2>3
    <2>. QED BY <1>2, <2>1, <2>2, <2>3
  <1>7. ASSUME NEW r \in Record, Covered(r) PROVE Covered(r)'
    <2>1. r.failures \in Nat
      BY ThresholdAssumption DEF Record
    <2>2. failed = FailureThreshold \/ (r.state = "closed" /\ r.failures + Cardinality(Failing) <= failed)
      BY <1>7 DEF Covered
    <2>3. failed' = FailureThreshold \/ (r.state = "closed" /\ r.failures + Cardinality(Failing') <= failed')
      BY <1>1, <1>3, <1>5, <1>6, <2>1, <2>2
    <2>. QED BY <2>3 DEF Covered
  <1>. QED BY <1>6, <1>7

\* A step of the caller c that leaves the record alone, or stores one that is
\* covered, and after which c holds no record but a covered one.
LEMMA CallerStep ==
    ASSUME IInv, TypeOK', NEW c \in Callers, NEW k \in Calls, call' = [call EXCEPT ![c] = k],
           \/ /\ failed' = failed
              /\ k.pc \in {"report", "store"} /\ ~k.success => c \in Failing
           \/ failed' = UpToThreshold(failed + 1),
           record' = record \/ Covered(record)',
           k.pc \in {"claim", "store"} => Covered(k.read),
           k.pc = "claim" => k.read.state = "open"
    PROVE  Accounted'
  <1>1. IsFiniteSet(Failing') /\ \A r \in Record : Covered(r) => Covered(r)'
    BY CoverStays
  <1>2. record \in Record /\ Covered(record) /\ call \in [Callers -> Calls]
    BY DEF IInv, TypeOK, Accounted
  <1>3. Covered(record)'
    <2>1. CASE record' = record
      <3>1. failed' = FailureThreshold
               \/ (record.state = "closed" /\ record.failures + Cardinality(Failing') <= failed')
        BY <1>1, <1>2 DEF Covered
      <3>. QED BY <2>1, <3>1 DEF Covered
    <2>. QED BY <2>1
  <1>4. call'[c] = k /\ \A x \in Callers \ {c} : call'[x] = call[x]
    BY <1>2
  <1>5. ASSUME NEW x \in Callers, call'[x].pc \in {"claim", "store"}
        PROVE  Covered(call[x].read)'
    <2>1. call'[x].read \in Record /\ Covered(call'[x].read)
      BY <1>2, <1>4, <1>5, CallShapes DEF IInv, Accounted
    <2>2. failed' = FailureThreshold
             \/ (call'[x].read.state = "closed" /\ call'[x].read.failures + Cardinality(Failing') <= failed')
      BY <1>1, <2>1 DEF Covered
    <2>. QED BY <2>2 DEF Covered
  <1>6. \A x \in Callers : call'[x].pc = "claim" => call'[x].read.state = "open"
    BY <1>4 DEF IInv, Accounted
  <1>. QED BY <1>1, <1>3, <1>5, <1>6 DEF Accounted

\* What a report stores is covered once its own failure is no longer on its way.
LEMMA StoredIsCovered ==
    ASSUME IInv, NEW c \in Callers, ReportSet(c)
    PROVE  Covered(record)'
  <1>. DEFINE r == call[c].read
  <1>1. call[c] \in Calls /\ At(c, "store") /\ r \in Record /\ call[c].success \in BOOLEAN
    BY CallShapes DEF IInv, TypeOK, ReportSet, At
  <1>2. failed = FailureThreshold \/ (r.state = "closed" /\ r.failures + Cardinality(Failing) <= failed)
    BY <1>1 DEF IInv, Accounted, Covered, At
  <1>3. failed \in Nat /\ failed <= FailureThreshold /\ r.failures \in Nat
    BY <1>1, ThresholdAssumption DEF IInv, TypeOK, Record
  <1>4. failed' = failed /\ record' = Resolved(r, call[c].success)
    BY DEF ReportSet
  <1>5. Failing' = Failing \ {c}
    <2>1. Idle \in Calls /\ Idle.pc = "idle"
      BY CallValues DEF Idle
    <2>. QED BY <2>1, FailingMoves DEF ReportSet, Goto
  <1>6. /\ Cardinality(Failing) \in Nat /\ Cardinality(Failing') \in Nat
        /\ Cardinality(Failing') <= Cardinality(Failing)
        /\ c \in Failing => Cardinality(Failing') = Cardinality(Failing) - 1
    BY <1>5, FailingCounts
  <1>7. CASE failed = FailureThreshold
    BY <1>4, <1>7 DEF Covered
  <1>8. CASE failed # FailureThreshold /\ call[c].success
    <2>1. record'.state = "closed" /\ record'.failures = 0
      BY <1>4, <1>8 DEF Resolved, Closed
    <2>2. Cardinality(Failing') <= failed
      BY <1>2, <1>3, <1>6, <1>8
    <2>. QED BY <1>4, <1>6, <2>1, <2>2 DEF Covered
  <1>9. CASE failed # FailureThreshold /\ ~call[c].success
    <2>1. c \in Failing
      BY <1>1, <1>9 DEF Failing, At
    <2>2. r.failures + 1 + Cardinality(Failing') <= failed /\ r.state = "closed"
      BY <1>2, <1>3, <1>6, <1>9, <2>1
    <2>3. r.failures + 1 < FailureThreshold
      BY <1>3, <1>6, <1>9, <2>2, ThresholdAssumption
    <2>4. UpToThreshold(r.failures + 1) = r.failures + 1
      BY <1>3, <2>3 DEF UpToThreshold
    <2>5. record' = Closed(r.failures + 1)
      <3>1. ~(r.failures + 1 >= FailureThreshold)
        BY <1>3, <2>3, ThresholdAssumption
      <3>. QED BY <1>4, <1>9, <2>2, <2>4, <3>1 DEF Resolved
    <2>6. record'.state = "closed" /\ record'.failures = r.failures + 1
      BY <2>5 DEF Closed
    <2>. QED BY <1>4, <2>2, <2>6 DEF Covered
  <1>. QED BY <1>1, <1>7, <1>8, <1>9

\* Every step keeps the account.
LEMMA AccountedStep == IInv /\ [Next]_vars => IInv'
  <1>. SUFFICES ASSUME IInv, [Next]_vars PROVE IInv'
    OBVIOUS
  <1>0. TypeOK /\ TypeOK'
    BY TypeStep DEF IInv
  <1>. SUFFICES Accounted'
    BY <1>0 DEF IInv
  <1>1. /\ Covered(record) /\ record \in Record
        /\ \A c \in Callers : call[c] \in Calls
        /\ \A c \in Callers : call[c].pc \in {"claim", "store"} => Covered(call[c].read)
    BY DEF IInv, Accounted, TypeOK
  <1>2. Idle.pc = "idle"
    BY DEF Idle
  <1>3. ASSUME NEW c \in Callers, Begin(c) \/ BeginBlind(c) \/ CheckFails(c) PROVE Accounted'
    <2>1. /\ record' = record /\ failed' = failed
          /\ \E k \in {[pc |-> "check"], [pc |-> "calling"]} : call' = [call EXCEPT ![c] = k]
      BY <1>3 DEF Begin, BeginBlind, CheckFails, Goto
    <2>2. \A k \in {[pc |-> "check"], [pc |-> "calling"]} : k \in Calls /\ k.pc \in {"check", "calling"}
      BY CallValues
    <2>. QED BY <1>0, <2>1, <2>2, CallerStep
  <1>4. ASSUME NEW c \in Callers, CheckGet(c) PROVE Accounted'
    <2>. DEFINE k == CASE effectiveState(record) = "closed"    -> [pc |-> "calling"]
                       [] effectiveState(record) = "half_open" -> [pc |-> "claim", read |-> record]
                       [] OTHER                                -> Idle
    <2>1. record' = record /\ failed' = failed /\ call' = [call EXCEPT ![c] = k]
      BY <1>4 DEF CheckGet, Goto
    <2>2. k \in Calls /\ k.pc \in {"calling", "claim", "idle"} /\ (k.pc = "claim" => k.read = record)
      BY <1>1, <1>2, CallValues
    <2>3. k.pc \in {"claim", "store"} => Covered(k.read)
      BY <1>1, <2>2
    <2>4. k.pc = "claim" => k.read.state = "open"
      BY <1>1, <1>2, <2>2 DEF effectiveState, Record
    <2>. HIDE DEF k
    <2>. QED BY <1>0, <2>1, <2>2, <2>3, <2>4, CallerStep
  <1>5. ASSUME NEW c \in Callers, ClaimTrial(c) PROVE Accounted'
    <2>. DEFINE k == [pc |-> "calling"]
    <2>1. failed' = failed /\ call' = [call EXCEPT ![c] = k] /\ At(c, "claim")
      BY <1>5 DEF ClaimTrial, Goto
    <2>2. k \in Calls /\ k.pc = "calling"
      BY CallValues
    <2>3. Covered(call[c].read) /\ call[c].read \in Record
      BY <1>1, <2>1, CallShapes DEF At
    <2>4. failed' = FailureThreshold
      BY <2>1, <2>3 DEF IInv, Accounted, Covered, At
    <2>5. Covered(record)'
      BY <2>4 DEF Covered
    <2>. HIDE DEF k
    <2>. QED BY <1>0, <2>1, <2>2, <2>5, CallerStep
  <1>6. ASSUME NEW c \in Callers, AdapterEnds(c) PROVE Accounted'
    <2>. DEFINE k == [pc |-> "report", success |-> up]
    <2>1. /\ record' = record /\ call' = [call EXCEPT ![c] = k]
          /\ failed' = IF up THEN failed ELSE UpToThreshold(failed + 1)
      BY <1>6 DEF AdapterEnds, Goto
    <2>2. k \in Calls /\ k.pc = "report" /\ k.success = up
      BY <1>0, CallValues DEF TypeOK
    <2>. HIDE DEF k
    <2>. QED BY <1>0, <2>1, <2>2, CallerStep
  <1>7. ASSUME NEW c \in Callers, ReportGet(c) PROVE Accounted'
    <2>. DEFINE k == [pc |-> "store", success |-> call[c].success, read |-> record]
    <2>1. record' = record /\ failed' = failed /\ call' = [call EXCEPT ![c] = k] /\ call[c].pc = "report"
      BY <1>7 DEF ReportGet, Goto, At
    <2>2. call[c].success \in BOOLEAN
      BY <1>1, <2>1, CallShapes
    <2>3. k \in Calls /\ k.pc = "store" /\ k.success = call[c].success /\ k.read = record
      BY <1>1, <2>2, CallValues
    <2>4. ~k.success => c \in Failing
      BY <2>1, <2>3 DEF Failing
    <2>. HIDE DEF k
    <2>. QED BY <1>0, <1>1, <2>1, <2>3, <2>4, CallerStep
  <1>8. ASSUME NEW c \in Callers, ReportSet(c) PROVE Accounted'
    <2>1. Covered(record)'
      BY <1>8, StoredIsCovered
    <2>2. failed' = failed /\ call' = [call EXCEPT ![c] = Idle]
      BY <1>8 DEF ReportSet, Goto
    <2>. QED BY <1>0, <1>2, <2>1, <2>2, CallValues, CallerStep
  <1>9. ASSUME NEW c \in Callers, LoseResult(c) PROVE Accounted'
    <2>1. record' = record /\ failed' = failed /\ call' = [call EXCEPT ![c] = Idle]
      BY <1>9 DEF LoseResult, Goto
    <2>. QED BY <1>0, <1>2, <2>1, CallValues, CallerStep
  <1>10. CASE OpenDurationPasses
    <2>1. /\ call' = call /\ failed' = failed
          /\ record'.state = record.state /\ record'.failures = record.failures
      BY <1>1, <1>10 DEF OpenDurationPasses, Record
    <2>2. Failing' = Failing
      BY <2>1 DEF Failing
    <2>. QED BY <2>1, <2>2 DEF IInv, Accounted, Covered
  <1>11. CASE ProviderChanges \/ FaultsEnd \/ UNCHANGED vars
    <2>1. call' = call /\ failed' = failed /\ record' = record
      BY <1>11 DEF ProviderChanges, FaultsEnd, vars
    <2>2. Failing' = Failing
      BY <2>1 DEF Failing
    <2>. QED BY <2>1, <2>2 DEF IInv, Accounted, Covered
  <1>. QED
    BY <1>3, <1>4, <1>5, <1>6, <1>7, <1>8, <1>9, <1>10, <1>11 DEF Next, Work

\* The account is right when nothing has failed yet.
LEMMA AccountedInit == Init => IInv
  <1>. SUFFICES ASSUME Init PROVE Accounted
    BY TypeInit DEF IInv
  <1>1. Idle.pc = "idle" /\ \A c \in Callers : call[c] = Idle
    BY DEF Init, Idle
  <1>2. Failing = {}
    BY <1>1 DEF Failing
  <1>3. IsFiniteSet(Failing) /\ Cardinality(Failing) = 0
    BY <1>2, FS_EmptySet
  <1>4. record.state = "closed" /\ record.failures = 0 /\ failed = 0
    BY DEF Init, Closed
  <1>. QED BY <1>1, <1>3, <1>4 DEF Accounted, Covered

\* The account implies the property.
LEMMA AccountedImplies == IInv => TripIsEarned
  <1>. SUFFICES ASSUME IInv PROVE TripIsEarned
    OBVIOUS
  <1>1. /\ record.failures \in 0..FailureThreshold /\ failed \in 0..FailureThreshold
        /\ failed = FailureThreshold
              \/ (record.state = "closed" /\ record.failures + Cardinality(Failing) <= failed)
    BY DEF IInv, Accounted, TypeOK, Record, Covered
  <1>2. Cardinality(Failing) \in Nat
    BY FailingCounts
  <1>. QED BY <1>1, <1>2, ThresholdAssumption DEF TripIsEarned

(* However the GETs and SETs of the fleet interleave, whatever reports are *)
(* lost and however many calls race through a half-open breaker, the       *)
(* breaker is never tripped by fewer failed calls than its threshold: for  *)
(* any number of callers.                                                  *)
THEOREM TripsAreEarned == Spec => []TripIsEarned
  BY AccountedInit, AccountedStep, AccountedImplies, PTL DEF Spec
=============================================================================
