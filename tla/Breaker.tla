------------------------------ MODULE Breaker ------------------------------
(***************************************************************************)
(* provider-gateway/internal/breaker: the circuit breaker of one provider. *)
(* Its record lives in Redis and is shared by all replicas; Check and      *)
(* ReportResult read it with a GET and write it with a separate SET, so    *)
(* the calls of the fleet interleave between the two.  A call is what the  *)
(* leader of a coalesced Invoke does: Check, the adapter call with its     *)
(* stream, ReportResult; it comes only if ProviderHealth, asked by         *)
(* data-plane's scheduler a moment earlier, did not show the breaker open. *)
(***************************************************************************)
EXTENDS Naturals

CONSTANTS
    Callers,            \* leader calls that may be in flight in the fleet
    FailureThreshold    \* Config.FailureThreshold

ASSUME ThresholdAssumption == FailureThreshold \in Nat \ {0}

(***************************************************************************)
(* The record.  Failures is compared with the threshold and incremented,   *)
(* nothing else, so it is kept up to the threshold.  OpenedAt is kept as   *)
(* whether OpenDuration has passed since (due).  No record in Redis and a  *)
(* closed record without failures are treated alike by every operation.    *)
(***************************************************************************)
Record == [state : {"closed", "open", "half_open_trial"},
           failures : 0..FailureThreshold,
           due : BOOLEAN]

Closed(failures) == [state |-> "closed", failures |-> failures, due |-> FALSE]
Open(failures)   == [state |-> "open", failures |-> failures, due |-> FALSE]

VARIABLES
    record,     \* provider:{name}:breaker in Redis
    call,       \* what each caller is in the middle of
    up,         \* the provider answers calls with a final delta
    failed,     \* history: failed calls so far, counted up to the threshold
    lost,       \* history: a result was lost while a trial was on record
    calm        \* no store access fails and no replica dies any more

vars == <<record, call, up, failed, lost, calm>>

Idle == [pc |-> "idle"]

Calls ==
    {Idle}
    \cup [pc : {"check", "calling"}]
    \cup [pc : {"claim"}, read : Record]
    \cup [pc : {"report"}, success : BOOLEAN]
    \cup [pc : {"store"}, success : BOOLEAN, read : Record]

TypeOK ==
    /\ record \in Record
    /\ call \in [Callers -> Calls]
    /\ up \in BOOLEAN
    /\ failed \in 0..FailureThreshold
    /\ lost \in BOOLEAN
    /\ calm \in BOOLEAN

Init ==
    /\ record = Closed(0)
    /\ call = [c \in Callers |-> Idle]
    /\ up = TRUE
    /\ failed = 0
    /\ lost = FALSE
    /\ calm = FALSE

Goto(c, next) == call' = [call EXCEPT ![c] = next]

At(c, pc) == call[c].pc = pc

UpToThreshold(n) == IF n < FailureThreshold THEN n ELSE FailureThreshold

(***************************************************************************)
(* Check.                                                                  *)
(***************************************************************************)
effectiveState(r) == IF r.state = "open" /\ r.due THEN "half_open" ELSE r.state

\* The states as ProviderHealth reports them; a trial in flight has no name there.
BreakerStates == {"CLOSED", "OPEN", "HALF_OPEN", "UNSPECIFIED"}

breakerStateToPb(state) ==
    CASE state = "closed"    -> "CLOSED"
      [] state = "half_open" -> "HALF_OPEN"
      [] state = "open"      -> "OPEN"
      [] OTHER               -> "UNSPECIFIED"

CurrentState == effectiveState(record)

\* One state per provider asked for, each from a GET that changes nothing.
ProviderHealth == breakerStateToPb(CurrentState)

\* mutant: only a closed breaker is worth a call
bindClosed(state) == state = "CLOSED"

\* scheduler/place: half-open is let through, or no trial would ever come.
bind(state) == state \in BreakerStates \ {"OPEN"}

Begin(c) ==
    /\ call[c] = Idle
    /\ bind(ProviderHealth)
    /\ Goto(c, [pc |-> "check"])
    /\ UNCHANGED <<record, up, failed, lost, calm>>

\* The GET of ProviderHealth fails and the breaker is reported closed.
BeginBlind(c) ==
    /\ ~calm
    /\ call[c] = Idle
    /\ Goto(c, [pc |-> "check"])
    /\ UNCHANGED <<record, up, failed, lost, calm>>

CheckGet(c) ==
    /\ At(c, "check")
    /\ Goto(c, CASE effectiveState(record) = "closed"    -> [pc |-> "calling"]
                 [] effectiveState(record) = "half_open" -> [pc |-> "claim", read |-> record]
                 [] OTHER                                -> Idle)      \* Deny
    /\ UNCHANGED <<record, up, failed, lost, calm>>

ClaimTrial(c) ==
    /\ At(c, "claim")
    /\ record' = [state |-> "half_open_trial", failures |-> call[c].read.failures,
                  due |-> call[c].read.due]
    /\ Goto(c, [pc |-> "calling"])
    /\ UNCHANGED <<up, failed, lost, calm>>

\* Both accesses of Check fail open: the call is allowed without a trial.
CheckFails(c) ==
    /\ ~calm
    /\ At(c, "check") \/ At(c, "claim")
    /\ Goto(c, [pc |-> "calling"])
    /\ UNCHANGED <<record, up, failed, lost, calm>>

(***************************************************************************)
(* The adapter call (external) ends: with an error, with a stream that     *)
(* breaks off, or with a final delta.  reportingStream reports it once.    *)
(***************************************************************************)
AdapterEnds(c) ==
    /\ At(c, "calling")
    /\ Goto(c, [pc |-> "report", success |-> up])
    /\ failed' = IF up THEN failed ELSE UpToThreshold(failed + 1)
    /\ UNCHANGED <<record, up, lost, calm>>

(***************************************************************************)
(* ReportResult.                                                           *)
(***************************************************************************)
ReportGet(c) ==
    /\ At(c, "report")
    /\ Goto(c, [pc |-> "store", success |-> call[c].success, read |-> record])
    /\ UNCHANGED <<record, up, failed, lost, calm>>

\* mutant: a failure is counted twice
TripsEarly(r, success) ==
    IF success THEN Closed(0)
    ELSE IF r.state = "half_open_trial" THEN Open(FailureThreshold)
    ELSE LET failures == UpToThreshold(r.failures + 2)
         IN IF failures >= FailureThreshold THEN Open(failures) ELSE Closed(failures)

\* mutant: failures are not accumulated
ForgetsFailures(r, success) ==
    IF success THEN Closed(0)
    ELSE IF r.state = "half_open_trial" THEN Open(FailureThreshold)
    ELSE LET failures == UpToThreshold(1)
         IN IF failures >= FailureThreshold THEN Open(failures) ELSE Closed(failures)

Resolved(r, success) ==
    IF success THEN Closed(0)
    ELSE IF r.state = "half_open_trial" THEN Open(FailureThreshold)
    ELSE LET failures == UpToThreshold(r.failures + 1)
         IN IF failures >= FailureThreshold THEN Open(failures) ELSE Closed(failures)

ReportSet(c) ==
    /\ At(c, "store")
    /\ record' = Resolved(call[c].read, call[c].success)
    /\ Goto(c, Idle)
    /\ UNCHANGED <<up, failed, lost, calm>>

\* The report fails (logged, nothing else), or the replica dies with the call.
LoseResult(c) ==
    /\ ~calm
    /\ call[c] # Idle
    /\ lost' = (lost \/ (~At(c, "check") /\ record.state = "half_open_trial"))
    /\ Goto(c, Idle)
    /\ UNCHANGED <<record, up, failed, calm>>

(***************************************************************************)
(* Time and the provider.                                                  *)
(***************************************************************************)
OpenDurationPasses ==
    /\ record.state = "open"
    /\ ~record.due
    /\ record' = [record EXCEPT !.due = TRUE]
    /\ UNCHANGED <<call, up, failed, lost, calm>>

ProviderChanges ==
    /\ up' = ~up
    /\ UNCHANGED <<record, call, failed, lost, calm>>

Work(c) ==
    \/ Begin(c) \/ CheckGet(c) \/ ClaimTrial(c) \/ AdapterEnds(c)
    \/ ReportGet(c) \/ ReportSet(c)

FaultsEnd ==
    /\ ~calm
    /\ calm' = TRUE
    /\ UNCHANGED <<record, call, up, failed, lost>>

Next ==
    \/ \E c \in Callers : Work(c) \/ BeginBlind(c) \/ CheckFails(c) \/ LoseResult(c)
    \/ OpenDurationPasses \/ ProviderChanges \/ FaultsEnd

Spec == Init /\ [][Next]_vars

(***************************************************************************)
(* Fairness: requests keep coming, a call that has begun goes on, time     *)
(* passes, and faults do not go on forever.                                *)
(***************************************************************************)
Fairness ==
    /\ \A c \in Callers : WF_vars(Work(c))
    /\ WF_vars(OpenDurationPasses)
    /\ WF_vars(FaultsEnd)

FairSpec == Spec /\ Fairness

(***************************************************************************)
(* Properties.                                                             *)
(***************************************************************************)

(* The breaker never trips on fewer failed calls than the threshold: reads *)
(* and writes of racing reports lose failures but never invent one.        *)
TripIsEarned ==
    /\ record.failures <= failed
    /\ record.state # "closed" => failed >= FailureThreshold

(* A provider that stays down is cut off for good, in spite of updates     *)
(* lost between racing reports: from some point on the record is open or   *)
(* being tried.                                                            *)
DownTrips == <>[]~up => <>[](record.state # "closed")

(* A provider that is up again gets all its traffic back, unless a result  *)
(* was lost during a trial: the trials, also two at once or one that a     *)
(* late report has overtaken, end in a closed breaker, and the scheduler   *)
(* in front of it does not keep the trial away.                            *)
RecoversWhenReported == (<>[]up /\ []~lost) => <>[](record.state = "closed")
=============================================================================
