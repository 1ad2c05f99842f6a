------------------------------ MODULE Gateway ------------------------------
(***************************************************************************)
(* provider-gateway's Invoke in one pod.  Identical calls in flight are    *)
(* coalesced (internal/coalesce): the first becomes the leader, whose      *)
(* goroutine goes through the quota governor, the breaker and the adapter  *)
(* and publishes the adapter's deltas to a broadcast; every call, the      *)
(* leader's own included, relays (internal/stream) that broadcast to its   *)
(* client.  Before it calls, data-plane asks ProviderHealth how much quota *)
(* is left.  What the breaker decides is its own module's business         *)
(* (Breaker): here it allows or denies.                                    *)
(***************************************************************************)
EXTENDS Naturals, Sequences, FiniteSets

CONSTANTS
    Requests,       \* Invoke calls
    Provider,       \* the provider part of each request's worker_ref
    Content,        \* the model, messages and params of each request
    Nobody,         \* no call in flight for a key
    Limit,          \* quotaPolicy.Limit, per provider and window
    MaxDeltas       \* bound: deltas of a stream before its last one

ASSUME GatewayAssumption ==
    /\ Nobody \notin Requests
    /\ DOMAIN Provider = Requests
    /\ DOMAIN Content = Requests
    /\ Limit \in Nat
    /\ MaxDeltas \in Nat

Providers == {Provider[r] : r \in Requests}
Contents  == {Content[r] : r \in Requests}

(***************************************************************************)
(* Key: model, messages and params.  The provider is not among them.       *)
(***************************************************************************)
Key(r) == Content[r]

Deltas == [is_final : BOOLEAN]

\* A broadcast: what was published, whether it is finished, and the error it is
\* finished with.  It is named by the request that leads it.
Errors == {"nil", "fallback", "error"}
Broadcast == [deltas : Seq(Deltas), done : BOOLEAN, err : Errors]

NewBroadcast == [deltas |-> << >>, done |-> FALSE, err |-> "nil"]

\* How a call ends: before it begins; after a final delta; with a clean end and
\* no final delta; with a FallbackSignal; with an error status, which it is about
\* to get while "failing"; or because its client is gone.
Ends == {"refused", "final", "eof", "fallback", "failing", "error", "gone"}

\* A leader has added to its broadcast, has unlocked it and is about to wake the
\* subscribers: of a delta, of the final delta, of the end.
Waking == {"waking", "waking_final", "waking_end"}

LeadSteps == {"none", "quota", "breaker", "adapter", "streaming", "final", "release", "finish", "ended"} \cup Waking

VARIABLES
    bound,      \* requests whose provider had quota left when they were placed
    in_flight,  \* Group.inFlight: the leader of the call in flight per key
    lead,       \* where the goroutine of each leader is
    err,        \* what a leader will finish its broadcast with
    bcast,      \* the broadcast each request leads, if it does
    sub,        \* the broadcast each request subscribes to, and its position
    end,        \* how each request has ended, or "open"
    quota,      \* the counter of the current window per provider
    admitted,   \* history: calls the quota let through in the current window
    reports     \* outcomes each leader has reported to the breaker

vars == <<bound, in_flight, lead, err, bcast, sub, end, quota, admitted, reports>>

TypeOK ==
    /\ bound \subseteq Requests
    /\ in_flight \in [Contents -> Requests \cup {Nobody}]
    /\ lead \in [Requests -> LeadSteps]
    /\ err \in [Requests -> Errors]
    /\ bcast \in [Requests -> Broadcast]
    /\ sub \in [Requests -> [of : Requests \cup {Nobody}, idx : Nat, waiting : BOOLEAN]]
    /\ end \in [Requests -> Ends \cup {"open"}]
    /\ quota \in [Providers -> 0..(Limit + 1)]
    /\ admitted \in [Providers -> Nat]
    /\ reports \in [Requests -> Seq(BOOLEAN)]

Init ==
    /\ bound = {}
    /\ in_flight = [k \in Contents |-> Nobody]
    /\ lead = [r \in Requests |-> "none"]
    /\ err = [r \in Requests |-> "nil"]
    /\ bcast = [r \in Requests |-> NewBroadcast]
    /\ sub = [r \in Requests |-> [of |-> Nobody, idx |-> 0, waiting |-> FALSE]]
    /\ end = [r \in Requests |-> "open"]
    /\ quota = [p \in Providers |-> 0]
    /\ admitted = [p \in Providers |-> 0]
    /\ reports = [r \in Requests |-> << >>]

(***************************************************************************)
(* ProviderHealth's quota headroom, and what data-plane and the first      *)
(* lines of Invoke do before a call is coalesced.                          *)
(***************************************************************************)
\* Whether any of the window's quota is left; Peek counts nothing.
Headroom(p) == Limit > 0 /\ quota[p] < Limit

Bind(r) ==
    /\ r \notin bound /\ end[r] = "open"
    /\ Headroom(Provider[r])
    /\ bound' = bound \cup {r}
    /\ UNCHANGED <<in_flight, lead, err, bcast, sub, end, quota, admitted, reports>>

\* Redis cannot be reached: full headroom is reported.
PeekFails(r) ==
    /\ r \notin bound /\ end[r] = "open"
    /\ bound' = bound \cup {r}
    /\ UNCHANGED <<in_flight, lead, err, bcast, sub, end, quota, admitted, reports>>

\* No quota is left, or the worker_ref is malformed or of an unknown provider.
Refuse(r) ==
    /\ sub[r].of = Nobody /\ end[r] = "open"
    /\ r \in bound \/ ~Headroom(Provider[r])
    /\ end' = [end EXCEPT ![r] = "refused"]
    /\ UNCHANGED <<bound, in_flight, lead, err, bcast, sub, quota, admitted, reports>>

(***************************************************************************)
(* Group.Invoke, under the group's mutex.                                  *)
(***************************************************************************)
Subscribe(r, b) == sub' = [sub EXCEPT ![r].of = b]

Join(r) ==
    /\ r \in bound /\ sub[r].of = Nobody /\ end[r] = "open"
    /\ in_flight[Key(r)] # Nobody
    /\ Subscribe(r, in_flight[Key(r)])
    /\ UNCHANGED <<bound, in_flight, lead, err, bcast, end, quota, admitted, reports>>

\* mutant: the call in flight is not looked up
LeadAlways(r) ==
    /\ r \in bound /\ sub[r].of = Nobody /\ end[r] = "open"
    /\ in_flight' = [in_flight EXCEPT ![Key(r)] = r]
    /\ lead' = [lead EXCEPT ![r] = "quota"]
    /\ Subscribe(r, r)
    /\ UNCHANGED <<bound, err, bcast, end, quota, admitted, reports>>

Lead(r) ==
    /\ r \in bound /\ sub[r].of = Nobody /\ end[r] = "open"
    /\ in_flight[Key(r)] = Nobody
    /\ in_flight' = [in_flight EXCEPT ![Key(r)] = r]
    /\ lead' = [lead EXCEPT ![r] = "quota"]
    /\ Subscribe(r, r)
    /\ UNCHANGED <<bound, err, bcast, end, quota, admitted, reports>>

(***************************************************************************)
(* The closure the leader runs: quota.Enforce, breaker.Check, adapter.     *)
(* Either declines with a FallbackError.                                   *)
(***************************************************************************)
GoOn(r, step) == lead' = [lead EXCEPT ![r] = step] /\ UNCHANGED err

GiveUp(r, e) ==
    /\ lead' = [lead EXCEPT ![r] = "release"]
    /\ err' = [err EXCEPT ![r] = e]

\* mutant: the count before this call is compared
DecideBefore(current) == current - 1 <= Limit

Decide(current) == current <= Limit

\* INCR; a count over the limit is not told from a higher one.
Enforce(r) ==
    /\ lead[r] = "quota"
    /\ quota' = [quota EXCEPT ![Provider[r]] = IF @ <= Limit THEN @ + 1 ELSE @]
    /\ IF Decide(quota'[Provider[r]])
       THEN GoOn(r, "breaker") /\ admitted' = [admitted EXCEPT ![Provider[r]] = @ + 1]
       ELSE GiveUp(r, "fallback") /\ UNCHANGED admitted
    /\ UNCHANGED <<bound, in_flight, bcast, sub, end, reports>>

\* Redis cannot be reached: fail open, nothing is counted.
EnforceFails(r) ==
    /\ lead[r] = "quota"
    /\ GoOn(r, "breaker")
    /\ UNCHANGED <<bound, in_flight, bcast, sub, end, quota, admitted, reports>>

\* A new window has a key of its own.
WindowEnds(p) ==
    /\ quota[p] > 0
    /\ quota' = [quota EXCEPT ![p] = 0]
    /\ admitted' = [admitted EXCEPT ![p] = 0]
    /\ UNCHANGED <<bound, in_flight, lead, err, bcast, sub, end, reports>>

CheckBreaker(r) ==
    /\ lead[r] = "breaker"
    /\ GoOn(r, "adapter") \/ GiveUp(r, "fallback")
    /\ UNCHANGED <<bound, in_flight, bcast, sub, end, quota, admitted, reports>>

Report(r, success) == reports' = [reports EXCEPT ![r] = Append(@, success)]

AdapterInvoke(r) ==
    /\ lead[r] = "adapter"
    /\ \/ GoOn(r, "streaming") /\ UNCHANGED reports
       \/ GiveUp(r, "error") /\ Report(r, FALSE)
    /\ UNCHANGED <<bound, in_flight, bcast, sub, end, quota, admitted>>

(***************************************************************************)
(* lead drains the adapter's stream through reportingStream.  publish and  *)
(* finish change the broadcast under its mutex, unlock it, and only then   *)
(* call cond.Broadcast: a subscriber may come, read or wait in between.    *)
(***************************************************************************)
publish(b, is_final) ==
    bcast' = [bcast EXCEPT ![b].deltas = Append(@, [is_final |-> is_final])]

\* mutant: Signal in place of Broadcast, which wakes one of those who wait
WokenOne(b) ==
    LET waiters == {r \in Requests : sub[r].of = b /\ sub[r].waiting}
    IN  IF waiters = {} THEN sub
        ELSE [sub EXCEPT ![CHOOSE r \in waiters : TRUE].waiting = FALSE]

Woken(b) == [r \in Requests |-> IF sub[r].of = b THEN [sub[r] EXCEPT !.waiting = FALSE]
                                ELSE sub[r]]

WakeThen(r, at, step) ==
    /\ lead[r] = at
    /\ sub' = Woken(r)
    /\ GoOn(r, step)
    /\ UNCHANGED <<bound, in_flight, bcast, end, quota, admitted, reports>>

Wake(r) ==
    \/ WakeThen(r, "waking", "streaming")
    \/ WakeThen(r, "waking_final", "release")
    \/ WakeThen(r, "waking_end", "ended")

StreamDelta(r) ==
    /\ lead[r] = "streaming"
    /\ Len(bcast[r].deltas) < MaxDeltas
    /\ publish(r, FALSE)
    /\ GoOn(r, "waking")
    /\ UNCHANGED <<bound, in_flight, sub, end, quota, admitted, reports>>

\* mutant: a final delta is not reported
StreamFinalUnreported(r) ==
    /\ lead[r] = "streaming"
    /\ GoOn(r, "final")
    /\ UNCHANGED <<bound, in_flight, bcast, sub, end, quota, admitted, reports>>

\* A final delta is reported by Recv, before lead has it to publish.
StreamFinal(r) ==
    /\ lead[r] = "streaming"
    /\ Report(r, TRUE)
    /\ GoOn(r, "final")
    /\ UNCHANGED <<bound, in_flight, bcast, sub, end, quota, admitted>>

PublishFinal(r) ==
    /\ lead[r] = "final"
    /\ publish(r, TRUE)
    /\ GoOn(r, "waking_final")
    /\ UNCHANGED <<bound, in_flight, sub, end, quota, admitted, reports>>

\* An error, or an EOF before a final delta, which is an error to the breaker
\* and a clean end to the broadcast.
StreamBreaks(r) ==
    /\ lead[r] = "streaming"
    /\ \E e \in {"nil", "error"} : GiveUp(r, e)
    /\ Report(r, FALSE)
    /\ UNCHANGED <<bound, in_flight, bcast, sub, end, quota, admitted>>

release(r) ==
    /\ lead[r] = "release"
    /\ in_flight' = [in_flight EXCEPT ![Key(r)] = Nobody]
    /\ GoOn(r, "finish")
    /\ UNCHANGED <<bound, bcast, sub, end, quota, admitted, reports>>

\* mutant: nobody is woken
finishQuietly(r) ==
    /\ lead[r] = "finish"
    /\ bcast' = [bcast EXCEPT ![r].done = TRUE, ![r].err = err[r]]
    /\ lead' = [lead EXCEPT ![r] = "ended"]
    /\ err' = [err EXCEPT ![r] = "nil"]
    /\ UNCHANGED <<bound, in_flight, sub, end, quota, admitted, reports>>

finish(r) ==
    /\ lead[r] = "finish"
    /\ bcast' = [bcast EXCEPT ![r].done = TRUE, ![r].err = err[r]]
    /\ lead' = [lead EXCEPT ![r] = "waking_end"]
    /\ err' = [err EXCEPT ![r] = "nil"]
    /\ UNCHANGED <<bound, in_flight, sub, end, quota, admitted, reports>>

LeadStep(r) ==
    \/ Enforce(r) \/ CheckBreaker(r) \/ AdapterInvoke(r)
    \/ StreamDelta(r) \/ StreamFinal(r) \/ PublishFinal(r) \/ StreamBreaks(r)
    \/ release(r) \/ finish(r) \/ Wake(r)

(***************************************************************************)
(* subscriber.Recv and Relay.                                              *)
(***************************************************************************)
Open(r) == sub[r].of # Nobody /\ end[r] = "open" /\ ~sub[r].waiting

Subscribed(r) == bcast[sub[r].of]

\* mutant: a finished broadcast has nothing more to read
MoreUnlessDone(r) == sub[r].idx < Len(Subscribed(r).deltas) /\ ~Subscribed(r).done

More(r) == sub[r].idx < Len(Subscribed(r).deltas)

\* mutant: Relay reads on after the final delta
RelayOn(r) ==
    /\ Open(r)
    /\ More(r)
    /\ sub' = [sub EXCEPT ![r].idx = @ + 1]
    /\ UNCHANGED <<bound, in_flight, lead, err, bcast, end, quota, admitted, reports>>

RelayDelta(r) ==
    /\ Open(r)
    /\ More(r)
    /\ sub' = [sub EXCEPT ![r].idx = @ + 1]
    /\ end' = IF Subscribed(r).deltas[sub[r].idx + 1].is_final
              THEN [end EXCEPT ![r] = "final"] ELSE end
    /\ UNCHANGED <<bound, in_flight, lead, err, bcast, quota, admitted, reports>>

Wait(r) ==
    /\ Open(r)
    /\ ~More(r)
    /\ ~Subscribed(r).done
    /\ sub' = [sub EXCEPT ![r].waiting = TRUE]
    /\ UNCHANGED <<bound, in_flight, lead, err, bcast, end, quota, admitted, reports>>

\* What a call is told at the end of its broadcast; an error is preceded by a
\* best-effort delta that says is_final.
Verdict(e) == CASE e = "nil" -> "eof" [] e = "error" -> "failing" [] OTHER -> e

RelayEnd(r) ==
    /\ Open(r)
    /\ ~More(r)
    /\ Subscribed(r).done
    /\ end' = [end EXCEPT ![r] = Verdict(Subscribed(r).err)]
    /\ UNCHANGED <<bound, in_flight, lead, err, bcast, sub, quota, admitted, reports>>

\* Invoke returns the error status.
RelayFails(r) ==
    /\ end[r] = "failing"
    /\ end' = [end EXCEPT ![r] = "error"]
    /\ UNCHANGED <<bound, in_flight, lead, err, bcast, sub, quota, admitted, reports>>

\* The client has left: the next Send fails.  The leader's goroutine goes on.
SendFails(r) ==
    /\ Open(r)
    /\ More(r) \/ Subscribed(r).err \in {"fallback", "error"}
    /\ end' = [end EXCEPT ![r] = "gone"]
    /\ UNCHANGED <<bound, in_flight, lead, err, bcast, sub, quota, admitted, reports>>

RelayStep(r) == RelayDelta(r) \/ Wait(r) \/ RelayEnd(r) \/ RelayFails(r)

\* Every request has been answered and every goroutine has ended.
Done ==
    /\ \A r \in Requests : end[r] \notin {"open", "failing"} /\ lead[r] \in {"none", "ended"}
    /\ UNCHANGED vars

Next ==
    \/ \E r \in Requests : Bind(r) \/ PeekFails(r) \/ Refuse(r)
    \/ \E r \in Requests : Join(r) \/ Lead(r) \/ LeadStep(r) \/ EnforceFails(r)
    \/ \E r \in Requests : RelayStep(r) \/ SendFails(r)
    \/ \E p \in Providers : WindowEnds(p)
    \/ Done

Spec == Init /\ [][Next]_vars

(***************************************************************************)
(* Fairness: while some goroutine can run, one does (each takes finitely   *)
(* many steps, so all get their turn), and an adapter's stream ends (its   *)
(* HTTP client has a timeout).  Nothing is assumed of clients.             *)
(***************************************************************************)
Progress == \E r \in Requests : LeadStep(r) \/ RelayStep(r)

FairSpec == Spec /\ WF_vars(Progress)

(***************************************************************************)
(* Properties.                                                             *)
(***************************************************************************)

(* While a call for a key is in flight no second one is started: up to its *)
(* release a leader is the only one of its key, and it is the one found.   *)
OneLeaderPerKey ==
    \A r \in Requests :
        lead[r] \notin {"none", "finish", "waking_end", "ended"} => in_flight[Key(r)] = r

(* The breaker hears of every adapter call exactly once, and what it hears *)
(* is what subscribers saw: success if and only if the broadcast ends with *)
(* a final delta, and no client that got one rode a call reported failed.  *)
OutcomeMatches ==
    \A r \in Requests :
        /\ Len(reports[r]) <= 1
        /\ (lead[r] = "ended" /\ bcast[r].err # "fallback") =>
             reports[r] = << \E i \in DOMAIN bcast[r].deltas : bcast[r].deltas[i].is_final >>
        /\ end[r] = "final" => reports[sub[r].of] = << TRUE >>

(* No more calls than the limit are let through to a provider in one       *)
(* window by the shared counter, and followers are not counted.            *)
QuotaHolds == \A p \in Providers : admitted[p] <= Limit

(* All clients of a coalesced call that stay to the end are told the same: *)
(* they got every delta of the broadcast and the same kind of end, whether *)
(* they joined before, during or after the stream, and whoever left.       *)
SameStory ==
    \A r, s \in Requests :
        (/\ sub[r].of = sub[s].of
         /\ end[r] \notin {"open", "failing", "gone"}
         /\ end[s] \notin {"open", "failing", "gone"})
        => end[r] = end[s] /\ sub[r].idx = sub[s].idx

\* What has come to the client of a call: deltas of the broadcast, and the delta
\* that Invoke sends before an error status.
relayed(r) == [i \in 1..sub[r].idx |-> IF Subscribed(r).deltas[i].is_final THEN "final" ELSE "more"]

got(r) ==
    IF end[r] \in {"failing", "error"} THEN Append(relayed(r), "best_effort") ELSE relayed(r)

Clients == INSTANCE DeltaStream WITH
    Streams    <- Requests,
    BestEffort <- TRUE,
    deltas     <- [r \in Requests |-> got(r)],
    state      <- [r \in Requests |-> IF end[r] \in {"refused", "fallback"} THEN "declined" ELSE end[r]]

(* Each client of a coalesced call sees a stream as if the call were its   *)
(* own: whoever leads, joins late, lags behind or leaves, its deltas are   *)
(* never changed under it; at most one of them says is_final, and it is    *)
(* the last; it is a provider's unless an error status follows it, and no  *)
(* error status comes without it; and a FallbackSignal comes instead of    *)
(* deltas and never after one, which is what lets data-plane place the     *)
(* call elsewhere.                                                         *)
ClientsSeeStreams == Clients!StreamSpec

(* No wake-up is lost: the leader of a subscriber that waits still runs,   *)
(* and when there is something the subscriber has not read, or the         *)
(* broadcast is done, the leader is between its unlock and its Broadcast,  *)
(* which will wake it, whatever others read, joined or left meanwhile.     *)
NoLostWakeup ==
    \A r \in Requests : sub[r].waiting =>
        /\ lead[sub[r].of] \notin {"none", "ended"}
        /\ (More(r) \/ Subscribed(r).done) => lead[sub[r].of] \in Waking

(* Every call is answered: no subscriber waits forever, also when the      *)
(* client of the leader has left, and when the broadcast was finished      *)
(* between a subscriber's check and its wait.                              *)
EveryCallEnds ==
    <>[](\A r \in Requests : sub[r].of # Nobody => end[r] \notin {"open", "failing"})
=============================================================================
