------------------------------- MODULE Submit -------------------------------
(***************************************************************************)
(* data-plane's Submit: admission against a gauge in Redis shared by the   *)
(* fleet, classification, working memory, placement after ProviderHealth,  *)
(* the relay of provider-gateway's stream, and the accounting of the       *)
(* request, await by await.  At each await the store or the peer may fail, *)
(* the client may leave (the handler is cancelled) or the pod may die.     *)
(***************************************************************************)
EXTENDS Naturals, FiniteSets

CONSTANTS
    Requests,
    Limit           \* ADMISSION_LIMIT

ASSUME SubmitAssumption == IsFiniteSet(Requests) /\ Limit \in Nat \ {0}

Rejections == {"admission_shed", "unsupported", "model_not_found",
               "provider_unavailable", "provider_fallback"}
Statuses   == Rejections \cup {"provider_stream_error", "ok"}

\* What provider-gateway's Invoke did with the call: see Ends of Gateway.  An
\* upstream error reaches us as a best-effort final delta without usage, and
\* only then as an error status.
Outcomes == {"none", "complete", "error", "cut", "fallback", "broken"}

\* Usage of the final delta: none came, it has no token counts, it has them.
Usages == {"none", "unset", "reported"}

VARIABLES
    pc,         \* where the handler of each request is
    gauge,      \* admission:data-plane:inflight
    held,       \* the requests whose increment stands
    lost,       \* history: increments nobody will take back
    wm,         \* requests with working memory in Redis
    status,     \* what the handler finishes with
    usage,      \* captured_usage
    billed,     \* _finish_request got a model_ref
    request_log,\* the row written for each request
    usage_event,\* the row written for each request
    metric,     \* data_plane_submit_total, per request
    outcome,    \* what provider-gateway did
    client      \* what the client has got

vars == <<pc, gauge, held, lost, wm, status, usage, billed, request_log, usage_event,
          metric, outcome, client>>

Awaits == {"admit", "undo", "classify", "memory", "resolve", "place", "relay", "clean",
           "log", "usage", "answer", "release"}

TypeOK ==
    /\ pc \in [Requests -> Awaits \cup {"new", "done"}]
    /\ gauge \in Nat
    /\ held \subseteq Requests
    /\ lost \in Nat
    /\ wm \subseteq Requests
    /\ status \in [Requests -> Statuses \cup {"none"}]
    /\ usage \in [Requests -> Usages]
    /\ billed \subseteq Requests
    /\ request_log \in [Requests -> Statuses \cup {"none"}]
    /\ usage_event \in [Requests -> Usages]
    /\ metric \in [Requests -> {"none", "ok", "error"}]
    /\ outcome \in [Requests -> Outcomes]
    /\ client \in [Requests -> {"waiting", "part", "answer", "end", "error", "gone"}]

Init ==
    /\ pc = [r \in Requests |-> "new"]
    /\ gauge = 0
    /\ held = {}
    /\ lost = 0
    /\ wm = {}
    /\ status = [r \in Requests |-> "none"]
    /\ usage = [r \in Requests |-> "none"]
    /\ billed = {}
    /\ request_log = [r \in Requests |-> "none"]
    /\ usage_event = [r \in Requests |-> "none"]
    /\ metric = [r \in Requests |-> "none"]
    /\ outcome = [r \in Requests |-> "none"]
    /\ client = [r \in Requests |-> "waiting"]

Goto(r, next) == pc' = [pc EXCEPT ![r] = next]
Tell(r, what) == client' = [client EXCEPT ![r] = what]

slots   == <<gauge, held, lost>>
verdict == <<status, usage, billed>>
rows    == <<request_log, usage_event>>

(***************************************************************************)
(* identity.validate, then admit: INCR, the decision, DECR if shed.        *)
(***************************************************************************)
Validate(r) ==
    /\ pc[r] = "new"
    /\ \/ Goto(r, "admit") /\ UNCHANGED client
       \/ Goto(r, "done") /\ Tell(r, "error")           \* MissingIdentity
    /\ UNCHANGED <<slots, wm, verdict, rows, metric, outcome>>

\* mutant: the limit-th request is let in
shedsOver(inflight) == inflight > Limit

sheds(inflight) == inflight >= Limit

Finish(r, s) == Goto(r, "log") /\ status' = [status EXCEPT ![r] = s]

admit(r) ==
    /\ pc[r] = "admit"
    /\ gauge' = gauge + 1
    /\ held' = held \cup {r}
    /\ Goto(r, IF sheds(gauge + 1) THEN "undo" ELSE "classify")
    /\ UNCHANGED <<lost, wm, verdict, rows, metric, outcome, client>>

Decrement(r) == gauge' = gauge - 1 /\ held' = held \ {r} /\ UNCHANGED lost

shed(r) ==
    /\ pc[r] = "undo"
    /\ Decrement(r)
    /\ Finish(r, "admission_shed")
    /\ UNCHANGED <<wm, usage, billed, rows, metric, outcome, client>>

(***************************************************************************)
(* Before the dispatch.                                                    *)
(***************************************************************************)
classify(r) ==
    /\ pc[r] = "classify"
    /\ \/ Goto(r, "memory") /\ UNCHANGED status
       \/ Finish(r, "unsupported")                      \* NeedsDeliberatePath
    /\ UNCHANGED <<slots, wm, usage, billed, rows, metric, outcome, client>>

write_memory(r) ==
    /\ pc[r] = "memory"
    /\ wm' = wm \cup {r}
    /\ Goto(r, "resolve")
    /\ UNCHANGED <<slots, verdict, rows, metric, outcome, client>>

\* workingmem keys carry their TTL.
memory_expires(r) ==
    /\ r \in wm
    /\ wm' = wm \ {r}
    /\ UNCHANGED <<pc, slots, verdict, rows, metric, outcome, client>>

resolve(r) ==
    /\ pc[r] = "resolve"
    /\ \/ Goto(r, "place") /\ UNCHANGED status
       \/ Finish(r, "model_not_found")
    /\ UNCHANGED <<slots, wm, usage, billed, rows, metric, outcome, client>>

Count(r, label) == metric' = [metric EXCEPT ![r] = label]

\* An open breaker, no headroom, or no status is ProviderUnavailable.
bind_via_provider_health(r) ==
    /\ pc[r] = "place"
    /\ \/ Goto(r, "relay") /\ UNCHANGED <<status, metric>>
       \/ Finish(r, "provider_unavailable") /\ Count(r, "error")
    /\ UNCHANGED <<slots, wm, usage, billed, rows, outcome, client>>

(***************************************************************************)
(* The relay.  The final delta is held back; the loop stops at it, so what *)
(* follows it on the wire is never read.                                   *)
(***************************************************************************)
relay(r) ==
    /\ pc[r] = "relay"
    /\ Tell(r, "part")
    /\ UNCHANGED <<pc, slots, wm, verdict, rows, metric, outcome>>

Came(r, o) == outcome' = [outcome EXCEPT ![r] = o]

relay_final(r) ==
    /\ pc[r] = "relay"
    /\ Goto(r, "clean")
    /\ \/ Came(r, "complete") /\ \E u \in {"unset", "reported"} : usage' = [usage EXCEPT ![r] = u]
       \/ Came(r, "error") /\ usage' = [usage EXCEPT ![r] = "unset"]
       \/ Came(r, "cut") /\ UNCHANGED usage             \* the stream ends without a final delta
    /\ UNCHANGED <<slots, wm, status, billed, rows, metric, client>>

relay_fallback(r) ==
    /\ pc[r] = "relay"
    /\ client[r] = "waiting"        \* FallbackSignal comes instead of deltas
    /\ Came(r, "fallback")
    /\ Finish(r, "provider_fallback")
    /\ Count(r, "error")
    /\ UNCHANGED <<slots, wm, usage, billed, rows, client>>

\* RpcError: provider-gateway dies, or the connection to it.
relay_error(r) ==
    /\ pc[r] = "relay"
    /\ Came(r, "broken")
    /\ Finish(r, "provider_stream_error")
    /\ billed' = billed \cup {r}
    /\ Count(r, "error")
    /\ UNCHANGED <<slots, wm, usage, rows, client>>

(***************************************************************************)
(* The clean path, _finish_request, the last word to the client, release.  *)
(***************************************************************************)
\* mutant: the slot is given back before the request is accounted for
releasesEarly(r) ==
    /\ pc[r] = "clean"
    /\ wm' = wm \ {r}
    /\ Count(r, "ok")
    /\ Finish(r, "ok")
    /\ billed' = billed \cup {r}
    /\ Decrement(r)
    /\ UNCHANGED <<usage, rows, outcome, client>>

\* mutant: the final response is yielded first, and the client is gone
yieldsFirst(r) ==
    /\ pc[r] = "clean"
    /\ wm' = wm \ {r}
    /\ Count(r, "ok")
    /\ Tell(r, "answer")
    /\ Finish(r, "ok")
    /\ billed' = billed \cup {r}
    /\ UNCHANGED <<slots, usage, rows, outcome>>

clean(r) ==
    /\ pc[r] = "clean"
    /\ wm' = wm \ {r}
    /\ Count(r, "ok")
    /\ Finish(r, "ok")
    /\ billed' = billed \cup {r}
    /\ UNCHANGED <<slots, usage, rows, outcome, client>>

write_log(r) ==
    /\ pc[r] = "log"
    /\ request_log' = [request_log EXCEPT ![r] = status[r]]
    /\ Goto(r, IF r \in billed THEN "usage" ELSE "answer")
    /\ UNCHANGED <<slots, wm, verdict, usage_event, metric, outcome, client>>

\* No usage and usage without counts are both written as NULL.
write_usage(r) ==
    /\ pc[r] = "usage"
    /\ usage_event' = [usage_event EXCEPT ![r] = IF usage[r] = "none" THEN "unset" ELSE usage[r]]
    /\ Goto(r, "answer")
    /\ UNCHANGED <<slots, wm, verdict, request_log, metric, outcome, client>>

answer(r) ==
    /\ pc[r] = "answer"
    /\ Tell(r, IF status[r] # "ok" THEN "error" ELSE IF usage[r] = "none" THEN "end" ELSE "answer")
    /\ Goto(r, IF r \in held THEN "release" ELSE "done")
    /\ UNCHANGED <<slots, wm, verdict, rows, metric, outcome>>

\* mutant: release belongs to the clean path only
releaseIfOk(r) ==
    /\ pc[r] = "release"
    /\ IF status[r] = "ok" THEN Decrement(r) ELSE UNCHANGED slots
    /\ Goto(r, "done")
    /\ UNCHANGED <<wm, verdict, rows, metric, outcome, client>>

release(r) ==
    /\ pc[r] = "release"
    /\ Decrement(r)
    /\ Goto(r, "done")
    /\ UNCHANGED <<wm, verdict, rows, metric, outcome, client>>

(***************************************************************************)
(* Failures.                                                               *)
(***************************************************************************)
Unheard(r) == Tell(r, IF client[r] = "answer" THEN "answer" ELSE "error")

\* The finally clause releases what admit took.
Unwind(r) == Goto(r, IF r \in held THEN "release" ELSE "done")

\* An exception nobody catches, at any await between admission and release.
Raises(r) ==
    /\ pc[r] \in {"memory", "place", "clean", "log", "usage"}
    /\ Unwind(r)
    /\ Unheard(r)
    /\ UNCHANGED <<slots, wm, verdict, rows, metric, outcome>>

\* The client is gone and the handler is cancelled.
Cancelled(r) ==
    /\ pc[r] \in Awaits \ {"admit", "undo", "release"}
    /\ Unwind(r)
    /\ Tell(r, IF client[r] = "answer" THEN "answer" ELSE "gone")
    /\ UNCHANGED <<slots, wm, verdict, rows, metric, outcome>>

\* INCR or DECR fails, or the pod dies: an increment that stands is lost.
Abandoned(r) ==
    /\ pc[r] \in Awaits
    /\ \/ /\ r \in held
          /\ held' = held \ {r}
          /\ lost' = lost + 1
          /\ UNCHANGED gauge
       \/ /\ r \notin held
          /\ \/ UNCHANGED slots
             \/ /\ pc[r] = "admit"      \* Redis counted, the answer got lost
                /\ gauge' = gauge + 1
                /\ lost' = lost + 1
                /\ UNCHANGED held
    /\ Goto(r, "done")
    /\ Unheard(r)
    /\ UNCHANGED <<wm, verdict, rows, metric, outcome>>

Step(r) ==
    \/ Validate(r) \/ admit(r) \/ shed(r) \/ classify(r) \/ write_memory(r) \/ resolve(r)
    \/ bind_via_provider_health(r) \/ relay_final(r) \/ relay_fallback(r) \/ relay_error(r)
    \/ clean(r) \/ write_log(r) \/ write_usage(r) \/ answer(r) \/ release(r)

Done == (\A r \in Requests : pc[r] = "done") /\ UNCHANGED vars

Next ==
    \/ \E r \in Requests : Step(r) \/ relay(r) \/ memory_expires(r)
    \/ \E r \in Requests : Raises(r) \/ Cancelled(r) \/ Abandoned(r)
    \/ Done

Spec == Init /\ [][Next]_vars

(***************************************************************************)
(* Fairness: a handler whose await is answered goes on.                    *)
(***************************************************************************)
FairSpec == Spec /\ \A r \in Requests : WF_vars(Step(r))

(***************************************************************************)
(* Properties.                                                             *)
(***************************************************************************)
Admitted == {r \in held : pc[r] # "undo"}

(* The fleet never works on as many requests as the limit, whatever is     *)
(* shed, cancelled, lost or restarted: the gauge may drift up, never down. *)
CapacityHolds ==
    /\ gauge = Cardinality(held) + lost
    /\ Cardinality(Admitted) < Limit

(* A client that has its final response has been accounted for: the log    *)
(* row says ok, the usage row has the tokens the provider reported, the    *)
(* outcome is counted and the working memory is gone, although the client  *)
(* stops reading at once.                                                  *)
AnsweredIsBilled ==
    \A r \in Requests : client[r] = "answer" =>
        /\ request_log[r] = "ok"
        /\ usage_event[r] = usage[r]
        /\ metric[r] = "ok"
        /\ r \notin wm

(* Every slot comes back: when all handlers have ended, whichever way, the *)
(* gauge holds only increments that a failed call or a dead pod has lost.  *)
SlotsComeBack == <>[](held = {} /\ gauge = lost)

\* Where a request is, as seen from outside its handler.
stageOf(r) ==
    IF r \in Admitted THEN "serving"
    ELSE IF status[r] = "admission_shed" THEN "turned_away"
    ELSE IF pc[r] \in {"new", "admit", "undo"} THEN "outside" ELSE "over"

Meter == INSTANCE MeteredService WITH
    stage    <- [r \in Requests |-> stageOf(r)],
    log      <- request_log,
    charge   <- usage_event,
    answered <- {r \in Requests : client[r] = "answer"}

(* Submit keeps the promise of MeteredService: whatever fails, is          *)
(* cancelled or dies between two awaits, a request is served once, its     *)
(* rows are written once each, in order, while it holds its slot, and the  *)
(* final response comes after them.                                        *)
IsMetered == Meter!MeterSpec

(* What comments say and the code does not keep (see README).              *)

(* A provider call that failed after its dispatch is recorded as failed:   *)
(* in the log, and in the metric the canary analysis reads.                *)
FailureIsRecorded ==
    \A r \in Requests : (outcome[r] = "error" /\ request_log[r] # "none") =>
        /\ request_log[r] = "provider_stream_error"
        /\ metric[r] = "error"
=============================================================================
