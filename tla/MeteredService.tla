--------------------------- MODULE MeteredService ---------------------------
(***************************************************************************)
(* What data-plane promises of the requests it is sent, with no mention of *)
(* the awaits of a handler, the gauge in Redis, or what fails: fewer than  *)
(* the limit are served at a time; a request is served once; its account   *)
(* is made up while it is served, row by row, and no row is ever changed;  *)
(* and nobody gets the final response of a request whose account is open.  *)
(* Submit is shown to implement this module.                               *)
(***************************************************************************)
EXTENDS Naturals, FiniteSets

CONSTANTS
    Requests,
    Limit

VARIABLES
    stage,      \* "outside", "serving", "turned_away" or "over"
    log,        \* the row of a request in request_log, or "none"
    charge,     \* its row in usage_event, or "none"
    answered    \* the requests whose client has the final response

meterVars == <<stage, log, charge, answered>>

MeterInit ==
    /\ stage = [r \in Requests |-> "outside"]
    /\ log = [r \in Requests |-> "none"]
    /\ charge = [r \in Requests |-> "none"]
    /\ answered = {}

Serving == {r \in Requests : stage[r] = "serving"}

Move(r, from, to) ==
    /\ stage[r] \in from
    /\ stage' = [stage EXCEPT ![r] = to]
    /\ UNCHANGED <<log, charge, answered>>

Admit(r) == Cardinality(Serving) + 1 < Limit /\ Move(r, {"outside"}, "serving")

TurnAway(r) == Move(r, {"outside"}, "turned_away")

\* Finished, failed, given up by its client, or lost with its pod.
Leave(r) == Move(r, {"outside", "serving"}, "over")

\* A request that was turned away is logged as such, and no other is.
Log(r, s) ==
    /\ stage[r] = IF s = "admission_shed" THEN "turned_away" ELSE "serving"
    /\ log[r] = "none"
    /\ log' = [log EXCEPT ![r] = s]
    /\ UNCHANGED <<stage, charge, answered>>

\* Only what reached the provider is charged.
Charge(r, u) ==
    /\ stage[r] = "serving"
    /\ log[r] \in {"ok", "provider_stream_error"}
    /\ charge[r] = "none"
    /\ charge' = [charge EXCEPT ![r] = u]
    /\ UNCHANGED <<stage, log, answered>>

Answer(r) ==
    /\ stage[r] = "serving"
    /\ log[r] = "ok"
    /\ charge[r] # "none"
    /\ answered' = answered \cup {r}
    /\ UNCHANGED <<stage, log, charge>>

Verdicts == {"admission_shed", "unsupported", "model_not_found", "provider_unavailable",
             "provider_fallback", "provider_stream_error", "ok"}

MeterNext ==
    \E r \in Requests :
        \/ Admit(r) \/ TurnAway(r) \/ Leave(r) \/ Answer(r)
        \/ \E s \in Verdicts : Log(r, s)
        \/ \E u \in {"unset", "reported"} : Charge(r, u)

MeterSpec == MeterInit /\ [][MeterNext]_meterVars
=============================================================================
