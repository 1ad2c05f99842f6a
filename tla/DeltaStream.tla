----------------------------- MODULE DeltaStream -----------------------------
(***************************************************************************)
(* What a stream of deltas is to whoever reads it, wherever in             *)
(* provider-gateway that is: deltas come one at a time and are not taken   *)
(* back; the final one is the last thing that comes; a stream that will    *)
(* have no final delta ends, cleanly or with an error; and a call can be   *)
(* declined only before its first delta.  Adapters implements this module  *)
(* towards the leader of a call, and Gateway, which reads adapters as such *)
(* streams, towards every client of a coalesced call.  Towards clients an  *)
(* error is preceded by a best-effort delta: it says is_final like a final *)
(* one, and is told from it by its finish reason and by what follows.      *)
(***************************************************************************)
EXTENDS Sequences

CONSTANTS
    Streams,
    BestEffort  \* whether an error is preceded by a best-effort delta

VARIABLES
    deltas,     \* the kind of each delta that has come, per stream
    state       \* "open", "failing", or how the stream has ended

streamVars == <<deltas, state>>

StreamInit ==
    /\ deltas = [s \in Streams |-> << >>]
    /\ state = [s \in Streams |-> "open"]

Comes(s, kind)   == deltas' = [deltas EXCEPT ![s] = Append(@, kind)]
Becomes(s, what) == state' = [state EXCEPT ![s] = what]

Delta(s) == UNCHANGED state /\ Comes(s, "more")

Final(s) == Becomes(s, "final") /\ Comes(s, "final")

\* The end of the deltas, a reader that has left, or an error.
Break(s) ==
    /\ \E e \in {"eof", "gone"} \cup (IF BestEffort THEN {} ELSE {"error"}) : Becomes(s, e)
    /\ UNCHANGED deltas

Spoil(s) == BestEffort /\ Becomes(s, "failing") /\ Comes(s, "best_effort")

Fail(s) == Becomes(s, "error") /\ UNCHANGED deltas

Decline(s) == Becomes(s, "declined") /\ deltas[s] = << >> /\ UNCHANGED deltas

StreamNext ==
    \E s \in Streams :
        \/ state[s] = "open" /\ (Delta(s) \/ Final(s) \/ Break(s) \/ Spoil(s) \/ Decline(s))
        \/ state[s] = "failing" /\ Fail(s)

StreamSpec == StreamInit /\ [][StreamNext]_streamVars
=============================================================================
