----------------------------- MODULE MCGateway -----------------------------
(***************************************************************************)
(* Instances of Gateway for TLC.                                           *)
(***************************************************************************)
EXTENDS Gateway

CONSTANTS a, b, p1, k   \* requests, a provider, one content

\* Identical calls to one provider.
OneProvider == [r \in Requests |-> p1]
SameContent == [r \in Requests |-> k]
=============================================================================
