----------------------------- MODULE MCBreaker -----------------------------
(***************************************************************************)
(* The breaker of one provider with named calls, for TLC.                  *)
(***************************************************************************)
EXTENDS Breaker

CONSTANTS a, b, c0   \* calls
=============================================================================
