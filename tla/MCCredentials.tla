--------------------------- MODULE MCCredentials ---------------------------
(***************************************************************************)
(* Two providers and one other user of the Vault client, for TLC.          *)
(***************************************************************************)
EXTENDS Credentials

CONSTANTS p1, p2, o1    \* two providers, another user

MCOrder == <<p1, p2>>
=============================================================================
