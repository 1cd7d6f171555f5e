--------------------------- MODULE MCGroupMembers ---------------------------
(* Constants for checking GroupMembers with TLC. *)
EXTENDS GroupMembers, TLC

CONSTANTS u1, u2, i1, i2

\* Every account has an id of its own.
OneIdEach == (u1 :> i1) @@ (u2 :> i2)
\* A single account.
OneUser   == u1 :> i1
=============================================================================
