------------------------- MODULE MCMessagePipeline -------------------------
(* Constants for checking MessagePipeline with TLC. *)
EXTENDS MessagePipeline, TLC

CONSTANTS m1, m2, m3, ev

\* One of each kind.
OneEach == (m1 :> "chat") @@ (m2 :> "rename") @@ (m3 :> "own") @@ (ev :> "event")
=============================================================================
