------------------------------ MODULE MCSender ------------------------------
(* Constants for checking Sender with TLC. *)
EXTENDS Sender, TLC

CONSTANTS c1, c2, c3, c4, p1, b1, b2

Job(kind, body, prompt) == [kind |-> kind, path |-> p1, body |-> body, prompt |-> prompt]
Idle == [c \in Commands |-> Job("none", b1, FALSE)]

\* Files of one name: two commands with prompts, and a media message.
Clash == (c1 :> Job("base64", b1, TRUE)) @@ (c2 :> Job("url", b2, TRUE)) @@
         (c3 :> Job("media", b1, FALSE)) @@ Idle
\* An uploaded file is sent as another of its name comes.
Shared == (c1 :> Job("upload", b1, FALSE)) @@ (c2 :> Job("resource", b1, TRUE)) @@
          (c3 :> Job("upload", b2, FALSE)) @@ Idle
\* More texts than the limiter lets wait.
Rush == [c \in Commands |-> Job("text", b1, FALSE)]

AllPlans == {Clash, Shared, Rush}
=============================================================================
