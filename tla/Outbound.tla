------------------------------ MODULE Outbound ------------------------------
(***************************************************************************)
(* What a connection promises to those who call its SendMessage, without   *)
(* goroutines or channels: the messages it accepts are written in the      *)
(* order it accepted them, each once and none left out, until a write      *)
(* fails; everything that is queued then is lost, and nothing is written   *)
(* any more.  A connection that is shut accepts nothing.                   *)
(***************************************************************************)
EXTENDS Naturals, Sequences

CONSTANTS
    Msgs,  \* what may be sent
    Room   \* how many accepted messages may wait to be written

VARIABLES queue, written, shut, broken

Init ==
    /\ queue = <<>>
    /\ written = <<>>
    /\ shut = FALSE
    /\ broken = FALSE

Accept(m) ==
    /\ ~shut /\ ~broken
    /\ Len(queue) < Room
    /\ queue' = Append(queue, m)
    /\ UNCHANGED <<written, shut, broken>>

Write ==
    /\ queue # <<>>
    /\ written' = Append(written, Head(queue))
    /\ queue' = Tail(queue)
    /\ UNCHANGED <<shut, broken>>

Break ==
    /\ ~broken
    /\ broken' = TRUE
    /\ queue' = <<>>
    /\ UNCHANGED <<written, shut>>

Shut ==
    /\ ~shut
    /\ shut' = TRUE
    /\ UNCHANGED <<queue, written, broken>>

Next == (\E m \in Msgs : Accept(m)) \/ Write \/ Break \/ Shut

Spec == Init /\ [][Next]_<<queue, written, shut, broken>>
=============================================================================
