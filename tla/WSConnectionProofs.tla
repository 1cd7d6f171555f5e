------------------------- MODULE WSConnectionProofs -------------------------
(***************************************************************************)
(* Proofs about WSConnection, for any number of callers and messages and   *)
(* any size of the pool.                                                   *)
(***************************************************************************)
EXTENDS WSConnection, SequenceTheorems, TLAPS

(***************************************************************************)
(* The inductive invariant: besides the types, the writer has not started  *)
(* before Serve, it holds the nil of a closed pool only when that pool is  *)
(* empty, which it then stays, and a caller inside SendMessage had a call  *)
(* left.                                                                   *)
(***************************************************************************)
NotStarted == serve = "new" => writer = "none"

NilMeansDrained ==
    frame = Nil => PoolClosed /\ pool = <<>> /\ (connClosed \/ writeErr \/ empties < MaxEmpty)

CallsLeft == \A c \in Callers : calling[c] => calls[c] < MaxSends

Inv == TypeOK /\ NotStarted /\ NilMeansDrained /\ CallsLeft

LEMMA InvInductive == Inv /\ [Next]_vars => Inv'
<1> SUFFICES ASSUME Inv, [Next]_vars
             PROVE  Inv'
    OBVIOUS
<1> USE BoundsAreNat, CapacityIsPositive, NilIsNoMessage
        DEF Inv, TypeOK, NotStarted, NilMeansDrained, CallsLeft, PoolClosed
<1>1. CASE Stall \/ Resume \/ Vanish
    BY <1>1 DEF Stall, Resume, Vanish, serving, pump, senders
<1>2. CASE Serve \/ Cancel \/ CloseUnserved
    <2>1. CASE Serve
        BY <2>1 DEF Serve, senders, socket
    <2>2. CASE Cancel
        BY <2>2 DEF Cancel, pump, senders, socket
    <2>3. CASE CloseUnserved
        BY <2>3 DEF CloseUnserved, pump, senders, socket
    <2>4. QED
        BY <1>2, <2>1, <2>2, <2>3
<1>3. CASE SelectDone \/ PingTimesOut \/ PingFails
    BY <1>3 DEF SelectDone, PingTimesOut, PingFails, pump, senders, socket
<1>4. CASE ReaderExits \/ WriterExits
    BY <1>4 DEF ReaderExits, WriterExits, Reaps, pump, senders, socket
<1>5. CASE ClosePool \/ CloseConn
    BY <1>5 DEF ClosePool, CloseConn, pump, senders, socket
<1>6. ASSUME NEW c \in Callers, Call(c)
      PROVE  Inv'
    BY <1>6 DEF Call, serving, pump, socket
<1>7. ASSUME NEW c \in Callers, Buffer(c)
      PROVE  Inv'
    <2>1. calls[c] < MaxSends
        BY <1>7 DEF Buffer, Returned
    <2>2. <<c, calls[c]>> \in Msgs
        BY <2>1 DEF Msgs
    <2>3. pool' \in Seq(Msgs) /\ Len(pool') <= Capacity
        BY <1>7, <2>2 DEF Buffer, HasRoom
    <2>4. calls' \in [Callers -> 0..MaxSends] /\ calling' \in [Callers -> BOOLEAN] /\ CallsLeft'
        BY <1>7, <2>1 DEF Buffer, Returned
    <2>5. frame # Nil
        BY <1>7 DEF Buffer
    <2>6. UNCHANGED <<serving, reader, writer, frame, wire, empties, socket>>
        BY <1>7 DEF Buffer
    <2>7. QED
        BY <2>3, <2>4, <2>5, <2>6 DEF serving, socket
<1>8. ASSUME NEW c \in Callers, SendPanics(c)
      PROVE  Inv'
    BY <1>8 DEF SendPanics, Returned, serving, pump, socket
<1>9. CASE Read \/ CallbackReturns \/ CloseFrame \/ ReadFails
    <2>1. CASE Read \/ CallbackReturns \/ ReadFails
        BY <2>1 DEF Read, CallbackReturns, ReadFails, serving, pump, senders, socket
    <2>2. CASE CloseFrame
        <3>1. writeErr' \in BOOLEAN /\ (writeErr => writeErr')
            BY <2>2 DEF CloseFrame, Locked
        <3>2. reader' = "exiting" /\ UNCHANGED <<serving, pump, senders, peer, stalls>>
            BY <2>2 DEF CloseFrame
        <3>3. QED
            BY <3>1, <3>2 DEF serving, pump, senders
    <2>3. QED
        BY <1>9, <2>1, <2>2
<1>10. CASE Take
    <2>1. frame' \in Msgs /\ pool' \in Seq(Msgs) /\ Len(pool') <= Capacity
        BY <1>10, HeadTailProperties DEF Take, Oldest
    <2>2. QED
        BY <1>10, <2>1 DEF Take, serving, senders, socket
<1>11. CASE TakeNil
    BY <1>11 DEF TakeNil, serving, senders, socket
<1>12. CASE Write
    <2>1. CASE frame = Nil
        BY <1>12, <2>1 DEF Write, serving, senders, socket
    <2>2. CASE frame # Nil
        <3>1. frame \in Msgs /\ wire' = Append(wire, frame)
            BY <1>12, <2>2 DEF Write
        <3>2. wire' \in Seq(Msgs)
            BY <3>1
        <3>3. frame' = None /\ writer' = "waiting" /\ frame' # Nil /\ serve' # "new"
            BY <1>12 DEF Write, serving
        <3>4. UNCHANGED <<serving, reader, pool, empties, senders, socket>>
            BY <1>12, <2>2 DEF Write
        <3>5. QED
            BY <3>2, <3>3, <3>4 DEF serving, senders, socket
    <2>3. QED
        BY <2>1, <2>2
<1>13. CASE WriteFails
    BY <1>13 DEF WriteFails, AfterError, serving, senders, socket
<1>14. CASE UNCHANGED vars
    BY <1>14 DEF vars, serving, pump, senders, socket
<1>15. QED
    BY <1>1, <1>2, <1>3, <1>4, <1>5, <1>6, <1>7, <1>8, <1>9, <1>10, <1>11, <1>12,
       <1>13, <1>14 DEF Next

LEMMA InvHolds == Spec => []Inv
<1>1. Init => Inv
    <2> SUFFICES ASSUME Init PROVE Inv
        OBVIOUS
    <2>1. pool \in Seq(Msgs) /\ Len(pool) <= Capacity /\ wire \in Seq(Msgs)
        BY CapacityIsPositive DEF Init
    <2>2. /\ calls \in [Callers -> 0..MaxSends] /\ calling \in [Callers -> BOOLEAN]
          /\ empties \in 0..MaxEmpty /\ stalls \in 0..MaxStalls /\ CallsLeft
        BY BoundsAreNat DEF Init, CallsLeft
    <2>3. frame = None /\ frame # Nil
        BY NilIsNoMessage DEF Init
    <2>4. QED
        BY <2>1, <2>2, <2>3 DEF Init, Inv, TypeOK, NotStarted, NilMeansDrained
<1>2. QED
    BY <1>1, InvInductive, PTL DEF Spec

\* Type correctness: the pool never holds more than its capacity, and there is a
\* frame in hand exactly while sendMessage writes one.
THEOREM TypeCorrect == Spec => []TypeOK
BY InvHolds, PTL DEF Inv

-----------------------------------------------------------------------------
(* Refinement: every step of the connection is a step of Outbound or none.  *)

\* Taking the oldest message out of the pool into the writer's hand moves nothing.
LEMMA TakeKeepsQueue ==
    ASSUME NEW S, NEW s \in Seq(S), s # <<>>
    PROVE  <<Head(s)>> \o Tail(s) = s
<1>1. Head(s) \in S /\ Tail(s) \in Seq(S) /\ Len(Tail(s)) = Len(s) - 1
      /\ \A i \in 1..Len(Tail(s)) : Tail(s)[i] = s[i + 1]
    BY HeadTailProperties
<1>2. <<Head(s)>> \in Seq(S) /\ Len(<<Head(s)>>) = 1
    BY <1>1
<1>3. /\ <<Head(s)>> \o Tail(s) \in Seq(S)
      /\ Len(<<Head(s)>> \o Tail(s)) = Len(s)
      /\ \A i \in 1..Len(s) : (<<Head(s)>> \o Tail(s))[i] = s[i]
    BY <1>1, <1>2, ConcatProperties
<1>4. QED
    BY <1>3, SeqEqual

\* Putting a message into the pool puts it at the end of what is queued.
LEMMA BufferExtendsQueue ==
    ASSUME NEW S, NEW s \in Seq(S), NEW t \in Seq(S), NEW m \in S
    PROVE  s \o Append(t, m) = Append(s \o t, m)
OBVIOUS

\* The frame in hand is the head of what is queued.
LEMMA FrameIsHead ==
    ASSUME NEW S, NEW m \in S, NEW s \in Seq(S)
    PROVE  <<m>> \o s # <<>> /\ Head(<<m>> \o s) = m /\ Tail(<<m>> \o s) = s
OBVIOUS

LEMMA QueuedTyped ==
    ASSUME Inv
    PROVE  Queued \in Seq(Msgs) /\ pool \in Seq(Msgs)
<1>1. CASE Broken \/ frame \in {None, Nil}
    BY <1>1 DEF Queued, Inv, TypeOK
<1>2. CASE ~Broken /\ frame \notin {None, Nil}
    BY <1>2 DEF Queued, Inv, TypeOK
<1>3. QED
    BY <1>1, <1>2

LEMMA RefinementStep == Inv /\ [Next]_vars =>
    [Promise!Next]_<<Queued, wire, PoolClosed, Broken>>
<1> SUFFICES ASSUME Inv, [Next]_vars, ~UNCHANGED <<Queued, wire, PoolClosed, Broken>>
             PROVE  Promise!Next
    OBVIOUS
<1> USE DEF Inv, TypeOK
<1>1. ASSUME UNCHANGED pump, UNCHANGED PoolClosed
      PROVE  FALSE
    BY <1>1 DEF pump, Queued, Broken
<1>2. CASE Stall \/ Resume \/ Vanish
    BY <1>1, <1>2 DEF Stall, Resume, Vanish, serving, PoolClosed
<1>3. CASE Serve
    BY <1>3 DEF Serve, NotStarted, PoolClosed, Broken, Queued
<1>4. CASE Cancel \/ CloseUnserved
    BY <1>1, <1>4 DEF Cancel, CloseUnserved, PoolClosed
<1>5. CASE SelectDone \/ PingTimesOut \/ PingFails \/ ReaderExits
    BY <1>1, <1>5 DEF SelectDone, PingTimesOut, PingFails, ReaderExits, Reaps, PoolClosed
<1>6. CASE WriterExits
    BY <1>6 DEF WriterExits, Reaps, PoolClosed, Broken, Queued
<1>7. CASE ClosePool
    BY <1>7 DEF ClosePool, PoolClosed, Promise!Next, Promise!Shut, pump, Broken, Queued
<1>8. CASE CloseConn
    BY <1>1, <1>8 DEF CloseConn, PoolClosed
<1>9. ASSUME NEW c \in Callers, Call(c) \/ SendPanics(c)
      PROVE  FALSE
    BY <1>1, <1>9 DEF Call, SendPanics, serving, PoolClosed
<1>10. ASSUME NEW c \in Callers, Buffer(c)
       PROVE  Promise!Next
    <2> DEFINE m == <<c, calls[c]>>
    <2>1. calls[c] < MaxSends /\ calls[c] \in Nat
        BY <1>10 DEF Buffer, Returned, CallsLeft
    <2>2. m \in Msgs
        BY <2>1, BoundsAreNat DEF Msgs
    <2>3. /\ pool' = Append(pool, m) /\ Len(pool) < Capacity /\ ~PoolClosed
          /\ UNCHANGED <<writer, frame, wire>> /\ UNCHANGED PoolClosed
        BY <1>10 DEF Buffer, HasRoom, serving, PoolClosed
    <2>4. CASE Broken
        BY <2>3, <2>4 DEF Broken, Queued
    <2>5. CASE ~Broken
        <3>1. Queued' = Append(Queued, m)
            <4>1. CASE frame \in {None, Nil}
                BY <2>2, <2>3, <2>5, <4>1 DEF Queued, Broken
            <4>2. CASE frame \notin {None, Nil}
                BY <2>2, <2>3, <2>5, <4>2, BufferExtendsQueue DEF Queued, Broken
            <4>3. QED
                BY <4>1, <4>2
        <3>2. Len(Queued) < Capacity + 1
            BY <2>3, <2>5, CapacityIsPositive DEF Queued
        <3>3. Promise!Accept(m)
            BY <2>3, <2>5, <3>1, <3>2 DEF Promise!Accept, Broken
        <3>4. QED
            BY <2>2, <3>3 DEF Promise!Next
    <2>6. QED
        BY <2>4, <2>5
<1>11. CASE Read \/ CallbackReturns \/ CloseFrame \/ ReadFails
    BY <1>1, <1>11 DEF Read, CallbackReturns, CloseFrame, ReadFails, serving, PoolClosed
<1>12. CASE Take
    <2>1. <<Head(pool)>> \o Tail(pool) = pool /\ Head(pool) \in Msgs
        BY <1>12, TakeKeepsQueue, HeadTailProperties DEF Take
    <2>2. frame = None /\ ~Broken /\ ~Broken'
        BY <1>12 DEF Take, Broken
    <2>3. Queued = pool
        BY <2>2 DEF Queued
    <2>4. /\ frame' = Head(pool) /\ frame' \notin {None, Nil}
          /\ pool' = Tail(pool)
        BY <1>12, <2>1, NilIsNoMessage DEF Take, Oldest
    <2>5. Queued' = <<Head(pool)>> \o Tail(pool)
        BY <2>2, <2>4 DEF Queued
    <2>6. UNCHANGED <<wire, PoolClosed, Broken>>
        BY <1>12 DEF Take, Broken, serving, PoolClosed
    <2>7. QED
        BY <2>1, <2>3, <2>5, <2>6
<1>13. CASE TakeNil
    BY <1>13, NilIsNoMessage DEF TakeNil, Queued, Broken, serving, PoolClosed
<1>14. CASE Write
    <2>1. CASE frame = Nil
        BY <1>14, <2>1, NilIsNoMessage DEF Write, Queued, Broken, serving, PoolClosed
    <2>2. CASE frame # Nil
        <3>1. frame \in Msgs /\ frame # None
            BY <1>14, <2>2 DEF Write
        <3>2. Queued = <<frame>> \o pool /\ Queued' = pool
            BY <1>14, <2>2, <3>1 DEF Write, Queued, Broken
        <3>3. Queued # <<>> /\ Head(Queued) = frame /\ Tail(Queued) = pool
            BY <3>1, <3>2, FrameIsHead
        <3>4. wire' = Append(wire, Head(Queued)) /\ Queued' = Tail(Queued)
            BY <1>14, <2>2, <3>2, <3>3 DEF Write
        <3>5. UNCHANGED <<PoolClosed, Broken>>
            BY <1>14 DEF Write, Broken, serving, PoolClosed
        <3>6. Promise!Write
            BY <3>3, <3>4, <3>5 DEF Promise!Write
        <3>7. QED
            BY <3>6 DEF Promise!Next
    <2>3. QED
        BY <2>1, <2>2
<1>15. CASE WriteFails
    BY <1>15 DEF WriteFails, AfterError, Promise!Next, Promise!Break, Queued, Broken, serving, PoolClosed
<1>16. CASE UNCHANGED vars
    BY <1>1, <1>16 DEF vars, serving, PoolClosed
<1>17. QED
    BY <1>2, <1>3, <1>4, <1>5, <1>6, <1>7, <1>8, <1>9, <1>10, <1>11, <1>12, <1>13,
       <1>14, <1>15, <1>16 DEF Next

(***************************************************************************)
(* The connection implements Outbound: messages are written in the order   *)
(* they were accepted, each once, with none left out before a failure.     *)
(***************************************************************************)
THEOREM KeepsItsPromise == Spec => KeepsPromise
<1>1. Init => Promise!Init
    BY DEF Init, Promise!Init, Queued, Broken, PoolClosed
<1>2. QED
    BY <1>1, RefinementStep, InvHolds, PTL DEF Spec, KeepsPromise, Promise!Spec

-----------------------------------------------------------------------------
(* The safety half of LeaksOne. *)

Ended == {"closing", "poolClosed", "done"} \* Serve has left its select

NoneReapedYet ==
    serve \notin Ended => reader # "done" /\ writer # "done"

(***************************************************************************)
(* Of the two goroutines one at most ever ends, and one that comes to exit *)
(* when Serve has left its select does not: it stays there for good.       *)
(***************************************************************************)
ReapsOne == ~(reader = "done" /\ writer = "done")

StaysStuck ==
    serve \in Ended => /\ serve' \in Ended
                       /\ (reader = "exiting") => (reader' = "exiting")
                       /\ (writer = "exiting") => (writer' = "exiting")

LateStaysStuck == [][StaysStuck]_vars

Select == SelectDone \/ PingTimesOut \/ PingFails \/ ReaderExits \/ WriterExits

\* Once started, no goroutine ends by a step outside the select.
LEMMA GoroutinesStep ==
    ASSUME [Next]_vars, ~Select, ~Serve
    PROVE  /\ serve \in Ended => serve' \in Ended
           /\ serve' \in Ended => serve \in Ended
           /\ reader' = "done" <=> reader = "done"
           /\ writer' = "done" <=> writer = "done"
           /\ reader = "exiting" => reader' = "exiting"
           /\ writer = "exiting" => writer' = "exiting"
<1>1. CASE Stall \/ Resume \/ Vanish \/ Cancel \/ CloseUnserved \/ UNCHANGED vars
    BY <1>1 DEF Stall, Resume, Vanish, Cancel, CloseUnserved, vars, serving, pump
<1>2. CASE ClosePool \/ CloseConn
    BY <1>2 DEF ClosePool, CloseConn, pump, Ended
<1>3. ASSUME NEW c \in Callers, Call(c) \/ Buffer(c) \/ SendPanics(c)
      PROVE  UNCHANGED <<serve, reader, writer>>
    BY <1>3 DEF Call, Buffer, SendPanics, serving, pump
<1>4. CASE Read \/ CallbackReturns \/ CloseFrame \/ ReadFails
    BY <1>4 DEF Read, CallbackReturns, CloseFrame, ReadFails, serving, pump
<1>5. CASE Take \/ TakeNil \/ Write \/ WriteFails
    BY <1>5 DEF Take, TakeNil, Write, WriteFails, AfterError, serving
<1>6. QED
    BY <1>1, <1>2, <1>3, <1>4, <1>5 DEF Next, Select

LEMMA ReapedStep ==
    ASSUME NoneReapedYet, ReapsOne, [Next]_vars
    PROVE  NoneReapedYet' /\ ReapsOne'
<1>1. CASE Serve
    BY <1>1 DEF Serve, NoneReapedYet, ReapsOne
<1>2. CASE SelectDone \/ PingTimesOut \/ PingFails
    BY <1>2 DEF SelectDone, PingTimesOut, PingFails, pump, NoneReapedYet, ReapsOne, Ended
<1>3. CASE ReaderExits \/ WriterExits
    BY <1>3 DEF ReaderExits, WriterExits, Reaps, pump, NoneReapedYet, ReapsOne, Ended
<1>4. CASE ~Select /\ ~Serve
    BY <1>4, GoroutinesStep DEF NoneReapedYet, ReapsOne
<1>5. QED
    BY <1>1, <1>2, <1>3, <1>4 DEF Select

\* Serve receives from exit once: readMessage and sendMessage never both end.
THEOREM OneStays == Spec => []ReapsOne
<1>1. Init => NoneReapedYet /\ ReapsOne
    BY DEF Init, NoneReapedYet, ReapsOne
<1>2. NoneReapedYet /\ ReapsOne /\ [Next]_vars => (NoneReapedYet /\ ReapsOne)'
    BY ReapedStep
<1>3. QED
    BY <1>1, <1>2, PTL DEF Spec

\* The select is left once, and no receive from exit comes after it: a goroutine that
\* sends to exit then is blocked for good.
THEOREM LateIsStuck == Spec => LateStaysStuck
<1>1. [Next]_vars => [StaysStuck]_vars
    <2> SUFFICES ASSUME [Next]_vars, serve \in Ended PROVE StaysStuck
        BY DEF StaysStuck
    <2>1. ~Select /\ ~Serve
        BY DEF Select, SelectDone, PingTimesOut, PingFails, ReaderExits, WriterExits, Reaps, Serve,
               Ended
    <2>2. QED
        BY <2>1, GoroutinesStep DEF StaysStuck
<1>2. QED
    BY <1>1, PTL DEF Spec, LateStaysStuck
=============================================================================
