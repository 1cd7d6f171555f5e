--------------------------- MODULE WSServerProofs ---------------------------
(***************************************************************************)
(* Proofs about WSServer, for any connections, any number of messages and  *)
(* any size of the channel and of what a connection takes.                 *)
(*                                                                         *)
(* A connection in the map is level with the broadcast: it has taken all   *)
(* that was broadcast since it was added, up to the last message when the  *)
(* range has come to it, and to the one before that until then.  What it   *)
(* has taken is a run of numbers that starts where it was added, so that   *)
(* its first and its last number tell all of it.                           *)
(***************************************************************************)
EXTENDS WSServer, SequenceTheorems, TLAPS

Msgs == 1..MaxMsgs

\* Its Serve runs: serve has put it into the map.
Entered(c) == conn[c] = "served" /\ ~(serve = "adding" /\ hand = c)

Types ==
    /\ serve \in {"select", "adding", "deleting", "closed"}
    /\ hand \in Clients \cup {None}
    /\ hand # None <=> serve \in {"adding", "deleting"}
    /\ pump \in {"waiting", "ranging", "offering", "unregistering"}
    /\ target \in Clients \cup {None}
    /\ target # None <=> pump \in {"offering", "unregistering"}
    /\ clients \subseteq Clients /\ seen \subseteq Clients /\ owed \subseteq Clients
    /\ conn \in [Clients -> {"out", "upgraded", "served"}]
    /\ posted \in 0..MaxMsgs /\ begun \in 0..posted
    /\ pump # "waiting" => begun > 0
    /\ queue \in [Clients -> Seq(Msgs)] /\ written \in [Clients -> Seq(Msgs)]
    /\ \A c \in Clients : Len(queue[c]) <= Room
    /\ shut \in [Clients -> BOOLEAN] /\ broken \in [Clients -> BOOLEAN]
    /\ since \in [Clients -> Nat] /\ shutAt \in [Clients -> Nat]
    /\ down \in BOOLEAN

(***************************************************************************)
(* The map has connections that were added and nothing else, and all of    *)
(* them that are not shut; those that are shut leave it by way of hand.    *)
(***************************************************************************)
MapFits ==
    /\ \A c \in Clients : c \in clients \/ c = target => Entered(c)
    /\ \A c \in Clients : Entered(c) /\ ~shut[c] /\ serve # "closed" => c \in clients
    /\ serve \in {"adding", "deleting"} => conn[hand] = "served"
    /\ serve = "deleting" => shut[hand]
    /\ pump = "unregistering" => shut[target]
    /\ target # None => target \in seen

\* A connection takes nothing, and does not end, before it is in the map; then it takes a run.
Runs ==
    \A c \in Clients :
        /\ ~Entered(c) => Taken(c) = <<>> /\ ~shut[c]
        /\ \A k \in 1..Len(Taken(c)) : Taken(c)[k] = Taken(c)[1] + (k - 1) /\ Taken(c)[k] <= begun
        /\ Taken(c) # <<>> => Taken(c)[1] \in {since[c], since[c] + 1}
        /\ since[c] <= begun

\* The connection has taken all messages up to n that were broadcast since it was added.
Reaches(c, n) == IF Taken(c) = <<>> THEN since[c] >= n ELSE Taken(c)[Len(Taken(c))] = n

\* Neither its Serve nor its writer has ended, and broadcasts come to it.
Live(c) == (c \in clients \/ c = target) /\ ~shut[c] /\ ~broken[c]

\* The last message that a connection can have been offered.
Upto(c) == IF pump = "waiting" \/ (c \in seen /\ c # target) THEN begun ELSE begun - 1

LevelAt(c) ==
    Live(c) =>
        /\ Reaches(c, Upto(c))
        /\ pump # "waiting" /\ c \in clients \ owed => since[c] = begun

Level == \A c \in Clients : LevelAt(c)

\* A connection that had ended before this broadcast is about to leave the map, or still to be found out.
Dropping ==
    \A c \in clients : shut[c] /\ shutAt[c] # begun =>
        \/ serve = "deleting" /\ hand = c
        \/ pump # "waiting" /\ (c \in owed \ seen \/ c = target)

-----------------------------------------------------------------------------
(* Types. *)

LEMMA TypesStep ==
    ASSUME Types, [Next]_vars
    PROVE  Types'
<1> USE DEF loop, ranging, channel, outbound
<1>1. ASSUME NEW c \in Clients, Upgrade(c) \/ Register(c)
      PROVE  Types'
    BY <1>1, NoneIsNoClient DEF Types, Upgrade, Register
<1>2. CASE Add
    <2>1. hand \in Clients /\ begun \in Nat
        BY <1>2, BoundIsNat DEF Types, Add
    <2>2. since' \in [Clients -> Nat] /\ clients' \subseteq Clients
        BY <1>2, <2>1 DEF Types, Add
    <2>3. QED
        BY <1>2, <2>2, NoneIsNoClient DEF Types, Add
<1>3. CASE Unregister \/ Delete \/ Done \/ Exit \/ MapFatal
    BY <1>3, NoneIsNoClient DEF Types, Unregister, Delete, Without, Done, Exit, MapFatal
<1>4. CASE Post \/ Begin
    <2>1. posted' \in 0..MaxMsgs /\ begun' \in 0..posted'
        BY <1>4, BoundIsNat DEF Types, Post, Begin
    <2>2. QED
        BY <1>4, <2>1, NoneIsNoClient DEF Types, Post, Begin
<1>5. ASSUME NEW c \in Clients, Visit(c)
      PROVE  Types'
    BY <1>5, NoneIsNoClient DEF Types, Visit
<1>6. CASE EndRange \/ OfferInVain \/ OfferFails
    BY <1>6, NoneIsNoClient DEF Types, EndRange, OfferInVain, OfferFails, AfterFailure
<1>7. CASE Offer
    <2>1. target \in Clients /\ begun \in Msgs
        BY <1>7, BoundIsNat, NoneIsNoClient DEF Types, Offer, Msgs
    <2>2. /\ Append(queue[target], begun) \in Seq(Msgs)
          /\ Len(Append(queue[target], begun)) = Len(queue[target]) + 1
          /\ Len(queue[target]) \in Nat
        BY <2>1, AppendProperties, LenProperties DEF Types
    <2>3. Len(queue[target]) < Room /\ Room \in Nat
        BY <1>7, SizesArePositive DEF Offer, HasRoom
    <2>4. queue' \in [Clients -> Seq(Msgs)] /\ \A c \in Clients : Len(queue'[c]) <= Room
        BY <1>7, <2>1, <2>2, <2>3 DEF Types, Offer
    <2>5. QED
        BY <1>7, <2>4, NoneIsNoClient DEF Types, Offer
<1>8. ASSUME NEW c \in Clients, Write(c)
      PROVE  Types'
    <2>1. queue[c] \in Seq(Msgs) /\ queue[c] # <<>>
        BY <1>8 DEF Types, Write
    <2>2. /\ Head(queue[c]) \in Msgs /\ Tail(queue[c]) \in Seq(Msgs)
          /\ Len(Tail(queue[c])) = Len(queue[c]) - 1 /\ Len(queue[c]) \in Nat
          /\ Append(written[c], Head(queue[c])) \in Seq(Msgs)
        BY <2>1, HeadTailProperties, AppendProperties, LenProperties DEF Types
    <2>3. /\ queue' \in [Clients -> Seq(Msgs)] /\ written' \in [Clients -> Seq(Msgs)]
          /\ \A d \in Clients : Len(queue'[d]) <= Room
        BY <1>8, <2>2, SizesArePositive DEF Types, Write
    <2>4. QED
        BY <1>8, <2>3 DEF Types, Write
<1>9. ASSUME NEW c \in Clients, Break(c)
      PROVE  Types'
    <2>1. <<>> \in Seq(Msgs) /\ Len(<<>>) = 0
        OBVIOUS
    <2>2. queue' \in [Clients -> Seq(Msgs)] /\ \A d \in Clients : Len(queue'[d]) <= Room
        BY <1>9, <2>1, SizesArePositive DEF Types, Break
    <2>3. QED
        BY <1>9, <2>2 DEF Types, Break
<1>10. ASSUME NEW c \in Clients, Shut(c)
       PROVE  Types'
    <2>1. begun \in Nat
        BY BoundIsNat DEF Types
    <2>2. QED
        BY <1>10, <2>1 DEF Types, Shut
<1>11. CASE UNCHANGED vars
    BY <1>11 DEF Types, vars
<1>12. QED
    BY <1>1, <1>2, <1>3, <1>4, <1>5, <1>6, <1>7, <1>8, <1>9, <1>10, <1>11 DEF Next, Loop, Pump

-----------------------------------------------------------------------------
(* What a connection has taken, and how a step changes it. *)

LEMMA Narrowed ==
    ASSUME NEW S, NEW n \in Nat, NEW s \in [1..n -> S]
    PROVE  s \in Seq(S)
BY SeqDef

LEMMA PrefixOfConcat ==
    ASSUME NEW s \in Seq(Msgs), NEW t \in Seq(Msgs)
    PROVE  /\ Len(s) <= Len(s \o t)
           /\ \A k \in 1..Len(s) : (s \o t)[k] = s[k]
<1>1. Len(s) \in Nat /\ Len(t) \in Nat
    BY LenProperties
<1>2. Len(s \o t) = Len(s) + Len(t)
    BY ConcatProperties
<1>3. \A k \in 1..Len(s) : (s \o t)[k] = s[k]
    BY <1>1, ConcatProperties
<1>4. QED
    BY <1>1, <1>2, <1>3

LEMMA MoveToTheEnd ==
    ASSUME NEW s \in Seq(Msgs), NEW t \in Seq(Msgs)
    PROVE  /\ \A m \in Msgs : s \o Append(t, m) = Append(s \o t, m)
           /\ t # <<>> => Append(s, Head(t)) \o Tail(t) = s \o t
<1>1. ASSUME NEW m \in Msgs
      PROVE  s \o Append(t, m) = Append(s \o t, m)
    OBVIOUS
<1>2. ASSUME t # <<>>
      PROVE  Append(s, Head(t)) \o Tail(t) = s \o t
    BY <1>2
<1>3. QED
    BY <1>1, <1>2

LEMMA TakenIsSeq ==
    ASSUME Types, NEW c \in Clients
    PROVE  /\ written[c] \in Seq(Msgs) /\ queue[c] \in Seq(Msgs) /\ Taken(c) \in Seq(Msgs)
           /\ Len(Taken(c)) \in Nat /\ (Taken(c) = <<>> <=> Len(Taken(c)) = 0)
           /\ \A k \in 1..Len(Taken(c)) : Taken(c)[k] \in Msgs
<1>1. written[c] \in Seq(Msgs) /\ queue[c] \in Seq(Msgs)
    BY DEF Types
<1>2. Taken(c) \in Seq(Msgs)
    BY <1>1, ConcatProperties DEF Taken
<1>3. QED
    BY <1>1, <1>2, LenProperties, EmptySeq, ElementOfSeq

LEMMA TakenOffered ==
    ASSUME Types, Offer, NEW c \in Clients
    PROVE  /\ begun \in Msgs /\ target \in Clients
           /\ Taken(c)' = IF c = target THEN Append(Taken(c), begun) ELSE Taken(c)
<1>1. target \in Clients /\ begun \in Msgs
    BY BoundIsNat, NoneIsNoClient DEF Types, Offer, Msgs
<1>2. queue' = [queue EXCEPT ![target] = Append(queue[target], begun)] /\ written' = written
    BY DEF Offer
<1>3. CASE c = target
    <2>1. queue'[c] = Append(queue[c], begun)
        BY <1>1, <1>2, <1>3 DEF Types
    <2>2. written[c] \o Append(queue[c], begun) = Append(written[c] \o queue[c], begun)
        BY <1>1, TakenIsSeq, MoveToTheEnd
    <2>3. QED
        BY <1>1, <1>2, <1>3, <2>1, <2>2, Zenon DEF Taken
<1>4. CASE c # target
    BY <1>1, <1>2, <1>4 DEF Taken, Types
<1>5. QED
    BY <1>1, <1>3, <1>4

LEMMA TakenWritten ==
    ASSUME Types, NEW d \in Clients, Write(d), NEW c \in Clients
    PROVE  Taken(c)' = Taken(c)
<1>1. CASE c = d
    <2>1. /\ queue[d] # <<>> /\ queue'[d] = Tail(queue[d])
          /\ written'[d] = Append(written[d], Head(queue[d]))
        BY DEF Write, Types
    <2>2. Append(written[d], Head(queue[d])) \o Tail(queue[d]) = written[d] \o queue[d]
        BY <2>1, TakenIsSeq, MoveToTheEnd
    <2>3. QED
        BY <1>1, <2>1, <2>2, Zenon DEF Taken
<1>2. CASE c # d
    BY <1>2 DEF Write, Taken, Types
<1>3. QED
    BY <1>1, <1>2

\* The connection c loses the end of what it has taken, or nothing.
Shrinks(c) ==
    /\ Taken(c)' \in Seq(Msgs)
    /\ Len(Taken(c)') <= Len(Taken(c))
    /\ \A k \in 1..Len(Taken(c)') : Taken(c)'[k] = Taken(c)[k]

LEMMA TakenBroken ==
    ASSUME Types, NEW d \in Clients, Break(d), NEW c \in Clients
    PROVE  Shrinks(c)
<1>1. CASE c = d
    <2>1. queue'[c] = <<>> /\ written' = written
        BY <1>1 DEF Break, Types
    <2>2. Taken(c)' = written[c]
        BY <2>1, TakenIsSeq, ConcatEmptySeq DEF Taken
    <2>3. /\ Len(written[c]) <= Len(Taken(c))
          /\ \A k \in 1..Len(written[c]) : Taken(c)[k] = written[c][k]
        BY TakenIsSeq, PrefixOfConcat DEF Taken
    <2>4. QED
        BY <2>2, <2>3, TakenIsSeq, Zenon DEF Shrinks
<1>2. CASE c # d
    <2>1. Taken(c)' = Taken(c)
        BY <1>2 DEF Break, Taken, Types
    <2>2. QED
        BY <2>1, TakenIsSeq DEF Shrinks
<1>3. QED
    BY <1>1, <1>2

\* All other steps leave queue and written alone.
LEMMA TakenKept ==
    ASSUME UNCHANGED <<queue, written>>, NEW c \in Clients
    PROVE  Taken(c)' = Taken(c)
BY DEF Taken

LEMMA TakenStep ==
    ASSUME Types, [Next]_vars, NEW c \in Clients
    PROVE  \/ Taken(c)' = Taken(c)
           \/ Offer /\ c = target /\ Taken(c)' = Append(Taken(c), begun)
           \/ Break(c) /\ Shrinks(c)
<1> USE DEF loop, ranging, channel, outbound
<1>1. CASE Offer
    BY <1>1, TakenOffered
<1>2. ASSUME NEW d \in Clients, Write(d)
      PROVE  Taken(c)' = Taken(c)
    BY <1>2, TakenWritten
<1>3. ASSUME NEW d \in Clients, Break(d)
      PROVE  (Break(c) /\ Shrinks(c)) \/ Taken(c)' = Taken(c)
    <2>1. CASE c = d
        BY <1>3, <2>1, TakenBroken
    <2>2. CASE c # d
        BY <1>3, <2>2 DEF Break, Taken, Types
    <2>3. QED
        BY <2>1, <2>2
<1>4. CASE UNCHANGED <<queue, written>>
    BY <1>4, TakenKept
<1>5. ASSUME NEW d \in Clients, Upgrade(d) \/ Register(d) \/ Visit(d) \/ Shut(d)
      PROVE  UNCHANGED <<queue, written>>
    BY <1>5 DEF Upgrade, Register, Visit, Shut
<1>6. ASSUME \/ Add \/ Delete \/ Unregister \/ Begin \/ EndRange \/ OfferInVain \/ OfferFails
             \/ MapFatal \/ Post \/ Done \/ Exit \/ UNCHANGED vars
      PROVE  UNCHANGED <<queue, written>>
    BY <1>6 DEF Add, Delete, Unregister, Begin, EndRange, OfferInVain, OfferFails, MapFatal, Post,
                Done, Exit, vars
<1>7. QED
    BY <1>1, <1>2, <1>3, <1>4, <1>5, <1>6 DEF Next, Loop, Pump

(***************************************************************************)
(* serve alone decides who has entered, and nobody leaves again; a         *)
(* connection is shut by its own Serve, and the number of broadcasts grows.*)
(***************************************************************************)
LEMMA LoopStep ==
    ASSUME Types, [Next]_vars, NEW c \in Clients
    PROVE  /\ Entered(c) => Entered(c)'
           /\ since'[c] = since[c] \/ (Add /\ c = hand /\ since'[c] = begun /\ Taken(c)' = Taken(c))
           /\ shut'[c] => shut[c] \/ Entered(c)
           /\ begun \in Nat /\ begun' \in Nat /\ begun <= begun'
<1> DEFINE Goal == /\ Entered(c) => Entered(c)'
                   /\ since'[c] = since[c] \/ (Add /\ c = hand /\ since'[c] = begun /\ Taken(c)' = Taken(c))
                   /\ shut'[c] => shut[c] \/ Entered(c)
                   /\ begun' = begun \/ begun' = begun + 1
<1> SUFFICES Goal
    BY BoundIsNat DEF Types
<1> USE DEF loop, ranging, channel, outbound
<1>1. ASSUME NEW d \in Clients, Upgrade(d) \/ Register(d)
      PROVE  Goal
    BY <1>1 DEF Types, Entered, Upgrade, Register
<1>2. CASE Add
    <2>1. Taken(c)' = Taken(c)
        BY <1>2, TakenKept DEF Add
    <2>2. QED
        BY <1>2, <2>1 DEF Types, Entered, Add
<1>3. CASE Delete \/ Unregister \/ Done
    BY <1>3 DEF Types, Entered, Delete, Unregister, Done
<1>4. ASSUME NEW d \in Clients, Visit(d) \/ Write(d) \/ Break(d)
      PROVE  Goal
    BY <1>4 DEF Entered, Visit, Write, Break
<1>5. ASSUME NEW d \in Clients, Shut(d)
      PROVE  Goal
    BY <1>5 DEF Types, Entered, Shut
<1>6. CASE \/ Begin \/ EndRange \/ Offer \/ OfferInVain \/ OfferFails
           \/ MapFatal \/ Post \/ Exit \/ UNCHANGED vars
    <2>1. UNCHANGED <<serve, hand, conn, since, shut>> /\ (begun' = begun \/ begun' = begun + 1)
        BY <1>6 DEF Begin, EndRange, Offer, OfferInVain, OfferFails, MapFatal, Post, Exit, vars
    <2>2. QED
        BY <2>1 DEF Entered
<1>7. QED
    BY <1>1, <1>2, <1>3, <1>4, <1>5, <1>6 DEF Next, Loop, Pump

-----------------------------------------------------------------------------
(* The inductive invariants. *)

LEMMA MapFitsStep ==
    ASSUME Types, MapFits, [Next]_vars
    PROVE  MapFits'
<1> USE DEF loop, ranging, channel, outbound
<1>1. ASSUME NEW c \in Clients, Upgrade(c) \/ Register(c)
      PROVE  MapFits'
    BY <1>1, NoneIsNoClient DEF Types, MapFits, Entered, Upgrade, Register
<1>2. CASE Add
    BY <1>2, NoneIsNoClient DEF Types, MapFits, Entered, Add
<1>3. CASE Delete
    BY <1>3, NoneIsNoClient DEF Types, MapFits, Entered, Delete, Without
<1>4. CASE Unregister
    BY <1>4, NoneIsNoClient DEF Types, MapFits, Entered, Unregister
<1>5. CASE Begin \/ EndRange \/ Offer \/ OfferInVain
    BY <1>5, NoneIsNoClient DEF Types, MapFits, Entered, Begin, EndRange, Offer, OfferInVain
<1>6. CASE OfferFails
    BY <1>6, NoneIsNoClient DEF Types, MapFits, Entered, OfferFails, AfterFailure
<1>7. ASSUME NEW c \in Clients, Visit(c)
      PROVE  MapFits'
    BY <1>7, NoneIsNoClient DEF Types, MapFits, Entered, Visit
<1>8. ASSUME NEW c \in Clients, Write(c) \/ Break(c) \/ Shut(c)
      PROVE  MapFits'
    BY <1>8, NoneIsNoClient DEF Types, MapFits, Entered, Write, Break, Shut
<1>9. CASE MapFatal \/ Post \/ Done \/ Exit \/ UNCHANGED vars
    BY <1>9, NoneIsNoClient DEF Types, MapFits, Entered, MapFatal, Post, Done, Exit, vars
<1>10. QED
    BY <1>1, <1>2, <1>3, <1>4, <1>5, <1>6, <1>7, <1>8, <1>9 DEF Next, Loop, Pump

LEMMA RunsStep ==
    ASSUME Types, MapFits, Runs, Level, [Next]_vars
    PROVE  Runs'
<1> SUFFICES ASSUME NEW c \in Clients
             PROVE  /\ ~Entered(c)' => Taken(c)' = <<>> /\ ~shut'[c]
                    /\ \A k \in 1..Len(Taken(c)') : Taken(c)'[k] = Taken(c)'[1] + (k - 1) /\ Taken(c)'[k] <= begun'
                    /\ Taken(c)' # <<>> => Taken(c)'[1] \in {since'[c], since'[c] + 1}
                    /\ since'[c] <= begun'
    BY DEF Runs
<1>1. /\ Taken(c) \in Seq(Msgs) /\ Len(Taken(c)) \in Nat
      /\ Taken(c) = <<>> <=> Len(Taken(c)) = 0
      /\ \A k \in 1..Len(Taken(c)) : Taken(c)[k] \in Nat
      /\ since[c] \in Nat
    BY TakenIsSeq DEF Types, Msgs
<1>2. /\ ~Entered(c) => Taken(c) = <<>> /\ ~shut[c]
      /\ \A k \in 1..Len(Taken(c)) : Taken(c)[k] = Taken(c)[1] + (k - 1) /\ Taken(c)[k] <= begun
      /\ Taken(c) # <<>> => Taken(c)[1] \in {since[c], since[c] + 1}
      /\ since[c] <= begun
    BY DEF Runs
<1>3. /\ Entered(c) => Entered(c)'
      /\ since'[c] = since[c] \/ (Add /\ c = hand /\ since'[c] = begun /\ Taken(c)' = Taken(c))
      /\ shut'[c] => shut[c] \/ Entered(c)
      /\ begun \in Nat /\ begun' \in Nat /\ begun <= begun'
    BY LoopStep
<1>4. since'[c] <= begun'
    BY <1>1, <1>2, <1>3
<1>5. CASE Add /\ c = hand
    <2>1. ~Entered(c) /\ UNCHANGED <<queue, written>>
        BY <1>5 DEF Entered, Add, outbound
    <2>2. Taken(c) = <<>> /\ Taken(c)' = <<>>
        BY <1>2, <2>1, TakenKept
    <2>3. QED
        BY <1>1, <1>2, <1>3, <1>4, <2>1, <2>2
<1>6. CASE since'[c] = since[c] /\ Taken(c)' = Taken(c)
    BY <1>1, <1>2, <1>3, <1>4, <1>6
<1>7. CASE Offer /\ c = target /\ Taken(c)' = Append(Taken(c), begun)
    <2>1. /\ Len(Taken(c)') = Len(Taken(c)) + 1 /\ Taken(c)' # <<>>
          /\ \A k \in 1..Len(Taken(c)) : Taken(c)'[k] = Taken(c)[k]
          /\ Taken(c)'[Len(Taken(c)) + 1] = begun
        BY <1>1, <1>7, TakenOffered, AppendProperties, LenProperties
    <2>2. Entered(c) /\ since'[c] = since[c] /\ begun' = begun
        BY <1>7 DEF MapFits, Offer, loop, channel
    <2>3. Reaches(c, begun - 1) /\ begun > 0
        BY <1>7 DEF Level, LevelAt, Live, Upto, Types, MapFits, Offer
    <2>4. CASE Taken(c) = <<>>
        <3>1. since[c] >= begun - 1
            BY <2>3, <2>4 DEF Reaches
        <3>2. QED
            BY <1>1, <1>2, <1>3, <1>4, <2>1, <2>2, <2>3, <2>4, <3>1
    <2>5. CASE Taken(c) # <<>>
        <3>1. Taken(c)[Len(Taken(c))] = begun - 1
            BY <2>3, <2>5 DEF Reaches
        <3>2. Taken(c)[1] + (Len(Taken(c)) - 1) = begun - 1 /\ Len(Taken(c)) \in Nat \ {0}
              /\ Taken(c)[1] \in Nat
            BY <1>1, <1>2, <2>5, <3>1
        <3>3. Taken(c)'[1] = Taken(c)[1] /\ Taken(c)[1] \in {since'[c], since'[c] + 1}
            BY <1>2, <2>1, <2>2, <2>5, <3>2
        <3>4. ASSUME NEW k \in 1..Len(Taken(c)')
              PROVE  Taken(c)'[k] = Taken(c)'[1] + (k - 1) /\ Taken(c)'[k] <= begun'
            <4>1. k \in 1..Len(Taken(c)) \/ k = Len(Taken(c)) + 1
                BY <1>1, <2>1
            <4>2. CASE k \in 1..Len(Taken(c))
                BY <1>2, <2>1, <2>2, <3>3, <4>2
            <4>3. CASE k = Len(Taken(c)) + 1
                BY <1>1, <1>3, <2>1, <2>2, <3>2, <3>3, <4>3
            <4>4. QED
                BY <4>1, <4>2, <4>3
        <3>5. QED
            BY <1>3, <1>4, <2>2, <3>3, <3>4
    <2>6. QED
        BY <2>4, <2>5
<1>8. CASE Break(c) /\ Shrinks(c)
    <2>1. /\ Len(Taken(c)') <= Len(Taken(c))
          /\ \A k \in 1..Len(Taken(c)') : Taken(c)'[k] = Taken(c)[k]
        BY <1>8 DEF Shrinks
    <2>2. since'[c] = since[c] /\ begun' = begun
        BY <1>8 DEF Break, loop, channel
    <2>3. Len(Taken(c)') \in Nat /\ (Taken(c)' = <<>> <=> Len(Taken(c)') = 0)
        BY <1>8, LenProperties, EmptySeq DEF Shrinks
    <2>4. ~Entered(c)' => Taken(c)' = <<>> /\ ~shut'[c]
        BY <1>1, <1>2, <1>3, <2>1, <2>3
    <2>5. \A k \in 1..Len(Taken(c)') : Taken(c)'[k] = Taken(c)'[1] + (k - 1) /\ Taken(c)'[k] <= begun'
        <3>1. \A k \in 1..Len(Taken(c)') : k \in 1..Len(Taken(c)) /\ 1 \in 1..Len(Taken(c)')
            BY <1>1, <2>1, <2>3
        <3>2. QED
            BY <1>2, <2>1, <2>2, <3>1
    <2>6. Taken(c)' # <<>> => Taken(c)'[1] \in {since'[c], since'[c] + 1}
        <3>1. Taken(c)' # <<>> => 1 \in 1..Len(Taken(c)') /\ Taken(c) # <<>>
            BY <1>1, <2>1, <2>3
        <3>2. QED
            BY <1>2, <2>1, <2>2, <3>1
    <2>7. QED
        BY <1>4, <2>4, <2>5, <2>6
<1>9. QED
    BY <1>3, <1>5, <1>6, <1>7, <1>8, TakenStep

\* A step that moves neither the connection nor how far the broadcast has come to it.
LEMMA LevelKept ==
    ASSUME Level, NEW c \in Clients,
           Taken(c)' = Taken(c), since'[c] = since[c], begun' = begun,
           Live(c)' => Live(c) /\ Upto(c)' = Upto(c),
           pump' # "waiting" /\ c \in clients' \ owed' => pump # "waiting" /\ c \in clients \ owed
    PROVE  LevelAt(c)'
<1>1. LevelAt(c)
    BY DEF Level
<1>2. ASSUME Live(c)'
      PROVE  Reaches(c, Upto(c))'
    <2>1. Reaches(c, Upto(c)) /\ Upto(c)' = Upto(c)
        BY <1>1, <1>2 DEF LevelAt
    <2>2. QED
        BY <2>1 DEF Reaches
<1>3. QED
    BY <1>1, <1>2 DEF LevelAt

LEMMA LevelStep ==
    ASSUME Types, MapFits, Runs, Level, [Next]_vars
    PROVE  Level'
<1> SUFFICES ASSUME NEW c \in Clients
             PROVE  LevelAt(c)'
    BY DEF Level
<1> USE DEF loop, ranging, channel, outbound
<1>1. /\ Taken(c) \in Seq(Msgs) /\ Len(Taken(c)) \in Nat
      /\ Taken(c) = <<>> <=> Len(Taken(c)) = 0
      /\ begun \in Nat /\ since[c] \in Nat
    BY TakenIsSeq, LoopStep DEF Types
<1>2. LevelAt(c)
    BY DEF Level
<1>3. ASSUME NEW d \in Clients, Upgrade(d) \/ Register(d) \/ Shut(d)
      PROVE  LevelAt(c)'
    <2>1. Taken(c)' = Taken(c)
        BY <1>3, TakenKept DEF Upgrade, Register, Shut
    <2>2. QED
        BY <1>3, <2>1, LevelKept DEF Upgrade, Register, Shut, Live, Upto, Types
<1>4. CASE Add
    <2>1. Taken(c)' = Taken(c)
        BY <1>4, TakenKept DEF Add
    <2>2. CASE c = hand
        <3>1. Taken(c)' = <<>> /\ since'[c] = begun /\ begun' = begun /\ Upto(c)' <= begun
            BY <1>1, <1>4, <2>1, <2>2 DEF Runs, Entered, Add, Types, Upto
        <3>2. QED
            BY <3>1 DEF LevelAt, Reaches
    <2>3. CASE c # hand
        <3>1. since'[c] = since[c] /\ (Live(c)' => Live(c)) /\ Upto(c)' = Upto(c)
            BY <1>4, <2>3 DEF Add, Live, Upto, Types
        <3>2. QED
            BY <1>4, <2>1, <2>3, <3>1, LevelKept DEF Add
    <2>4. QED
        BY <2>2, <2>3
<1>5. CASE Delete \/ Done \/ Post \/ MapFatal \/ Exit \/ UNCHANGED vars
    <2>1. Taken(c)' = Taken(c)
        BY <1>5, TakenKept DEF Delete, Done, Post, MapFatal, Exit, vars
    <2>2. since'[c] = since[c] /\ begun' = begun /\ (Live(c)' => Live(c)) /\ Upto(c)' = Upto(c)
          /\ clients' \subseteq clients /\ owed' = owed /\ pump' = pump
        BY <1>5 DEF Delete, Without, Done, Post, MapFatal, Exit, vars, Live, Upto
    <2>3. QED
        BY <2>1, <2>2, LevelKept
<1>6. CASE Unregister \/ OfferInVain \/ OfferFails
    <2>1. Taken(c)' = Taken(c)
        BY <1>6, TakenKept DEF Unregister, OfferInVain, OfferFails
    <2>2. Live(c)' => Live(c) /\ Upto(c)' = Upto(c)
        <3>1. CASE Unregister \/ OfferInVain
            <4>1. target \in Clients /\ (shut[target] \/ broken[target]) /\ pump # "waiting"
                BY <1>6, <3>1, NoneIsNoClient DEF Unregister, OfferInVain, OfferFails, MapFits, Types
            <4>2. target' = None /\ UNCHANGED <<clients, seen, begun, shut, broken>> /\ pump' = "ranging"
                BY <3>1 DEF Unregister, OfferInVain
            <4>3. QED
                BY <4>1, <4>2, NoneIsNoClient DEF Live, Upto
        <3>2. CASE OfferFails
            BY <3>2 DEF OfferFails, AfterFailure, Live, Upto
        <3>3. QED
            BY <1>6, <3>1, <3>2
    <2>3. /\ since' = since /\ begun' = begun /\ clients' = clients /\ owed' = owed
          /\ pump # "waiting"
        BY <1>6 DEF Unregister, OfferInVain, OfferFails
    <2>4. QED
        BY <2>1, <2>2, <2>3, LevelKept
<1>7. CASE Begin
    <2>1. Taken(c)' = Taken(c)
        BY <1>7, TakenKept DEF Begin
    <2>2. /\ Live(c)' => Live(c) /\ target = None
          /\ Upto(c) = begun /\ Upto(c)' = begun /\ since' = since
          /\ clients' = owed'
        BY <1>1, <1>7 DEF Begin, Live, Upto, Types
    <2>3. ASSUME Live(c)'
          PROVE  Reaches(c, Upto(c))'
        <3>1. Reaches(c, begun)
            BY <1>2, <2>2, <2>3 DEF LevelAt
        <3>2. QED
            BY <2>1, <2>2, <3>1 DEF Reaches
    <2>4. QED
        BY <2>2, <2>3 DEF LevelAt
<1>8. ASSUME NEW d \in Clients, Visit(d)
      PROVE  LevelAt(c)'
    <2>1. Taken(c)' = Taken(c)
        BY <1>8, TakenKept DEF Visit
    <2>2. (Live(c)' => Live(c)) /\ Upto(c)' = Upto(c)
        BY <1>8, NoneIsNoClient DEF Visit, Live, Upto, Types
    <2>3. QED
        BY <1>8, <2>1, <2>2, LevelKept DEF Visit
<1>9. CASE EndRange
    <2>1. Taken(c)' = Taken(c) /\ since' = since
        BY <1>9, TakenKept DEF EndRange
    <2>2. (Live(c)' => Live(c)) /\ target = None /\ Upto(c)' = begun /\ pump' = "waiting"
        BY <1>9 DEF EndRange, Live, Upto, Types
    <2>3. ASSUME Live(c)'
          PROVE  Reaches(c, begun)
        <3>1. c \in clients /\ pump = "ranging" /\ Reaches(c, Upto(c))
              /\ (c \notin owed => since[c] = begun)
            BY <1>2, <1>9, <2>2, <2>3, NoneIsNoClient DEF Live, LevelAt, EndRange
        <3>2. CASE c \in seen
            BY <2>2, <3>1, <3>2, NoneIsNoClient DEF Upto
        <3>3. CASE c \notin seen
            <4>1. since[c] = begun /\ Reaches(c, begun - 1)
                BY <1>9, <3>1, <3>3 DEF EndRange, MayEnd, Upto
            <4>2. CASE Taken(c) = <<>>
                BY <1>1, <4>1, <4>2 DEF Reaches
            <4>3. CASE Taken(c) # <<>>
                <5>1. Taken(c)[Len(Taken(c))] = begun - 1 /\ Len(Taken(c)) \in 1..Len(Taken(c))
                    BY <1>1, <4>1, <4>3 DEF Reaches
                <5>2. Taken(c)[1] \in {begun, begun + 1}
                      /\ Taken(c)[Len(Taken(c))] = Taken(c)[1] + (Len(Taken(c)) - 1)
                    BY <4>1, <4>3, <5>1 DEF Runs
                <5>3. QED
                    BY <1>1, <5>1, <5>2
            <4>4. QED
                BY <4>2, <4>3
        <3>4. QED
            BY <3>2, <3>3
    <2>4. QED
        BY <2>1, <2>2, <2>3 DEF LevelAt, Reaches
<1>10. CASE Offer
    <2>1. /\ since' = since /\ begun' = begun /\ clients' = clients /\ owed' = owed
          /\ pump = "offering" /\ pump' = "ranging" /\ target \in Clients /\ target' = None
          /\ seen' = seen /\ target \in seen /\ shut' = shut /\ broken' = broken
          /\ ~shut[target] /\ ~broken[target]
        BY <1>10, NoneIsNoClient DEF Offer, Types, MapFits
    <2>2. CASE c = target
        <3>1. Taken(c)' = Append(Taken(c), begun) /\ begun \in Msgs
            BY <1>10, <2>2, TakenOffered
        <3>2. Taken(c)' # <<>> /\ Taken(c)'[Len(Taken(c)')] = begun
            BY <1>1, <3>1, AppendProperties, LenProperties
        <3>3. Upto(c)' = begun /\ Live(c)
            BY <2>1, <2>2, NoneIsNoClient DEF Upto, Live
        <3>4. QED
            BY <1>2, <2>1, <3>2, <3>3 DEF LevelAt, Reaches
    <2>3. CASE c # target
        <3>1. Taken(c)' = Taken(c)
            BY <1>10, <2>3, TakenOffered
        <3>2. (Live(c)' => Live(c)) /\ Upto(c)' = Upto(c)
            BY <2>1, <2>3, NoneIsNoClient DEF Live, Upto
        <3>3. QED
            BY <2>1, <3>1, <3>2, LevelKept
    <2>4. QED
        BY <2>2, <2>3
<1>11. ASSUME NEW d \in Clients, Write(d)
       PROVE  LevelAt(c)'
    <2>1. Taken(c)' = Taken(c)
        BY <1>11, TakenWritten
    <2>2. QED
        BY <1>11, <2>1, LevelKept DEF Write, Live, Upto
<1>12. ASSUME NEW d \in Clients, Break(d)
       PROVE  LevelAt(c)'
    <2>1. CASE c = d
        BY <1>12, <2>1 DEF Break, LevelAt, Live, Types
    <2>2. CASE c # d
        <3>1. Taken(c)' = Taken(c)
            BY <1>12, <2>2 DEF Break, Taken, Types
        <3>2. QED
            BY <1>12, <2>2, <3>1, LevelKept DEF Break, Live, Upto, Types
    <2>3. QED
        BY <2>1, <2>2
<1>13. QED
    BY <1>3, <1>4, <1>5, <1>6, <1>7, <1>8, <1>9, <1>10, <1>11, <1>12 DEF Next, Loop, Pump

LEMMA DroppingStep ==
    ASSUME Types, MapFits, Runs, Dropping, [Next]_vars
    PROVE  Dropping'
<1> USE DEF loop, ranging, channel, outbound
<1>1. ASSUME NEW c \in Clients, Upgrade(c) \/ Register(c) \/ Visit(c) \/ Write(c) \/ Break(c)
      PROVE  Dropping'
    BY <1>1, NoneIsNoClient DEF Types, Dropping, Upgrade, Register, Visit, Write, Break
<1>2. CASE Add
    <2>1. ~shut[hand] /\ hand \in Clients
        BY <1>2 DEF Types, Runs, Entered, Add
    <2>2. QED
        BY <1>2, <2>1 DEF Types, Dropping, Add
<1>3. CASE Delete \/ Done
    BY <1>3 DEF Types, Dropping, Delete, Without, Done
<1>4. CASE Unregister \/ OfferInVain \/ OfferFails
    BY <1>4, NoneIsNoClient DEF Types, Dropping, Unregister, OfferInVain, OfferFails, AfterFailure
<1>5. CASE Offer
    BY <1>5 DEF Types, Dropping, Offer
<1>6. CASE Begin
    BY <1>6 DEF Types, Dropping, Begin
<1>7. CASE EndRange
    <2>1. \A c \in clients : c \notin owed \ seen /\ c # target
        BY <1>7, NoneIsNoClient DEF Types, EndRange, MayEnd
    <2>2. QED
        BY <1>7, <2>1 DEF Dropping, EndRange
<1>8. ASSUME NEW d \in Clients, Shut(d)
      PROVE  Dropping'
    <2>1. UNCHANGED <<begun, clients, serve, hand, pump, owed, seen, target>> /\ shutAt'[d] = begun
        BY <1>8 DEF Types, Shut
    <2>2. \A c \in Clients : c # d => shut'[c] = shut[c] /\ shutAt'[c] = shutAt[c]
        BY <1>8 DEF Types, Shut
    <2>3. QED
        BY <2>1, <2>2 DEF Types, Dropping
<1>9. CASE MapFatal \/ Post \/ Exit \/ UNCHANGED vars
    BY <1>9 DEF Dropping, MapFatal, Post, Exit, vars
<1>10. QED
    BY <1>1, <1>2, <1>3, <1>4, <1>5, <1>6, <1>7, <1>8, <1>9 DEF Next, Loop, Pump

Inv == Types /\ MapFits /\ Runs /\ Level /\ Dropping

LEMMA InvHolds == Spec => []Inv
<1>1. Init => Inv
    <2> SUFFICES ASSUME Init
                 PROVE  Inv
        OBVIOUS
    <2>1. Types
        <3>1. <<>> \in Seq(Msgs) /\ Len(<<>>) = 0 /\ 0 <= Room
            BY SizesArePositive
        <3>2. /\ queue \in [Clients -> Seq(Msgs)] /\ written \in [Clients -> Seq(Msgs)]
              /\ \A c \in Clients : Len(queue[c]) <= Room
            BY <3>1 DEF Init
        <3>3. /\ conn \in [Clients -> {"out", "upgraded", "served"}]
              /\ since \in [Clients -> Nat] /\ shutAt \in [Clients -> Nat]
              /\ shut \in [Clients -> BOOLEAN] /\ broken \in [Clients -> BOOLEAN]
              /\ posted \in 0..MaxMsgs /\ begun \in 0..posted
            BY BoundIsNat DEF Init
        <3>4. QED
            BY <3>2, <3>3, NoneIsNoClient DEF Init, Types
    <2>2. MapFits /\ Level /\ Dropping
        BY NoneIsNoClient DEF Init, MapFits, Entered, Level, LevelAt, Live, Dropping
    <2>3. ASSUME NEW c \in Clients
          PROVE  Taken(c) = <<>> /\ Len(Taken(c)) = 0
        <3>1. written[c] = <<>> /\ queue[c] = <<>>
            BY DEF Init
        <3>2. QED
            BY <3>1 DEF Taken
    <2>4. Runs
        <3> SUFFICES ASSUME NEW c \in Clients
                     PROVE  /\ ~Entered(c) => Taken(c) = <<>> /\ ~shut[c]
                            /\ \A k \in 1..Len(Taken(c)) : Taken(c)[k] = Taken(c)[1] + (k - 1) /\ Taken(c)[k] <= begun
                            /\ Taken(c) # <<>> => Taken(c)[1] \in {since[c], since[c] + 1}
                            /\ since[c] <= begun
            BY DEF Runs
        <3>1. Taken(c) = <<>> /\ 1..Len(Taken(c)) = {}
            BY <2>3
        <3>2. ~shut[c] /\ since[c] <= begun
            BY DEF Init
        <3>3. QED
            BY <3>1, <3>2
    <2>5. QED
        BY <2>1, <2>2, <2>4 DEF Inv
<1>2. Inv /\ [Next]_vars => Inv'
    BY TypesStep, MapFitsStep, RunsStep, LevelStep, DroppingStep DEF Inv
<1>3. QED
    BY <1>1, <1>2, PTL DEF Spec

-----------------------------------------------------------------------------
(***************************************************************************)
(* The variables keep to their ranges: the channel never holds less than   *)
(* nothing, a connection never buffers more than it has room for, and what *)
(* it has taken has been broadcast.                                        *)
(***************************************************************************)
THEOREM ServerTypeCorrect == Spec => []TypeOK
<1>1. Inv => TypeOK
    <2> SUFFICES ASSUME Inv
                 PROVE  TypeOK
        OBVIOUS
    <2>1. ASSUME NEW c \in Clients
          PROVE  Taken(c) \in Seq(1..begun)
        <3>1. Taken(c) \in Seq(Msgs) /\ Len(Taken(c)) \in Nat
              /\ \A k \in 1..Len(Taken(c)) : Taken(c)[k] \in Msgs
            BY TakenIsSeq DEF Inv
        <3>2. \A k \in 1..Len(Taken(c)) : Taken(c)[k] <= begun
            BY DEF Inv, Runs
        <3>3. begun \in Nat
            BY BoundIsNat DEF Inv, Types
        <3>4. \A k \in 1..Len(Taken(c)) : Taken(c)[k] \in 1..begun
            BY <3>1, <3>2, <3>3 DEF Msgs
        <3>5. Taken(c) \in [1..Len(Taken(c)) -> 1..begun]
            BY <3>1, <3>4, LenProperties
        <3>6. QED
            BY <3>1, <3>5, Narrowed
    <2>2. clients \subseteq {c \in Clients : conn[c] = "served"}
        BY DEF Inv, Types, MapFits, Entered
    <2>3. QED
        BY <2>1, <2>2 DEF Inv, Types, TypeOK
<1>2. QED
    BY <1>1, InvHolds, PTL

(***************************************************************************)
(* The messages a connection takes are a gapless run of what was broadcast,*)
(* each once and in the order they entered the channel, whatever other     *)
(* connections do meanwhile: SendMessage of one connection after another,  *)
(* over a map that serve changes.                                          *)
(***************************************************************************)
THEOREM ServerLeavesNoGap == Spec => []NoGap
<1>1. Inv => NoGap
    <2> SUFFICES ASSUME Inv, NEW c \in Clients, NEW k \in 1..Len(Taken(c)) - 1
                 PROVE  Taken(c)[k + 1] = Taken(c)[k] + 1
        BY DEF NoGap
    <2>1. Len(Taken(c)) \in Nat /\ \A i \in 1..Len(Taken(c)) : Taken(c)[i] \in Msgs
        BY TakenIsSeq DEF Inv
    <2>2. k \in 1..Len(Taken(c)) /\ k + 1 \in 1..Len(Taken(c)) /\ Taken(c)[1] \in Msgs
        BY <2>1
    <2>3. Taken(c)[k] = Taken(c)[1] + (k - 1) /\ Taken(c)[k + 1] = Taken(c)[1] + ((k + 1) - 1)
        BY <2>2 DEF Inv, Runs
    <2>4. QED
        BY <2>1, <2>2, <2>3 DEF Msgs
<1>2. QED
    BY <1>1, InvHolds, PTL

(***************************************************************************)
(* Between broadcasts, a connection that serve has put into the map and    *)
(* that works has taken every message whose broadcast began after that.    *)
(***************************************************************************)
THEOREM ServerMissesNothing == Spec => []MissesNothing
<1>1. Inv => MissesNothing
    <2> SUFFICES ASSUME Inv, pump = "waiting", serve # "closed",
                        NEW c \in Clients,
                        conn[c] = "served", hand # c, ~shut[c], ~broken[c],
                        NEW m \in since[c] + 1..begun
                 PROVE  \E k \in DOMAIN Taken(c) : Taken(c)[k] = m
        BY DEF MissesNothing
    <2>1. /\ Taken(c) \in Seq(Msgs) /\ Len(Taken(c)) \in Nat
          /\ Taken(c) = <<>> <=> Len(Taken(c)) = 0
          /\ \A k \in 1..Len(Taken(c)) : Taken(c)[k] \in Nat
          /\ DOMAIN Taken(c) = 1..Len(Taken(c))
          /\ begun \in Nat /\ since[c] \in Nat
        BY TakenIsSeq, LenProperties, BoundIsNat DEF Inv, Types, Msgs
    <2>2. c \in clients
        BY DEF Inv, MapFits, Entered
    <2>3. Reaches(c, begun)
        BY <2>2 DEF Inv, Level, LevelAt, Live, Upto
    <2>4. Taken(c) # <<>> /\ Taken(c)[Len(Taken(c))] = begun
        BY <2>1, <2>3 DEF Reaches
    <2>5. /\ Taken(c)[1] \in {since[c], since[c] + 1}
          /\ \A k \in 1..Len(Taken(c)) : Taken(c)[k] = Taken(c)[1] + (k - 1)
        BY <2>4 DEF Inv, Runs
    <2>6. m - Taken(c)[1] + 1 \in 1..Len(Taken(c)) /\ Taken(c)[1] \in Nat
        BY <2>1, <2>4, <2>5
    <2>7. Taken(c)[m - Taken(c)[1] + 1] = m
        BY <2>1, <2>5, <2>6
    <2>8. QED
        BY <2>1, <2>6, <2>7
<1>2. QED
    BY <1>1, InvHolds, PTL

(***************************************************************************)
(* A connection whose Serve has ended stays in the map until the next      *)
(* broadcast comes to it, and not longer: sendMessage then fails and hands *)
(* it to serve before it comes to the end of its range.                    *)
(***************************************************************************)
THEOREM ServerDropsTheEnded == Spec => []EndedAreDropped
<1>1. Inv => EndedAreDropped
    BY DEF Inv, Dropping, EndedAreDropped
<1>2. QED
    BY <1>1, InvHolds, PTL
=============================================================================
