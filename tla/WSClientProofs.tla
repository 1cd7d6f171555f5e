--------------------------- MODULE WSClientProofs ---------------------------
(***************************************************************************)
(* Proofs about WSClient, for any number of connections and messages, and  *)
(* any size of the channel and of what a connection takes.                 *)
(***************************************************************************)
EXTENDS WSClient, FiniteSetTheorems, SequenceTheorems, TLAPS

(***************************************************************************)
(* The connections before the current one are shut, and the current one is *)
(* open exactly while it is served.                                        *)
(***************************************************************************)
Served ==
    /\ serve = "serving" => server # 0 /\ ~shut[server]
    /\ serve # "serving" => server = 0 \/ shut[server]
    /\ \A k \in Conns : (k < server => shut[k]) /\ (k > server => ~shut[k])

(***************************************************************************)
(* A sender offers to its own connection or a later one, and ends only     *)
(* because one of those has ended; then its own has.                       *)
(***************************************************************************)
Onward ==
    \A k \in Conns : /\ sender[k] = "offering" => k <= at[k]
                     /\ sender[k] = "ended" => shut[k]

\* Every sender drops one message, its last.
Ended     == {k \in Conns : sender[k] = "ended"}
OneByEach == Cardinality(dropped) <= Cardinality(Ended)

\* The message m has come out of the channel.
Passed(m) == m <= posted /\ \A i \in DOMAIN channel : m < channel[i]

Rising(s) == \A i, j \in DOMAIN s : i < j => s[i] < s[j]

(***************************************************************************)
(* The channel is in order, and what has come out of it was posted before  *)
(* all that is in it.                                                      *)
(***************************************************************************)
ChannelInOrder ==
    /\ Rising(channel)
    /\ \A i \in DOMAIN channel : channel[i] <= posted
    /\ \A k \in Conns : hand[k] # 0 => Passed(hand[k])
    /\ \A c \in Conns : \A i \in DOMAIN Taken(c) : Passed(Taken(c)[i])

\* A connection has taken nothing before it is made.
EmptyBefore == \A c \in Conns : c > server => queue[c] = <<>> /\ written[c] = <<>>

(***************************************************************************)
(* The senders before that of a connection that is not crowded have ended: *)
(* nobody else can offer to it, and what its sender holds is newer than    *)
(* all the connection has taken.                                           *)
(***************************************************************************)
AloneInOrder ==
    \A c \in Conns \ crowded : c <= server =>
        /\ \A k \in Conns : k < c => sender[k] = "ended"
        /\ Rising(Taken(c))
        /\ hand[c] # 0 => \A i \in DOMAIN Taken(c) : Taken(c)[i] < hand[c]

Inv == TypeOK /\ Served /\ Onward

LEMMA TypeStep ==
    ASSUME TypeOK, [Next]_vars
    PROVE  TypeOK'
<1> USE DEF TypeOK
<1>1. CASE Connect
    <2>1. server' \in Conns /\ server' = server + 1
        BY <1>1, BoundsAreNat DEF Connect, Conns
    <2>2. sender' = [sender EXCEPT ![server'] = "waiting"]
        BY <1>1 DEF Connect, Started
    <2>3. sender' \in [Conns -> {"none", "waiting", "holding", "offering", "ended"}]
        BY <2>2
    <2>4. \A k \in Conns : /\ sender'[k] = "none" <=> k > server'
                           /\ hand[k] # 0 <=> sender'[k] \in {"holding", "offering"}
                           /\ at[k] # 0 <=> sender'[k] = "offering"
                           /\ at[k] <= server'
        BY <2>1, <2>2, BoundsAreNat DEF Conns
    <2>5. server' \in 0..MaxConns /\ crowded' \subseteq Conns /\ serve' = "serving"
        BY <1>1, <2>1 DEF Connect, Conns
    <2>6. QED
        BY <1>1, <2>3, <2>4, <2>5 DEF Connect, outbound
<1>2. CASE DialFails \/ Wake \/ Cancel
    BY <1>2 DEF DialFails, Wake, Cancel, senders, outbound
<1>3. CASE Disconnect \/ Stop
    <2>1. serve' \in {"sleep", "stopped"} /\ shut' \in [Conns -> BOOLEAN]
        BY <1>3 DEF Disconnect, Stop, Closed, AfterError
    <2>2. QED
        BY <1>3, <2>1 DEF Disconnect, Stop, Closed, senders
<1>4. CASE Post
    <2>1. posted' \in 0..MaxMsgs /\ posted' \in Msgs
        BY <1>4, BoundsAreNat DEF Post, Msgs
    <2>2. channel' \in Seq(Msgs) /\ Len(channel') <= Capacity
        BY <1>4, <2>1, SizesArePositive, AppendProperties DEF Post
    <2>3. QED
        BY <1>4, <2>1, <2>2 DEF Post, senders, outbound
<1>5. ASSUME NEW k \in Conns, Take(k)
      PROVE  TypeOK'
    <2>1. Head(channel) \in Msgs /\ Head(channel) # 0
        BY <1>5, HeadTailProperties, BoundsAreNat DEF Take, Msgs
    <2>2. channel' \in Seq(Msgs) /\ Len(channel') <= Capacity
        BY <1>5, SizesArePositive, HeadTailProperties DEF Take
    <2>3. QED
        BY <1>5, <2>1, <2>2 DEF Take, outbound
<1>6. ASSUME NEW k \in Conns, Call(k)
      PROVE  TypeOK'
    <2>1. server \in Conns /\ server # 0
        BY <1>6, BoundsAreNat DEF Call, Conns
    <2>2. QED
        BY <1>6, <2>1 DEF Call, outbound
<1>7. ASSUME NEW k \in Conns, Offer(k)
      PROVE  TypeOK'
    <2>1. at[k] \in Conns /\ hand[k] \in Msgs
        BY <1>7 DEF Offer
    <2>2. /\ Append(queue[at[k]], hand[k]) \in Seq(Msgs)
          /\ Len(Append(queue[at[k]], hand[k])) <= Room
        BY <1>7, <2>1, SizesArePositive, AppendProperties DEF Offer, HasRoom
    <2>3. /\ queue' \in [Conns -> Seq(Msgs)]
          /\ \A c \in Conns : Len(queue'[c]) <= Room
        BY <1>7, <2>1, <2>2 DEF Offer
    <2>4. QED
        BY <1>7, <2>3, BoundsAreNat DEF Offer, Freed
<1>8. ASSUME NEW k \in Conns, OfferInVain(k)
      PROVE  TypeOK'
    BY <1>8 DEF OfferInVain, Freed, outbound
<1>9. ASSUME NEW k \in Conns, OfferFails(k)
      PROVE  TypeOK'
    <2>1. hand[k] \in Msgs
        BY <1>9 DEF OfferFails
    <2>2. QED
        BY <1>9, <2>1, BoundsAreNat DEF OfferFails, Ends, Freed, outbound
<1>10. ASSUME NEW c \in Conns, Write(c)
       PROVE  TypeOK'
    <2>1. /\ Head(queue[c]) \in Msgs
          /\ Tail(queue[c]) \in Seq(Msgs) /\ Len(Tail(queue[c])) <= Room
        BY <1>10, SizesArePositive, HeadTailProperties DEF Write
    <2>2. /\ queue' \in [Conns -> Seq(Msgs)]
          /\ written' \in [Conns -> Seq(Msgs)]
          /\ \A k \in Conns : Len(queue'[k]) <= Room
        BY <1>10, <2>1 DEF Write
    <2>3. QED
        BY <1>10, <2>2 DEF Write, senders
<1>11. ASSUME NEW c \in Conns, Break(c)
       PROVE  TypeOK'
    <2>1. /\ queue' \in [Conns -> Seq(Msgs)]
          /\ \A k \in Conns : Len(queue'[k]) <= Room
        BY <1>11, SizesArePositive DEF Break
    <2>2. QED
        BY <1>11, <2>1 DEF Break, senders
<1>12. CASE UNCHANGED vars
    BY <1>12 DEF vars, senders, outbound
<1>13. QED
    BY <1>1, <1>2, <1>3, <1>4, <1>5, <1>6, <1>7, <1>8, <1>9, <1>10, <1>11, <1>12
       DEF Next, Sender

\* Only serve makes and shuts connections.
LEMMA ServedStep ==
    ASSUME TypeOK, Served, [Next]_vars
    PROVE  Served'
<1>1. CASE Connect
    <2>1. server \in Nat /\ server' = server + 1 /\ server' \in Conns /\ shut' = shut
        BY <1>1, BoundsAreNat DEF Connect, TypeOK, Conns, outbound
    <2>2. \A k \in Conns : k < server' => k = server \/ k < server
        BY <2>1 DEF Conns
    <2>3. serve' = "serving" /\ (server = 0 \/ shut[server])
        BY <1>1 DEF Connect, Served
    <2>4. QED
        BY <2>1, <2>2, <2>3 DEF Served, Conns
<1>2. CASE Disconnect \/ Stop
    <2>1. /\ server # 0 /\ server' = server /\ serve' \in {"sleep", "stopped"}
          /\ shut' = [shut EXCEPT ![server] = TRUE]
        BY <1>2 DEF Disconnect, Stop, Closed, AfterError, Served
    <2>2. server \in Conns
        BY <2>1, BoundsAreNat DEF TypeOK, Conns
    <2>3. shut'[server] /\ \A k \in Conns : k # server => shut'[k] = shut[k]
        BY <2>1, <2>2 DEF TypeOK
    <2>4. QED
        BY <2>1, <2>2, <2>3 DEF Served, TypeOK, Conns
<1>3. CASE DialFails \/ Wake
    BY <1>3 DEF DialFails, Wake, outbound, Served
<1>4. CASE UNCHANGED <<serve, server, shut>>
    BY <1>4 DEF Served
<1>5. CASE Cancel \/ Post \/ \E k \in Conns : Sender(k) \/ Write(k) \/ Break(k)
    BY <1>4, <1>5 DEF Cancel, Post, Sender, Take, Call, Offer, OfferInVain, OfferFails, Ends,
                      Write, Break, outbound
<1>6. CASE UNCHANGED vars
    BY <1>4, <1>6 DEF vars, outbound
<1>7. QED
    BY <1>1, <1>2, <1>3, <1>5, <1>6 DEF Next

LEMMA OnwardStep ==
    ASSUME TypeOK, Served, Onward, [Next]_vars
    PROVE  Onward'
<1>1. CASE Connect
    <2>1. server' \in Conns /\ shut' = shut /\ at' = at
          /\ sender' = [sender EXCEPT ![server'] = "waiting"]
        BY <1>1, BoundsAreNat DEF Connect, Started, TypeOK, Conns, outbound
    <2>2. QED
        BY <2>1 DEF Onward, TypeOK
<1>2. CASE Disconnect \/ Stop
    <2>1. sender' = sender /\ at' = at /\ \A k \in Conns : shut[k] => shut'[k]
        BY <1>2 DEF Disconnect, Stop, Closed, senders, TypeOK
    <2>2. QED
        BY <2>1 DEF Onward
<1>3. ASSUME NEW k \in Conns, Call(k)
      PROVE  Onward'
    <2>1. k <= server
        BY <1>3, BoundsAreNat DEF Call, TypeOK, Conns
    <2>2. /\ sender' = [sender EXCEPT ![k] = "offering"]
          /\ at' = [at EXCEPT ![k] = server] /\ shut' = shut
        BY <1>3 DEF Call, outbound
    <2>3. QED
        BY <2>1, <2>2 DEF Onward, TypeOK
<1>4. ASSUME NEW k \in Conns, OfferFails(k)
      PROVE  Onward'
    <2>1. at[k] \in Conns /\ k <= at[k] /\ at[k] <= server /\ shut[at[k]]
        BY <1>4 DEF OfferFails, TypeOK, Onward
    <2>2. shut[k]
        <3>1. CASE k < server
            BY <3>1 DEF Served
        <3>2. CASE k >= server
            BY <2>1, <3>2 DEF TypeOK, Conns
        <3>3. QED
            BY <3>1, <3>2 DEF TypeOK, Conns
    <2>3. /\ sender' = [sender EXCEPT ![k] = "ended"]
          /\ at' = [at EXCEPT ![k] = 0] /\ shut' = shut
        BY <1>4 DEF OfferFails, Ends, Freed, outbound
    <2>4. QED
        BY <2>2, <2>3 DEF Onward, TypeOK
<1>5. ASSUME NEW k \in Conns, NEW next \in {"waiting", "holding"},
             sender' = [sender EXCEPT ![k] = next], shut' = shut,
             \A j \in Conns : j # k => at'[j] = at[j]
      PROVE  Onward'
    BY <1>5 DEF Onward, TypeOK
<1>6. ASSUME NEW k \in Conns, Take(k) \/ Offer(k) \/ OfferInVain(k)
      PROVE  Onward'
    BY <1>5, <1>6 DEF Take, Offer, OfferInVain, Freed, outbound, TypeOK
<1>7. CASE UNCHANGED <<sender, at, shut>>
    BY <1>7 DEF Onward
<1>8. CASE DialFails \/ Wake \/ Cancel \/ Post \/ \E k \in Conns : Write(k) \/ Break(k)
    BY <1>7, <1>8 DEF DialFails, Wake, Cancel, Post, Write, Break, senders, outbound
<1>9. CASE UNCHANGED vars
    BY <1>7, <1>9 DEF vars, senders, outbound
<1>10. QED
    BY <1>1, <1>2, <1>3, <1>4, <1>6, <1>8, <1>9 DEF Next, Sender

LEMMA InvHolds == Spec => []Inv
<1>1. Init => Inv
    <2> SUFFICES ASSUME Init PROVE Inv
        OBVIOUS
    <2>1. \A k \in Conns : k \in Nat /\ k > 0
        BY DEF Conns
    <2>2. posted \in 0..MaxMsgs /\ server \in 0..MaxConns
        BY BoundsAreNat DEF Init
    <2>3. /\ channel \in Seq(Msgs) /\ Len(channel) <= Capacity
          /\ queue \in [Conns -> Seq(Msgs)] /\ written \in [Conns -> Seq(Msgs)]
          /\ \A k \in Conns : Len(queue[k]) <= Room
        BY SizesArePositive DEF Init
    <2>4. \A k \in Conns : /\ sender[k] = "none" /\ hand[k] = 0 /\ at[k] = 0
                           /\ server = 0 /\ k > server
        BY <2>1 DEF Init
    <2>5. TypeOK
        <3>1. /\ sender \in [Conns -> {"none", "waiting", "holding", "offering", "ended"}]
              /\ hand \in [Conns -> Msgs \cup {0}] /\ at \in [Conns -> Conns \cup {0}]
              /\ shut \in [Conns -> BOOLEAN] /\ broken \in [Conns -> BOOLEAN]
            BY DEF Init
        <3>2. /\ serve = "dial" /\ cancelled \in BOOLEAN
              /\ dropped \subseteq Msgs /\ crowded \subseteq Conns
            BY DEF Init
        <3>3. \A k \in Conns : /\ sender[k] = "none" <=> k > server
                               /\ hand[k] # 0 <=> sender[k] \in {"holding", "offering"}
                               /\ at[k] # 0 <=> sender[k] = "offering"
                               /\ at[k] <= server
            BY <2>4
        <3>4. QED
            BY <2>2, <2>3, <3>1, <3>2, <3>3 DEF TypeOK
    <2>6. Served
        BY <2>1 DEF Init, Served
    <2>7. Onward
        BY DEF Init, Onward
    <2>8. QED
        BY <2>5, <2>6, <2>7 DEF Inv
<1>2. Inv /\ [Next]_vars => Inv'
    BY TypeStep, ServedStep, OnwardStep DEF Inv
<1>3. QED
    BY <1>1, <1>2, PTL DEF Spec

\* Type correctness: neither the channel nor a connection holds more than it has room
\* for, a sender exists for every connection made, and holds a message just while it
\* hands one over.
THEOREM TypeCorrect == Spec => []TypeOK
BY InvHolds, PTL DEF Inv

\* Whoever is connected is sent to: the sender started with a connection cannot have
\* ended while it is open, so that no reconnection leaves the channel without reader.
THEOREM SomeoneAlwaysSends == Spec => []SomeoneSends
<1>1. Inv => SomeoneSends
    <2> SUFFICES ASSUME Inv, serve = "serving"
                 PROVE  \E k \in Alive : at[k] # 0 => ~shut[at[k]]
        BY DEF SomeoneSends
    <2>1. server \in Conns /\ ~shut[server] /\ sender[server] \notin {"none", "ended"}
        BY BoundsAreNat DEF Inv, TypeOK, Served, Onward, Conns
    <2>2. server \in Alive
        BY <2>1 DEF Alive, Inv, TypeOK
    <2>3. at[server] # 0 => at[server] = server
        BY <2>1, BoundsAreNat DEF Inv, TypeOK, Onward, Conns
    <2>4. QED
        BY <2>1, <2>2, <2>3
<1>2. QED
    BY <1>1, InvHolds, PTL

(***************************************************************************)
(* Losing one message per connection: the senders that ended are at least  *)
(* as many as the messages dropped, and only senders of shut connections   *)
(* have ended.                                                             *)
(***************************************************************************)
LEMMA EndedIsFinite ==
    /\ IsFiniteSet(Conns) /\ IsFiniteSet(Msgs)
    /\ \A S \in SUBSET Conns : IsFiniteSet(S) /\ Cardinality(S) \in Nat
    /\ \A S \in SUBSET Msgs : IsFiniteSet(S) /\ Cardinality(S) \in Nat
<1>1. IsFiniteSet(Conns) /\ IsFiniteSet(Msgs)
    BY FS_Interval, BoundsAreNat DEF Conns, Msgs
<1>2. QED
    BY <1>1, FS_Subset, FS_CardinalityType

LEMMA OneByEachStep ==
    ASSUME TypeOK, OneByEach, [Next]_vars
    PROVE  OneByEach'
<1>1. ASSUME dropped' = dropped, Ended' = Ended
      PROVE  OneByEach'
    BY <1>1 DEF OneByEach
<1>2. ASSUME NEW k \in Conns, OfferFails(k)
      PROVE  OneByEach'
    <2>1. k \notin Ended /\ hand[k] \in Msgs
        BY <1>2 DEF OfferFails, Ended, TypeOK
    <2>2. dropped' = dropped \cup {hand[k]}
        BY <1>2 DEF OfferFails, Ends
    <2>3. sender' = [sender EXCEPT ![k] = "ended"]
        BY <1>2 DEF OfferFails, Ends, Freed
    <2>4. Ended' = Ended \cup {k}
        BY <2>3 DEF Ended, TypeOK
    <2>5. IsFiniteSet(dropped) /\ IsFiniteSet(Ended)
        BY EndedIsFinite DEF TypeOK, Ended
    <2>6. Cardinality(dropped) \in Nat /\ Cardinality(Ended) \in Nat
        BY <2>5, FS_CardinalityType
    <2>7. Cardinality(dropped') \in {Cardinality(dropped), Cardinality(dropped) + 1}
        <3>1. Cardinality(dropped \cup {hand[k]})
                  = IF hand[k] \in dropped THEN Cardinality(dropped) ELSE Cardinality(dropped) + 1
            BY <2>5, FS_AddElement
        <3>2. QED
            BY <2>2, <3>1
    <2>8. Cardinality(Ended') = Cardinality(Ended) + 1
        <3>1. Cardinality(Ended \cup {k})
                  = IF k \in Ended THEN Cardinality(Ended) ELSE Cardinality(Ended) + 1
            BY <2>5, FS_AddElement
        <3>2. QED
            BY <2>1, <2>4, <3>1
    <2>9. QED
        BY <2>6, <2>7, <2>8 DEF OneByEach
<1>3. CASE Connect
    <2>1. server + 1 \in Conns /\ sender[server + 1] = "none"
        BY <1>3, BoundsAreNat DEF Connect, TypeOK, Conns
    <2>2. sender' = [sender EXCEPT ![server + 1] = "waiting"] /\ dropped' = dropped
        BY <1>3 DEF Connect, Started
    <2>3. Ended' = Ended
        BY <2>1, <2>2 DEF Ended, TypeOK
    <2>4. QED
        BY <1>1, <2>2, <2>3
<1>4. ASSUME NEW k \in Conns, NEW next \in {"waiting", "holding", "offering"},
             sender[k] # "ended", sender' = [sender EXCEPT ![k] = next], dropped' = dropped
      PROVE  OneByEach'
    <2>1. Ended' = Ended
        BY <1>4 DEF Ended, TypeOK
    <2>2. QED
        BY <1>1, <1>4, <2>1
<1>5. ASSUME NEW k \in Conns, Take(k) \/ Call(k) \/ Offer(k) \/ OfferInVain(k)
      PROVE  OneByEach'
    BY <1>4, <1>5 DEF Take, Call, Offer, OfferInVain, Freed
<1>6. CASE UNCHANGED <<sender, dropped>>
    BY <1>1, <1>6 DEF Ended
<1>7. CASE DialFails \/ Wake \/ Cancel \/ Disconnect \/ Stop \/ Post
           \/ \E k \in Conns : Write(k) \/ Break(k)
    BY <1>6, <1>7 DEF DialFails, Wake, Cancel, Disconnect, Stop, Closed, Post, Write, Break, senders
<1>8. CASE UNCHANGED vars
    BY <1>6, <1>8 DEF vars, senders
<1>9. QED
    BY <1>2, <1>3, <1>5, <1>7, <1>8 DEF Next, Sender

\* However long there is no connection, at most one message is lost per connection that
\* has ended: a sender drops one and ends, and those of open connections have not.
THEOREM LosesFew == Spec => []LosesOnePerConnection
<1>1. Init => OneByEach
    <2> SUFFICES ASSUME Init PROVE OneByEach
        OBVIOUS
    <2>1. dropped = {} /\ Ended = {}
        BY DEF Init, Ended
    <2>2. QED
        BY <2>1, FS_EmptySet DEF OneByEach
<1>2. Inv /\ OneByEach /\ [Next]_vars => OneByEach'
    BY OneByEachStep DEF Inv
<1>3. Inv /\ OneByEach => LosesOnePerConnection
    <2> SUFFICES ASSUME Inv, OneByEach PROVE LosesOnePerConnection
        OBVIOUS
    <2> DEFINE Shut == {k \in Conns : shut[k]}
    <2>1. Ended \subseteq Shut
        BY DEF Inv, Onward, Ended
    <2>2. /\ IsFiniteSet(Shut) /\ Cardinality(Shut) \in Nat /\ Cardinality(Ended) \in Nat
          /\ Cardinality(dropped) \in Nat
        BY EndedIsFinite DEF Inv, TypeOK, Ended
    <2>3. Cardinality(Ended) <= Cardinality(Shut)
        BY <2>1, <2>2, FS_Subset
    <2>4. QED
        BY <2>2, <2>3 DEF OneByEach, LosesOnePerConnection
<1>4. QED
    BY <1>1, <1>2, <1>3, InvHolds, PTL DEF Spec

-----------------------------------------------------------------------------
(* Order. *)

LEMMA RisingAppend ==
    ASSUME NEW s \in Seq(Msgs), Rising(s), NEW m \in Msgs,
           \A i \in DOMAIN s : s[i] < m
    PROVE  Rising(Append(s, m))
<1>1. /\ DOMAIN s = 1..Len(s) /\ Len(s) \in Nat
      /\ Append(s, m) \in Seq(Msgs) /\ Len(Append(s, m)) = Len(s) + 1
      /\ \A i \in 1..Len(s) : Append(s, m)[i] = s[i]
      /\ Append(s, m)[Len(s) + 1] = m
    BY LenProperties, AppendProperties
<1>2. DOMAIN Append(s, m) = 1..(Len(s) + 1)
    BY <1>1, LenProperties
<1>3. QED
    BY <1>1, <1>2 DEF Rising

LEMMA RisingTail ==
    ASSUME NEW s \in Seq(Msgs), s # <<>>, Rising(s)
    PROVE  /\ Rising(Tail(s))
           /\ \A i \in DOMAIN Tail(s) : Head(s) < Tail(s)[i]
           /\ \A i \in DOMAIN Tail(s) : \E j \in DOMAIN s : Tail(s)[i] = s[j]
           /\ 1 \in DOMAIN s /\ Head(s) = s[1]
<1>1. /\ DOMAIN s = 1..Len(s) /\ Len(s) \in Nat \ {0}
      /\ Tail(s) \in Seq(Msgs) /\ Len(Tail(s)) = Len(s) - 1
      /\ \A i \in 1..Len(Tail(s)) : Tail(s)[i] = s[i + 1]
    BY LenProperties, EmptySeq, HeadTailProperties
<1>2. DOMAIN Tail(s) = 1..(Len(s) - 1)
    BY <1>1, LenProperties
<1>3. Head(s) = s[1]
    OBVIOUS
<1>4. QED
    BY <1>1, <1>2, <1>3 DEF Rising

LEMMA PrefixOfConcat ==
    ASSUME NEW s \in Seq(Msgs), NEW t \in Seq(Msgs)
    PROVE  /\ DOMAIN s \subseteq DOMAIN (s \o t)
           /\ \A i \in DOMAIN s : (s \o t)[i] = s[i]
<1>1. Len(s) \in Nat /\ Len(t) \in Nat /\ DOMAIN s = 1..Len(s)
    BY LenProperties
<1>2. s \o t \in Seq(Msgs) /\ Len(s \o t) = Len(s) + Len(t)
    BY ConcatProperties
<1>3. DOMAIN (s \o t) = 1..(Len(s) + Len(t))
    BY <1>2, LenProperties
<1>4. \A i \in 1..Len(s) : (s \o t)[i] = s[i]
    BY <1>1, ConcatProperties
<1>5. QED
    BY <1>1, <1>3, <1>4

LEMMA ConcatAppend ==
    ASSUME NEW s \in Seq(Msgs), NEW t \in Seq(Msgs)
    PROVE  /\ \A m \in Msgs : s \o Append(t, m) = Append(s \o t, m)
           /\ t # <<>> => Append(s, Head(t)) \o Tail(t) = s \o t
<1>1. ASSUME NEW m \in Msgs
      PROVE  s \o Append(t, m) = Append(s \o t, m)
    OBVIOUS
<1>2. ASSUME t # <<>>
      PROVE  Append(s, Head(t)) \o Tail(t) = s \o t
    BY <1>2
<1>3. QED
    BY <1>1, <1>2

LEMMA TakenIsSeq ==
    ASSUME TypeOK, NEW c \in Conns
    PROVE  /\ written[c] \in Seq(Msgs) /\ queue[c] \in Seq(Msgs) /\ Taken(c) \in Seq(Msgs)
           /\ DOMAIN Taken(c) = 1..Len(Taken(c)) /\ Len(Taken(c)) \in Nat
<1>1. written[c] \in Seq(Msgs) /\ queue[c] \in Seq(Msgs)
    BY DEF TypeOK
<1>2. Taken(c) \in Seq(Msgs)
    BY <1>1, ConcatProperties DEF Taken
<1>3. QED
    BY <1>1, <1>2, LenProperties

\* What a connection has taken grows by an offer alone.
LEMMA TakenOffered ==
    ASSUME TypeOK, NEW k \in Conns, Offer(k), NEW c \in Conns
    PROVE  Taken(c)' = IF c = at[k] THEN Append(Taken(c), hand[k]) ELSE Taken(c)
<1>1. at[k] \in Conns /\ hand[k] \in Msgs
    BY DEF Offer, TypeOK
<1>2. queue' = [queue EXCEPT ![at[k]] = Append(queue[at[k]], hand[k])] /\ written' = written
    BY DEF Offer
<1>3. CASE c = at[k]
    <2>1. queue'[c] = Append(queue[c], hand[k])
        BY <1>1, <1>2, <1>3 DEF TypeOK
    <2>2. written[c] \o Append(queue[c], hand[k]) = Append(written[c] \o queue[c], hand[k])
        BY <1>1, TakenIsSeq, ConcatAppend
    <2>3. QED
        BY <1>2, <1>3, <2>1, <2>2, Zenon DEF Taken
<1>4. CASE c # at[k]
    BY <1>1, <1>2, <1>4 DEF Taken, TypeOK
<1>5. QED
    BY <1>3, <1>4

LEMMA TakenWritten ==
    ASSUME TypeOK, NEW b \in Conns, Write(b), NEW c \in Conns
    PROVE  Taken(c)' = Taken(c)
<1>1. CASE c = b
    <2>1. /\ queue[b] # <<>> /\ queue'[b] = Tail(queue[b])
          /\ written'[b] = Append(written[b], Head(queue[b]))
        BY DEF Write, TypeOK
    <2>2. Append(written[b], Head(queue[b])) \o Tail(queue[b]) = written[b] \o queue[b]
        BY <2>1, TakenIsSeq, ConcatAppend
    <2>3. QED
        BY <1>1, <2>1, <2>2, Zenon DEF Taken
<1>2. CASE c # b
    BY <1>2 DEF Write, Taken, TypeOK
<1>3. QED
    BY <1>1, <1>2

\* What breaks a connection takes the last of it away.
LEMMA TakenBroken ==
    ASSUME TypeOK, NEW b \in Conns, Break(b), NEW c \in Conns
    PROVE  /\ DOMAIN Taken(c)' \subseteq DOMAIN Taken(c)
           /\ \A i \in DOMAIN Taken(c)' : Taken(c)'[i] = Taken(c)[i]
<1>1. CASE c = b
    <2>1. queue'[c] = <<>> /\ written' = written
        BY <1>1 DEF Break, TypeOK
    <2>2. Taken(c)' = written[c]
        BY <2>1, TakenIsSeq, ConcatEmptySeq DEF Taken
    <2>3. /\ DOMAIN written[c] \subseteq DOMAIN Taken(c)
          /\ \A i \in DOMAIN written[c] : Taken(c)[i] = written[c][i]
        BY TakenIsSeq, PrefixOfConcat DEF Taken
    <2>4. QED
        BY <2>2, <2>3, Zenon
<1>2. CASE c # b
    <2>1. Taken(c)' = Taken(c)
        BY <1>2 DEF Break, Taken, TypeOK
    <2>2. QED
        BY <2>1
<1>3. QED
    BY <1>1, <1>2

\* The connection c loses the end of what it has taken, or nothing.
Shrinks(c) ==
    /\ DOMAIN Taken(c)' \subseteq DOMAIN Taken(c)
    /\ \A i \in DOMAIN Taken(c)' : Taken(c)'[i] = Taken(c)[i]

LEMMA TakenStep ==
    ASSUME TypeOK, [Next]_vars, NEW c \in Conns
    PROVE  \/ Shrinks(c)
           \/ \E k \in Conns : /\ Offer(k) /\ c = at[k]
                               /\ Taken(c)' = Append(Taken(c), hand[k])
<1>1. ASSUME NEW k \in Conns, Offer(k)
      PROVE  Shrinks(c) \/ (c = at[k] /\ Taken(c)' = Append(Taken(c), hand[k]))
    <2>1. CASE c = at[k]
        BY <1>1, <2>1, TakenOffered
    <2>2. CASE c # at[k]
        <3>1. Taken(c)' = Taken(c)
            BY <1>1, <2>2, TakenOffered
        <3>2. QED
            BY <3>1 DEF Shrinks
    <2>3. QED
        BY <2>1, <2>2
<1>2. ASSUME NEW b \in Conns, Write(b)
      PROVE  Shrinks(c)
    <2>1. Taken(c)' = Taken(c)
        BY <1>2, TakenWritten
    <2>2. QED
        BY <2>1 DEF Shrinks
<1>3. ASSUME NEW b \in Conns, Break(b)
      PROVE  Shrinks(c)
    BY <1>3, TakenBroken DEF Shrinks
<1>4. CASE UNCHANGED <<queue, written>>
    BY <1>4 DEF Shrinks, Taken
<1>5. CASE \/ Connect \/ DialFails \/ Wake \/ Cancel \/ Disconnect \/ Stop \/ Post
           \/ \E k \in Conns : Take(k) \/ Call(k) \/ OfferInVain(k) \/ OfferFails(k)
    BY <1>4, <1>5 DEF Connect, DialFails, Wake, Cancel, Disconnect, Stop, Closed, Post, Take, Call,
                      OfferInVain, OfferFails, outbound
<1>6. CASE UNCHANGED vars
    BY <1>4, <1>6 DEF vars, outbound
<1>7. QED
    BY <1>1, <1>2, <1>3, <1>5, <1>6 DEF Next, Sender

\* Messages enter at the end of the channel and leave at its head.
LEMMA ChannelStep ==
    ASSUME TypeOK, ChannelInOrder, [Next]_vars
    PROVE  /\ Rising(channel') /\ \A i \in DOMAIN channel' : channel'[i] <= posted'
           /\ \A m \in Msgs : Passed(m) => Passed(m)'
<1> DEFINE Goal == /\ Rising(channel') /\ \A i \in DOMAIN channel' : channel'[i] <= posted'
                   /\ \A m \in Msgs : Passed(m) => Passed(m)'
<1>1. /\ Rising(channel) /\ \A i \in DOMAIN channel : channel[i] <= posted
      /\ DOMAIN channel = 1..Len(channel) /\ Len(channel) \in Nat
      /\ channel \in Seq(Msgs) /\ \A i \in DOMAIN channel : channel[i] \in Msgs
    BY LenProperties, ElementOfSeq DEF TypeOK, ChannelInOrder
<1>2. CASE Post
    <2>1. posted \in Nat /\ posted' = posted + 1 /\ posted' \in Msgs
          /\ channel' = Append(channel, posted')
        BY <1>2, BoundsAreNat DEF Post, Msgs, TypeOK
    <2>2. \A i \in DOMAIN channel : channel[i] < posted'
        BY <1>1, <2>1 DEF Msgs
    <2>3. Rising(channel')
        BY <1>1, <2>1, <2>2, RisingAppend
    <2>4. /\ DOMAIN channel' = 1..(Len(channel) + 1)
          /\ \A i \in 1..Len(channel) : channel'[i] = channel[i]
          /\ channel'[Len(channel) + 1] = posted'
        BY <1>1, <2>1, AppendProperties, LenProperties
    <2>5. \A i \in DOMAIN channel' : i \in DOMAIN channel \/ channel'[i] = posted'
        BY <1>1, <2>4
    <2>6. \A i \in DOMAIN channel' : channel'[i] <= posted'
        BY <1>1, <2>1, <2>2, <2>4, <2>5 DEF Msgs
    <2>7. \A m \in Msgs : Passed(m) => Passed(m)'
        BY <1>1, <2>1, <2>4, <2>5 DEF Passed, Msgs
    <2>8. QED
        BY <2>3, <2>6, <2>7
<1>3. ASSUME NEW k \in Conns, Take(k)
      PROVE  Goal
    <2>1. channel # <<>> /\ channel' = Tail(channel) /\ posted' = posted
        BY <1>3 DEF Take
    <2>2. /\ Rising(channel')
          /\ \A i \in DOMAIN channel' : \E j \in DOMAIN channel : channel'[i] = channel[j]
        BY <1>1, <2>1, RisingTail
    <2>3. QED
        BY <1>1, <2>1, <2>2 DEF Passed
<1>4. CASE UNCHANGED <<channel, posted>>
    BY <1>1, <1>4 DEF Passed
<1>5. CASE \/ Connect \/ DialFails \/ Wake \/ Cancel \/ Disconnect \/ Stop
           \/ \E k \in Conns : \/ Call(k) \/ Offer(k) \/ OfferInVain(k) \/ OfferFails(k)
                               \/ Write(k) \/ Break(k)
    BY <1>4, <1>5 DEF Connect, DialFails, Wake, Cancel, Disconnect, Stop, Closed, Call, Offer,
                      OfferInVain, OfferFails, Ends, Write, Break
<1>6. CASE UNCHANGED vars
    BY <1>4, <1>6 DEF vars
<1>7. QED
    BY <1>2, <1>3, <1>5, <1>6 DEF Next, Sender

LEMMA ChannelInOrderStep ==
    ASSUME TypeOK, ChannelInOrder, [Next]_vars
    PROVE  ChannelInOrder'
<1>1. \A m \in Msgs : Passed(m) => Passed(m)'
    BY ChannelStep
<1>2. ASSUME NEW k \in Conns
      PROVE  hand'[k] # 0 => \E m \in Msgs : m = hand'[k] /\ Passed(m)'
    <2>1. CASE hand'[k] = hand[k]
        BY <1>1, <2>1 DEF ChannelInOrder, TypeOK
    <2>2. CASE Take(k)
        <3>1. /\ channel # <<>> /\ channel' = Tail(channel) /\ posted' = posted
              /\ hand'[k] = Head(channel)
            BY <2>2 DEF Take, TypeOK
        <3>2. channel \in Seq(Msgs) /\ Rising(channel) /\ Head(channel) \in Msgs
            BY <3>1, HeadTailProperties DEF TypeOK, ChannelInOrder
        <3>3. Head(channel) <= posted /\ \A i \in DOMAIN channel' : Head(channel) < channel'[i]
            BY <3>1, <3>2, RisingTail DEF ChannelInOrder
        <3>4. QED
            BY <3>1, <3>2, <3>3 DEF Passed
    <2>3. CASE hand'[k] = 0
        BY <2>3
    <2>4. ASSUME NEW j \in Conns, Take(j) \/ Call(j) \/ Offer(j) \/ OfferInVain(j) \/ OfferFails(j)
          PROVE  hand'[k] = hand[k] \/ hand'[k] = 0 \/ Take(k)
        BY <2>4 DEF Take, Call, Offer, OfferInVain, OfferFails, Ends, Freed, TypeOK
    <2>5. CASE \/ Connect \/ DialFails \/ Wake \/ Cancel \/ Disconnect \/ Stop \/ Post
               \/ \E c \in Conns : Write(c) \/ Break(c)
        BY <2>1, <2>5 DEF Connect, DialFails, Wake, Cancel, Disconnect, Stop, Closed, Post,
                          Write, Break, senders
    <2>6. CASE UNCHANGED vars
        BY <2>1, <2>6 DEF vars, senders
    <2>7. QED
        BY <2>1, <2>2, <2>3, <2>4, <2>5, <2>6 DEF Next, Sender
<1>3. ASSUME NEW c \in Conns, NEW i \in DOMAIN Taken(c)'
      PROVE  \E m \in Msgs : m = Taken(c)'[i] /\ Passed(m)'
    <2>1. \A j \in DOMAIN Taken(c) : Taken(c)[j] \in Msgs /\ Passed(Taken(c)[j])
        BY TakenIsSeq, ElementOfSeq DEF ChannelInOrder
    <2>2. CASE Shrinks(c)
        <3>1. i \in DOMAIN Taken(c) /\ Taken(c)'[i] = Taken(c)[i]
            BY <2>2 DEF Shrinks
        <3>2. QED
            BY <1>1, <2>1, <3>1
    <2>3. ASSUME NEW k \in Conns, Offer(k), Taken(c)' = Append(Taken(c), hand[k])
          PROVE  \E m \in Msgs : m = Taken(c)'[i] /\ Passed(m)'
        <3>1. hand[k] \in Msgs /\ Passed(hand[k])
            BY <2>3 DEF Offer, TypeOK, ChannelInOrder
        <3>2. /\ Append(Taken(c), hand[k]) \in Seq(Msgs)
              /\ Len(Append(Taken(c), hand[k])) = Len(Taken(c)) + 1
              /\ \A j \in 1..Len(Taken(c)) : Append(Taken(c), hand[k])[j] = Taken(c)[j]
              /\ Append(Taken(c), hand[k])[Len(Taken(c)) + 1] = hand[k]
            BY <3>1, TakenIsSeq, AppendProperties
        <3>3. DOMAIN Append(Taken(c), hand[k]) = 1..(Len(Taken(c)) + 1)
            BY <3>2, LenProperties
        <3>4. i \in 1..(Len(Taken(c)) + 1)
            BY <2>3, <3>3
        <3>5. i \in DOMAIN Taken(c) \/ i = Len(Taken(c)) + 1
            BY <3>4, TakenIsSeq
        <3>6. \/ i \in DOMAIN Taken(c) /\ Taken(c)'[i] = Taken(c)[i]
              \/ Taken(c)'[i] = hand[k]
            BY <2>3, <3>2, <3>5, TakenIsSeq
        <3>7. QED
            BY <1>1, <2>1, <3>1, <3>6
    <2>4. QED
        BY <2>2, <2>3, TakenStep
<1>4. QED
    BY <1>2, <1>3, ChannelStep DEF ChannelInOrder, Passed

LEMMA EmptyBeforeStep ==
    ASSUME TypeOK, EmptyBefore, [Next]_vars
    PROVE  EmptyBefore'
<1>1. server' \in Nat /\ server' >= server
    <2>1. CASE Connect
        BY <2>1 DEF Connect, TypeOK
    <2>2. CASE server' = server
        BY <2>2 DEF TypeOK
    <2>3. CASE UNCHANGED vars
        BY <2>2, <2>3 DEF vars
    <2>4. CASE \/ DialFails \/ Wake \/ Cancel \/ Disconnect \/ Stop \/ Post
               \/ \E k \in Conns : Sender(k) \/ Write(k) \/ Break(k)
        BY <2>2, <2>4 DEF DialFails, Wake, Cancel, Disconnect, Stop, Closed, Post, Sender, Take,
                          Call, Offer, OfferInVain, OfferFails, Write, Break
    <2>5. QED
        BY <2>1, <2>3, <2>4 DEF Next
<1>2. ASSUME NEW c \in Conns, c > server
      PROVE  queue'[c] = <<>> /\ written'[c] = <<>>
    <2>1. queue[c] = <<>> /\ written[c] = <<>>
        BY <1>2 DEF EmptyBefore
    <2>2. ASSUME NEW k \in Conns, Offer(k)
          PROVE  queue'[c] = queue[c] /\ written'[c] = written[c]
        <3>1. at[k] # c
            BY <1>2, <2>2 DEF TypeOK, Conns
        <3>2. QED
            BY <2>2, <3>1 DEF Offer, TypeOK
    <2>3. ASSUME NEW b \in Conns, Write(b)
          PROVE  queue'[c] = queue[c] /\ written'[c] = written[c]
        <3>1. b # c
            BY <2>1, <2>3 DEF Write
        <3>2. QED
            BY <2>3, <3>1 DEF Write, TypeOK
    <2>4. ASSUME NEW b \in Conns, Break(b)
          PROVE  queue'[c] = <<>> /\ written'[c] = written[c]
        BY <2>1, <2>4 DEF Break, TypeOK
    <2>5. CASE UNCHANGED <<queue, written>>
        BY <2>1, <2>5
    <2>6. CASE \/ Connect \/ DialFails \/ Wake \/ Cancel \/ Disconnect \/ Stop \/ Post
               \/ \E k \in Conns : Take(k) \/ Call(k) \/ OfferInVain(k) \/ OfferFails(k)
        BY <2>5, <2>6 DEF Connect, DialFails, Wake, Cancel, Disconnect, Stop, Closed, Post, Take,
                          Call, OfferInVain, OfferFails, outbound
    <2>7. CASE UNCHANGED vars
        BY <2>5, <2>7 DEF vars, outbound
    <2>8. QED
        BY <2>1, <2>2, <2>3, <2>4, <2>6, <2>7 DEF Next, Sender
<1>3. QED
    BY <1>1, <1>2 DEF EmptyBefore, TypeOK, Conns

LEMMA AloneInOrderStep ==
    ASSUME TypeOK, Onward, ChannelInOrder, EmptyBefore, AloneInOrder, [Next]_vars
    PROVE  AloneInOrder'
<1> DEFINE Alone(c)  == \A k \in Conns : k < c => sender[k] = "ended"
           Newest(c) == hand[c] # 0 => \A i \in DOMAIN Taken(c) : Taken(c)[i] < hand[c]
<1>1. ASSUME NEW c \in Conns \ crowded, c <= server
      PROVE  Alone(c) /\ Rising(Taken(c)) /\ Newest(c)
    BY <1>1 DEF AloneInOrder
<1>2. ASSUME NEW c \in Conns, Rising(Taken(c)), Newest(c), Shrinks(c),
             hand'[c] = hand[c] \/ hand'[c] = 0
      PROVE  Rising(Taken(c))' /\ Newest(c)'
    BY <1>2 DEF Shrinks, Rising
<1>3. CASE Connect
    <2>1. /\ server' = server + 1 /\ server' \in Conns /\ server \in Nat /\ hand' = hand
          /\ UNCHANGED <<queue, written>>
          /\ sender' = [sender EXCEPT ![server'] = "waiting"]
        BY <1>3, BoundsAreNat DEF Connect, Started, TypeOK, Conns, outbound
    <2>2. ASSUME NEW c \in Conns \ crowded', c <= server
          PROVE  Alone(c)' /\ Rising(Taken(c))' /\ Newest(c)'
        <3>1. c \notin crowded
            BY <1>3, <2>2 DEF Connect
        <3>2. Alone(c) /\ Rising(Taken(c)) /\ Newest(c)
            BY <1>1, <2>2, <3>1
        <3>3. Alone(c)'
            BY <2>1, <2>2, <3>2 DEF TypeOK, Conns
        <3>4. Shrinks(c) /\ hand'[c] = hand[c]
            BY <2>1 DEF Shrinks, Taken
        <3>5. QED
            BY <1>2, <3>2, <3>3, <3>4
    <2>3. ASSUME NEW c \in Conns \ crowded', c = server + 1
          PROVE  Alone(c)' /\ Rising(Taken(c))' /\ Newest(c)'
        <3>1. Alive = {}
            BY <1>3, <2>1, <2>3 DEF Connect
        <3>2. ASSUME NEW k \in Conns, k < c
              PROVE  sender[k] = "ended" /\ sender'[k] = sender[k]
            <4>1. k <= server /\ k # server'
                BY <2>1, <2>3, <3>2 DEF Conns
            <4>2. sender[k] # "none" /\ k \notin Alive
                BY <3>1, <4>1 DEF TypeOK, Conns
            <4>3. sender[k] = "ended"
                BY <4>2 DEF Alive, TypeOK
            <4>4. QED
                BY <2>1, <4>1, <4>3 DEF TypeOK
        <3>3. hand'[c] = 0
            BY <2>1, <2>3 DEF TypeOK
        <3>4. queue'[c] = <<>> /\ written'[c] = <<>>
            BY <2>1, <2>3 DEF EmptyBefore
        <3>5. Rising(Taken(c))'
            BY <3>4 DEF Rising, Taken
        <3>6. QED
            BY <3>2, <3>3, <3>5
    <2>4. \A c \in Conns : c <= server' => c <= server \/ c = server + 1
        BY <2>1 DEF Conns
    <2>5. QED
        BY <2>2, <2>3, <2>4 DEF AloneInOrder
<1>4. ASSUME UNCHANGED <<server, crowded>>,
             \A k \in Conns : sender[k] = "ended" => sender'[k] = "ended",
             \A k \in Conns : Take(k) \/ hand'[k] = hand[k] \/ hand'[k] = 0
      PROVE  AloneInOrder'
    <2> SUFFICES ASSUME NEW c \in Conns \ crowded, c <= server
                 PROVE  Alone(c)' /\ Rising(Taken(c))' /\ Newest(c)'
        BY <1>4 DEF AloneInOrder
    <2>1. Alone(c) /\ Rising(Taken(c)) /\ Newest(c)
        BY <1>1
    <2>2. Alone(c)'
        BY <1>4, <2>1
    <2>3. CASE Take(c)
        <3>1. Taken(c)' = Taken(c) /\ hand'[c] = Head(channel) /\ channel # <<>>
            BY <2>3 DEF Take, Taken, TypeOK, outbound
        <3>2. 1 \in DOMAIN channel /\ Head(channel) = channel[1]
            BY <3>1, RisingTail DEF TypeOK, ChannelInOrder
        <3>3. \A i \in DOMAIN Taken(c) : Taken(c)[i] < Head(channel)
            BY <3>2 DEF ChannelInOrder, Passed
        <3>4. QED
            BY <2>1, <2>2, <3>1, <3>3
    <2>4. CASE Shrinks(c) /\ ~Take(c)
        BY <1>2, <1>4, <2>1, <2>2, <2>4
    <2>5. ASSUME NEW k \in Conns, Offer(k), c = at[k], Taken(c)' = Append(Taken(c), hand[k])
          PROVE  Alone(c)' /\ Rising(Taken(c))' /\ Newest(c)'
        <3>1. sender[k] = "offering" /\ k <= c /\ hand[k] \in Msgs /\ hand[k] # 0 /\ hand'[k] = 0
            BY <2>5 DEF Offer, Freed, TypeOK, Onward
        <3>2. k = c
            BY <2>1, <3>1 DEF Conns
        <3>3. Rising(Append(Taken(c), hand[k]))
            BY <2>1, <3>1, <3>2, TakenIsSeq, RisingAppend
        <3>4. QED
            BY <2>2, <2>5, <3>1, <3>2, <3>3
    <2>6. QED
        BY <2>3, <2>4, <2>5, TakenStep
<1>5. ASSUME NEW k \in Conns, Sender(k)
      PROVE  AloneInOrder'
    <2>1. UNCHANGED <<server, crowded>>
        BY <1>5 DEF Sender, Take, Call, Offer, OfferInVain, OfferFails
    <2>2. \A j \in Conns : sender[j] = "ended" => sender'[j] = "ended"
        BY <1>5 DEF Sender, Take, Call, Offer, OfferInVain, OfferFails, Ends, Freed, TypeOK
    <2>3. \A j \in Conns : Take(j) \/ hand'[j] = hand[j] \/ hand'[j] = 0
        <3>1. CASE Take(k)
            BY <3>1 DEF Take, TypeOK
        <3>2. CASE Call(k) \/ Offer(k) \/ OfferInVain(k) \/ OfferFails(k)
            BY <3>2 DEF Call, Offer, OfferInVain, OfferFails, Ends, Freed, TypeOK
        <3>3. QED
            BY <1>5, <3>1, <3>2 DEF Sender
    <2>4. QED
        BY <1>4, <2>1, <2>2, <2>3
<1>6. CASE UNCHANGED <<server, crowded, sender, hand>>
    BY <1>4, <1>6
<1>7. CASE \/ DialFails \/ Wake \/ Cancel \/ Disconnect \/ Stop \/ Post
           \/ \E b \in Conns : Write(b) \/ Break(b)
    BY <1>6, <1>7 DEF DialFails, Wake, Cancel, Disconnect, Stop, Closed, Post, Write, Break, senders
<1>8. CASE UNCHANGED vars
    BY <1>6, <1>8 DEF vars, senders
<1>9. QED
    BY <1>3, <1>5, <1>7, <1>8 DEF Next

\* A connection takes messages in the order they were posted, when no earlier sender
\* lived on to send to it too.
THEOREM AloneIsInOrder == Spec => []InOrderAlone
<1> DEFINE Order == ChannelInOrder /\ EmptyBefore /\ AloneInOrder
<1>1. Init => Order
    <2> SUFFICES ASSUME Init PROVE Order
        OBVIOUS
    <2>1. \A c \in Conns : Taken(c) = <<>> /\ queue[c] = <<>> /\ written[c] = <<>> /\ hand[c] = 0
        BY DEF Init, Taken
    <2>2. channel = <<>> /\ server = 0
        BY DEF Init
    <2>3. ChannelInOrder /\ EmptyBefore
        BY <2>1, <2>2 DEF ChannelInOrder, EmptyBefore, Rising
    <2>4. AloneInOrder
        BY <2>2 DEF AloneInOrder, Conns
    <2>5. QED
        BY <2>3, <2>4
<1>2. Inv /\ Order /\ [Next]_vars => Order'
    BY ChannelInOrderStep, EmptyBeforeStep, AloneInOrderStep DEF Inv
<1>3. Inv /\ Order => InOrderAlone
    <2> SUFFICES ASSUME Inv, Order, NEW c \in Conns \ crowded
                 PROVE  Rising(Taken(c))
        BY DEF InOrderAlone, Rising
    <2>1. CASE c <= server
        BY <2>1 DEF AloneInOrder
    <2>2. CASE c > server
        <3>1. Taken(c) = <<>>
            BY <2>2 DEF EmptyBefore, Taken
        <3>2. QED
            BY <3>1 DEF Rising
    <2>3. QED
        BY <2>1, <2>2 DEF Inv, TypeOK, Conns
<1>4. QED
    BY <1>1, <1>2, <1>3, InvHolds, PTL DEF Spec

-----------------------------------------------------------------------------
(* Each message once. *)

Has(c, m) == \E i \in DOMAIN Taken(c) : Taken(c)[i] = m

Once(s) == \A i, j \in DOMAIN s : s[i] = s[j] => i = j

(***************************************************************************)
(* However many senders compete for the channel, a message is taken by one *)
(* connection at most, once, and by none if it was dropped.                *)
(***************************************************************************)
TakenOnce ==
    \A c \in Conns :
        /\ Once(Taken(c))
        /\ \A m \in Msgs : Has(c, m) => m \notin dropped /\ \A d \in Conns : Has(d, m) => d = c

\* What a sender holds it holds alone, and nobody has had it before.
HeldOnce ==
    /\ \A k \in Conns : hand[k] # 0 =>
         /\ \A j \in Conns : hand[j] = hand[k] => j = k
         /\ hand[k] \notin dropped
         /\ \A c \in Conns : ~Has(c, hand[k])
    /\ \A m \in dropped : Passed(m)

LEMMA ShrunkHas ==
    ASSUME NEW c \in Conns, Shrinks(c)
    PROVE  /\ \A m \in Msgs : Has(c, m)' => Has(c, m)
           /\ Once(Taken(c)) => Once(Taken(c))'
BY DEF Shrinks, Has, Once

LEMMA OfferedHas ==
    ASSUME TypeOK, NEW k \in Conns, Offer(k)
    PROVE  /\ \A c \in Conns, m \in Msgs :
                Has(c, m)' <=> Has(c, m) \/ (c = at[k] /\ m = hand[k])
           /\ \A c \in Conns :
                Once(Taken(c)) /\ ~Has(c, hand[k]) => Once(Taken(c))'
<1> SUFFICES ASSUME NEW c \in Conns
             PROVE  /\ \A m \in Msgs : Has(c, m)' <=> Has(c, m) \/ (c = at[k] /\ m = hand[k])
                    /\ Once(Taken(c)) /\ ~Has(c, hand[k]) => Once(Taken(c))'
    OBVIOUS
<1>1. CASE c # at[k]
    <2>1. Taken(c)' = Taken(c)
        BY <1>1, TakenOffered
    <2>2. QED
        BY <1>1, <2>1 DEF Has, Once
<1>2. CASE c = at[k]
    <2>1. hand[k] \in Msgs /\ Taken(c)' = Append(Taken(c), hand[k])
        BY <1>2, TakenOffered DEF Offer, TypeOK
    <2>2. /\ Append(Taken(c), hand[k]) \in Seq(Msgs)
          /\ Len(Append(Taken(c), hand[k])) = Len(Taken(c)) + 1
          /\ \A j \in 1..Len(Taken(c)) : Append(Taken(c), hand[k])[j] = Taken(c)[j]
          /\ Append(Taken(c), hand[k])[Len(Taken(c)) + 1] = hand[k]
        BY <2>1, TakenIsSeq, AppendProperties
    <2>3. DOMAIN Append(Taken(c), hand[k]) = 1..(Len(Taken(c)) + 1)
        BY <2>2, LenProperties
    <2> DEFINE new == Len(Taken(c)) + 1
    <2>4. /\ DOMAIN Taken(c)' = DOMAIN Taken(c) \cup {new} /\ new \notin DOMAIN Taken(c)
          /\ \A j \in DOMAIN Taken(c) : Taken(c)'[j] = Taken(c)[j]
          /\ Taken(c)'[new] = hand[k]
        BY <2>1, <2>2, <2>3, TakenIsSeq
    <2> HIDE DEF new
    <2>5. \A m \in Msgs : Has(c, m)' <=> Has(c, m) \/ m = hand[k]
        BY <2>4 DEF Has
    <2>6. Once(Taken(c)) /\ ~Has(c, hand[k]) => Once(Taken(c))'
        BY <2>4 DEF Has, Once
    <2>7. QED
        BY <1>2, <2>5, <2>6
<1>3. QED
    BY <1>1, <1>2

LEMMA HeldOnceStep ==
    ASSUME TypeOK, ChannelInOrder, HeldOnce, TakenOnce, [Next]_vars
    PROVE  HeldOnce' /\ TakenOnce'
<1>1. \A m \in Msgs : Passed(m) => Passed(m)'
    BY ChannelStep
<1>2. \A k \in Conns : hand[k] # 0 => hand[k] \in Msgs /\ Passed(hand[k])
    BY DEF TypeOK, ChannelInOrder
<1>3. \A k \in Conns : hand[k] # 0 => \A c \in Conns : ~Has(c, hand[k])
    BY DEF HeldOnce
<1>4. ASSUME NEW k \in Conns, Take(k)
      PROVE  HeldOnce' /\ TakenOnce'
    <2> DEFINE h == Head(channel)
    <2>1. /\ hand' = [hand EXCEPT ![k] = h] /\ dropped' = dropped
          /\ \A c \in Conns : Taken(c)' = Taken(c)
        BY <1>4 DEF Take, Taken, outbound
    <2>2. 1 \in DOMAIN channel /\ h = channel[1] /\ h \in Msgs
        BY <1>4, RisingTail, HeadTailProperties DEF Take, TypeOK, ChannelInOrder
    <2>3. \A m \in Msgs : Passed(m) => m # h
        BY <2>2 DEF Passed, Msgs
    <2> HIDE DEF h
    <2>4. \A c \in Conns : ~Has(c, h)
        <3>1. \A c \in Conns : \A i \in DOMAIN Taken(c) : Taken(c)[i] \in Msgs /\ Passed(Taken(c)[i])
            BY TakenIsSeq, ElementOfSeq DEF ChannelInOrder
        <3>2. QED
            BY <2>3, <3>1 DEF Has
    <2>5. h \notin dropped /\ \A j \in Conns : hand[j] # h
        BY <1>2, <2>2, <2>3 DEF HeldOnce, TypeOK, Msgs
    <2>6. \A c \in Conns : /\ Once(Taken(c))' <=> Once(Taken(c))
                           /\ \A m : Has(c, m)' <=> Has(c, m)
        BY <2>1 DEF Once, Has
    <2>7. TakenOnce'
        BY <2>1, <2>6 DEF TakenOnce
    <2>8. ASSUME NEW b \in Conns, hand'[b] # 0
          PROVE  /\ \A j \in Conns : hand'[j] = hand'[b] => j = b
                 /\ hand'[b] \notin dropped' /\ \A c \in Conns : ~Has(c, hand[b])'
        <3>1. CASE b = k
            <4>1. hand'[b] = h /\ \A j \in Conns : j # b => hand'[j] = hand[j]
                BY <2>1, <3>1 DEF TypeOK
            <4>2. QED
                BY <2>1, <2>4, <2>5, <4>1 DEF Has
        <3>2. CASE b # k
            <4>1. hand'[b] = hand[b] /\ \A j \in Conns : hand'[j] = hand[j] \/ hand'[j] = h
                BY <2>1, <3>2 DEF TypeOK
            <4>2. \A j \in Conns : hand'[j] = hand'[b] => hand'[j] = hand[j]
                BY <2>5, <4>1
            <4>3. QED
                BY <2>1, <2>8, <4>1, <4>2 DEF HeldOnce, Has
        <3>3. QED
            BY <3>1, <3>2
    <2>9. \A m \in dropped' : Passed(m)'
        BY <1>1, <2>1 DEF HeldOnce, TypeOK
    <2>10. QED
        BY <2>7, <2>8, <2>9 DEF HeldOnce
<1>5. ASSUME NEW k \in Conns, hand[k] # 0, hand' = [hand EXCEPT ![k] = 0],
             \/ /\ dropped' = dropped
                /\ Offer(k)
             \/ /\ dropped' \subseteq dropped \cup {hand[k]}
                /\ \A c \in Conns : Taken(c)' = Taken(c)
      PROVE  HeldOnce' /\ TakenOnce'
    <2>1. ASSUME NEW b \in Conns, hand'[b] # 0
          PROVE  hand'[b] = hand[b] /\ hand[b] # hand[k] /\ hand[b] \in Msgs
        <3>1. b # k /\ hand'[b] = hand[b]
            BY <1>5, <2>1 DEF TypeOK
        <3>2. QED
            BY <1>2, <2>1, <3>1 DEF HeldOnce
    <2>2. \A m \in dropped' : m \in dropped \/ m = hand[k]
        BY <1>5
    <2>3. \A c \in Conns, m \in Msgs : Has(c, m)' => Has(c, m) \/ m = hand[k]
        BY <1>5, OfferedHas DEF Has
    <2>4. \A c \in Conns : Once(Taken(c))'
        <3>1. ASSUME NEW c \in Conns, Taken(c)' = Taken(c)
              PROVE  Once(Taken(c))'
            BY <3>1 DEF TakenOnce, Once
        <3>2. ASSUME NEW c \in Conns, Offer(k)
              PROVE  Once(Taken(c))'
            BY <1>3, <1>5, <3>2, OfferedHas DEF TakenOnce
        <3>3. QED
            BY <1>5, <3>1, <3>2
    <2>5. ASSUME NEW c \in Conns, NEW m \in Msgs, Has(c, m)'
          PROVE  m \notin dropped' /\ \A d \in Conns : Has(d, m)' => d = c
        <3>1. CASE Offer(k) /\ dropped' = dropped
            <4>1. \A d \in Conns : Has(d, m)' <=> Has(d, m) \/ (d = at[k] /\ m = hand[k])
                BY <3>1, OfferedHas
            <4>2. CASE m = hand[k]
                BY <1>3, <1>5, <2>5, <3>1, <4>1, <4>2 DEF HeldOnce
            <4>3. CASE m # hand[k]
                BY <2>5, <3>1, <4>1, <4>3 DEF TakenOnce
            <4>4. QED
                BY <4>2, <4>3
        <3>2. CASE \A d \in Conns : Taken(d)' = Taken(d)
            <4>1. \A d \in Conns : Has(d, m)' <=> Has(d, m)
                BY <3>2 DEF Has
            <4>2. m # hand[k]
                BY <1>3, <1>5, <2>5, <4>1
            <4>3. QED
                BY <2>2, <2>5, <4>1, <4>2 DEF TakenOnce
        <3>3. QED
            BY <1>5, <3>1, <3>2
    <2>6. ASSUME NEW b \in Conns, hand'[b] # 0
          PROVE  /\ \A j \in Conns : hand'[j] = hand'[b] => j = b
                 /\ hand'[b] \notin dropped' /\ \A c \in Conns : ~Has(c, hand[b])'
        <3>1. hand'[b] = hand[b] /\ hand[b] # hand[k] /\ hand[b] \in Msgs /\ hand[b] # 0
            BY <2>1, <2>6
        <3>2. \A j \in Conns : hand'[j] = hand'[b] => j = b
            BY <2>1, <2>6, <3>1 DEF HeldOnce
        <3>3. hand'[b] \notin dropped'
            BY <2>2, <3>1 DEF HeldOnce
        <3>4. ASSUME NEW c \in Conns
              PROVE  ~Has(c, hand[b])'
            <4>1. PICK m \in Msgs : m = hand[b] /\ m = hand'[b]
                BY <3>1
            <4>2. ~Has(c, m)'
                BY <1>3, <2>3, <3>1, <4>1
            <4>3. QED
                BY <4>1, <4>2 DEF Has
        <3>5. QED
            BY <3>2, <3>3, <3>4
    <2>7. \A m \in dropped' : Passed(m)'
        BY <1>1, <1>2, <1>5, <2>2 DEF HeldOnce, TypeOK
    <2>8. QED
        BY <2>4, <2>5, <2>6, <2>7 DEF HeldOnce, TakenOnce
<1>6. ASSUME NEW k \in Conns, Offer(k) \/ OfferInVain(k) \/ OfferFails(k)
      PROVE  HeldOnce' /\ TakenOnce'
    <2>1. hand[k] # 0 /\ hand' = [hand EXCEPT ![k] = 0]
        BY <1>6 DEF Offer, OfferInVain, OfferFails, Ends, Freed, TypeOK
    <2>2. \/ dropped' = dropped /\ Offer(k)
          \/ dropped' \subseteq dropped \cup {hand[k]} /\ \A c \in Conns : Taken(c)' = Taken(c)
        BY <1>6 DEF Offer, OfferInVain, OfferFails, Ends, Taken, outbound
    <2>3. QED
        BY <1>5, <2>1, <2>2
<1>7. ASSUME UNCHANGED <<hand, dropped>>, \A c \in Conns : Shrinks(c)
      PROVE  HeldOnce' /\ TakenOnce'
    <2>1. \A c \in Conns : /\ \A m \in Msgs : Has(c, m)' => Has(c, m)
                           /\ Once(Taken(c)) => Once(Taken(c))'
        BY <1>7, ShrunkHas
    <2>2. TakenOnce'
        BY <1>7, <2>1 DEF TakenOnce
    <2>3. ASSUME NEW k \in Conns, NEW c \in Conns, hand[k] # 0
          PROVE  ~Has(c, hand[k])'
        <3>1. \A i \in DOMAIN Taken(c)' : i \in DOMAIN Taken(c) /\ Taken(c)'[i] = Taken(c)[i]
            BY <1>7 DEF Shrinks
        <3>2. QED
            BY <1>3, <1>7, <2>3, <3>1 DEF Has
    <2>4. HeldOnce'
        BY <1>1, <1>7, <2>3 DEF HeldOnce, TypeOK
    <2>5. QED
        BY <2>2, <2>4
<1>8. ASSUME \/ Connect \/ DialFails \/ Wake \/ Cancel \/ Disconnect \/ Stop \/ Post
             \/ \E k \in Conns : Call(k) \/ Write(k) \/ Break(k)
             \/ UNCHANGED vars
      PROVE  HeldOnce' /\ TakenOnce'
    <2>1. UNCHANGED <<hand, dropped>>
        BY <1>8 DEF Connect, DialFails, Wake, Cancel, Disconnect, Stop, Closed, Post, Call, Write,
                    Break, senders, vars
    <2>2. \A k \in Conns : ~Offer(k)
        <3>1. ASSUME NEW k \in Conns, Offer(k)
              PROVE  FALSE
            <4>1. hand[k] # 0 /\ hand'[k] = 0
                BY <3>1 DEF Offer, Freed, TypeOK
            <4>2. QED
                BY <2>1, <4>1
        <3>2. QED
            BY <3>1
    <2>3. \A c \in Conns : Shrinks(c)
        BY <2>2, TakenStep
    <2>4. QED
        BY <1>7, <2>1, <2>3
<1>9. QED
    BY <1>4, <1>6, <1>8 DEF Next, Sender

\* The message m is somewhere.
Remains(m) ==
    \/ \E i \in DOMAIN channel : channel[i] = m
    \/ \E k \in Conns : hand[k] = m
    \/ m \in dropped
    \/ \E c \in Conns : Has(c, m)

\* Only a connection that broke loses messages without an error.
NoneVanishes == (\A c \in Conns : ~broken[c]) => \A m \in 1..posted : Remains(m)

LEMMA NoneVanishesStep ==
    ASSUME TypeOK, NoneVanishes, [Next]_vars
    PROVE  NoneVanishes'
<1> SUFFICES ASSUME \A c \in Conns : ~broken'[c], NEW m \in 1..posted'
             PROVE  Remains(m)'
    BY DEF NoneVanishes
<1>1. \A c \in Conns : ~broken[c]
    <2>1. ASSUME NEW b \in Conns, Break(b)
          PROVE  FALSE
        BY <2>1 DEF Break, TypeOK
    <2>2. CASE UNCHANGED broken
        BY <2>2
    <2>3. CASE \/ Connect \/ DialFails \/ Wake \/ Cancel \/ Disconnect \/ Stop \/ Post
               \/ \E k \in Conns : Sender(k) \/ Write(k)
        BY <2>2, <2>3 DEF Connect, DialFails, Wake, Cancel, Disconnect, Stop, Closed, Post, Sender,
                          Take, Call, Offer, OfferInVain, OfferFails, Ends, Write, outbound
    <2>4. CASE UNCHANGED vars
        BY <2>2, <2>4 DEF vars, outbound
    <2>5. QED
        BY <2>1, <2>3, <2>4 DEF Next
<1>2. m \in 1..posted => Remains(m)
    BY <1>1 DEF NoneVanishes
<1>3. ASSUME UNCHANGED <<channel, posted, hand, dropped, queue, written>>
      PROVE  Remains(m)'
    BY <1>2, <1>3 DEF Remains, Has, Taken
<1>4. CASE Post
    <2>1. /\ posted' = posted + 1 /\ channel' = Append(channel, posted') /\ posted \in Nat
          /\ UNCHANGED <<hand, dropped, queue, written>>
        BY <1>4 DEF Post, TypeOK, senders, outbound
    <2>2. posted' \in Msgs
        BY <1>4, BoundsAreNat DEF Post, TypeOK, Msgs
    <2>3. /\ Len(channel) \in Nat /\ DOMAIN channel = 1..Len(channel)
          /\ DOMAIN channel' = 1..(Len(channel) + 1)
          /\ \A i \in 1..Len(channel) : channel'[i] = channel[i]
          /\ channel'[Len(channel) + 1] = posted'
        BY <2>1, <2>2, AppendProperties, LenProperties DEF TypeOK
    <2>4. CASE m = posted'
        BY <2>3, <2>4 DEF Remains
    <2>5. CASE m # posted'
        <3>1. Remains(m)
            BY <1>2, <2>1, <2>5
        <3>2. \A i \in DOMAIN channel : i \in DOMAIN channel' /\ channel'[i] = channel[i]
            BY <2>3
        <3>3. QED
            BY <2>1, <3>1, <3>2 DEF Remains, Has, Taken
    <2>6. QED
        BY <2>4, <2>5
<1>5. ASSUME NEW k \in Conns, Take(k)
      PROVE  Remains(m)'
    <2>1. /\ hand[k] = 0 /\ hand' = [hand EXCEPT ![k] = Head(channel)]
          /\ channel # <<>> /\ channel' = Tail(channel)
          /\ UNCHANGED <<posted, dropped, queue, written>>
        BY <1>5 DEF Take, TypeOK, outbound
    <2>2. Remains(m) /\ m # 0
        BY <1>2, <2>1
    <2>3. CASE \E i \in DOMAIN channel : channel[i] = m
        <3>1. PICK i \in DOMAIN channel : channel[i] = m
            BY <2>3
        <3>2. /\ Len(channel) \in Nat \ {0} /\ DOMAIN channel = 1..Len(channel)
              /\ Head(channel) = channel[1] /\ Tail(channel) \in Seq(Msgs)
              /\ Len(Tail(channel)) = Len(channel) - 1
              /\ \A j \in 1..Len(Tail(channel)) : Tail(channel)[j] = channel[j + 1]
            BY <2>1, LenProperties, EmptySeq, HeadTailProperties DEF TypeOK
        <3>3. CASE i = 1
            <4>1. hand'[k] = m
                BY <2>1, <3>1, <3>2, <3>3 DEF TypeOK
            <4>2. QED
                BY <4>1 DEF Remains
        <3>4. CASE i # 1
            <4>1. i - 1 \in 1..Len(Tail(channel)) /\ Tail(channel)[i - 1] = channel[(i - 1) + 1]
                BY <3>2, <3>4
            <4>2. i - 1 \in DOMAIN channel' /\ channel'[i - 1] = m
                BY <2>1, <3>1, <3>2, <4>1, LenProperties
            <4>3. QED
                BY <4>2 DEF Remains
        <3>5. QED
            BY <3>3, <3>4
    <2>4. CASE \E j \in Conns : hand[j] = m
        <3>1. PICK j \in Conns : hand[j] = m /\ hand'[j] = m
            BY <2>1, <2>2, <2>4 DEF TypeOK
        <3>2. QED
            BY <3>1 DEF Remains
    <2>5. CASE m \in dropped \/ \E c \in Conns : Has(c, m)
        BY <2>1, <2>5 DEF Remains, Has, Taken
    <2>6. QED
        BY <2>2, <2>3, <2>4, <2>5 DEF Remains
<1>6. ASSUME NEW k \in Conns, Offer(k) \/ OfferFails(k)
      PROVE  Remains(m)'
    <2>1. /\ hand' = [hand EXCEPT ![k] = 0] /\ UNCHANGED <<posted, channel>>
          /\ dropped \subseteq dropped'
        BY <1>6 DEF Offer, OfferFails, Ends, Freed
    <2>0. m \in Msgs
        BY <2>1, BoundsAreNat DEF TypeOK, Msgs
    <2>2. Remains(m) /\ m # 0
        BY <1>2, <2>1
    <2>3. ASSUME NEW c \in Conns, Has(c, m)
          PROVE  Has(c, m)'
        <3>2. CASE Offer(k)
            BY <2>0, <2>3, <3>2, OfferedHas
        <3>3. CASE OfferFails(k)
            BY <2>3, <3>3 DEF OfferFails, Has, Taken, outbound
        <3>4. QED
            BY <1>6, <3>2, <3>3
    <2>4. CASE hand[k] = m
        <3>1. CASE Offer(k)
            <4>1. PICK c \in Conns : c = at[k]
                BY <3>1 DEF Offer, TypeOK
            <4>2. Has(c, m)'
                BY <2>0, <2>4, <3>1, <4>1, OfferedHas
            <4>3. QED
                BY <4>2 DEF Remains
        <3>2. CASE OfferFails(k)
            BY <2>4, <3>2 DEF OfferFails, Ends, Remains
        <3>3. QED
            BY <1>6, <3>1, <3>2
    <2>5. ASSUME NEW j \in Conns, hand[j] = m, hand[k] # m
          PROVE  Remains(m)'
        <3>1. hand'[j] = m
            BY <2>1, <2>5 DEF TypeOK
        <3>2. QED
            BY <3>1 DEF Remains
    <2>6. QED
        BY <2>1, <2>2, <2>3, <2>4, <2>5 DEF Remains
<1>7. ASSUME NEW b \in Conns, Write(b)
      PROVE  Remains(m)'
    <2>1. \A c \in Conns : Taken(c)' = Taken(c)
        BY <1>7, TakenWritten
    <2>2. UNCHANGED <<channel, posted, hand, dropped>>
        BY <1>7 DEF Write, senders
    <2>3. QED
        BY <1>2, <2>1, <2>2 DEF Remains, Has
<1>8. ASSUME NEW k \in Conns, Call(k) \/ OfferInVain(k) \/ Break(k)
      PROVE  Remains(m)'
    <2>1. CASE Call(k)
        BY <1>3, <2>1 DEF Call, outbound
    <2>2. CASE OfferInVain(k)
        BY <1>1, <2>2 DEF OfferInVain, Unwritten, TypeOK
    <2>3. CASE Break(k)
        BY <2>3 DEF Break, TypeOK
    <2>4. QED
        BY <1>8, <2>1, <2>2, <2>3
<1>9. CASE Connect \/ DialFails \/ Wake \/ Cancel \/ Disconnect \/ Stop \/ UNCHANGED vars
    BY <1>3, <1>9 DEF Connect, DialFails, Wake, Cancel, Disconnect, Stop, Closed, vars, senders,
                      outbound
<1>10. QED
    BY <1>4, <1>5, <1>6, <1>7, <1>8, <1>9 DEF Next, Sender

LEMMA FatesAre ==
    ASSUME NEW m, NEW f
    PROVE  f \in Fates(m) <=>
             \/ \E i \in DOMAIN channel : channel[i] = m /\ f = <<"waiting", i>>
             \/ \E k \in Conns : hand[k] = m /\ f = <<"held", k>>
             \/ \E c \in Conns : \E i \in DOMAIN Taken(c) : Taken(c)[i] = m /\ f = <<"taken", c, i>>
             \/ m \in dropped /\ f = <<"dropped", m>>
<1> DEFINE A == {<<"waiting", i>> : i \in {j \in DOMAIN channel : channel[j] = m}}
           B == {<<"held", k>> : k \in {j \in Conns : hand[j] = m}}
           C == UNION {{<<"taken", c, i>> : i \in {j \in DOMAIN Taken(c) : Taken(c)[j] = m}} : c \in Conns}
           D == {<<"dropped", d>> : d \in dropped \cap {m}}
<1>1. f \in A <=> \E i \in DOMAIN channel : channel[i] = m /\ f = <<"waiting", i>>
    OBVIOUS
<1>2. f \in B <=> \E k \in Conns : hand[k] = m /\ f = <<"held", k>>
    OBVIOUS
<1>3. f \in C <=>
        \E c \in Conns : \E i \in DOMAIN Taken(c) : Taken(c)[i] = m /\ f = <<"taken", c, i>>
    <2>1. ASSUME NEW c \in Conns
          PROVE  f \in {<<"taken", c, i>> : i \in {j \in DOMAIN Taken(c) : Taken(c)[j] = m}}
                   <=> \E i \in DOMAIN Taken(c) : Taken(c)[i] = m /\ f = <<"taken", c, i>>
        OBVIOUS
    <2>2. f \in C <=> \E c \in Conns :
            f \in {<<"taken", c, i>> : i \in {j \in DOMAIN Taken(c) : Taken(c)[j] = m}}
        BY Zenon
    <2>3. QED
        BY <2>1, <2>2, Zenon
<1>4. f \in D <=> m \in dropped /\ f = <<"dropped", m>>
    BY Zenon
<1>5. Fates(m) = A \cup B \cup C \cup D
    BY Zenon DEF Fates
<1> HIDE DEF A, B, C, D
<1>6. f \in Fates(m) <=> f \in A \/ f \in B \/ f \in C \/ f \in D
    BY <1>5
<1>7. QED
    BY <1>1, <1>2, <1>3, <1>4, <1>6, Zenon

LEMMA FatesDiffer ==
    ASSUME TypeOK, ChannelInOrder, HeldOnce, TakenOnce, NEW m \in 1..posted
    PROVE  \A f, g \in Fates(m) : f = g
<1>1. m \in Msgs /\ m # 0
    BY BoundsAreNat DEF TypeOK, Msgs
<1>2. \A i, j \in DOMAIN channel : channel[i] = m /\ channel[j] = m => i = j
    <2>1. channel \in Seq(Msgs) /\ DOMAIN channel = 1..Len(channel) /\ Len(channel) \in Nat
        BY LenProperties DEF TypeOK
    <2>3. ASSUME NEW i \in DOMAIN channel
          PROVE  i \in Nat /\ channel[i] \in Nat
        <3>1. i \in 1..Len(channel)
            BY <2>1
        <3>2. channel[i] \in Msgs
            BY <2>1, <3>1, ElementOfSeq
        <3>3. QED
            BY <2>1, <3>1, <3>2, BoundsAreNat DEF Msgs
    <2>2. QED
        BY <2>3 DEF ChannelInOrder, Rising
<1>3. \A i \in DOMAIN channel : channel[i] = m => ~Passed(m)
    BY DEF Passed
<1>4. \A k \in Conns : hand[k] = m =>
        /\ Passed(m) /\ m \notin dropped /\ \A j \in Conns : hand[j] = m => j = k
        /\ \A c \in Conns : ~Has(c, m)
    BY <1>1 DEF ChannelInOrder, HeldOnce
<1>5. \A c \in Conns : Has(c, m) => Passed(m)
    BY DEF ChannelInOrder, Has
<1>6. \A c \in Conns : Has(c, m) => m \notin dropped /\ \A d \in Conns : Has(d, m) => d = c
    BY <1>1 DEF TakenOnce
<1>7. \A c \in Conns : \A i, j \in DOMAIN Taken(c) : Taken(c)[i] = m /\ Taken(c)[j] = m => i = j
    BY DEF TakenOnce, Once
<1>8. m \in dropped => Passed(m)
    BY DEF HeldOnce
<1>9. ASSUME NEW f \in Fates(m)
      PROVE  \/ \E i \in DOMAIN channel : channel[i] = m /\ f = <<"waiting", i>>
             \/ \E k \in Conns : hand[k] = m /\ f = <<"held", k>>
             \/ \E c \in Conns : \E i \in DOMAIN Taken(c) : Taken(c)[i] = m /\ f = <<"taken", c, i>>
             \/ m \in dropped /\ f = <<"dropped", m>>
    BY <1>9, FatesAre
<1> SUFFICES ASSUME NEW f \in Fates(m), NEW g \in Fates(m)
             PROVE  f = g
    OBVIOUS
<1>10. CASE \E i \in DOMAIN channel : channel[i] = m /\ f = <<"waiting", i>>
    BY <1>2, <1>3, <1>4, <1>5, <1>8, <1>9, <1>10 DEF Has
<1>11. CASE \E k \in Conns : hand[k] = m /\ f = <<"held", k>>
    BY <1>3, <1>4, <1>9, <1>11 DEF Has
<1>12. CASE \E c \in Conns : \E i \in DOMAIN Taken(c) : Taken(c)[i] = m /\ f = <<"taken", c, i>>
    <2>1. PICK c \in Conns : \E i \in DOMAIN Taken(c) : Taken(c)[i] = m /\ f = <<"taken", c, i>>
        BY <1>12
    <2>2. Has(c, m) /\ Passed(m) /\ m \notin dropped
        BY <1>5, <1>6, <2>1 DEF Has
    <2>3. \E d \in Conns : \E i \in DOMAIN Taken(d) : Taken(d)[i] = m /\ g = <<"taken", d, i>>
        BY <1>3, <1>4, <1>9, <2>2
    <2>4. PICK d \in Conns : \E i \in DOMAIN Taken(d) : Taken(d)[i] = m /\ g = <<"taken", d, i>>
        BY <2>3
    <2>5. d = c
        BY <1>6, <2>2, <2>4 DEF Has
    <2>6. QED
        BY <1>7, <2>1, <2>4, <2>5
<1>13. CASE m \in dropped /\ f = <<"dropped", m>>
    BY <1>3, <1>4, <1>6, <1>8, <1>9, <1>13 DEF Has
<1>14. QED
    BY <1>9, <1>10, <1>11, <1>12, <1>13

LEMMA FateOfRemaining ==
    ASSUME NEW m \in 1..posted, Remains(m)
    PROVE  Fates(m) # {}
<1>1. ASSUME NEW i \in DOMAIN channel, channel[i] = m
      PROVE  <<"waiting", i>> \in Fates(m)
    BY <1>1, FatesAre, Zenon
<1>2. ASSUME NEW k \in Conns, hand[k] = m
      PROVE  <<"held", k>> \in Fates(m)
    BY <1>2, FatesAre, Zenon
<1>3. ASSUME m \in dropped
      PROVE  <<"dropped", m>> \in Fates(m)
    BY <1>3, FatesAre, Zenon
<1>4. ASSUME NEW c \in Conns, NEW i \in DOMAIN Taken(c), Taken(c)[i] = m
      PROVE  <<"taken", c, i>> \in Fates(m)
    BY <1>4, FatesAre, Zenon
<1>5. QED
    BY <1>1, <1>2, <1>3, <1>4 DEF Remains, Has

\* Competing senders may reorder the messages of the channel; but none of them is sent
\* on two connections, or twice on one, or after it was dropped, and none is gone
\* without an error unless a write failed.
THEOREM EachHasOneFate == Spec => []OneFate
<1> DEFINE Kept == ChannelInOrder /\ HeldOnce /\ TakenOnce /\ NoneVanishes
<1>1. Init => Kept
    <2> SUFFICES ASSUME Init PROVE Kept
        OBVIOUS
    <2>1. \A c \in Conns : Taken(c) = <<>> /\ hand[c] = 0
        BY DEF Init, Taken
    <2>2. channel = <<>> /\ dropped = {} /\ posted = 0
        BY DEF Init
    <2>3. ChannelInOrder /\ HeldOnce /\ TakenOnce
        BY <2>1, <2>2 DEF ChannelInOrder, HeldOnce, TakenOnce, Rising, Has, Once
    <2>4. NoneVanishes
        BY <2>2 DEF NoneVanishes
    <2>5. QED
        BY <2>3, <2>4
<1>2. Inv /\ Kept /\ [Next]_vars => Kept'
    BY ChannelInOrderStep, HeldOnceStep, NoneVanishesStep DEF Inv
<1>3. Inv /\ Kept => OneFate
    BY FatesDiffer, FateOfRemaining DEF Inv, OneFate, NoneVanishes
<1>4. QED
    BY <1>1, <1>2, <1>3, InvHolds, PTL DEF Spec
=============================================================================
