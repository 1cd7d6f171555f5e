------------------------------ MODULE WSClient ------------------------------
(***************************************************************************)
(* The websocket client redirector (redirect/websocket_client.go): the     *)
(* goroutine in serve, which dials, serves the connection until it ends,   *)
(* and dials again; and the sendMessage goroutines, of which it starts one *)
(* per connection.  Such a goroutine ends only when a message cannot be    *)
(* handed to the current connection: one that has nothing to send outlives *)
(* its connection, and shares the channel with its successors.             *)
(*                                                                         *)
(* The steps of a connection are those of Outbound, once for each; what    *)
(* entitles a caller to them is shown in WSConnection.                     *)
(***************************************************************************)
EXTENDS Naturals, Sequences, FiniteSets

CONSTANTS
    Room,     \* messages a connection takes before SendMessage blocks
    Capacity, \* size of the messages channel
    MaxMsgs,  \* bound: messages, numbered as they enter the channel
    MaxConns  \* bound: connections that are made, numbered from 1

ASSUME SizesArePositive == Room \in Nat \ {0} /\ Capacity \in Nat \ {0}
ASSUME BoundsAreNat     == MaxMsgs \in Nat /\ MaxConns \in Nat

Conns == 1..MaxConns

VARIABLES
    serve,     \* serve: dial, serving, sleep, stopped
    server,    \* the connection in h.server, 0 before there is one
    cancelled, \* the context is done
    posted,    \* how many messages have entered the channel
    channel,   \* messages
    sender,    \* the goroutine started with connection k: none, waiting,
               \* holding, offering, ended
    hand,      \* the message it holds
    at,        \* the connection it offers it to
    queue, written, shut, broken, \* of each connection, as in Outbound
    dropped,   \* history: messages whose SendMessage failed
    crowded    \* history: connections that were current while several
               \* senders lived

senders  == <<sender, hand, at, dropped>>
outbound == <<queue, written, shut, broken>>
vars     == <<serve, server, cancelled, posted, channel, senders, outbound, crowded>>

Init ==
    /\ serve = "dial" /\ server = 0
    /\ cancelled = FALSE
    /\ posted = 0 /\ channel = <<>>
    /\ sender = [k \in Conns |-> "none"]
    /\ hand = [k \in Conns |-> 0]
    /\ at = [k \in Conns |-> 0]
    /\ queue = [k \in Conns |-> <<>>]
    /\ written = [k \in Conns |-> <<>>]
    /\ shut = [k \in Conns |-> FALSE]
    /\ broken = [k \in Conns |-> FALSE]
    /\ dropped = {}
    /\ crowded = {}

Alive == {k \in Conns : sender[k] \in {"waiting", "holding", "offering"}}

-----------------------------------------------------------------------------
(* serve. *)

\* Mutant: one sender for all connections.
OnlyTheFirst(k) == IF k = 1 THEN [sender EXCEPT ![k] = "waiting"] ELSE sender

Started(k) == [sender EXCEPT ![k] = "waiting"]

\* Dial succeeds: newClient, h.server, go sendMessage.
Connect ==
    /\ serve = "dial"
    /\ server < MaxConns
    /\ serve' = "serving"
    /\ server' = server + 1
    /\ sender' = Started(server')
    /\ crowded' = IF Alive = {} THEN crowded ELSE crowded \cup {server'}
    /\ UNCHANGED <<cancelled, posted, channel, hand, at, dropped, outbound>>

DialFails ==
    /\ serve = "dial"
    /\ serve' = "sleep"
    /\ UNCHANGED <<server, cancelled, posted, channel, senders, outbound, crowded>>

Wake ==
    /\ serve = "sleep"
    /\ serve' = "dial"
    /\ UNCHANGED <<server, cancelled, posted, channel, senders, outbound, crowded>>

Cancel ==
    /\ ~cancelled
    /\ cancelled' = TRUE
    /\ UNCHANGED <<serve, server, posted, channel, senders, outbound, crowded>>

Closed ==
    /\ serve = "serving"
    /\ shut' = [shut EXCEPT ![server] = TRUE]
    /\ UNCHANGED <<server, cancelled, posted, channel, senders, queue, written, broken, crowded>>

\* Mutant: an error ends serve.
GivesUp == "stopped"

AfterError == "sleep"

\* Serve of the connection closes the pool and returns an error.  The last
\* connection the bound allows stays.
Disconnect ==
    /\ server < MaxConns
    /\ Closed
    /\ serve' = AfterError

\* Serve of the connection sees the context, and returns nil.
Stop ==
    /\ cancelled
    /\ Closed
    /\ serve' = "stopped"

-----------------------------------------------------------------------------
(* SendMessage, and the senders. *)

Post ==
    /\ posted < MaxMsgs
    /\ Len(channel) < Capacity
    /\ posted' = posted + 1
    /\ channel' = Append(channel, posted')
    /\ UNCHANGED <<serve, server, cancelled, senders, outbound, crowded>>

Take(k) ==
    /\ sender[k] = "waiting"
    /\ channel # <<>>
    /\ hand' = [hand EXCEPT ![k] = Head(channel)]
    /\ channel' = Tail(channel)
    /\ sender' = [sender EXCEPT ![k] = "holding"]
    /\ UNCHANGED <<serve, server, cancelled, posted, at, dropped, outbound, crowded>>

\* h.server is read without a lock, once for every message.
Call(k) ==
    /\ sender[k] = "holding"
    /\ at' = [at EXCEPT ![k] = server]
    /\ sender' = [sender EXCEPT ![k] = "offering"]
    /\ UNCHANGED <<serve, server, cancelled, posted, channel, hand, dropped, outbound, crowded>>

\* The goroutine is done with its message.
Freed(k, next) ==
    /\ sender' = [sender EXCEPT ![k] = next]
    /\ hand' = [hand EXCEPT ![k] = 0]
    /\ at' = [at EXCEPT ![k] = 0]

\* Mutant: off by one.
HasRoomForOneMore(c) == Len(queue[c]) <= Room

HasRoom(c) == Len(queue[c]) < Room

Offer(k) ==
    /\ sender[k] = "offering"
    /\ ~shut[at[k]] /\ ~broken[at[k]]
    /\ HasRoom(at[k])
    /\ queue' = [queue EXCEPT ![at[k]] = Append(queue[at[k]], hand[k])]
    /\ Freed(k, "waiting")
    /\ UNCHANGED <<serve, server, cancelled, posted, channel, written, shut, broken, dropped, crowded>>

\* Mutant: what a full connection cannot buffer is discarded.
BrokenOrFull(c) == broken[c] \/ ~HasRoom(c)

\* What is buffered then is not written.
Unwritten(c) == broken[c]

\* Buffered, but the goroutine that would write it has ended.
OfferInVain(k) ==
    /\ sender[k] = "offering"
    /\ ~shut[at[k]] /\ Unwritten(at[k])
    /\ Freed(k, "waiting")
    /\ UNCHANGED <<serve, server, cancelled, posted, channel, outbound, dropped, crowded>>

\* Mutant: the error is logged, and the next message taken.
GoesOn(k) ==
    /\ dropped' = dropped \cup {hand[k]}
    /\ Freed(k, "waiting")
    /\ UNCHANGED channel

\* Mutant: the message is put back into the channel.
PutsBack(k) ==
    /\ channel' = Append(channel, hand[k])
    /\ Freed(k, "ended")
    /\ UNCHANGED dropped

\* The error is logged, and the goroutine returns.
Ends(k) ==
    /\ dropped' = dropped \cup {hand[k]}
    /\ Freed(k, "ended")
    /\ UNCHANGED channel

OfferFails(k) ==
    /\ sender[k] = "offering"
    /\ shut[at[k]]
    /\ Ends(k)
    /\ UNCHANGED <<serve, server, cancelled, posted, outbound, crowded>>

-----------------------------------------------------------------------------
(* The connections. *)

Write(c) ==
    /\ queue[c] # <<>>
    /\ written' = [written EXCEPT ![c] = Append(@, Head(queue[c]))]
    /\ queue' = [queue EXCEPT ![c] = Tail(@)]
    /\ UNCHANGED <<serve, server, cancelled, posted, channel, senders, shut, broken, crowded>>

Break(c) ==
    /\ c <= server /\ c < MaxConns
    /\ ~broken[c]
    /\ broken' = [broken EXCEPT ![c] = TRUE]
    /\ queue' = [queue EXCEPT ![c] = <<>>]
    /\ UNCHANGED <<serve, server, cancelled, posted, channel, senders, written, shut, crowded>>

Sender(k) == Take(k) \/ Call(k) \/ Offer(k) \/ OfferInVain(k) \/ OfferFails(k)

Next ==
    \/ Connect \/ DialFails \/ Wake \/ Cancel \/ Disconnect \/ Stop
    \/ Post
    \/ \E k \in Conns : Sender(k) \/ Write(k) \/ Break(k)

Spec == Init /\ [][Next]_vars

(***************************************************************************)
(* Goroutines run, dialling succeeds if it is tried for ever, and a        *)
(* connection that has something to write writes it or ends (WSConnection: *)
(* BufferedIsWritten, EndsWhenDead).                                       *)
(***************************************************************************)
Fairness ==
    /\ WF_vars(Wake) /\ SF_vars(Connect)
    /\ WF_vars(Stop)
    /\ \A k \in Conns : WF_vars(Sender(k))
    /\ \A k \in Conns : WF_vars(Write(k))
    /\ WF_vars(serve = "serving" /\ broken[server] /\ Disconnect)

FairSpec == Spec /\ Fairness

-----------------------------------------------------------------------------
Taken(c) == written[c] \o queue[c]
Msgs     == 1..MaxMsgs

TypeOK ==
    /\ serve \in {"dial", "serving", "sleep", "stopped"}
    /\ server \in 0..MaxConns
    /\ cancelled \in BOOLEAN
    /\ posted \in 0..MaxMsgs
    /\ channel \in Seq(Msgs) /\ Len(channel) <= Capacity
    /\ sender \in [Conns -> {"none", "waiting", "holding", "offering", "ended"}]
    /\ hand \in [Conns -> Msgs \cup {0}]
    /\ at \in [Conns -> Conns \cup {0}]
    /\ queue \in [Conns -> Seq(Msgs)] /\ written \in [Conns -> Seq(Msgs)]
    /\ shut \in [Conns -> BOOLEAN] /\ broken \in [Conns -> BOOLEAN]
    /\ dropped \subseteq Msgs
    /\ crowded \subseteq Conns
    /\ \A k \in Conns :
         /\ sender[k] = "none" <=> k > server
         /\ hand[k] # 0 <=> sender[k] \in {"holding", "offering"}
         /\ at[k] # 0 <=> sender[k] = "offering"
         /\ at[k] <= server
         /\ Len(queue[k]) <= Room

(***************************************************************************)
(* While a connection is served somebody sends to it: a goroutine that is  *)
(* not about to end because of a message it offers to an earlier one.      *)
(***************************************************************************)
SomeoneSends ==
    serve = "serving" => \E k \in Alive : at[k] # 0 => ~shut[at[k]]

(***************************************************************************)
(* Messages that come while there is no connection are not thrown away one *)
(* after the other: at most one is lost this way for every connection that *)
(* has ended, the others wait in the channel.                              *)
(***************************************************************************)
LosesOnePerConnection ==
    Cardinality(dropped) <= Cardinality({k \in Conns : shut[k]})

(***************************************************************************)
(* A connection takes messages in the order they were posted, unless an    *)
(* earlier sender had nothing to lose when its connection ended, and lived *)
(* on to compete with the next.                                            *)
(***************************************************************************)
InOrderAlone ==
    \A c \in Conns \ crowded : \A i, j \in DOMAIN Taken(c) : i < j => Taken(c)[i] < Taken(c)[j]

(***************************************************************************)
(* Whoever competes for the channel, and however connections end: a        *)
(* message is waiting or held by one sender or taken by one connection,    *)
(* once, or dropped; it is never two of these, so that none is sent twice  *)
(* or after it was given up, and it is none of them, gone without an       *)
(* error, only because a write has failed.                                 *)
(***************************************************************************)
Fates(m) ==
    {<<"waiting", i>> : i \in {j \in DOMAIN channel : channel[j] = m}}
        \cup {<<"held", k>> : k \in {j \in Conns : hand[j] = m}}
        \cup (UNION {{<<"taken", c, i>> : i \in {j \in DOMAIN Taken(c) : Taken(c)[j] = m}} : c \in Conns})
        \cup {<<"dropped", d>> : d \in dropped \cap {m}}

OneFate ==
    \A m \in 1..posted :
        /\ \A f, g \in Fates(m) : f = g
        /\ Fates(m) = {} => \E c \in Conns : broken[c]

(***************************************************************************)
(* What is posted leaves the channel, however often the connection ends or *)
(* dialling fails, so that SendMessage returns; unless the context ends.   *)
(***************************************************************************)
Drains ==
    \A m \in Msgs :
        (\E i \in DOMAIN channel : channel[i] = m) ~>
            (cancelled \/ ~\E i \in DOMAIN channel : channel[i] = m)
=============================================================================
