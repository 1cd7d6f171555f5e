------------------------------ MODULE WSServer ------------------------------
(***************************************************************************)
(* The websocket server redirector (redirect/websocket_server.go): the     *)
(* goroutine in serve, which adds and deletes clients, the one in          *)
(* sendMessage, which broadcasts what SendMessage puts into messages, and  *)
(* the HTTP handlers that bring connections.                               *)
(*                                                                         *)
(* The steps of a connection are those of Outbound, once for each; what    *)
(* entitles a caller to them is shown in WSConnection.                     *)
(*                                                                         *)
(* The clients map has no lock: sendMessage ranges over it while serve     *)
(* writes it.                                                              *)
(***************************************************************************)
EXTENDS Naturals, Sequences

CONSTANTS
    Clients,    \* connections
    Room,       \* messages a connection takes before SendMessage blocks
    Capacity,   \* size of the messages channel
    None,       \* no connection
    MaxMsgs     \* bound: messages, numbered as they enter the channel

ASSUME SizesArePositive == Room \in Nat \ {0} /\ Capacity \in Nat \ {0}
ASSUME BoundIsNat       == MaxMsgs \in Nat
ASSUME NoneIsNoClient   == None \notin Clients

VARIABLES
    serve,    \* serve: select, adding, deleting, closed
    hand,     \* the connection it adds or deletes
    clients,  \* the map
    posted,   \* how many messages have entered the channel
    begun,    \* how many sendMessage has taken out
    pump,     \* sendMessage: waiting, ranging, offering, unregistering
    target,   \* the connection it offers the message to, or unregisters
    seen,     \* the connections this range has come to
    owed,     \* the connections in the map when it started
    conn,     \* conn[c]: out, upgraded (in ServeHTTP), served
    queue, written, shut, broken, \* of each connection, as in Outbound
    down,     \* the process has ended
    since,    \* history: begun when the connection was put into the map
    shutAt    \* history: begun when its pool was closed

loop     == <<serve, hand, clients, conn, since>>
ranging  == <<pump, target, seen, owed>>
channel  == <<posted, begun>>
outbound == <<queue, written, shut, broken, shutAt>>
vars     == <<loop, ranging, channel, outbound, down>>

Init ==
    /\ serve = "select" /\ hand = None
    /\ clients = {}
    /\ posted = 0 /\ begun = 0
    /\ pump = "waiting" /\ target = None
    /\ seen = {} /\ owed = {}
    /\ conn = [c \in Clients |-> "out"]
    /\ queue = [c \in Clients |-> <<>>]
    /\ written = [c \in Clients |-> <<>>]
    /\ shut = [c \in Clients |-> FALSE]
    /\ broken = [c \in Clients |-> FALSE]
    /\ down = FALSE
    /\ since = [c \in Clients |-> 0]
    /\ shutAt = [c \in Clients |-> 0]

-----------------------------------------------------------------------------
(* ServeHTTP and serve. *)

Upgrade(c) ==
    /\ conn[c] = "out"
    /\ conn' = [conn EXCEPT ![c] = "upgraded"]
    /\ UNCHANGED <<serve, hand, clients, since, ranging, channel, outbound, down>>

\* serve receives from register.
Register(c) ==
    /\ serve = "select"
    /\ conn[c] = "upgraded"
    /\ serve' = "adding" /\ hand' = c
    /\ conn' = [conn EXCEPT ![c] = "served"]
    /\ UNCHANGED <<clients, since, ranging, channel, outbound, down>>

Add ==
    /\ serve = "adding"
    /\ clients' = clients \cup {hand}
    /\ since' = [since EXCEPT ![hand] = begun]
    /\ serve' = "select" /\ hand' = None
    /\ UNCHANGED <<conn, ranging, channel, outbound, down>>

\* serve receives from unregister, and sendMessage goes on with its range.
Unregister ==
    /\ serve = "select"
    /\ pump = "unregistering"
    /\ serve' = "deleting" /\ hand' = target
    /\ pump' = "ranging" /\ target' = None
    /\ UNCHANGED <<clients, conn, since, seen, owed, channel, outbound, down>>

\* Mutant: the wrong connection leaves the map.
AllBut(c) == {c}

Without(c) == clients \ {c}

\* c.Close cancels a context that is done already: only a connection whose pool is
\* closed gets here.
Delete ==
    /\ serve = "deleting"
    /\ clients' = Without(hand)
    /\ serve' = "select" /\ hand' = None
    /\ UNCHANGED <<conn, since, ranging, channel, outbound, down>>

\* Go's runtime ends a process in which a map is written while a range looks for its
\* next entry, when it notices.
MapFatal ==
    /\ serve \in {"adding", "deleting"}
    /\ pump = "ranging" \/ (pump = "waiting" /\ begun < posted)
    /\ down' = TRUE
    /\ UNCHANGED <<loop, ranging, channel, outbound>>

-----------------------------------------------------------------------------
(* SendMessage and sendMessage. *)

\* One of the goroutines of dispatch gets its message into the channel.
Post ==
    /\ posted < MaxMsgs
    /\ posted - begun < Capacity
    /\ posted' = posted + 1
    /\ UNCHANGED <<begun, loop, ranging, outbound, down>>

Begin ==
    /\ pump = "waiting"
    /\ begun < posted
    /\ begun' = begun + 1
    /\ pump' = "ranging"
    /\ seen' = {} /\ owed' = clients
    /\ UNCHANGED <<posted, target, loop, outbound, down>>

\* Mutant: a range may end before it has come to every connection.
EndsEarly == seen # {} \/ owed = {}

\* A range comes to every entry that is there from its start until then, and to those
\* added meanwhile or not.
MayEnd == owed \cap clients \subseteq seen

Visit(c) ==
    /\ pump = "ranging"
    /\ c \in clients \ seen
    /\ seen' = seen \cup {c}
    /\ pump' = "offering" /\ target' = c
    /\ UNCHANGED <<owed, loop, channel, outbound, down>>

EndRange ==
    /\ pump = "ranging"
    /\ MayEnd
    /\ pump' = "waiting"
    /\ seen' = {} /\ owed' = {}
    /\ UNCHANGED <<target, loop, channel, outbound, down>>

\* Mutant: off by one.
HasRoomForOneMore(c) == Len(queue[c]) <= Room

HasRoom(c) == Len(queue[c]) < Room

\* SendMessage of the connection: the message is buffered, as soon as there is room.
Offer ==
    /\ pump = "offering"
    /\ ~shut[target] /\ ~broken[target]
    /\ HasRoom(target)
    /\ queue' = [queue EXCEPT ![target] = Append(@, begun)]
    /\ pump' = "ranging" /\ target' = None
    /\ UNCHANGED <<seen, owed, written, shut, broken, shutAt, loop, channel, down>>

\* Buffered, but the goroutine that would write it has ended.
OfferInVain ==
    /\ pump = "offering"
    /\ ~shut[target] /\ broken[target]
    /\ pump' = "ranging" /\ target' = None
    /\ UNCHANGED <<seen, owed, loop, channel, outbound, down>>

\* Mutant: a failed send is only logged.
LoggedOnly == "ranging"

\* Mutant: a failed send is tried again.
TriedAgain == "offering"

AfterFailure == "unregistering"

\* The pool is closed, before or while SendMessage waits for room.
OfferFails ==
    /\ pump = "offering"
    /\ shut[target]
    /\ pump' = AfterFailure
    /\ UNCHANGED <<target, seen, owed, loop, channel, outbound, down>>

-----------------------------------------------------------------------------
(* The connections. *)

Write(c) ==
    /\ queue[c] # <<>>
    /\ written' = [written EXCEPT ![c] = Append(@, Head(queue[c]))]
    /\ queue' = [queue EXCEPT ![c] = Tail(@)]
    /\ UNCHANGED <<shut, broken, shutAt, loop, ranging, channel, down>>

Break(c) ==
    /\ conn[c] = "served"
    /\ ~broken[c]
    /\ broken' = [broken EXCEPT ![c] = TRUE]
    /\ queue' = [queue EXCEPT ![c] = <<>>]
    /\ UNCHANGED <<written, shut, shutAt, loop, ranging, channel, down>>

\* Its Serve runs once serve has put it into the map.
Shut(c) ==
    /\ conn[c] = "served" /\ hand # c
    /\ ~shut[c]
    /\ shut' = [shut EXCEPT ![c] = TRUE]
    /\ shutAt' = [shutAt EXCEPT ![c] = begun]
    /\ UNCHANGED <<queue, written, broken, loop, ranging, channel, down>>

-----------------------------------------------------------------------------
(* The end of the context, which main waits for too: the process is over soon *)
(* after.  What happens on the way (a send on a closed channel panics) only   *)
(* makes it sooner.                                                           *)

Done ==
    /\ serve = "select"
    /\ serve' = "closed"
    /\ clients' = {}
    /\ UNCHANGED <<hand, conn, since, ranging, channel, outbound, down>>

Exit ==
    /\ serve = "closed"
    /\ down' = TRUE
    /\ UNCHANGED <<loop, ranging, channel, outbound>>

Loop  == Add \/ Delete \/ Unregister \/ \E c \in Clients : Register(c)
Pump  == Begin \/ (\E c \in Clients : Visit(c)) \/ EndRange \/ Offer \/ OfferInVain \/ OfferFails

Next ==
    /\ ~down
    /\ \/ Loop \/ Pump \/ MapFatal \/ Post \/ Done \/ Exit
       \/ \E c \in Clients : Upgrade(c) \/ Write(c) \/ Break(c) \/ Shut(c)

Spec == Init /\ [][Next]_vars

(***************************************************************************)
(* Both goroutines run.  A connection that has something to write writes   *)
(* it, or the heartbeat ends it (WSConnection: BufferedIsWritten,          *)
(* CallersReturn); one whose writer has failed is shut.                    *)
(***************************************************************************)
Fairness ==
    /\ WF_vars(~down /\ Loop)
    /\ WF_vars(~down /\ Pump)
    /\ \A c \in Clients : WF_vars(~down /\ (queue[c] # <<>> \/ broken[c]) /\ (Write(c) \/ Shut(c)))

FairSpec == Spec /\ Fairness

-----------------------------------------------------------------------------
Taken(c) == written[c] \o queue[c]

TypeOK ==
    /\ serve \in {"select", "adding", "deleting", "closed"}
    /\ hand \in Clients \cup {None}
    /\ hand # None <=> serve \in {"adding", "deleting"}
    /\ pump \in {"waiting", "ranging", "offering", "unregistering"}
    /\ target \in Clients \cup {None}
    /\ target # None <=> pump \in {"offering", "unregistering"}
    /\ clients \subseteq {c \in Clients : conn[c] = "served"}
    /\ seen \subseteq Clients /\ owed \subseteq Clients
    /\ conn \in [Clients -> {"out", "upgraded", "served"}]
    /\ posted \in 0..MaxMsgs /\ begun \in 0..posted
    /\ \A c \in Clients : Len(queue[c]) <= Room /\ Taken(c) \in Seq(1..begun)
    /\ shut \in [Clients -> BOOLEAN] /\ broken \in [Clients -> BOOLEAN]
    /\ down \in BOOLEAN

(***************************************************************************)
(* The messages a connection takes are a gapless run of what was           *)
(* broadcast, each once and in the order they entered the channel, so that *)
(* all connections see one order; connections that come and go during a    *)
(* broadcast change nothing about that.                                    *)
(***************************************************************************)
NoGap ==
    \A c \in Clients : \A k \in 1..Len(Taken(c)) - 1 : Taken(c)[k + 1] = Taken(c)[k] + 1

(***************************************************************************)
(* Between broadcasts, a connection that was put into the map and works    *)
(* has taken every message whose broadcast began after that.               *)
(***************************************************************************)
MissesNothing ==
    pump = "waiting" /\ serve # "closed" =>
        \A c \in Clients : conn[c] = "served" /\ hand # c /\ ~shut[c] /\ ~broken[c] =>
            \A m \in since[c] + 1..begun : \E k \in DOMAIN Taken(c) : Taken(c)[k] = m

(***************************************************************************)
(* Nobody tells serve that a connection has ended: it stays in the map     *)
(* until the next broadcast, and no longer.                                *)
(***************************************************************************)
EndedAreDropped ==
    pump = "waiting" /\ serve # "deleting" =>
        \A c \in clients : shut[c] => shutAt[c] = begun

(***************************************************************************)
(* One connection that does not read holds up the others no longer than it *)
(* takes its heartbeat to fail: what is posted gets broadcast, unless the  *)
(* process ends.                                                           *)
(***************************************************************************)
Broadcasts == \A k \in 1..MaxMsgs : posted >= k ~> (down \/ serve = "closed" \/ (begun >= k /\ pump = "waiting"))
=============================================================================
