---------------------------- MODULE WSConnection ----------------------------
(***************************************************************************)
(* One websocket connection (redirect/websocket_conn.go): the goroutine in *)
(* Serve, the two it starts (readMessage, sendMessage), and the callers of *)
(* SendMessage, who meet over messageBufferPool, a buffered channel, over  *)
(* exit, an unbuffered one, and over the context Serve watches.            *)
(*                                                                         *)
(* The socket (gorilla/websocket over TCP) is external: its peer is up,    *)
(* stalled (it reads nothing, so that writes block) or gone.  The library  *)
(* remembers a failed write, and a close frame it has sent: after either   *)
(* it writes nothing any more.                                             *)
(***************************************************************************)
EXTENDS Naturals, Sequences

CONSTANTS
    Callers,   \* goroutines that call SendMessage
    Capacity,  \* size of messageBufferPool
    Nil,       \* the nil slice a receive from the closed, empty pool yields
    None,      \* no frame
    MaxSends,  \* bound: calls of SendMessage by each caller
    MaxStalls, \* bound: times the peer stops reading
    MaxEmpty   \* bound: empty frames written after the pool is closed

Msgs == Callers \X (0..MaxSends - 1)

ASSUME CapacityIsPositive == Capacity \in Nat \ {0}
ASSUME NilIsNoMessage     == Nil \notin Msgs /\ None \notin Msgs \cup {Nil}
ASSUME BoundsAreNat       == MaxSends \in Nat /\ MaxStalls \in Nat /\ MaxEmpty \in Nat

VARIABLES
    serve,     \* Serve: new, running, closing, poolClosed, done
    cancelled, \* the context Serve watches is done
    connClosed,\* Conn.Close was called
    reader,    \* readMessage: none, reading, callback, exiting, done
    writer,    \* sendMessage: none, waiting, writing, exiting, done
    frame,     \* what sendMessage is writing
    pool,      \* messageBufferPool
    wire,      \* the messages WriteMessage has written
    empties,   \* how many empty frames it has written, all of them after those
    calling,   \* calling[c]: c is inside SendMessage
    calls,     \* calls[c]: how often c has called SendMessage and returned
    peer, stalls,
    writeErr   \* what the library remembers: every write from now on fails

serving == <<serve, cancelled, connClosed>>
pump    == <<writer, frame, pool, wire, empties>>
senders == <<calling, calls>>
socket  == <<peer, stalls, writeErr>>
vars    == <<serving, reader, pump, senders, socket>>

PoolClosed == serve \in {"poolClosed", "done"}
Dead       == connClosed \/ peer = "gone"  \* reads fail, and writes soon do

Init ==
    /\ serve = "new"
    /\ cancelled = FALSE
    /\ connClosed = FALSE
    /\ reader = "none"
    /\ writer = "none"
    /\ frame = None
    /\ pool = <<>>
    /\ wire = <<>>
    /\ empties = 0
    /\ calling = [c \in Callers |-> FALSE]
    /\ calls = [c \in Callers |-> 0]
    /\ peer = "up"
    /\ stalls = 0
    /\ writeErr = FALSE

-----------------------------------------------------------------------------
(* The peer. *)

Stall ==
    /\ peer = "up"
    /\ stalls < MaxStalls
    /\ peer' = "stalled"
    /\ stalls' = stalls + 1
    /\ UNCHANGED <<serving, reader, pump, senders, writeErr>>

Resume ==
    /\ peer = "stalled"
    /\ peer' = "up"
    /\ UNCHANGED <<serving, reader, pump, senders, stalls, writeErr>>

Vanish ==
    /\ peer # "gone"
    /\ peer' = "gone"
    /\ UNCHANGED <<serving, reader, pump, senders, stalls, writeErr>>

-----------------------------------------------------------------------------
(* Serve. *)

Serve ==
    /\ serve = "new"
    /\ serve' = "running"
    /\ reader' = "reading"
    /\ writer' = "waiting"
    /\ UNCHANGED <<cancelled, connClosed, frame, pool, wire, empties, senders, socket>>

\* The parent context is cancelled, or Close calls cancelFn.
Cancel ==
    /\ ~cancelled
    /\ cancelled' = TRUE
    /\ UNCHANGED <<serve, connClosed, reader, pump, senders, socket>>

\* Close before Serve has set cancelFn closes the socket.
CloseUnserved ==
    /\ serve = "new"
    /\ ~connClosed
    /\ connClosed' = TRUE
    /\ UNCHANGED <<serve, cancelled, reader, pump, senders, socket>>

SelectDone ==
    /\ serve = "running"
    /\ cancelled
    /\ serve' = "closing"
    /\ UNCHANGED <<cancelled, connClosed, reader, pump, senders, socket>>

\* Mutant: the ping has no deadline and waits for the write.
LockUnnoticed == FALSE

Locked == peer = "stalled" /\ writer = "writing"

\* A ping fails: at once on a dead socket, after two seconds on a stalled one
\* that a pending write keeps locked (it has written nothing then), and sooner or
\* later without that write.
PingTimesOut ==
    /\ serve = "running"
    /\ Locked
    /\ serve' = "closing"
    /\ UNCHANGED <<cancelled, connClosed, reader, pump, senders, socket>>

PingFails ==
    /\ serve = "running"
    /\ Dead \/ writeErr \/ (peer = "stalled" /\ writer # "writing")
    /\ writeErr' = TRUE
    /\ serve' = "closing"
    /\ UNCHANGED <<cancelled, connClosed, reader, pump, senders, peer, stalls>>

\* Mutant: Serve waits on exit until both goroutines have reported.
ReapsBoth ==
    serve = "running" /\ reader \in {"exiting", "done"} /\ writer \in {"exiting", "done"}

\* Serve receives from exit: it does so once, and returns.
Reaps == serve = "running"

ReaderExits ==
    /\ reader = "exiting"
    /\ Reaps
    /\ reader' = "done"
    /\ serve' = "closing"
    /\ UNCHANGED <<cancelled, connClosed, pump, senders, socket>>

WriterExits ==
    /\ writer = "exiting"
    /\ Reaps
    /\ writer' = "done"
    /\ serve' = "closing"
    /\ UNCHANGED <<cancelled, connClosed, reader, frame, pool, wire, empties, senders, socket>>

\* The deferred function: cancel, close(messageBufferPool), then Conn.Close.
ClosePool ==
    /\ serve = "closing"
    /\ serve' = "poolClosed"
    /\ cancelled' = TRUE
    /\ UNCHANGED <<connClosed, reader, pump, senders, socket>>

CloseConn ==
    /\ serve = "poolClosed"
    /\ serve' = "done"
    /\ connClosed' = TRUE
    /\ UNCHANGED <<cancelled, reader, pump, senders, socket>>

-----------------------------------------------------------------------------
(* SendMessage. *)

Call(c) ==
    /\ ~calling[c]
    /\ calls[c] < MaxSends
    /\ calling' = [calling EXCEPT ![c] = TRUE]
    /\ UNCHANGED <<serving, reader, pump, calls, socket>>

Returned(c) ==
    /\ calling[c]
    /\ calling' = [calling EXCEPT ![c] = FALSE]
    /\ calls' = [calls EXCEPT ![c] = @ + 1]

\* Mutant: off by one.
HasRoomForOneMore == Len(pool) <= Capacity

HasRoom == Len(pool) < Capacity

\* The message is buffered, as soon as there is room.
Buffer(c) ==
    /\ ~PoolClosed
    /\ HasRoom
    /\ Returned(c)
    /\ pool' = Append(pool, <<c, calls[c]>>)
    /\ UNCHANGED <<serving, reader, writer, frame, wire, empties, socket>>

\* A send on a closed channel panics, also one that was blocked when it was
\* closed; recover turns the panic into an error.
SendPanics(c) ==
    /\ PoolClosed
    /\ Returned(c)
    /\ UNCHANGED <<serving, reader, pump, socket>>

-----------------------------------------------------------------------------
(* readMessage. *)

\* Control frames do not come out of ReadMessage: the library answers them.
Read ==
    /\ reader = "reading"
    /\ ~Dead
    /\ reader' = "callback"
    /\ UNCHANGED <<serving, pump, senders, socket>>

CallbackReturns ==
    /\ reader = "callback"
    /\ reader' = "reading"
    /\ UNCHANGED <<serving, pump, senders, socket>>

\* The peer closes the connection, or sends a frame over the read limit or against
\* the protocol.  The library answers with a close frame, for which it waits a
\* second if a write keeps the socket locked.
CloseFrame ==
    /\ reader = "reading"
    /\ ~Dead
    /\ reader' = "exiting"
    /\ writeErr' = (writeErr \/ ~Locked)
    /\ UNCHANGED <<serving, pump, senders, peer, stalls>>

ReadFails ==
    /\ reader = "reading"
    /\ Dead
    /\ reader' = "exiting"
    /\ UNCHANGED <<serving, pump, senders, socket>>

-----------------------------------------------------------------------------
(* sendMessage. *)

\* Mutant: the newest message first.
Newest == /\ frame' = pool[Len(pool)]
          /\ pool' = SubSeq(pool, 1, Len(pool) - 1)

Oldest == /\ frame' = Head(pool)
          /\ pool' = Tail(pool)

Take ==
    /\ writer = "waiting"
    /\ pool # <<>>
    /\ Oldest
    /\ writer' = "writing"
    /\ UNCHANGED <<serving, reader, wire, empties, senders, socket>>

\* The pool is closed and empty: the receive yields nil at once, every time.
TakeNil ==
    /\ writer = "waiting"
    /\ pool = <<>> /\ PoolClosed
    /\ connClosed \/ writeErr \/ empties < MaxEmpty
    /\ frame' = Nil
    /\ writer' = "writing"
    /\ UNCHANGED <<serving, reader, pool, wire, empties, senders, socket>>

\* A socket whose peer is gone may still take a frame or two.
Write ==
    /\ writer = "writing"
    /\ ~connClosed /\ ~writeErr /\ peer # "stalled"
    /\ IF frame = Nil
       THEN empties' = empties + 1 /\ UNCHANGED wire
       ELSE wire' = Append(wire, frame) /\ UNCHANGED empties
    /\ frame' = None
    /\ writer' = "waiting"
    /\ UNCHANGED <<serving, reader, pool, senders, socket>>

\* Mutant: sendMessage returns without telling Serve.
Unreported == "done"

AfterError == "exiting"

WriteFails ==
    /\ writer = "writing"
    /\ Dead \/ writeErr
    /\ writeErr' = TRUE
    /\ writer' = AfterError
    /\ frame' = None
    /\ UNCHANGED <<serving, reader, pool, wire, empties, senders, peer, stalls>>

-----------------------------------------------------------------------------
Next ==
    \/ Stall \/ Resume \/ Vanish
    \/ Serve \/ Cancel \/ CloseUnserved
    \/ SelectDone \/ PingTimesOut \/ PingFails \/ ReaderExits \/ WriterExits
    \/ ClosePool \/ CloseConn
    \/ \E c \in Callers : Call(c) \/ Buffer(c) \/ SendPanics(c)
    \/ Read \/ CallbackReturns \/ CloseFrame \/ ReadFails
    \/ Take \/ TakeNil \/ Write \/ WriteFails

Spec == Init /\ [][Next]_vars

(***************************************************************************)
(* Goroutines run, the ticker fires, a failed socket is noticed by whoever *)
(* uses it, and the callback comes back.  Nobody has to call SendMessage   *)
(* or Close, and the peer need not do anything.                            *)
(***************************************************************************)
Fairness ==
    /\ WF_vars(Serve)
    /\ WF_vars(SelectDone \/ PingTimesOut \/ ReaderExits \/ WriterExits)
    /\ WF_vars(ClosePool \/ CloseConn)
    /\ \A c \in Callers : WF_vars(Buffer(c)) /\ WF_vars(SendPanics(c))
    /\ WF_vars(CallbackReturns \/ ReadFails)
    /\ WF_vars(Take \/ TakeNil)
    /\ WF_vars(Write \/ WriteFails)

FairSpec == Spec /\ Fairness

-----------------------------------------------------------------------------
TypeOK ==
    /\ serve \in {"new", "running", "closing", "poolClosed", "done"}
    /\ cancelled \in BOOLEAN
    /\ connClosed \in BOOLEAN
    /\ reader \in {"none", "reading", "callback", "exiting", "done"}
    /\ writer \in {"none", "waiting", "writing", "exiting", "done"}
    /\ frame \in Msgs \cup {Nil, None}
    /\ frame # None <=> writer = "writing"
    /\ pool \in Seq(Msgs) /\ Len(pool) <= Capacity
    /\ wire \in Seq(Msgs)
    /\ empties \in 0..MaxEmpty
    /\ calling \in [Callers -> BOOLEAN]
    /\ calls \in [Callers -> 0..MaxSends]
    /\ peer \in {"up", "stalled", "gone"}
    /\ stalls \in 0..MaxStalls
    /\ writeErr \in BOOLEAN

(***************************************************************************)
(* The goroutines and channels implement Outbound: what is queued there is *)
(* the frame being written and the pool, and a failed write breaks it.     *)
(***************************************************************************)
Broken == writer \in {"exiting", "done"}

Queued ==
    IF Broken THEN <<>>
    ELSE (IF frame \in {None, Nil} THEN <<>> ELSE <<frame>>) \o pool

Promise == INSTANCE Outbound WITH
    Room    <- Capacity + 1,
    queue   <- Queued,
    written <- wire,
    shut    <- PoolClosed,
    broken  <- Broken

KeepsPromise == Promise!Spec

(***************************************************************************)
(* websocket_conn.go:123 says of sendMessage that it forwards what is in   *)
(* the buffer: a peer that is there gets no frame that was not put into    *)
(* the pool.                                                               *)
(***************************************************************************)
OnlyBuffered == peer = "up" => empties = 0

(***************************************************************************)
(* Nobody is blocked in SendMessage for good, not even on a peer that has  *)
(* stopped reading: then the heartbeat fails, and closing the pool wakes   *)
(* those who wait for room.                                                *)
(***************************************************************************)
CallersReturn == \A c \in Callers : calling[c] ~> ~calling[c]

(***************************************************************************)
(* A buffered message is written, or the socket is closed: no failure      *)
(* leaves an open connection that buffers and does not write.              *)
(***************************************************************************)
BufferedIsWritten ==
    \A m \in Msgs : (\E i \in DOMAIN pool : pool[i] = m) ~>
        (connClosed \/ \E i \in DOMAIN wire : wire[i] = m)

\* A peer that is gone, or a cancelled context, ends Serve and closes the socket.
EndsWhenDead == (peer = "gone" \/ cancelled) ~> (serve = "done")

(***************************************************************************)
(* Serve receives from exit at most once, and the two goroutines end only  *)
(* by sending to it: every connection that ends leaves one of them blocked *)
(* for good.                                                               *)
(***************************************************************************)
LeaksOne == (serve = "done") ~> [](reader = "exiting" \/ writer = "exiting")
=============================================================================
