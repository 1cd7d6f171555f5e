-------------------------- MODULE MessagePipeline --------------------------
(***************************************************************************)
(* How a message gets from WeChat to the redirects (hub.go, from           *)
(* messageFilter to dispatch, and hub/message_manager.go).                 *)
(*                                                                         *)
(* The dispatcher is asynchronous (main.go:86), so that every delivery has *)
(* a goroutine of its own, and WeChat may deliver a message again.  What   *)
(* is to keep a message from being forwarded twice is the message table,   *)
(* read by messageFilter and written by dispatch, with an LRU cache of ids *)
(* in front of it that no lock guards.  dispatch then starts one goroutine *)
(* per redirect.                                                           *)
(***************************************************************************)
EXTENDS Naturals, FiniteSets

CONSTANTS
    Messages,      \* message ids, and the names of events that have none
    KindOf,        \* own, chat, rename or event, for each
    Redirects,     \* where messages are forwarded to
    Stuck,         \* the redirects whose SendMessage need not return
    CacheSize,     \* capacity of existIdCache
    MaxDeliveries, \* bound: times WeChat delivers a message
    MaxInAll,      \* bound: deliveries and events in all
    MaxFaults,     \* bound: calls to the database that fail
    MaxCrashes     \* bound: process restarts

(* own: notifications and messages the bot sent itself; chat: text, files   *)
(* and recalls; rename: the system message about a new group name; event:   *)
(* the ExitGroup messages of watchMembersAndNotify, which carry no id.      *)
Kinds == {"own", "chat", "rename", "event"}

ASSUME KindOfType    == KindOf \in [Messages -> Kinds]
ASSUME StuckType     == Stuck \subseteq Redirects
ASSUME CacheIsFinite == CacheSize \in Nat
ASSUME BoundsAreNat  ==
    /\ {MaxInAll, MaxFaults, MaxCrashes} \subseteq Nat
    /\ MaxDeliveries \in Nat \ {0}

Deliveries == Messages \X (1..MaxDeliveries)

VARIABLES
    rows,       \* the message table: ids saved
    cache,      \* existIdCache: ids in it
    pc,         \* where the goroutine of each delivery stands
    sending,    \* <<r, d>> while the goroutine in which dispatch of d calls
                \* SendMessage of r has not got there
    sent,       \* <<r, d>> once r has the message
    overlapped, \* history: messages delivered while an earlier delivery of
                \* theirs was not saved yet
    faulted,    \* history: messages for which a database call failed
    faults, crashes

history == <<overlapped, faulted>>
vars    == <<rows, cache, pc, sending, sent, history, faults, crashes>>

Unsaved == {"cache", "db", "put", "work", "save"}

Init ==
    /\ rows = {}
    /\ cache = {}
    /\ pc = [d \in Deliveries |-> "none"]
    /\ sending = {}
    /\ sent = {}
    /\ overlapped = {}
    /\ faulted = {}
    /\ faults = 0
    /\ crashes = 0

Goto(d, label) == pc' = [pc EXCEPT ![d] = label]
MoreIn         == Cardinality({d \in Deliveries : pc[d] # "none"}) < MaxInAll
Fault          == faults < MaxFaults /\ faults' = faults + 1

\* The process is gone, and with it the cache and every goroutine.
Died ==
    /\ cache' = {}
    /\ pc' = [d \in Deliveries |->
                IF pc[d] \in Unsaved \cup {"spawn"} \/ \E r \in Redirects : <<r, d>> \in sending
                THEN "killed" ELSE pc[d]]
    /\ sending' = {}
    /\ UNCHANGED <<rows, sent, history, faults>>

Crash ==
    /\ crashes < MaxCrashes
    /\ crashes' = crashes + 1
    /\ Died

-----------------------------------------------------------------------------
(* WeChat delivers a message, for the first time or again.                  *)
Deliver(m, k) ==
    /\ KindOf[m] # "event"
    /\ pc[<<m, k>>] = "none"
    /\ k > 1 => pc[<<m, k - 1>>] # "none"
    /\ MoreIn
    /\ Goto(<<m, k>>, "cache")
    /\ overlapped' = IF \E j \in 1..k - 1 : pc[<<m, j>>] \in Unsaved
                     THEN overlapped \cup {m} ELSE overlapped
    /\ UNCHANGED <<rows, cache, sending, sent, faulted, faults, crashes>>

\* The cron job found a departure: straight to dispatch, with nothing to save.
Announce(m) ==
    /\ KindOf[m] = "event"
    /\ pc[<<m, 1>>] = "none"
    /\ MoreIn
    /\ Goto(<<m, 1>>, "spawn")
    /\ UNCHANGED <<rows, cache, sending, sent, history, faults, crashes>>

-----------------------------------------------------------------------------
(* messageFilter: Exist, and then Abort or the next handlers.  An own        *)
(* message is aborted too, but only after Exist has run.                     *)

LookInCache(d) ==
    /\ pc[d] = "cache"
    /\ Goto(d, IF d[1] \in cache THEN "filtered" ELSE "db")
    /\ UNCHANGED <<rows, cache, sending, sent, history, faults, crashes>>

\* Mutant: own messages are not aborted.
WorksAlways(d) == "work"

AfterMiss(d) == IF KindOf[d[1]] = "own" THEN "filtered" ELSE "work"

\* Mutant: the answer is cached whatever it is.
PutsAlways(d) == "put"

\* Mutant: only the cache filters.
MissesAlways(d) == AfterMiss(d)

\* Where the answer of the table leads: only a hit is cached.
AfterLookup(d) == IF d[1] \in rows THEN "put" ELSE AfterMiss(d)

LookInTable(d) ==
    /\ pc[d] = "db"
    /\ Goto(d, AfterLookup(d))
    /\ UNCHANGED <<rows, cache, sending, sent, history, faults, crashes>>

\* messageFilter drops the error: a failed lookup counts as a new message.
LookupFails(d) ==
    /\ pc[d] = "db"
    /\ Fault
    /\ Goto(d, AfterMiss(d))
    /\ faulted' = faulted \cup {d[1]}
    /\ UNCHANGED <<rows, cache, sending, sent, overlapped, crashes>>

\* Put of existIdCache: a full cache loses one entry.
Put(d) ==
    /\ pc[d] = "put"
    /\ LET full == cache \cup {d[1]} IN
       IF Cardinality(full) <= CacheSize THEN cache' = full
       ELSE \E x \in full : cache' = full \ {x}
    /\ Goto(d, "filtered")
    /\ UNCHANGED <<rows, sending, sent, history, faults, crashes>>

\* Another goroutine is inside the cache while d writes it.
Races(d, there) ==
    /\ pc[d] = "put"
    /\ \E e \in Deliveries \ {d} : pc[e] \in there

\* Go's runtime ends a process in which a map is written while another goroutine
\* reads or writes it, when it notices.
MapFatal(d) == Races(d, {"cache", "put"}) /\ Died /\ UNCHANGED crashes

\* When it does not, two writers may leave any of their entries in the list.
RacyPut(d) ==
    /\ Races(d, {"put"})
    /\ cache' \in SUBSET (cache \cup {d[1]})
    /\ Goto(d, "filtered")
    /\ UNCHANGED <<rows, sending, sent, history, faults, crashes>>

-----------------------------------------------------------------------------
(* The handler of the message's kind, and dispatch.                          *)

Prepare(d) ==
    /\ pc[d] = "work"
    /\ Goto(d, "save")
    /\ UNCHANGED <<rows, cache, sending, sent, history, faults, crashes>>

\* GetID, the download of a file or the parsing of a recall fails, or the message
\* is of no kind a handler wants.
Drop(d) ==
    /\ pc[d] = "work"
    /\ KindOf[d[1]] = "chat"
    /\ Goto(d, "dropped")
    /\ UNCHANGED <<rows, cache, sending, sent, history, faults, crashes>>

\* onSystemMessage does not look whether prepareSystemMessage returned nil: the
\* panic ends the process.
NilMessage(d) ==
    /\ pc[d] = "work"
    /\ KindOf[d[1]] = "rename"
    /\ Died
    /\ UNCHANGED crashes

\* Mutant: dispatch saves nothing.
SavesNothing(d) == rows

\* Create: refused when the id is there already, which changes nothing either.
Saved(d) == rows \cup {d[1]}

Save(d) ==
    /\ pc[d] = "save"
    /\ rows' = Saved(d)
    /\ Goto(d, "spawn")
    /\ UNCHANGED <<cache, sending, sent, history, faults, crashes>>

\* A failure to save is logged, and the message forwarded all the same.
SaveFails(d) ==
    /\ pc[d] = "save"
    /\ Fault
    /\ Goto(d, "spawn")
    /\ faulted' = faulted \cup {d[1]}
    /\ UNCHANGED <<rows, cache, sending, sent, overlapped, crashes>>

Spawn(d) ==
    /\ pc[d] = "spawn"
    /\ sending' = sending \cup (Redirects \X {d})
    /\ Goto(d, "done")
    /\ UNCHANGED <<rows, cache, sent, history, faults, crashes>>

\* Mutant: one goroutine calls the redirects in turn, a stuck one first.
InTurn(r, d) == r \in Stuck \/ \A s \in Stuck : <<s, d>> \notin sending

\* Every redirect has its own goroutine.
MayReach(r, d) == <<r, d>> \in sending

Reach(r, d) ==
    /\ <<r, d>> \in sending
    /\ MayReach(r, d)
    /\ sending' = sending \ {<<r, d>>}
    /\ sent' = sent \cup {<<r, d>>}
    /\ UNCHANGED <<rows, cache, pc, history, faults, crashes>>

-----------------------------------------------------------------------------
Handle(d) ==
    \/ LookInCache(d) \/ LookInTable(d) \/ LookupFails(d)
    \/ Put(d) \/ MapFatal(d) \/ RacyPut(d)
    \/ Prepare(d) \/ Drop(d) \/ NilMessage(d)
    \/ Save(d) \/ SaveFails(d) \/ Spawn(d)

Next ==
    \/ \E m \in Messages : Announce(m) \/ \E k \in 1..MaxDeliveries : Deliver(m, k)
    \/ \E d \in Deliveries : Handle(d) \/ \E r \in Redirects : Reach(r, d)
    \/ Crash

Spec == Init /\ [][Next]_vars

(***************************************************************************)
(* A handler keeps running, and so does a goroutine that calls a redirect  *)
(* whose SendMessage returns.                                              *)
(***************************************************************************)
Fairness ==
    /\ \A d \in Deliveries : WF_vars(Handle(d))
    /\ \A d \in Deliveries, r \in Redirects \ Stuck : WF_vars(Reach(r, d))

FairSpec == Spec /\ Fairness

-----------------------------------------------------------------------------
TypeOK ==
    /\ rows \subseteq {m \in Messages : KindOf[m] \in {"chat", "rename"}}
    /\ cache \subseteq Messages
    /\ pc \in [Deliveries -> Unsaved \cup
                 {"none", "spawn", "filtered", "dropped", "done", "killed"}]
    /\ sending \subseteq Redirects \X Deliveries
    /\ sent \subseteq Redirects \X Deliveries
    /\ overlapped \subseteq Messages
    /\ faulted \subseteq Messages
    /\ faults \in 0..MaxFaults
    /\ crashes \in 0..MaxCrashes
    /\ \A r \in Redirects, d \in Deliveries : <<r, d>> \in sending =>
         pc[d] = "done" /\ <<r, d>> \notin sent

(***************************************************************************)
(* What messageFilter is good for: no redirect gets a message twice,       *)
(* unless a delivery came while an earlier one was not saved yet, or a     *)
(* database call on that message failed.  Restarts do not matter.          *)
(***************************************************************************)
ForwardedOnce ==
    \A r \in Redirects, m \in Messages \ (overlapped \cup faulted) :
        \A j, k \in 1..MaxDeliveries :
            <<r, <<m, j>>>> \in sent /\ <<r, <<m, k>>>> \in sent => j = k

\* The cache never says of a message that it exists when the table has no such
\* row, whatever the unlocked Puts do to it: nothing new is taken for a repeat.
CacheIsSound == cache \subseteq rows

\* A redirect hears of a message only when its row is there to be looked up, unless
\* saving it failed.  (An event has no row.)
SavedBeforeSent ==
    \A r \in Redirects, d \in Deliveries : <<r, d>> \in sending \cup sent =>
        d[1] \in rows \cup faulted \/ KindOf[d[1]] = "event"

(***************************************************************************)
(* What is saved reaches every redirect that takes messages, unless the    *)
(* process dies first, and whatever the other redirects do.                *)
(***************************************************************************)
ReachesRedirects ==
    \A d \in Deliveries, r \in Redirects \ Stuck :
        pc[d] = "spawn" ~> (<<r, d>> \in sent \/ pc[d] = "killed")
=============================================================================
