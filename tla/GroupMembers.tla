---------------------------- MODULE GroupMembers ----------------------------
(***************************************************************************)
(* The group-member table of dBMemberManger (hub/member_manager.go) and    *)
(* the three callers of RefreshGroupMember: the cron jobs that announce    *)
(* the departures it returns (hub.go, watchMembersAndNotify), the rename   *)
(* handler (hub.go, onSystemMessage) and main, which both drop its result. *)
(*                                                                         *)
(* No lock guards a refresh.  It reads the member list from WeChat, then   *)
(* the table, then writes row by row; every one of those calls may fail,   *)
(* and the steps of several refreshes interleave.  The cron jobs really    *)
(* overlap: both specs of StartWatchMembers fire at 6:00 and at 6:30.      *)
(***************************************************************************)
EXTENDS Naturals

CONSTANTS
    Users,      \* WeChat accounts
    Groups,     \* group chats the bot stays in, named by their stable id
    Nicks,      \* names a user carries in a group
    Ids,        \* stable user ids
    IdOf,       \* the id GetID answers for a user, when it answers
    Main,       \* the goroutine of main(): one refresh at start-up
    Renamers,   \* message-handler goroutines that saw a group rename
    Watchers,   \* cron goroutines running watchMembersAndNotify
    Absent,     \* not in the group
    NoRow,      \* no such row in the table, or no such key in a map
    NoGroup,    \* no group is being refreshed
    MaxChanges, \* bound: joins, departures and name changes on WeChat's side
    MaxFaults,  \* bound: calls to WeChat or to the database that fail
    MaxCrashes  \* bound: process restarts

Row     == [nick : Nicks, left : BOOLEAN]  \* left stands for LeaveTime > 0
Threads == {Main} \cup Renamers \cup Watchers

ASSUME IdOfType       == IdOf \in [Users -> Ids]
ASSUME NoRowNotRow    == NoRow \notin Row
ASSUME AbsentNotNick  == Absent \notin Nicks
ASSUME NoGroupIsNone  == NoGroup \notin Groups
ASSUME CallersDiffer  == Main \notin Watchers /\ Renamers \cap Watchers = {}
ASSUME BoundsAreNat   == MaxChanges \in Nat /\ MaxFaults \in Nat /\ MaxCrashes \in Nat

VARIABLES
    wx,       \* WeChat: who is in which group, under which name
    table,    \* group_user: the rows, by group and user id
    started,  \* main has called StartWatchMembers
    pc,       \* where each refresh stands
    todo,     \* groups its outer loop has not reached
    cur,      \* the group it is in
    members,  \* members: WeChat's list as fetched, less the members scanned
    gm,       \* groupMembers: the rows as read, less the ids deleted
    exits,    \* exitGroupUserMap (with existUsers), as <<gid, uid>> pairs
    seen,     \* history: the ids really in cur when members was fetched
    blamed,   \* history: a lookup of this pass over cur failed
    armed,    \* history: <<w, gid, uid>> while w has reported no departure of
              \* uid since its row last became current
    changes, faults, crashes

env   == <<wx, changes, crashes>>
store == <<table, armed>>
local == <<todo, cur, members, gm, seen, blamed>>
vars  == <<env, store, local, started, pc, exits, faults>>

NoMembers == [u \in Users |-> Absent]
NoRows    == [id \in Ids |-> NoRow]

Init ==
    /\ wx \in [Groups -> [Users -> Nicks \cup {Absent}]]
    /\ table = [g \in Groups |-> NoRows]
    /\ started = FALSE
    /\ pc = [p \in Threads |-> "idle"]
    /\ todo = [p \in Threads |-> {}]
    /\ cur = [p \in Threads |-> NoGroup]
    /\ members = [p \in Threads |-> NoMembers]
    /\ gm = [p \in Threads |-> NoRows]
    /\ exits = [p \in Threads |-> {}]
    /\ seen = [p \in Threads |-> {}]
    /\ blamed = [p \in Threads |-> FALSE]
    /\ armed = Watchers \X Groups \X Ids
    /\ changes = 0 /\ faults = 0 /\ crashes = 0

-----------------------------------------------------------------------------
(* The world outside the process. *)

\* Somebody joins, leaves, or takes another name in a group.
Change(g, u) ==
    /\ changes < MaxChanges
    /\ changes' = changes + 1
    /\ \E n \in (Nicks \cup {Absent}) \ {wx[g][u]} : wx' = [wx EXCEPT ![g][u] = n]
    /\ UNCHANGED <<store, local, started, pc, exits, faults, crashes>>

\* The process dies and is started again: every goroutine is gone, the table stays.
Crash ==
    /\ crashes < MaxCrashes
    /\ crashes' = crashes + 1
    /\ started' = FALSE
    /\ pc' = [p \in Threads |-> "idle"]
    /\ todo' = [p \in Threads |-> {}]
    /\ cur' = [p \in Threads |-> NoGroup]
    /\ members' = [p \in Threads |-> NoMembers]
    /\ gm' = [p \in Threads |-> NoRows]
    /\ exits' = [p \in Threads |-> {}]
    /\ seen' = [p \in Threads |-> {}]
    /\ blamed' = [p \in Threads |-> FALSE]
    /\ UNCHANGED <<wx, store, changes, faults>>

\* One more call to WeChat or to the database fails.
Fault == faults < MaxFaults /\ faults' = faults + 1

-----------------------------------------------------------------------------
(* The table's own operations: the value of the table after each.          *)

AddGroupUser(g, id, n) ==  \* an insert: refused when the key is taken
    IF table[g][id] = NoRow
    THEN [table EXCEPT ![g][id] = [nick |-> n, left |-> FALSE]]
    ELSE table

UpdateGroupUser(g, id, n) ==
    IF table[g][id] = NoRow THEN table ELSE [table EXCEPT ![g][id].nick = n]

reAddGroupUser(g, id) ==
    IF table[g][id] = NoRow THEN table ELSE [table EXCEPT ![g][id].left = FALSE]

\* Mutant: the update matches no row.
LeaveGroupUserMisses(g, id) == table

LeaveGroupUser(g, id) ==
    IF table[g][id] = NoRow THEN table ELSE [table EXCEPT ![g][id].left = TRUE]

\* Mutant: the branch that takes back a departure is missing.
RecordMemberNoReturn(g, id, n, row) ==
    CASE row = NoRow -> AddGroupUser(g, id, n)
      [] row # NoRow /\ row.nick # n -> UpdateGroupUser(g, id, n)
      [] OTHER -> table

\* What the refresh does about one member, given the row it read for it.
RecordMember(g, id, n, row) ==
    CASE row = NoRow   -> AddGroupUser(g, id, n)
      [] row # NoRow /\ row.nick # n -> UpdateGroupUser(g, id, n)
      [] row # NoRow /\ row.nick = n /\ row.left -> reAddGroupUser(g, id)
      [] OTHER         -> table

NeedsWrite(n, row) == row = NoRow \/ row # [nick |-> n, left |-> FALSE]

\* Mutant: a member whose row is marked is not taken off the map.
DeletedUnlessLeft(rows, id) ==
    IF rows[id] # NoRow /\ rows[id].left THEN rows ELSE [rows EXCEPT ![id] = NoRow]

Deleted(rows, id) == [rows EXCEPT ![id] = NoRow]  \* delete(groupMembers, uid)

\* Mutant: the pair is built the wrong way round.
ExitSwapped(g, id) == <<id, g>>

Exit(g, id) == <<g, id>>

Current(t, g, id) == t[g][id] # NoRow /\ ~t[g][id].left

-----------------------------------------------------------------------------
(* RefreshGroupMember, one action per call that can fail or be overtaken.  *)

\* A caller is due: main once at start-up, the cron jobs after that, a rename
\* handler whenever somebody renames a group.
Due(p) ==
    /\ pc[p] = "idle"
    /\ p = Main => ~started
    /\ p \in Watchers => started

\* GetCurrentUser and Groups(true) succeed: the loop over the groups begins.
Start(p) ==
    /\ Due(p)
    /\ pc' = [pc EXCEPT ![p] = "groups"]
    /\ todo' = [todo EXCEPT ![p] = Groups]
    /\ UNCHANGED <<env, store, cur, members, gm, seen, blamed, started, exits, faults>>

\* One of the two fails: the refresh returns nil, and main goes on regardless.
ListFails(p) ==
    /\ Due(p)
    /\ Fault
    /\ started' = (started \/ p = Main)
    /\ UNCHANGED <<env, store, local, pc, exits>>

\* GetID of the group, then group.Members().  The error of the latter is
\* dropped, so that a failure leaves an empty list.
FetchMembers(p, g) ==
    /\ pc[p] = "groups"
    /\ g \in todo[p]
    /\ pc' = [pc EXCEPT ![p] = "load"]
    /\ todo' = [todo EXCEPT ![p] = @ \ {g}]
    /\ cur' = [cur EXCEPT ![p] = g]
    /\ seen' = [seen EXCEPT ![p] = {IdOf[u] : u \in {v \in Users : wx[g][v] # Absent}}]
    /\ \/ /\ members' = [members EXCEPT ![p] = wx[g]]
          /\ blamed' = [blamed EXCEPT ![p] = FALSE]
          /\ UNCHANGED faults
       \/ /\ Fault
          /\ members' = [members EXCEPT ![p] = NoMembers]
          /\ blamed' = [blamed EXCEPT ![p] = TRUE]
    /\ UNCHANGED <<env, store, gm, started, exits>>

\* GetID of the group fails: on to the next group.
SkipGroup(p, g) ==
    /\ pc[p] = "groups"
    /\ g \in todo[p]
    /\ Fault
    /\ todo' = [todo EXCEPT ![p] = @ \ {g}]
    /\ UNCHANGED <<env, store, cur, members, gm, seen, blamed, started, pc, exits>>

\* GetGroupUsers reads the group's rows.
LoadRows(p) ==
    /\ pc[p] = "load"
    /\ pc' = [pc EXCEPT ![p] = "scan"]
    /\ gm' = [gm EXCEPT ![p] = table[cur[p]]]
    /\ UNCHANGED <<env, store, todo, cur, members, seen, blamed, started, exits, faults>>

\* GetGroupUsers fails: on to the next group.
LoadFails(p) ==
    /\ pc[p] = "load"
    /\ Fault
    /\ pc' = [pc EXCEPT ![p] = "groups"]
    /\ cur' = [cur EXCEPT ![p] = NoGroup]
    /\ members' = [members EXCEPT ![p] = NoMembers]
    /\ UNCHANGED <<env, store, todo, gm, seen, blamed, started, exits>>

\* One turn of the loop over members: compare with the row read earlier, write
\* if they differ (a failed write is only logged), forget the row.
ScanMember(p, u) ==
    /\ pc[p] = "scan"
    /\ members[p][u] # Absent
    /\ LET g == cur[p]  id == IdOf[u]  n == members[p][u]  row == gm[p][IdOf[u]] IN
       /\ \/ /\ table' = RecordMember(g, id, n, row)
             /\ armed' = IF Current(table', g, id) /\ ~Current(table, g, id)
                         THEN armed \cup (Watchers \X {g} \X {id})
                         ELSE armed
             /\ UNCHANGED faults
          \/ /\ NeedsWrite(n, row)
             /\ Fault
             /\ UNCHANGED store
       /\ gm' = [gm EXCEPT ![p] = Deleted(@, id)]
    /\ members' = [members EXCEPT ![p][u] = Absent]
    /\ UNCHANGED <<env, todo, cur, seen, blamed, started, pc, exits>>

\* GetID of the member fails: the loop goes on and does not forget its row.
MemberLookupFails(p, u) ==
    /\ pc[p] = "scan"
    /\ members[p][u] # Absent
    /\ Fault
    /\ members' = [members EXCEPT ![p][u] = Absent]
    /\ blamed' = [blamed EXCEPT ![p] = TRUE]
    /\ UNCHANGED <<env, store, todo, cur, gm, seen, started, pc, exits>>

Scanned(p) == members[p] = NoMembers

\* The loop over what is left of groupMembers: a row already marked is passed over.
PassOver(p, id) ==
    /\ pc[p] = "scan"
    /\ Scanned(p)
    /\ gm[p][id] # NoRow
    /\ gm[p][id].left
    /\ gm' = [gm EXCEPT ![p] = Deleted(@, id)]
    /\ UNCHANGED <<env, store, todo, cur, members, seen, blamed, started, pc, exits, faults>>

\* Any other row is reported, then marked; a failure to mark is only logged.
ReportExit(p, id) ==
    /\ pc[p] = "scan"
    /\ Scanned(p)
    /\ gm[p][id] # NoRow
    /\ ~gm[p][id].left
    /\ gm' = [gm EXCEPT ![p] = Deleted(@, id)]
    /\ exits' = [exits EXCEPT ![p] = @ \cup {Exit(cur[p], id)}]
    /\ \/ /\ table' = LeaveGroupUser(cur[p], id)
          /\ armed' = armed \ {<<p, cur[p], id>>}
          /\ UNCHANGED faults
       \/ /\ Fault
          /\ UNCHANGED store
    /\ UNCHANGED <<env, todo, cur, members, seen, blamed, started, pc>>

EndGroup(p) ==
    /\ pc[p] = "scan"
    /\ Scanned(p)
    /\ gm[p] = NoRows
    /\ pc' = [pc EXCEPT ![p] = "groups"]
    /\ cur' = [cur EXCEPT ![p] = NoGroup]
    /\ UNCHANGED <<env, store, todo, members, gm, seen, blamed, started, exits, faults>>

\* The refresh returns.  Only watchMembersAndNotify looks at the result; main
\* goes on to StartWatchMembers.
Return(p) ==
    /\ pc[p] = "groups"
    /\ todo[p] = {}
    /\ started' = (started \/ p = Main)
    /\ IF p \in Watchers /\ exits[p] # {}
       THEN pc' = [pc EXCEPT ![p] = "notify"] /\ UNCHANGED exits
       ELSE /\ pc' = [pc EXCEPT ![p] = "idle"]
            /\ exits' = [exits EXCEPT ![p] = {}]
    /\ seen' = [seen EXCEPT ![p] = {}]
    /\ blamed' = [blamed EXCEPT ![p] = FALSE]
    /\ UNCHANGED <<env, store, todo, cur, members, gm, faults>>

\* One ExitGroup message per group goes to dispatch.
Notify(p, g) ==
    /\ pc[p] = "notify"
    /\ \E e \in exits[p] : e[1] = g
    /\ exits' = [exits EXCEPT ![p] = {e \in @ : e[1] # g}]
    /\ pc' = [pc EXCEPT ![p] = IF exits'[p] = {} THEN "idle" ELSE "notify"]
    /\ UNCHANGED <<env, store, local, started, faults>>

-----------------------------------------------------------------------------
Proceed(p) ==
    \/ \E g \in Groups : FetchMembers(p, g) \/ SkipGroup(p, g) \/ Notify(p, g)
    \/ LoadRows(p) \/ LoadFails(p)
    \/ \E u \in Users : ScanMember(p, u) \/ MemberLookupFails(p, u)
    \/ \E id \in Ids : PassOver(p, id) \/ ReportExit(p, id)
    \/ EndGroup(p)
    \/ Return(p)

Next ==
    \/ \E p \in Threads : Start(p) \/ ListFails(p) \/ Proceed(p)
    \/ \E g \in Groups, u \in Users : Change(g, u)
    \/ Crash

Spec == Init /\ [][Next]_vars

(***************************************************************************)
(* A goroutine that runs keeps running (the Go scheduler); cron keeps      *)
(* firing and main runs at start-up.  Nobody has to rename a group.        *)
(***************************************************************************)
Fairness ==
    /\ \A p \in Threads : WF_vars(Proceed(p))
    /\ \A p \in {Main} \cup Watchers : WF_vars(Start(p))

FairSpec == Spec /\ Fairness

-----------------------------------------------------------------------------
TypeOK ==
    /\ wx \in [Groups -> [Users -> Nicks \cup {Absent}]]
    /\ table \in [Groups -> [Ids -> Row \cup {NoRow}]]
    /\ started \in BOOLEAN
    /\ pc \in [Threads -> {"idle", "groups", "load", "scan", "notify"}]
    /\ todo \in [Threads -> SUBSET Groups]
    /\ cur \in [Threads -> Groups \cup {NoGroup}]
    /\ members \in [Threads -> [Users -> Nicks \cup {Absent}]]
    /\ gm \in [Threads -> [Ids -> Row \cup {NoRow}]]
    /\ exits \in [Threads -> SUBSET (Groups \X Ids)]
    /\ seen \in [Threads -> SUBSET Ids]
    /\ blamed \in [Threads -> BOOLEAN]
    /\ armed \in SUBSET (Watchers \X Groups \X Ids)
    /\ changes \in 0..MaxChanges
    /\ faults \in 0..MaxFaults
    /\ crashes \in 0..MaxCrashes
    /\ \A p \in Threads : (cur[p] # NoGroup) <=> (pc[p] \in {"load", "scan"})

(***************************************************************************)
(* member_manager.go:305 says of the rows still in groupMembers after the  *)
(* loop over members: these are the members who have left the group.  So   *)
(* no row that is left over belongs to somebody WeChat had in the group    *)
(* when the list was fetched.                                              *)
(***************************************************************************)
RemainderHasLeft ==
    \A p \in Threads : pc[p] = "scan" /\ Scanned(p) =>
        \A id \in seen[p] : gm[p][id] = NoRow

(***************************************************************************)
(* What the code does guarantee: a member is taken for gone only by a pass *)
(* in which group.Members() or the member's own GetID failed, whatever the *)
(* other refreshes do meanwhile.                                           *)
(***************************************************************************)
RemainderHasLeftOrFault ==
    \A p \in Threads : pc[p] = "scan" /\ Scanned(p) =>
        blamed[p] \/ \A id \in seen[p] : gm[p][id] = NoRow

(***************************************************************************)
(* A cron goroutine puts a departure into its map at most once per stay:   *)
(* it reports somebody again only after the row became current again, or   *)
(* after its own attempt to mark the row failed.  (Two goroutines that     *)
(* overlap may each report the same departure.)                            *)
(***************************************************************************)
ReportedOncePerStay ==
    [][\A p \in Watchers : \A e \in exits'[p] \ exits[p] : <<p, e[1], e[2]>> \in armed]_vars

(***************************************************************************)
(* Once WeChat's groups stop changing and nothing fails any more, the      *)
(* table comes to say who is in each group, under a name they carry, and   *)
(* keeps saying so, whatever stale snapshots were still being written.     *)
(***************************************************************************)
Agrees(g, id) ==
    LET here == {u \in Users : IdOf[u] = id /\ wx[g][u] # Absent} IN
    IF here = {} THEN ~Current(table, g, id)
    ELSE Current(table, g, id) /\ \E u \in here : table[g][id].nick = wx[g][u]

Converges == <>[](\A g \in Groups, id \in Ids : Agrees(g, id))
=============================================================================
