-------------------------- MODULE MemberDirectory --------------------------
(***************************************************************************)
(* Who is who (hub/member_manager.go: GetID, GetName, GetByID).            *)
(*                                                                         *)
(* WeChat names a group or a user by a uid that lasts for one login.       *)
(* GetID gives an account an id that is to last: it looks for the uid in   *)
(* uidUserMap and in the member table, then for nickname and attribute,    *)
(* for a group then for the name alone, and creates a row when all fail.   *)
(* GetByID and GetName lead back from the id to uid and name, over         *)
(* idUserMap and the table.  All of it is called by any number of handler  *)
(* goroutines at once, without a lock around the steps.                    *)
(***************************************************************************)
EXTENDS Naturals, FiniteSets

CONSTANTS
    Accounts,   \* groups and users of WeChat
    GroupNames, \* the accounts that are groups
    NamesOf,    \* nicknames an account may take
    AttrsOf,    \* and attributes: AttrStatus, or the AvatarID of a group
    Empty,      \* the name or attribute that is ""
    Callers,    \* goroutines
    IdOfUid,    \* the id generateID makes of a uid
    NoRow,
    MaxLogins,  \* bound: logins that change all uids
    MaxRestarts,\* bound: restarts of the process
    MaxChanges, \* bound: changes of a name or attribute
    MaxFaults   \* bound: calls to the database that fail

ASSUME GroupsAreAccounts == GroupNames \subseteq Accounts
ASSUME BoundsAreNat      == {MaxLogins, MaxRestarts, MaxChanges, MaxFaults} \subseteq Nat
ASSUME ProfilesExist     == \A a \in Accounts : NamesOf[a] # {} /\ AttrsOf[a] # {}

Uids  == Accounts \X (0..MaxLogins)
Ids   == {IdOfUid[u] : u \in Uids}
Names == (UNION {NamesOf[a] : a \in Accounts}) \cup {Empty}
Attrs == (UNION {AttrsOf[a] : a \in Accounts}) \cup {Empty}
Row   == [id : Ids, group : BOOLEAN, name : Names, attr : Attrs, uid : Uids]

ASSUME NoRowIsNoRow == NoRow \notin Row

VARIABLES
    name, attr, \* what WeChat shows of each account
    login,      \* which login this is
    table,      \* the member table, by id
    idUserMap,  \* cache: row by id
    uidUserMap, \* cache: row by uid
    call,       \* call[c]: what the goroutine is doing
    answers,    \* history: <<a, l, i>>: GetID answered i for a in login l
    lost,       \* history: ids whose uid of this login may be lost: GetID has
                \* stored it while a lookup held an older row, or its update
                \* failed and the process has restarted
    restarts, changes, faults

wechat == <<name, attr, login, changes>>
maps   == <<idUserMap, uidUserMap>>
past   == <<answers, lost>>
vars   == <<wechat, table, maps, call, past, restarts, faults>>

Idle == [at |-> "idle"]

Init ==
    /\ name \in [Accounts -> Names] /\ \A a \in Accounts : name[a] \in NamesOf[a]
    /\ attr \in [Accounts -> Attrs] /\ \A a \in Accounts : attr[a] \in AttrsOf[a]
    /\ login = 0
    /\ table = [i \in Ids |-> NoRow]
    /\ idUserMap = [i \in Ids |-> NoRow]
    /\ uidUserMap = [u \in Uids |-> NoRow]
    /\ call = [c \in Callers |-> Idle]
    /\ answers = {}
    /\ lost = {}
    /\ restarts = 0 /\ changes = 0 /\ faults = 0

Rows == {table[i] : i \in Ids} \ {NoRow}

At(c, label)    == call[c].at = label
Goto(c, label)  == call' = [call EXCEPT ![c].at = label]
Return(c)       == call' = [call EXCEPT ![c] = Idle]
Fault           == faults < MaxFaults /\ faults' = faults + 1

-----------------------------------------------------------------------------
(* The world around. *)

Rename(a) ==
    /\ changes < MaxChanges
    /\ changes' = changes + 1
    /\ \/ name' \in {[name EXCEPT ![a] = n] : n \in NamesOf[a] \ {name[a]}} /\ UNCHANGED attr
       \/ attr' \in {[attr EXCEPT ![a] = x] : x \in AttrsOf[a] \ {attr[a]}} /\ UNCHANGED name
    /\ UNCHANGED <<login, table, maps, call, past, restarts, faults>>

\* A restart resumes the stored login (HotLogin) or makes a new one.
Restart ==
    /\ restarts < MaxRestarts
    /\ restarts' = restarts + 1
    /\ login' \in {l \in {login, login + 1} : l <= MaxLogins}
    /\ idUserMap' = [i \in Ids |-> NoRow]
    /\ uidUserMap' = [u \in Uids |-> NoRow]
    /\ call' = [c \in Callers |-> Idle]
    /\ lost' = {i \in Ids : \E a \in Accounts : <<a, login', i>> \in answers /\ table[i].uid # <<a, login'>>}
    /\ UNCHANGED <<name, attr, changes, table, answers, faults>>

-----------------------------------------------------------------------------
(* GetID. *)

\* Mutant: the uid is neither compared nor updated.
ComparedLoosely(k, r) ==
    LET now == [r EXCEPT !.name = k.name, !.attr = k.attr]
    IN  [k EXCEPT !.row = now, !.at = IF now = r THEN "answer" ELSE "update"]

\* compareAndUpdateMember has row r in hand: the call is over when it is still
\* right, else the row is rewritten.
Compared(k, r) ==
    LET now == [r EXCEPT !.name = k.name, !.attr = k.attr, !.uid = k.uid]
    IN  [k EXCEPT !.row = now, !.at = IF now = r THEN "answer" ELSE "update"]

\* A query of GetID: any row found, or on to the next way of looking.
Query(c, found, otherwise) ==
    \/ found = {} /\ Goto(c, otherwise)
    \/ \E r \in found : call' = [call EXCEPT ![c] = Compared(call[c], r)]

GetID(c, a) ==
    /\ At(c, "idle")
    /\ LET k == [at |-> "byUid", for |-> "id", of |-> a, uid |-> <<a, login>>, name |-> name[a],
                 attr |-> attr[a], row |-> NoRow]
           cached == uidUserMap[k.uid]
       IN  call' = [call EXCEPT ![c] = IF cached = NoRow THEN k ELSE Compared(k, cached)]
    /\ UNCHANGED <<wechat, table, maps, past, restarts, faults>>

QueryUid(c) ==
    /\ At(c, "byUid")
    /\ Query(c, {r \in Rows : r.uid = call[c].uid}, "byAttr")
    /\ UNCHANGED <<wechat, table, maps, past, restarts, faults>>

\* Mutant: the attribute is forgotten.
ByName(k) == {r \in Rows : r.name = k.name}

ByNameAndAttr(k) == {r \in Rows : r.name = k.name /\ r.attr = k.attr}

QueryAttr(c) ==
    /\ At(c, "byAttr")
    /\ Query(c, ByNameAndAttr(call[c]), IF call[c].of \in GroupNames THEN "byName" ELSE "create")
    /\ UNCHANGED <<wechat, table, maps, past, restarts, faults>>

\* Mutant: groups are not looked for by name.
NoGroups(k) == {}

\* Mutant: the type is forgotten.
AnyKind(k) == {r \in Rows : r.name = k.name}

Groups(k) == {r \in Rows : r.group /\ r.name = k.name}

QueryName(c) ==
    /\ At(c, "byName")
    /\ Query(c, Groups(call[c]), "create")
    /\ UNCHANGED <<wechat, table, maps, past, restarts, faults>>

QueryFails(c) ==
    /\ \E label \in {"byUid", "byAttr", "byName", "create"} : At(c, label)
    /\ Fault
    /\ Return(c)
    /\ UNCHANGED <<wechat, table, maps, past, restarts>>

\* Mutant: two fields are swapped.
NewRowSwapped(k) ==
    [id |-> IdOfUid[k.uid], group |-> k.of \in GroupNames, name |-> k.attr, attr |-> k.name, uid |-> k.uid]

NewRow(k) ==
    [id |-> IdOfUid[k.uid], group |-> k.of \in GroupNames, name |-> k.name, attr |-> k.attr, uid |-> k.uid]

\* The primary key refuses an id that another goroutine has just created.
Create(c) ==
    /\ At(c, "create")
    /\ LET r == NewRow(call[c]) IN
       IF table[r.id] = NoRow
       THEN /\ table' = [table EXCEPT ![r.id] = r]
            /\ call' = [call EXCEPT ![c].row = r, ![c].at = "keepId"]
       ELSE Return(c) /\ UNCHANGED table
    /\ UNCHANGED <<wechat, maps, past, restarts, faults>>

\* Updates leaves out what is empty.
Written(new, old) == IF new = Empty THEN old ELSE new
Rewritten(r, old) ==
    [old EXCEPT !.name = Written(r.name, old.name), !.attr = Written(r.attr, old.attr), !.uid = r.uid]

Update(c) ==
    /\ At(c, "update")
    /\ LET r == call[c].row IN
       table' = [table EXCEPT ![r.id] = IF @ = NoRow THEN NoRow ELSE Rewritten(r, @)]
    /\ Goto(c, "keepId")
    /\ UNCHANGED <<wechat, maps, past, restarts, faults>>

\* A failed update is logged, and cached all the same.
UpdateFails(c) ==
    /\ At(c, "update")
    /\ Fault
    /\ Goto(c, "keepId")
    /\ UNCHANGED <<wechat, table, maps, past, restarts>>

-----------------------------------------------------------------------------
(* GetByID, and GetName, which does the same. *)

\* History: GetID has answered i in this login, and no call is about to store its row.
Settled(i) ==
    /\ \E a \in Accounts : <<a, login, i>> \in answers
    /\ \A e \in Callers : At(e, "keepId") => call[e].for = "uid" \/ call[e].row.id # i

GetByID(c, i) ==
    /\ At(c, "idle")
    /\ call' = [call EXCEPT ![c] =
         [at |-> IF idUserMap[i] = NoRow THEN "byId" ELSE "answer", for |-> "uid", id |-> i, row |-> idUserMap[i],
          settled |-> Settled(i)]]
    /\ UNCHANGED <<wechat, table, maps, past, restarts, faults>>

QueryId(c) ==
    /\ At(c, "byId")
    /\ LET r == table[call[c].id] IN
       IF r = NoRow THEN Return(c)
       ELSE call' = [call EXCEPT ![c].row = r, ![c].at = "keepId"]
    /\ UNCHANGED <<wechat, table, maps, past, restarts, faults>>

QueryIdFails(c) ==
    /\ At(c, "byId")
    /\ Fault
    /\ Return(c)
    /\ UNCHANGED <<wechat, table, maps, past, restarts>>

-----------------------------------------------------------------------------
(* Every way out of the table ends in the same two stores. *)

\* A lookup has missed idUserMap, and has read or will read a uid that is not r's.
Overtaken(c, r) ==
    /\ call[c].for = "id"
    /\ \E e \in Callers :
         \/ At(e, "keepId") /\ call[e].for = "uid" /\ call[e].id = r.id /\ call[e].row.uid # r.uid
         \/ At(e, "byId") /\ call[e].id = r.id /\ table[r.id].uid # r.uid

KeepId(c) ==
    /\ At(c, "keepId")
    /\ LET r == call[c].row IN
       /\ idUserMap' = [idUserMap EXCEPT ![r.id] = r]
       /\ lost' = IF Overtaken(c, r) THEN lost \cup {r.id} ELSE lost
    /\ Goto(c, "keepUid")
    /\ UNCHANGED <<wechat, table, uidUserMap, answers, restarts, faults>>

KeepUid(c) ==
    /\ At(c, "keepUid")
    /\ uidUserMap' = [uidUserMap EXCEPT ![call[c].row.uid] = call[c].row]
    /\ Goto(c, "answer")
    /\ UNCHANGED <<wechat, table, idUserMap, past, restarts, faults>>

Answer(c) ==
    /\ At(c, "answer")
    /\ answers' = IF call[c].for = "id"
                  THEN answers \cup {<<call[c].of, login, call[c].row.id>>} ELSE answers
    /\ Return(c)
    /\ UNCHANGED <<wechat, table, maps, lost, restarts, faults>>

-----------------------------------------------------------------------------
Step(c) ==
    \/ \E a \in Accounts : GetID(c, a)
    \/ \E i \in Ids : GetByID(c, i)
    \/ QueryUid(c) \/ QueryAttr(c) \/ QueryName(c) \/ QueryFails(c)
    \/ Create(c) \/ Update(c) \/ UpdateFails(c)
    \/ QueryId(c) \/ QueryIdFails(c)
    \/ KeepId(c) \/ KeepUid(c) \/ Answer(c)

Next ==
    \/ \E a \in Accounts : Rename(a)
    \/ Restart
    \/ \E c \in Callers : Step(c)

Spec == Init /\ [][Next]_vars

-----------------------------------------------------------------------------
NamesIn(S) == UNION {NamesOf[a] : a \in S}
AttrsIn(S) == UNION {AttrsOf[a] : a \in S}

\* No user other than a can come by the row of a group other than a.
KindsApart(a) ==
    \A u \in Accounts \ (GroupNames \cup {a}) :
        \/ NamesOf[u] \cap NamesIn(GroupNames \ {a}) = {}
        \/ AttrsOf[u] \cap AttrsIn(GroupNames \ {a}) = {}

(***************************************************************************)
(* GetID cannot take a for another account, or another for a: a shares no  *)
(* name with anyone; or no attribute with anyone, and if it is a group, no *)
(* name with a group or with a user that may hold a group's row.           *)
(***************************************************************************)
Unmistakable(a) ==
    \/ NamesOf[a] \cap NamesIn(Accounts \ {a}) = {}
    \/ /\ AttrsOf[a] \cap AttrsIn(Accounts \ {a}) = {}
       /\ a \in GroupNames => NamesOf[a] \cap NamesIn(GroupNames \ {a}) = {} /\ KindsApart(a)

\* What GetID would look for never changes.
Steady(a) == (\E n \in Names : NamesOf[a] = {n}) /\ (a \in GroupNames \/ \E x \in Attrs : AttrsOf[a] = {x})

AnswersWithin(a, i) == \E l \in 0..MaxLogins : <<a, l, i>> \in answers

Replying == {c \in Callers : At(c, "answer") /\ call[c].for = "uid"}

TypeOK ==
    /\ name \in [Accounts -> Names] /\ attr \in [Accounts -> Attrs]
    /\ table \in [Ids -> Row \cup {NoRow}]
    /\ idUserMap \in [Ids -> Row \cup {NoRow}]
    /\ uidUserMap \in [Uids -> Row \cup {NoRow}]
    /\ answers \subseteq Accounts \X (0..MaxLogins) \X Ids
    /\ lost \subseteq Ids
    /\ login \in 0..MaxLogins
    /\ \A i \in Ids : /\ table[i] # NoRow => table[i].id = i
                      /\ idUserMap[i] # NoRow => idUserMap[i].id = i
    /\ \A c \in Callers : call[c].at \in {"idle", "byUid", "byAttr", "byName", "create", "update",
                                          "byId", "keepId", "keepUid", "answer"}

(***************************************************************************)
(* An account that cannot be mistaken for another never shares an id,      *)
(* whatever is renamed, fails or runs at the same time.                    *)
(***************************************************************************)
OwnId ==
    \A a \in Accounts : Unmistakable(a) =>
        \A b \in Accounts \ {a}, i \in Ids : ~(AnswersWithin(a, i) /\ AnswersWithin(b, i))

(***************************************************************************)
(* A command addressed to the id of such an account is never delivered to  *)
(* another one: GetByID answers a uid of that account, of some login.      *)
(***************************************************************************)
ReachesOwner ==
    \A a \in Accounts, c \in Replying :
        Unmistakable(a) /\ AnswersWithin(a, call[c].id) => call[c].row.uid[1] = a

(***************************************************************************)
(* The id lasts: one that cannot be mistaken and keeps what it is looked   *)
(* for by keeps its id over restarts, new logins and failing calls.        *)
(***************************************************************************)
SteadyId ==
    \A a \in Accounts : Unmistakable(a) /\ Steady(a) =>
        \A i, j \in Ids : AnswersWithin(a, i) /\ AnswersWithin(a, j) => i = j

\* What the comment on GetByID says ("the temporary uid of WeChat by id"): once GetID has
\* answered an id in this login, and stored its row, the id leads back to the uid of this login.
AnswersCurrentUid ==
    \A a \in Accounts, c \in Replying :
        Unmistakable(a) /\ <<a, login, call[c].id>> \in answers /\ call[c].settled =>
            call[c].row.uid = <<a, login>>

(***************************************************************************)
(* That it is, but for two ways of losing it: a lookup that was overtaken  *)
(* by GetID puts back what it had read before; or the row could not be     *)
(* updated, and a restart leaves nothing but the table.                    *)
(***************************************************************************)
CurrentUnlessLost ==
    \A a \in Accounts, c \in Replying :
        Unmistakable(a) /\ <<a, login, call[c].id>> \in answers /\ call[c].settled /\ call[c].id \notin lost =>
            call[c].row.uid = <<a, login>>
=============================================================================
