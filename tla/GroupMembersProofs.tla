------------------------ MODULE GroupMembersProofs -------------------------
(***************************************************************************)
(* Proofs about GroupMembers, for any number of users, groups, goroutines, *)
(* membership changes, failures and restarts.                              *)
(***************************************************************************)
EXTENDS GroupMembers, TLAPS

Table == [Groups -> [Ids -> Row \cup {NoRow}]]

\* Writing the departure flag of an existing row leaves a table.
LEMMA FlagKeepsTable ==
    ASSUME table \in Table, NEW g \in Groups, NEW id \in Ids, NEW b \in BOOLEAN,
           table[g][id] # NoRow
    PROVE  [table EXCEPT ![g][id].left = b] \in Table
<1> DEFINE r == [table[g][id] EXCEPT !.left = b]
<1>1. table[g][id] \in Row
    BY DEF Table
<1>2. r \in Row
    BY <1>1 DEF Row
<1>3. [table EXCEPT ![g][id] = r] \in Table
    BY <1>2 DEF Table
<1>4. [table EXCEPT ![g][id].left = b] = [table EXCEPT ![g][id] = r]
    OBVIOUS
<1>5. QED
    BY <1>3, <1>4

\* LeaveGroupUser leaves a table.
LEMMA LeaveKeepsTable ==
    ASSUME table \in Table, NEW g \in Groups, NEW id \in Ids
    PROVE  LeaveGroupUser(g, id) \in Table
BY FlagKeepsTable DEF LeaveGroupUser

\* The write a scan makes for a member leaves a table, whatever row it had read.
LEMMA RecordKeepsTable ==
    ASSUME table \in Table, NEW g \in Groups, NEW id \in Ids, NEW n \in Nicks,
           NEW row \in Row \cup {NoRow}
    PROVE  RecordMember(g, id, n, row) \in Table
<1>1. AddGroupUser(g, id, n) \in Table
    BY DEF AddGroupUser, Row, Table
<1>2. UpdateGroupUser(g, id, n) \in Table
    BY DEF UpdateGroupUser, Row, Table
<1>3. reAddGroupUser(g, id) \in Table
    BY FlagKeepsTable DEF reAddGroupUser
<1>4. QED
    BY <1>1, <1>2, <1>3 DEF RecordMember

\* Type correctness: every variable keeps its type, and a goroutine is inside
\* a group exactly while it loads or scans one.
THEOREM TypeCorrect == Spec => []TypeOK
<1>1. Init => TypeOK
    <2> SUFFICES ASSUME Init PROVE TypeOK
        OBVIOUS
    <2>1. NoMembers \in [Users -> Nicks \cup {Absent}] /\ NoRows \in [Ids -> Row \cup {NoRow}]
        BY DEF NoMembers, NoRows
    <2>2. /\ table \in [Groups -> [Ids -> Row \cup {NoRow}]]
          /\ members \in [Threads -> [Users -> Nicks \cup {Absent}]]
          /\ gm \in [Threads -> [Ids -> Row \cup {NoRow}]]
        BY <2>1 DEF Init
    <2>3. /\ todo \in [Threads -> SUBSET Groups]
          /\ exits \in [Threads -> SUBSET (Groups \X Ids)]
          /\ seen \in [Threads -> SUBSET Ids]
          /\ armed \in SUBSET (Watchers \X Groups \X Ids)
        BY DEF Init
    <2>4. changes \in 0..MaxChanges /\ faults \in 0..MaxFaults /\ crashes \in 0..MaxCrashes
        BY BoundsAreNat DEF Init
    <2>5. \A p \in Threads : (cur[p] # NoGroup) <=> (pc[p] \in {"load", "scan"})
        BY DEF Init
    <2>6. QED
        BY <2>2, <2>3, <2>4, <2>5 DEF Init, TypeOK
<1>2. TypeOK /\ [Next]_vars => TypeOK'
    <2> SUFFICES ASSUME TypeOK, [Next]_vars
                 PROVE  TypeOK'
        OBVIOUS
    <2> USE BoundsAreNat DEF TypeOK
    <2>1. ASSUME NEW g \in Groups, NEW u \in Users, Change(g, u)
          PROVE  TypeOK'
        BY <2>1 DEF Change, store, local
    <2>2. CASE Crash
        <3>1. NoMembers \in [Users -> Nicks \cup {Absent}] /\ NoRows \in [Ids -> Row \cup {NoRow}]
            BY DEF NoMembers, NoRows
        <3>2. /\ members' \in [Threads -> [Users -> Nicks \cup {Absent}]]
              /\ gm' \in [Threads -> [Ids -> Row \cup {NoRow}]]
            BY <2>2, <3>1 DEF Crash
        <3>3. /\ todo' \in [Threads -> SUBSET Groups]
              /\ exits' \in [Threads -> SUBSET (Groups \X Ids)]
              /\ seen' \in [Threads -> SUBSET Ids]
              /\ blamed' \in [Threads -> BOOLEAN]
              /\ crashes' \in 0..MaxCrashes
            BY <2>2 DEF Crash
        <3>4. /\ pc' \in [Threads -> {"idle", "groups", "load", "scan", "notify"}]
              /\ cur' \in [Threads -> Groups \cup {NoGroup}]
              /\ \A p \in Threads : (cur'[p] # NoGroup) <=> (pc'[p] \in {"load", "scan"})
            BY <2>2 DEF Crash
        <3>5. QED
            BY <2>2, <3>2, <3>3, <3>4 DEF Crash, store
    <2>3. ASSUME NEW p \in Threads, Start(p)
          PROVE  TypeOK'
        BY <2>3, NoGroupIsNone DEF Start, Due, env, store
    <2>4. ASSUME NEW p \in Threads, ListFails(p)
          PROVE  TypeOK'
        BY <2>4 DEF ListFails, Due, Fault, env, store, local
    <2>5. ASSUME NEW p \in Threads, NEW g \in Groups, FetchMembers(p, g)
          PROVE  TypeOK'
        <3> NoMembers \in [Users -> Nicks \cup {Absent}] /\ wx[g] \in [Users -> Nicks \cup {Absent}]
            BY DEF NoMembers
        <3>0. faults' \in 0..MaxFaults
            BY <2>5 DEF FetchMembers, Fault
        <3>1. /\ members' \in [Threads -> [Users -> Nicks \cup {Absent}]]
              /\ blamed' \in [Threads -> BOOLEAN]
            BY <2>5 DEF FetchMembers
        <3>2. seen' \in [Threads -> SUBSET Ids]
            BY <2>5, IdOfType DEF FetchMembers
        <3>3. /\ pc' \in [Threads -> {"idle", "groups", "load", "scan", "notify"}]
              /\ cur' \in [Threads -> Groups \cup {NoGroup}]
              /\ todo' \in [Threads -> SUBSET Groups]
              /\ \A q \in Threads : (cur'[q] # NoGroup) <=> (pc'[q] \in {"load", "scan"})
            BY <2>5, NoGroupIsNone DEF FetchMembers
        <3>4. UNCHANGED <<env, store, gm, started, exits>>
            BY <2>5 DEF FetchMembers
        <3>5. QED
            BY <3>0, <3>1, <3>2, <3>3, <3>4 DEF env, store
    <2>6. ASSUME NEW p \in Threads, NEW g \in Groups, SkipGroup(p, g)
          PROVE  TypeOK'
        BY <2>6 DEF SkipGroup, Fault, env, store
    <2>7. ASSUME NEW p \in Threads, LoadRows(p)
          PROVE  TypeOK'
        BY <2>7 DEF LoadRows, env, store
    <2>8. ASSUME NEW p \in Threads, LoadFails(p)
          PROVE  TypeOK'
        BY <2>8 DEF LoadFails, Fault, env, store, NoMembers
    <2>9. ASSUME NEW p \in Threads, NEW u \in Users, ScanMember(p, u)
          PROVE  TypeOK'
        <3>1. cur[p] \in Groups /\ IdOf[u] \in Ids /\ members[p][u] \in Nicks
            BY <2>9, IdOfType DEF ScanMember
        <3>2. gm[p][IdOf[u]] \in Row \cup {NoRow}
            BY <3>1
        <3>3. table' \in [Groups -> [Ids -> Row \cup {NoRow}]]
            BY <2>9, <3>1, <3>2, RecordKeepsTable DEF ScanMember, store, Table
        <3>4. armed' \in SUBSET (Watchers \X Groups \X Ids)
            BY <2>9, <3>1 DEF ScanMember, store
        <3>5. gm' \in [Threads -> [Ids -> Row \cup {NoRow}]]
            BY <2>9, <3>1 DEF ScanMember, Deleted
        <3>6. faults' \in 0..MaxFaults
            BY <2>9 DEF ScanMember, Fault
        <3>7. members' \in [Threads -> [Users -> Nicks \cup {Absent}]]
            BY <2>9 DEF ScanMember
        <3>8. UNCHANGED <<env, todo, cur, seen, blamed, started, pc, exits>>
            BY <2>9 DEF ScanMember
        <3>9. QED
            BY <3>3, <3>4, <3>5, <3>6, <3>7, <3>8 DEF env
    <2>10. ASSUME NEW p \in Threads, NEW u \in Users, MemberLookupFails(p, u)
           PROVE  TypeOK'
        BY <2>10 DEF MemberLookupFails, Fault, env, store
    <2>11. ASSUME NEW p \in Threads, NEW id \in Ids, PassOver(p, id)
           PROVE  TypeOK'
        BY <2>11 DEF PassOver, Deleted, env, store
    <2>12. ASSUME NEW p \in Threads, NEW id \in Ids, ReportExit(p, id)
           PROVE  TypeOK'
        <3>1. cur[p] \in Groups
            BY <2>12 DEF ReportExit
        <3>2. table' \in [Groups -> [Ids -> Row \cup {NoRow}]]
            BY <2>12, <3>1, LeaveKeepsTable DEF ReportExit, store, Table
        <3>3. exits' \in [Threads -> SUBSET (Groups \X Ids)]
            BY <2>12, <3>1 DEF ReportExit, Exit
        <3>4. armed' \in SUBSET (Watchers \X Groups \X Ids) /\ faults' \in 0..MaxFaults
            BY <2>12 DEF ReportExit, Fault, store
        <3>5. gm' \in [Threads -> [Ids -> Row \cup {NoRow}]]
            BY <2>12 DEF ReportExit, Deleted
        <3>6. UNCHANGED <<env, todo, cur, members, seen, blamed, started, pc>>
            BY <2>12 DEF ReportExit
        <3>7. QED
            BY <3>2, <3>3, <3>4, <3>5, <3>6 DEF env
    <2>13. ASSUME NEW p \in Threads, EndGroup(p)
           PROVE  TypeOK'
        BY <2>13 DEF EndGroup, env, store
    <2>14. ASSUME NEW p \in Threads, Return(p)
           PROVE  TypeOK'
        BY <2>14 DEF Return, env, store
    <2>15. ASSUME NEW p \in Threads, NEW g \in Groups, Notify(p, g)
           PROVE  TypeOK'
        BY <2>15 DEF Notify, env, store, local
    <2>16. CASE UNCHANGED vars
        BY <2>16 DEF vars, env, store, local
    <2>17. QED
        BY <2>1, <2>2, <2>3, <2>4, <2>5, <2>6, <2>7, <2>8, <2>9, <2>10, <2>11,
           <2>12, <2>13, <2>14, <2>15, <2>16 DEF Next, Proceed
<1>3. QED
    BY <1>1, <1>2, PTL DEF Spec

-----------------------------------------------------------------------------
(***************************************************************************)
(* The inductive invariant of RemainderHasLeftOrFault: in a pass without a *)
(* failed lookup, whoever was in the group when the list was fetched has   *)
(* been scanned, and so taken off groupMembers, or is still to be scanned. *)
(***************************************************************************)
ToScan(p, id) == \E u \in Users : IdOf[u] = id /\ members[p][u] # Absent

Accounted ==
    \A p \in Threads : pc[p] \in {"load", "scan"} /\ ~blamed[p] =>
        \A id \in seen[p] : ToScan(p, id) \/ (pc[p] = "scan" /\ gm[p][id] = NoRow)

\* A refresh takes a member for gone only in a pass in which a lookup failed.
THEOREM RemainderCorrect == Spec => []RemainderHasLeftOrFault
<1>1. Init => Accounted
    BY DEF Init, Accounted
<1>2. TypeOK /\ Accounted /\ [Next]_vars => Accounted'
    <2> SUFFICES ASSUME TypeOK, Accounted, [Next]_vars,
                        NEW p \in Threads, (pc[p] \in {"load", "scan"} /\ ~blamed[p])',
                        NEW id \in seen'[p]
                 PROVE  (ToScan(p, id) \/ (pc[p] = "scan" /\ gm[p][id] = NoRow))'
        BY DEF Accounted
    <2> DEFINE Local(q) == <<pc[q], members[q], gm[q], seen[q], blamed[q]>>
    <2> USE DEF TypeOK
    <2>0. ASSUME UNCHANGED Local(p)
          PROVE  (ToScan(p, id) \/ (pc[p] = "scan" /\ gm[p][id] = NoRow))'
        BY <2>0 DEF Accounted, ToScan
    <2>1. ASSUME NEW g \in Groups, NEW u \in Users, Change(g, u)
          PROVE  UNCHANGED Local(p)
        BY <2>1 DEF Change, local
    <2>2. CASE Crash
        BY <2>2 DEF Crash
    <2>3. ASSUME NEW q \in Threads, Start(q)
          PROVE  UNCHANGED Local(p)
        BY <2>3 DEF Start
    <2>4. ASSUME NEW q \in Threads, ListFails(q)
          PROVE  UNCHANGED Local(p)
        BY <2>4 DEF ListFails, local
    <2>5. ASSUME NEW q \in Threads, NEW g \in Groups, FetchMembers(q, g)
          PROVE  (ToScan(p, id) \/ (pc[p] = "scan" /\ gm[p][id] = NoRow))'
        <3>1. CASE p = q
            <4>1. members' = [members EXCEPT ![p] = wx[g]]
                BY <2>5, <3>1 DEF FetchMembers
            <4>2. id \in {IdOf[u] : u \in {v \in Users : wx[g][v] # Absent}}
                BY <2>5, <3>1 DEF FetchMembers
            <4>3. QED
                BY <4>1, <4>2 DEF ToScan
        <3>2. CASE p # q
            BY <2>0, <2>5, <3>2 DEF FetchMembers
        <3>3. QED
            BY <3>1, <3>2
    <2>6. ASSUME NEW q \in Threads, NEW g \in Groups, SkipGroup(q, g)
          PROVE  UNCHANGED Local(p)
        BY <2>6 DEF SkipGroup
    <2>7. ASSUME NEW q \in Threads, LoadRows(q)
          PROVE  (ToScan(p, id) \/ (pc[p] = "scan" /\ gm[p][id] = NoRow))'
        BY <2>7 DEF LoadRows, Accounted, ToScan
    <2>8. ASSUME NEW q \in Threads, LoadFails(q)
          PROVE  (ToScan(p, id) \/ (pc[p] = "scan" /\ gm[p][id] = NoRow))'
        BY <2>0, <2>8 DEF LoadFails
    <2>9. ASSUME NEW q \in Threads, NEW u \in Users, ScanMember(q, u)
          PROVE  (ToScan(p, id) \/ (pc[p] = "scan" /\ gm[p][id] = NoRow))'
        <3>1. CASE p = q
            <4>1. /\ members' = [members EXCEPT ![p][u] = Absent]
                  /\ gm' = [gm EXCEPT ![p] = [@ EXCEPT ![IdOf[u]] = NoRow]]
                  /\ pc[p] = "scan" /\ pc' = pc /\ seen' = seen /\ blamed' = blamed
                BY <2>9, <3>1 DEF ScanMember, Deleted
            <4>2. id \in Ids
                BY <4>1
            <4>3. CASE id = IdOf[u]
                BY <4>1, <4>2, <4>3
            <4>4. CASE id # IdOf[u]
                BY <4>1, <4>2, <4>4 DEF Accounted, ToScan
            <4>5. QED
                BY <4>3, <4>4
        <3>2. CASE p # q
            BY <2>0, <2>9, <3>2 DEF ScanMember
        <3>3. QED
            BY <3>1, <3>2
    <2>10. ASSUME NEW q \in Threads, NEW u \in Users, MemberLookupFails(q, u)
           PROVE  (ToScan(p, id) \/ (pc[p] = "scan" /\ gm[p][id] = NoRow))'
        BY <2>0, <2>10 DEF MemberLookupFails
    <2>11. ASSUME NEW q \in Threads, NEW i \in Ids, PassOver(q, i) \/ ReportExit(q, i)
           PROVE  (ToScan(p, id) \/ (pc[p] = "scan" /\ gm[p][id] = NoRow))'
        <3>1. /\ gm' = [gm EXCEPT ![q] = [@ EXCEPT ![i] = NoRow]]
              /\ UNCHANGED <<members, pc, seen, blamed>>
            BY <2>11 DEF PassOver, ReportExit, Deleted
        <3>2. id \in Ids
            BY <3>1
        <3>3. gm[p][id] = NoRow => gm'[p][id] = NoRow
            BY <3>1, <3>2
        <3>4. QED
            BY <3>1, <3>3 DEF Accounted, ToScan
    <2>12. ASSUME NEW q \in Threads, EndGroup(q)
           PROVE  (ToScan(p, id) \/ (pc[p] = "scan" /\ gm[p][id] = NoRow))'
        BY <2>0, <2>12 DEF EndGroup
    <2>13. ASSUME NEW q \in Threads, Return(q)
           PROVE  UNCHANGED Local(p)
        BY <2>13 DEF Return
    <2>14. ASSUME NEW q \in Threads, NEW g \in Groups, Notify(q, g)
           PROVE  UNCHANGED Local(p)
        BY <2>14 DEF Notify, local
    <2>15. CASE UNCHANGED vars
        BY <2>0, <2>15 DEF vars, local
    <2>16. QED
        BY <2>0, <2>1, <2>2, <2>3, <2>4, <2>5, <2>6, <2>7, <2>8, <2>9, <2>10,
           <2>11, <2>12, <2>13, <2>14, <2>15 DEF Next, Proceed
<1>3. TypeOK /\ Accounted => RemainderHasLeftOrFault
    BY DEF TypeOK, Accounted, ToScan, RemainderHasLeftOrFault, Scanned, NoMembers
<1>4. QED
    BY <1>1, <1>2, <1>3, TypeCorrect, PTL DEF Spec

-----------------------------------------------------------------------------
(***************************************************************************)
(* The inductive invariant of ReportedOncePerStay.  The row of a departure *)
(* a watcher has reported stays marked until the member is taken back, and *)
(* a snapshot in which the row is still unmarked was read before that.     *)
(***************************************************************************)
MarkedOnceReported ==
    \A w \in Watchers, g \in Groups, id \in Ids :
        <<w, g, id>> \notin armed => ~Current(table, g, id)

UnmarkedInSnapshot ==
    \A w \in Watchers, id \in Ids :
        pc[w] = "scan" /\ gm[w][id] # NoRow /\ ~gm[w][id].left => <<w, cur[w], id>> \in armed

\* The write for a member marks nobody as gone.
LEMMA RecordKeepsCurrent ==
    ASSUME table \in Table, NEW g \in Groups, NEW id \in Ids, NEW n \in Nicks,
           NEW row \in Row \cup {NoRow}, NEW h \in Groups, NEW i \in Ids,
           <<h, i>> # <<g, id>>
    PROVE  RecordMember(g, id, n, row)[h][i] = table[h][i]
BY DEF RecordMember, AddGroupUser, UpdateGroupUser, reAddGroupUser, Table

\* LeaveGroupUser leaves no current row behind, and touches no other row.
LEMMA LeaveMarks ==
    ASSUME table \in Table, NEW g \in Groups, NEW id \in Ids, NEW h \in Groups, NEW i \in Ids
    PROVE  Current(LeaveGroupUser(g, id), h, i) => Current(table, h, i) /\ <<h, i>> # <<g, id>>
<1>1. CASE table[g][id] = NoRow
    BY <1>1 DEF LeaveGroupUser, Current
<1>2. CASE table[g][id] # NoRow
    <2>1. table[g][id] \in Row
        BY <1>2 DEF Table
    <2>2. [table[g][id] EXCEPT !.left = TRUE].left = TRUE
        BY <2>1 DEF Row
    <2>3. LeaveGroupUser(g, id) = [table EXCEPT ![g][id] = [table[g][id] EXCEPT !.left = TRUE]]
        BY <1>2 DEF LeaveGroupUser
    <2>4. CASE <<h, i>> = <<g, id>>
        <3>1. LeaveGroupUser(g, id)[h][i].left = TRUE
            BY <2>2, <2>3, <2>4 DEF Table
        <3>2. QED
            BY <3>1 DEF Current
    <2>5. CASE <<h, i>> # <<g, id>>
        <3>1. LeaveGroupUser(g, id)[h][i] = table[h][i]
            BY <2>3, <2>5 DEF Table
        <3>2. QED
            BY <2>5, <3>1 DEF Current
    <2>6. QED
        BY <2>4, <2>5
<1>3. QED
    BY <1>1, <1>2

ArmedInv == MarkedOnceReported /\ UnmarkedInSnapshot

LEMMA ArmedInductive == TypeOK /\ ArmedInv /\ [Next]_vars => ArmedInv'
<1> SUFFICES ASSUME TypeOK, ArmedInv, [Next]_vars
             PROVE  MarkedOnceReported' /\ UnmarkedInSnapshot'
    BY DEF ArmedInv
<1> USE DEF TypeOK, ArmedInv
<1>0. ASSUME UNCHANGED store
      PROVE  MarkedOnceReported'
    BY <1>0 DEF MarkedOnceReported, Current, store
<1>1. ASSUME UNCHANGED <<store, pc, gm, cur>>
      PROVE  UnmarkedInSnapshot'
    BY <1>1 DEF UnmarkedInSnapshot, store
<1>2. ASSUME NEW g \in Groups, NEW u \in Users, Change(g, u)
      PROVE  UNCHANGED <<store, pc, gm, cur>>
    BY <1>2 DEF Change, local
<1>3. CASE Crash
    <2>1. UnmarkedInSnapshot'
        BY <1>3, CallersDiffer DEF Crash, UnmarkedInSnapshot, Threads
    <2>2. QED
        BY <1>0, <1>3, <2>1 DEF Crash
<1>4. ASSUME NEW p \in Threads, Start(p)
      PROVE  UNCHANGED store /\ UnmarkedInSnapshot'
    BY <1>4 DEF Start, UnmarkedInSnapshot, store, Threads
<1>5. ASSUME NEW p \in Threads, ListFails(p)
      PROVE  UNCHANGED <<store, pc, gm, cur>>
    BY <1>5 DEF ListFails, local
<1>6. ASSUME NEW p \in Threads, NEW g \in Groups, FetchMembers(p, g)
      PROVE  UNCHANGED store /\ UnmarkedInSnapshot'
    BY <1>6 DEF FetchMembers, UnmarkedInSnapshot, store, Threads
<1>7. ASSUME NEW p \in Threads, NEW g \in Groups, SkipGroup(p, g)
      PROVE  UNCHANGED <<store, pc, gm, cur>>
    BY <1>7 DEF SkipGroup
<1>8. ASSUME NEW p \in Threads, LoadRows(p)
      PROVE  UNCHANGED store /\ UnmarkedInSnapshot'
    <2> SUFFICES ASSUME NEW w \in Watchers, NEW id \in Ids,
                        (pc[w] = "scan" /\ gm[w][id] # NoRow /\ ~gm[w][id].left)'
                 PROVE  <<w, cur[w], id>>' \in armed'
        BY <1>8 DEF LoadRows, UnmarkedInSnapshot
    <2>1. w \in Threads
        BY DEF Threads
    <2>2. CASE w = p
        <3>1. cur[p] \in Groups /\ gm'[p] = table[cur[p]] /\ cur' = cur /\ armed' = armed
            BY <1>8 DEF LoadRows, store
        <3>2. Current(table, cur[p], id)
            BY <2>2, <3>1 DEF Current
        <3>3. QED
            BY <2>2, <3>1, <3>2 DEF MarkedOnceReported
    <2>3. CASE w # p
        BY <1>8, <2>1, <2>3 DEF LoadRows, UnmarkedInSnapshot, store
    <2>4. QED
        BY <2>2, <2>3
<1>9. ASSUME NEW p \in Threads, LoadFails(p)
      PROVE  UNCHANGED store /\ UnmarkedInSnapshot'
    BY <1>9 DEF LoadFails, UnmarkedInSnapshot, store, Threads
<1>10. ASSUME NEW p \in Threads, NEW u \in Users, ScanMember(p, u)
       PROVE  MarkedOnceReported' /\ UnmarkedInSnapshot'
    <2> DEFINE g == cur[p]
               id == IdOf[u]
               n == members[p][u]
               row == gm[p][IdOf[u]]
    <2>1. g \in Groups /\ id \in Ids /\ n \in Nicks /\ row \in Row \cup {NoRow}
        BY <1>10, IdOfType DEF ScanMember
    <2>2. \/ UNCHANGED store
          \/ /\ table' = RecordMember(g, id, n, row)
             /\ armed' = IF Current(table', g, id) /\ ~Current(table, g, id)
                         THEN armed \cup (Watchers \X {g} \X {id})
                         ELSE armed
        BY <1>10 DEF ScanMember
    <2>3. armed \subseteq armed'
        BY <2>2 DEF store
    <2>4. UnmarkedInSnapshot'
        <3>1. UNCHANGED <<pc, cur>> /\ gm' = [gm EXCEPT ![p] = [@ EXCEPT ![id] = NoRow]]
            BY <1>10 DEF ScanMember, Deleted
        <3>2. \A w \in Watchers, i \in Ids : gm'[w][i] # NoRow => gm'[w][i] = gm[w][i]
            BY <3>1 DEF Threads
        <3>3. QED
            BY <2>3, <3>1, <3>2 DEF UnmarkedInSnapshot
    <2>5. MarkedOnceReported'
        <3>1. CASE UNCHANGED store
            BY <1>0, <3>1
        <3>2. CASE ~UNCHANGED store
            <4> SUFFICES ASSUME NEW w \in Watchers, NEW h \in Groups, NEW i \in Ids,
                                Current(table', h, i)
                         PROVE  <<w, h, i>> \in armed'
                BY DEF MarkedOnceReported
            <4>1. CASE Current(table, h, i)
                BY <2>3, <4>1 DEF MarkedOnceReported
            <4>2. CASE ~Current(table, h, i)
                <5>1. <<h, i>> = <<g, id>>
                    BY <2>1, <2>2, <3>2, <4>2, RecordKeepsCurrent DEF Current, Table
                <5>2. QED
                    BY <2>2, <3>2, <4>2, <5>1
            <4>3. QED
                BY <4>1, <4>2
        <3>3. QED
            BY <3>1, <3>2
    <2>6. QED
        BY <2>4, <2>5
<1>11. ASSUME NEW p \in Threads, NEW u \in Users, MemberLookupFails(p, u)
       PROVE  UNCHANGED <<store, pc, gm, cur>>
    BY <1>11 DEF MemberLookupFails
<1>12. ASSUME NEW p \in Threads, NEW id \in Ids, PassOver(p, id)
       PROVE  UNCHANGED store /\ UnmarkedInSnapshot'
    BY <1>12 DEF PassOver, Deleted, UnmarkedInSnapshot, store, Threads
<1>13. ASSUME NEW p \in Threads, NEW id \in Ids, ReportExit(p, id)
       PROVE  MarkedOnceReported' /\ UnmarkedInSnapshot'
    <2>1. cur[p] \in Groups
        BY <1>13 DEF ReportExit
    <2>2. \/ UNCHANGED store
          \/ /\ table' = LeaveGroupUser(cur[p], id)
             /\ armed' = armed \ {<<p, cur[p], id>>}
        BY <1>13 DEF ReportExit
    <2>3. MarkedOnceReported'
        <3>1. CASE UNCHANGED store
            BY <1>0, <3>1
        <3>2. CASE ~UNCHANGED store
            <4> SUFFICES ASSUME NEW w \in Watchers, NEW h \in Groups, NEW i \in Ids,
                                Current(table', h, i)
                         PROVE  <<w, h, i>> \in armed'
                BY DEF MarkedOnceReported
            <4>1. Current(table, h, i) /\ <<h, i>> # <<cur[p], id>>
                BY <2>1, <2>2, <3>2, LeaveMarks DEF Table
            <4>2. QED
                BY <2>2, <3>2, <4>1 DEF MarkedOnceReported
        <3>3. QED
            BY <3>1, <3>2
    <2>4. UnmarkedInSnapshot'
        <3>1. UNCHANGED <<pc, cur>> /\ gm' = [gm EXCEPT ![p] = [@ EXCEPT ![id] = NoRow]]
            BY <1>13 DEF ReportExit, Deleted
        <3>2. \A w \in Watchers, i \in Ids : gm'[w][i] # NoRow =>
                 gm'[w][i] = gm[w][i] /\ <<w, i>> # <<p, id>>
            BY <3>1 DEF Threads
        <3>3. \A w \in Watchers, i \in Ids :
                 <<w, i>> # <<p, id>> /\ <<w, cur[w], i>> \in armed => <<w, cur[w], i>> \in armed'
            BY <2>2 DEF store
        <3>4. QED
            BY <3>1, <3>2, <3>3 DEF UnmarkedInSnapshot
    <2>5. QED
        BY <2>3, <2>4
<1>14. ASSUME NEW p \in Threads, EndGroup(p)
       PROVE  UNCHANGED store /\ UnmarkedInSnapshot'
    BY <1>14 DEF EndGroup, UnmarkedInSnapshot, store, Threads
<1>15. ASSUME NEW p \in Threads, Return(p)
       PROVE  UNCHANGED store /\ UnmarkedInSnapshot'
    BY <1>15 DEF Return, UnmarkedInSnapshot, store, Threads
<1>16. ASSUME NEW p \in Threads, NEW g \in Groups, Notify(p, g)
       PROVE  UNCHANGED store /\ UnmarkedInSnapshot'
    BY <1>16 DEF Notify, UnmarkedInSnapshot, store, local, Threads
<1>17. CASE UNCHANGED vars
    BY <1>0, <1>1, <1>17 DEF vars, local
<1>18. QED
    BY <1>0, <1>1, <1>2, <1>3, <1>4, <1>5, <1>6, <1>7, <1>8, <1>9, <1>10, <1>11,
       <1>12, <1>13, <1>14, <1>15, <1>16, <1>17 DEF Next, Proceed

\* A cron goroutine reports a departure at most once per stay.
THEOREM ReportedOnce == Spec => ReportedOncePerStay
<1>1. Init => ArmedInv
    BY DEF Init, ArmedInv, MarkedOnceReported, UnmarkedInSnapshot, Current, NoRows, Threads
<1>2. TypeOK /\ ArmedInv /\ [Next]_vars =>
        [\A p \in Watchers : \A e \in exits'[p] \ exits[p] : <<p, e[1], e[2]>> \in armed]_vars
    <2> SUFFICES ASSUME TypeOK, ArmedInv, Next,
                        NEW p \in Watchers, NEW e \in exits'[p] \ exits[p]
                 PROVE  <<p, e[1], e[2]>> \in armed
        OBVIOUS
    <2>1. p \in Threads
        BY DEF Threads
    <2>2. ASSUME NEW q \in Threads, NEW id \in Ids, ReportExit(q, id)
          PROVE  <<p, e[1], e[2]>> \in armed
        <3>1. p = q /\ e = <<cur[p], id>>
            BY <2>1, <2>2 DEF ReportExit, Exit, TypeOK
        <3>2. QED
            BY <2>2, <3>1 DEF ReportExit, ArmedInv, UnmarkedInSnapshot
    <2>3. ASSUME NEW q \in Threads, Start(q) \/ ListFails(q)
          PROVE  exits' = exits
        BY <2>3 DEF Start, ListFails
    <2>4. ASSUME NEW q \in Threads, NEW g \in Groups,
                 FetchMembers(q, g) \/ SkipGroup(q, g) \/ Notify(q, g)
          PROVE  exits'[p] \subseteq exits[p]
        <3>1. CASE Notify(q, g)
            BY <2>1, <3>1 DEF Notify, TypeOK
        <3>2. CASE FetchMembers(q, g) \/ SkipGroup(q, g)
            BY <3>2 DEF FetchMembers, SkipGroup
        <3>3. QED
            BY <2>4, <3>1, <3>2
    <2>5. ASSUME NEW q \in Threads, LoadRows(q) \/ LoadFails(q) \/ EndGroup(q)
          PROVE  exits' = exits
        BY <2>5 DEF LoadRows, LoadFails, EndGroup
    <2>6. ASSUME NEW q \in Threads, NEW u \in Users, ScanMember(q, u) \/ MemberLookupFails(q, u)
          PROVE  exits' = exits
        BY <2>6 DEF ScanMember, MemberLookupFails
    <2>7. ASSUME NEW q \in Threads, NEW id \in Ids, PassOver(q, id)
          PROVE  exits' = exits
        BY <2>7 DEF PassOver
    <2>8. ASSUME NEW q \in Threads, Return(q)
          PROVE  exits'[p] \subseteq exits[p]
        BY <2>1, <2>8 DEF Return, TypeOK
    <2>9. ASSUME NEW g \in Groups, NEW u \in Users, Change(g, u)
          PROVE  exits' = exits
        BY <2>9 DEF Change
    <2>10. CASE Crash
        BY <2>1, <2>10 DEF Crash
    <2>11. e \in exits'[p] /\ e \notin exits[p]
        OBVIOUS
    <2>12. QED
        BY <2>2, <2>3, <2>4, <2>5, <2>6, <2>7, <2>8, <2>9, <2>10, <2>11 DEF Next, Proceed
<1>3. QED
    BY <1>1, <1>2, ArmedInductive, TypeCorrect, PTL DEF Spec, ReportedOncePerStay
=============================================================================
