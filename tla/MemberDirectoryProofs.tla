----------------------- MODULE MemberDirectoryProofs -----------------------
(***************************************************************************)
(* Proofs about MemberDirectory, for any accounts, callers and bounds, and *)
(* for any hash: whose an id is (OwnId, ReachesOwner), that the id of an   *)
(* account lasts (SteadyId), and that it leads to the uid of the login     *)
(* (CurrentUnlessLost).                                                    *)
(*                                                                         *)
(* Take an account a that is unmistakable.  Every row, in the table, in a  *)
(* cache or in a goroutine's hand, is on one side: it carries the uid of a *)
(* and what a is looked for by, or neither.  All rows of one id are on the *)
(* same side, and no step changes the side of an id.                       *)
(*                                                                         *)
(* Its id lasts because it never gets a second row: whoever is about to    *)
(* create one has looked in vain, or finds the row of the same uid there.  *)
(* The uid lasts because an id that GetID has taken to the uid of this     *)
(* login leads there, in the cache or over the table, and no lookup still  *)
(* holds an older row; unless the id is among the lost.                    *)
(***************************************************************************)
EXTENDS MemberDirectory, TLAPS

Late == {"update", "keepId", "keepUid", "answer"}  \* there is a row in hand

IdCall ==
    [at : {"byUid", "byAttr", "byName", "create"} \cup Late, for : {"id"}, of : Accounts, uid : Uids,
     name : Names, attr : Attrs, row : Row \cup {NoRow}]
UidCall ==
    [at : {"byId", "keepId", "keepUid", "answer"}, for : {"uid"}, id : Ids, row : Row \cup {NoRow},
     settled : BOOLEAN]

IdCallFits(k) ==
    /\ k \in IdCall
    /\ k.uid = <<k.of, login>> /\ k.name \in NamesOf[k.of] /\ k.attr \in AttrsOf[k.of]
    /\ k.at = "byName" => k.of \in GroupNames
    /\ k.at \in Late => k.row \in Row /\ k.row.uid = k.uid

UidCallFits(k) ==
    /\ k \in UidCall
    /\ k.at \in Late => k.row \in Row /\ k.row.id = k.id

CallFits(k) == k = Idle \/ IdCallFits(k) \/ UidCallFits(k)

CallsFit ==
    /\ DOMAIN call = Callers /\ call = [c \in Callers |-> call[c]]
    /\ \A c \in Callers : CallFits(call[c])

Stores ==
    /\ name \in [Accounts -> Names] /\ attr \in [Accounts -> Attrs]
    /\ \A a \in Accounts : name[a] \in NamesOf[a] /\ attr[a] \in AttrsOf[a]
    /\ login \in 0..MaxLogins
    /\ table \in [Ids -> Row \cup {NoRow}]
    /\ idUserMap \in [Ids -> Row \cup {NoRow}]
    /\ uidUserMap \in [Uids -> Row \cup {NoRow}]
    /\ \A i \in Ids : /\ table[i] # NoRow => table[i].id = i
                      /\ idUserMap[i] # NoRow => idUserMap[i].id = i
    /\ \A u \in Uids : uidUserMap[u] # NoRow => uidUserMap[u].uid = u
    /\ answers \subseteq Accounts \X (0..MaxLogins) \X Ids
    /\ lost \subseteq Ids

Types == Stores /\ CallsFit

-----------------------------------------------------------------------------
(* Types. *)

\* What compareAndUpdateMember makes of a call and a row.
LEMMA ComparedFits ==
    ASSUME NEW k, IdCallFits(k), NEW r \in Row
    PROVE  /\ IdCallFits(Compared(k, r))
           /\ Compared(k, r).at \in {"answer", "update"}
           /\ Compared(k, r).row = [r EXCEPT !.name = k.name, !.attr = k.attr, !.uid = k.uid]
           /\ Compared(k, r).of = k.of /\ Compared(k, r).for = "id"
<1> DEFINE now == [r EXCEPT !.name = k.name, !.attr = k.attr, !.uid = k.uid]
           label == IF now = r THEN "answer" ELSE "update"
<1>1. k \in IdCall /\ now \in Row /\ now.uid = k.uid
  BY DEF IdCallFits, IdCall, Row
<1>2. Compared(k, r) = [k EXCEPT !.row = now, !.at = label]
  BY DEF Compared
<1>3. label \in {"answer", "update"}
  OBVIOUS
<1> HIDE DEF now, label
<1>4. /\ Compared(k, r) \in IdCall /\ Compared(k, r).at = label /\ Compared(k, r).row = now
      /\ Compared(k, r).of = k.of /\ Compared(k, r).uid = k.uid /\ Compared(k, r).for = "id"
      /\ Compared(k, r).name = k.name /\ Compared(k, r).attr = k.attr
  BY <1>1, <1>2, <1>3 DEF IdCall, Late
<1>5. IdCallFits(Compared(k, r))
  BY <1>1, <1>3, <1>4 DEF IdCallFits
<1> QED  BY <1>3, <1>4, <1>5 DEF now

\* A call moves on, or takes a row into its hand.
LEMMA Moved ==
    ASSUME NEW k, NEW label
    PROVE  /\ IdCallFits(k) /\ label \in {"byAttr", "create"} => IdCallFits([k EXCEPT !.at = label])
           /\ IdCallFits(k) /\ label = "byName" /\ k.of \in GroupNames => IdCallFits([k EXCEPT !.at = label])
           /\ (IdCallFits(k) \/ UidCallFits(k)) /\ k.at \in Late /\ label \in {"keepId", "keepUid", "answer"} =>
                CallFits([k EXCEPT !.at = label])
  BY DEF IdCallFits, UidCallFits, CallFits, IdCall, UidCall, Late

\* A step of one goroutine that leaves every call fitting.
LEMMA OneMoves ==
    ASSUME CallsFit, NEW c \in Callers, NEW k, CallFits(k), call' = [call EXCEPT ![c] = k], UNCHANGED login
    PROVE  CallsFit'
<1>1. \A e : CallFits(e) <=> CallFits(e)'
  BY DEF CallFits, IdCallFits, UidCallFits
<1>2. \A e \in Callers : call'[e] = IF e = c THEN k ELSE call[e]
  BY DEF CallsFit
<1>3. DOMAIN call' = Callers /\ call' = [e \in Callers |-> call'[e]]
  BY DEF CallsFit
<1>4. \A e \in Callers : CallFits(call'[e])
  BY <1>2 DEF CallsFit
<1>5. \A e \in Callers : CallFits(call[e])'
  BY <1>4 DEF CallFits, IdCallFits, UidCallFits
<1> QED  BY <1>3, <1>5 DEF CallsFit

\* The call of a goroutine at a label is of the kind that goes there.
LEMMA KindOfCall ==
    ASSUME CallsFit, NEW c \in Callers
    PROVE  /\ call[c].at \in {"byUid", "byAttr", "byName", "create", "update"} => IdCallFits(call[c])
           /\ call[c].at = "byId" => UidCallFits(call[c])
           /\ call[c].at \in Late => /\ call[c].row \in Row
                                     /\ IdCallFits(call[c]) \/ UidCallFits(call[c])
           /\ CallFits(Idle)
<1>1. CallFits(call[c])
  BY DEF CallsFit
<1> QED  BY <1>1 DEF CallFits, IdCallFits, UidCallFits, IdCall, UidCall, Late, Idle

\* The steps of GetID and GetByID keep all calls fitting.
LEMMA CallsKeepFitting ==
    ASSUME Types, NEW c \in Callers, Step(c)
    PROVE  CallsFit' /\ UNCHANGED <<login>>
<1> DEFINE k == call[c]
<1> USE DEF wechat, maps, past, Types
<1>0. UNCHANGED login
  BY DEF Step, GetID, GetByID, QueryUid, QueryAttr, QueryName, QueryFails, Create, Update, UpdateFails,
         QueryId, QueryIdFails, KeepId, KeepUid, Answer
<1>1. SUFFICES \E new : CallFits(new) /\ call' = [call EXCEPT ![c] = new]
  BY <1>0, OneMoves
<1>2. ASSUME NEW a \in Accounts, GetID(c, a) PROVE \E new : CallFits(new) /\ call' = [call EXCEPT ![c] = new]
  <2> DEFINE asked == [at |-> "byUid", for |-> "id", of |-> a, uid |-> <<a, login>>, name |-> name[a],
                       attr |-> attr[a], row |-> NoRow]
             cached == uidUserMap[asked.uid]
  <2>1. IdCallFits(asked)
    BY DEF Stores, IdCallFits, IdCall, Late, Uids
  <2>2. cached \in Row \cup {NoRow}
    BY DEF Stores, Uids
  <2>3. call' = [call EXCEPT ![c] = IF cached = NoRow THEN asked ELSE Compared(asked, cached)]
    BY <1>2 DEF GetID
  <2>4. IdCallFits(IF cached = NoRow THEN asked ELSE Compared(asked, cached))
    BY <2>1, <2>2, ComparedFits
  <2> HIDE DEF asked, cached
  <2> QED  BY <2>3, <2>4 DEF CallFits
<1>3. ASSUME NEW i \in Ids, GetByID(c, i) PROVE \E new : CallFits(new) /\ call' = [call EXCEPT ![c] = new]
  <2> DEFINE new == [at |-> IF idUserMap[i] = NoRow THEN "byId" ELSE "answer", for |-> "uid", id |-> i,
                     row |-> idUserMap[i], settled |-> Settled(i)]
  <2>1. idUserMap[i] \in Row \cup {NoRow} /\ (idUserMap[i] # NoRow => idUserMap[i].id = i)
    BY DEF Stores
  <2>2. Settled(i) \in BOOLEAN
    BY DEF Settled
  <2>3. UidCallFits(new)
    BY <2>1, <2>2 DEF UidCallFits, UidCall, Late
  <2> QED  BY <1>3, <2>3 DEF GetByID, CallFits
<1>4. ASSUME NEW label, IdCallFits(k), IdCallFits([k EXCEPT !.at = label]),
             \/ call' = [call EXCEPT ![c].at = label]
             \/ \E r \in Row : call' = [call EXCEPT ![c] = Compared(call[c], r)]
      PROVE  \E new : CallFits(new) /\ call' = [call EXCEPT ![c] = new]
  <2>1. CASE call' = [call EXCEPT ![c].at = label]
    <3>1. call' = [call EXCEPT ![c] = [k EXCEPT !.at = label]]
      BY <2>1
    <3> QED  BY <1>4, <3>1 DEF CallFits
  <2>2. ASSUME NEW r \in Row, call' = [call EXCEPT ![c] = Compared(call[c], r)]
        PROVE  \E new : CallFits(new) /\ call' = [call EXCEPT ![c] = new]
    BY <1>4, <2>2, ComparedFits DEF CallFits
  <2> QED  BY <1>4, <2>1, <2>2
<1>5. Rows \subseteq Row
  BY DEF Rows, Stores
<1>6. CASE QueryUid(c)
  <2>1. IdCallFits(k)
    BY <1>6, KindOfCall DEF QueryUid, At
  <2>2. {r \in Rows : r.uid = call[c].uid} \subseteq Row
    BY <1>5
  <2>3. IdCallFits([k EXCEPT !.at = "byAttr"])
    BY <2>1, Moved
  <2>4. \/ call' = [call EXCEPT ![c].at = "byAttr"]
        \/ \E r \in Row : call' = [call EXCEPT ![c] = Compared(call[c], r)]
    BY <1>6, <2>2 DEF QueryUid, Query, Goto
  <2> QED  BY <1>4, <2>1, <2>3, <2>4
<1>7. CASE QueryAttr(c)
  <2> DEFINE label == IF k.of \in GroupNames THEN "byName" ELSE "create"
  <2>1. IdCallFits(k)
    BY <1>7, KindOfCall DEF QueryAttr, At
  <2>2. ByNameAndAttr(k) \subseteq Row
    BY <1>5 DEF ByNameAndAttr
  <2>3. IdCallFits([k EXCEPT !.at = label])
    BY <2>1, Moved
  <2>4. \/ call' = [call EXCEPT ![c].at = label]
        \/ \E r \in Row : call' = [call EXCEPT ![c] = Compared(call[c], r)]
    BY <1>7, <2>2 DEF QueryAttr, Query, Goto
  <2> HIDE DEF label
  <2> QED  BY <1>4, <2>1, <2>3, <2>4
<1>8. CASE QueryName(c)
  <2>1. IdCallFits(k)
    BY <1>8, KindOfCall DEF QueryName, At
  <2>2. Groups(k) \subseteq Row
    BY <1>5 DEF Groups
  <2>3. IdCallFits([k EXCEPT !.at = "create"])
    BY <2>1, Moved
  <2>4. \/ call' = [call EXCEPT ![c].at = "create"]
        \/ \E r \in Row : call' = [call EXCEPT ![c] = Compared(call[c], r)]
    BY <1>8, <2>2 DEF QueryName, Query, Goto
  <2> QED  BY <1>4, <2>1, <2>3, <2>4
<1>9. CASE QueryFails(c) \/ QueryIdFails(c) \/ Answer(c)
  BY <1>9, KindOfCall DEF QueryFails, QueryIdFails, Answer, Return
<1>10. CASE Create(c)
  <2>1. IdCallFits(k) /\ CallFits(Idle)
    BY <1>10, KindOfCall DEF Create, At
  <2>2. NewRow(k) \in Row /\ NewRow(k).uid = k.uid
    BY <2>1 DEF NewRow, Row, IdCallFits, IdCall, Ids
  <2>3. IdCallFits([k EXCEPT !.row = NewRow(k), !.at = "keepId"])
    BY <2>1, <2>2 DEF IdCallFits, IdCall, Late
  <2>4. \/ call' = [call EXCEPT ![c] = [k EXCEPT !.row = NewRow(k), !.at = "keepId"]]
        \/ call' = [call EXCEPT ![c] = Idle]
    BY <1>10 DEF Create, Return
  <2> QED  BY <2>1, <2>3, <2>4 DEF CallFits
<1>11. CASE Update(c) \/ UpdateFails(c) \/ KeepId(c) \/ KeepUid(c)
  <2>1. PICK label \in {"keepId", "keepUid", "answer"} : Goto(c, label) /\ k.at \in Late
    BY <1>11 DEF Update, UpdateFails, KeepId, KeepUid, At, Late
  <2>2. CallFits([k EXCEPT !.at = label])
    BY <2>1, KindOfCall, Moved
  <2> QED  BY <2>1, <2>2 DEF Goto
<1>12. CASE QueryId(c)
  <2>1. UidCallFits(k) /\ CallFits(Idle)
    BY <1>12, KindOfCall DEF QueryId, At
  <2> DEFINE r == table[k.id]
  <2>2. k.id \in Ids /\ r \in Row \cup {NoRow} /\ (r # NoRow => r.id = k.id)
    BY <2>1 DEF UidCallFits, UidCall, Stores
  <2>3. r # NoRow => UidCallFits([k EXCEPT !.row = r, !.at = "keepId"])
    BY <2>1, <2>2 DEF UidCallFits, UidCall, Late
  <2>4. \/ r # NoRow /\ call' = [call EXCEPT ![c] = [k EXCEPT !.row = r, !.at = "keepId"]]
        \/ call' = [call EXCEPT ![c] = Idle]
    BY <1>12 DEF QueryId, Return
  <2> QED  BY <2>1, <2>3, <2>4 DEF CallFits
<1> QED  BY <1>2, <1>3, <1>6, <1>7, <1>8, <1>9, <1>10, <1>11, <1>12 DEF Step

\* And they keep the stores well formed.
LEMMA StoresKeepFitting ==
    ASSUME Types, NEW c \in Callers, Step(c)
    PROVE  Stores'
<1> DEFINE k == call[c]
<1> USE DEF wechat, maps, past, Types
<1>1. CASE UNCHANGED <<wechat, table, maps, past>>
  BY <1>1 DEF Stores
<1>2. CASE Create(c)
  <2>1. CASE UNCHANGED table
    BY <1>2, <2>1 DEF Create, Stores
  <2>2. CASE table' = [table EXCEPT ![NewRow(k).id] = NewRow(k)]
    <3>1. NewRow(k) \in Row /\ NewRow(k).id \in Ids
      <4>1. IdCallFits(k)
        BY <1>2, KindOfCall DEF Create, At
      <4> QED  BY <4>1 DEF NewRow, Row, IdCallFits, IdCall, Ids
    <3>2. /\ table' \in [Ids -> Row \cup {NoRow}]
          /\ \A i \in Ids : table'[i] # NoRow => table'[i].id = i
      BY <2>2, <3>1 DEF Stores
    <3> QED  BY <1>2, <3>2 DEF Create, Stores
  <2> QED  BY <1>2, <2>1, <2>2 DEF Create
<1>3. CASE Update(c)
  <2> DEFINE r == k.row
  <2>1. r \in Row
    BY <1>3, KindOfCall DEF Update, At, Late
  <2>2. r.id \in Ids /\ table[r.id] \in Row \cup {NoRow}
    BY <2>1 DEF Stores, Row
  <2>3. table[r.id] # NoRow => Rewritten(r, table[r.id]) \in Row /\ Rewritten(r, table[r.id]).id = r.id
    BY <2>1, <2>2 DEF Row, Rewritten, Written, Stores
  <2>4. table' = [table EXCEPT ![r.id] = IF table[r.id] = NoRow THEN NoRow ELSE Rewritten(r, table[r.id])]
    BY <1>3 DEF Update
  <2> HIDE DEF r
  <2>5. /\ table' \in [Ids -> Row \cup {NoRow}]
        /\ \A i \in Ids : table'[i] # NoRow => table'[i].id = i
    BY <2>2, <2>3, <2>4 DEF Stores
  <2> QED  BY <1>3, <2>5 DEF Update, Stores
<1>4. CASE KeepId(c)
  <2>1. k.row \in Row /\ k.row.id \in Ids
    BY <1>4, KindOfCall DEF KeepId, At, Late, Row
  <2> QED  BY <1>4, <2>1 DEF KeepId, Stores
<1>5. CASE KeepUid(c)
  <2>1. k.row \in Row /\ k.row.uid \in Uids
    BY <1>5, KindOfCall DEF KeepUid, At, Late, Row
  <2> QED  BY <1>5, <2>1 DEF KeepUid, Stores
<1>6. CASE Answer(c)
  <2>1. k.for = "id" => <<k.of, login, k.row.id>> \in Accounts \X (0..MaxLogins) \X Ids
    BY <1>6, KindOfCall DEF Answer, At, Late, Row, IdCallFits, UidCallFits, IdCall, UidCall, Stores
  <2> QED  BY <1>6, <2>1 DEF Answer, Stores
<1> QED  BY <1>1, <1>2, <1>3, <1>4, <1>5, <1>6
         DEF Step, GetID, GetByID, QueryUid, QueryAttr, QueryName, QueryFails, UpdateFails, QueryId, QueryIdFails

\* Every step, renaming and restarting too, keeps the types.
LEMMA TypesHold == Spec => []Types
<1> USE DEF wechat, maps, past
<1>1. Init => Types
  BY BoundsAreNat DEF Init, Types, Stores, CallsFit, CallFits
<1>2. Types /\ [Next]_vars => Types'
  <2> SUFFICES ASSUME Types, [Next]_vars PROVE Types'
    OBVIOUS
  <2>1. ASSUME NEW a \in Accounts, Rename(a) PROVE Types'
    <3>1. CallsFit'
      BY <2>1 DEF Rename, Types, CallsFit, CallFits, IdCallFits, UidCallFits
    <3>2. /\ name' \in [Accounts -> Names] /\ attr' \in [Accounts -> Attrs]
          /\ \A b \in Accounts : name'[b] \in NamesOf[b] /\ attr'[b] \in AttrsOf[b]
      BY <2>1 DEF Rename, Types, Stores, Names, Attrs
    <3> QED  BY <2>1, <3>1, <3>2 DEF Rename, Types, Stores
  <2>2. CASE Restart
    <3>1. CallsFit'
      BY <2>2 DEF Restart, CallsFit, CallFits
    <3> QED  BY <2>2, <3>1, BoundsAreNat DEF Restart, Types, Stores
  <2>3. ASSUME NEW c \in Callers, Step(c) PROVE Types'
    BY <2>3, CallsKeepFitting, StoresKeepFitting DEF Types
  <2>4. CASE UNCHANGED vars
    BY <2>4 DEF vars, Types, Stores, CallsFit, CallFits, IdCallFits, UidCallFits
  <2> QED  BY <2>1, <2>2, <2>3, <2>4 DEF Next
<1> QED  BY <1>1, <1>2, PTL DEF Spec

-----------------------------------------------------------------------------
(* Sides. *)

\* What a row must look like: one with a uid of a is as a is looked for; any other is as an
\* account other than a is looked for, and that of a group is a group's when kinds are apart.
Fits(a, r) ==
    IF r.uid[1] = a
    THEN r.name \in NamesOf[a] /\ r.attr \in AttrsOf[a] /\ r.group = (a \in GroupNames)
    ELSE /\ r.name \in NamesIn(Accounts \ {a}) /\ r.attr \in AttrsIn(Accounts \ {a})
         /\ KindsApart(a) /\ r.group =>
              /\ r.uid[1] \in GroupNames
              /\ r.name \in NamesIn(GroupNames \ {a}) /\ r.attr \in AttrsIn(GroupNames \ {a})

\* Two rows of the same side.
Agree(a, q, r) == q # NoRow /\ q.group = r.group /\ (q.uid[1] = a <=> r.uid[1] = a)

Held == ({table[i] : i \in Ids} \cup {idUserMap[i] : i \in Ids} \cup {uidUserMap[u] : u \in Uids}
         \cup {call[c].row : c \in {e \in Callers : call[e].at \in Late}}) \ {NoRow}

AnswersOnSide(a) ==
    \A b \in Accounts, i \in Ids :
        AnswersWithin(b, i) => table[i] # NoRow /\ (table[i].uid[1] = a <=> b = a)

Sided(a) ==
    /\ \A r \in Held : Fits(a, r) /\ Agree(a, table[r.id], r)
    /\ AnswersOnSide(a)

\* An account has the names of the sets it is in.
LEMMA InSets ==
    ASSUME NEW S, NEW b \in S, NEW n, NEW x
    PROVE  (n \in NamesOf[b] => n \in NamesIn(S)) /\ (x \in AttrsOf[b] => x \in AttrsIn(S))
  BY DEF NamesIn, AttrsIn

\* Whatever row GetID finds for an account is on its side, and remains fit when rewritten.
LEMMA FoundFits ==
    ASSUME NEW a \in Accounts, Unmistakable(a), NEW k, IdCallFits(k), NEW r \in Row, Fits(a, r),
           \/ r.uid = k.uid
           \/ r.name = k.name /\ r.attr = k.attr
           \/ r.group /\ r.name = k.name /\ k.of \in GroupNames
    PROVE  LET now == Compared(k, r).row IN Fits(a, now) /\ now.id = r.id /\ Agree(a, r, now)
<1> DEFINE b == k.of
           now == Compared(k, r).row
<1>0. now = [r EXCEPT !.name = k.name, !.attr = k.attr, !.uid = k.uid]
  BY ComparedFits
<1> HIDE DEF now
<1>1. /\ now.name = k.name /\ now.attr = k.attr /\ now.uid = k.uid /\ now.group = r.group /\ now.id = r.id
      /\ r # NoRow
  BY <1>0, NoRowIsNoRow DEF Row
<1>2. b \in Accounts /\ k.uid[1] = b /\ k.name \in NamesOf[b] /\ k.attr \in AttrsOf[b]
  BY DEF IdCallFits, IdCall
<1>3. b # a => k.name \in NamesIn(Accounts \ {a}) /\ k.attr \in AttrsIn(Accounts \ {a})
  BY <1>2, InSets
<1>4. b # a /\ b \in GroupNames => k.name \in NamesIn(GroupNames \ {a}) /\ k.attr \in AttrsIn(GroupNames \ {a})
  BY <1>2, InSets
<1>5. r.uid[1] = a <=> b = a
  <2>1. CASE r.uid = k.uid
    BY <1>2, <2>1
  <2>2. CASE NamesOf[a] \cap NamesIn(Accounts \ {a}) = {} /\ r.name = k.name
    BY <1>2, <1>3, <2>2 DEF Fits
  <2>3. CASE AttrsOf[a] \cap AttrsIn(Accounts \ {a}) = {} /\ r.attr = k.attr
    BY <1>2, <1>3, <2>3 DEF Fits
  <2>4. CASE /\ a \in GroupNames => NamesOf[a] \cap NamesIn(GroupNames \ {a}) = {} /\ KindsApart(a)
             /\ r.group /\ r.name = k.name /\ b \in GroupNames
    BY <1>2, <1>4, <2>4 DEF Fits
  <2> QED  BY <2>1, <2>2, <2>3, <2>4 DEF Unmistakable
<1>6. Fits(a, now)
  <2>1. CASE b = a
    BY <1>1, <1>2, <1>5, <2>1 DEF Fits
  <2>2. CASE b # a
    <3>1. KindsApart(a) /\ r.group => b \in GroupNames
      <4>1. CASE r.uid = k.uid
        BY <1>2, <1>5, <2>2, <4>1 DEF Fits
      <4>2. CASE r.name = k.name /\ r.attr = k.attr
        <5> SUFFICES ASSUME KindsApart(a), r.group, b \notin GroupNames PROVE FALSE
          OBVIOUS
        <5>1. r.name \in NamesIn(GroupNames \ {a}) /\ r.attr \in AttrsIn(GroupNames \ {a})
          BY <1>5, <2>2 DEF Fits
        <5>2. b \in Accounts \ (GroupNames \cup {a})
          BY <1>2, <2>2
        <5> QED  BY <1>2, <4>2, <5>1, <5>2 DEF KindsApart
      <4> QED  BY <4>1, <4>2
    <3> QED  BY <1>1, <1>2, <1>3, <1>4, <2>2, <3>1 DEF Fits
  <2> QED  BY <2>1, <2>2
<1> QED  BY <1>1, <1>2, <1>5, <1>6 DEF Agree, now

\* A new row is on the side of the account it is made for.
LEMMA NewRowFits ==
    ASSUME NEW a \in Accounts, NEW k, IdCallFits(k)
    PROVE  Fits(a, NewRow(k)) /\ NewRow(k) \in Row
<1>1. /\ k.of \in Accounts /\ k.uid \in Uids /\ k.uid[1] = k.of /\ k.name \in NamesOf[k.of] /\ k.attr \in AttrsOf[k.of]
      /\ k.name \in Names /\ k.attr \in Attrs
  BY DEF IdCallFits, IdCall
<1>2. k.of # a => k.name \in NamesIn(Accounts \ {a}) /\ k.attr \in AttrsIn(Accounts \ {a})
  BY <1>1, InSets
<1>3. k.of # a /\ k.of \in GroupNames =>
        k.name \in NamesIn(GroupNames \ {a}) /\ k.attr \in AttrsIn(GroupNames \ {a})
  BY <1>1, InSets
<1>4. /\ NewRow(k).group = (k.of \in GroupNames) /\ NewRow(k).name = k.name /\ NewRow(k).attr = k.attr
      /\ NewRow(k).uid = k.uid
  BY DEF NewRow
<1>5. NewRow(k) \in Row
  BY <1>1 DEF NewRow, Row, Ids
<1> QED  BY <1>1, <1>2, <1>3, <1>4, <1>5 DEF Fits

\* What is held are rows.
LEMMA HeldAreRows == Types => Held \subseteq Row
<1>1. ASSUME Types, NEW c \in Callers, call[c].at \in Late PROVE call[c].row \in Row
  BY <1>1, KindOfCall DEF Types
<1> QED  BY <1>1 DEF Held, Types, Stores

\* Sides survive a step that keeps the side of every stored id, and gives out no row that
\* is not of the side of its id.
LEMMA SidesKept ==
    ASSUME NEW a \in Accounts, Types, Sided(a), NEW W, Held' \subseteq Held \cup W,
           \A i \in Ids : table[i] # NoRow => Agree(a, table'[i], table[i]),
           \A w \in W : w \in Held' => Fits(a, w) /\ Agree(a, table'[w.id], w),
           AnswersOnSide(a)'
    PROVE  Sided(a)'
<1>1. ASSUME NEW r \in Held' PROVE Fits(a, r) /\ Agree(a, table'[r.id], r)
  <2>1. CASE r \in W
    BY <1>1, <2>1
  <2>2. CASE r \in Held
    <3>1. r.id \in Ids /\ Fits(a, r) /\ Agree(a, table[r.id], r)
      BY <2>2, HeldAreRows DEF Sided, Row
    <3>2. Agree(a, table'[r.id], table[r.id])
      BY <3>1 DEF Agree
    <3> QED  BY <3>1, <3>2 DEF Agree
  <2> QED  BY <1>1, <2>1, <2>2
<1> QED  BY <1>1 DEF Sided

\* A goroutine gets at most one row into its hand.
LEMMA OneHand ==
    ASSUME CallsFit, NEW c \in Callers, NEW k, call' = [call EXCEPT ![c] = k], NEW W,
           k.at \in Late => k.row \in Held \cup W \cup {NoRow},
           {table'[i] : i \in Ids} \subseteq Held \cup W \cup {NoRow},
           {idUserMap'[i] : i \in Ids} \subseteq Held \cup W \cup {NoRow},
           {uidUserMap'[u] : u \in Uids} \subseteq Held \cup W \cup {NoRow}
    PROVE  Held' \subseteq Held \cup W
<1>1. \A e \in Callers : call'[e] = IF e = c THEN k ELSE call[e]
  BY DEF CallsFit
<1>2. \A e \in Callers : call'[e].at \in Late => call'[e].row \in Held \cup W \cup {NoRow}
  BY <1>1 DEF Held
<1> QED  BY <1>2 DEF Held

\* The answers stay on their sides when none is added and no stored id changes its side.
LEMMA AnswersKept ==
    ASSUME NEW a \in Accounts, Sided(a), UNCHANGED answers,
           \A i \in Ids : table[i] # NoRow => Agree(a, table'[i], table[i])
    PROVE  AnswersOnSide(a)'
  BY DEF Sided, AnswersOnSide, AnswersWithin, Agree

\* A stored row keeps its side when a row of its side is written over it.
LEMMA RewrittenFits ==
    ASSUME NEW a, NEW r \in Row, NEW old \in Row, Fits(a, r), Fits(a, old), Agree(a, old, r), old.id = r.id
    PROVE  LET w == Rewritten(r, old)
           IN  w \in Row /\ Fits(a, w) /\ w.id = r.id /\ Agree(a, w, old) /\ Agree(a, w, w)
<1> DEFINE w == Rewritten(r, old)
<1>1. /\ w \in Row /\ w # NoRow /\ w.id = r.id /\ w.uid = r.uid /\ w.group = old.group
      /\ w.name \in {r.name, old.name} /\ w.attr \in {r.attr, old.attr}
  BY NoRowIsNoRow DEF Rewritten, Written, Row
<1> HIDE DEF w
<1>2. Fits(a, w)
  BY <1>1 DEF Fits, Agree
<1> QED  BY <1>1, <1>2 DEF Agree, w

\* No step of a call leaves the sides.
LEMMA StepKeepsSides ==
    ASSUME NEW a \in Accounts, Unmistakable(a), Types, Sided(a), NEW c \in Callers, Step(c)
    PROVE  Sided(a)'
<1> DEFINE k == call[c]
<1> USE DEF wechat, maps, past
<1>1. CallsFit /\ Held \subseteq Row
  BY HeldAreRows DEF Types
<1>2. \A i \in Ids : table[i] # NoRow => Agree(a, table[i], table[i])
  BY DEF Agree
<1>3. ASSUME UNCHANGED <<table, maps, answers>>, NEW new, call' = [call EXCEPT ![c] = new],
             new.at \in Late => \/ new.row \in Held \cup {NoRow}
                                \/ Fits(a, new.row) /\ Agree(a, table[new.row.id], new.row)
      PROVE  Sided(a)'
  <2> DEFINE W == IF new.at \in Late /\ new.row \notin Held THEN {new.row} ELSE {}
  <2>1. new.at \in Late => new.row \in Held \cup W \cup {NoRow}
    OBVIOUS
  <2>2. \A w \in W : w # NoRow => Fits(a, w) /\ Agree(a, table'[w.id], w)
    BY <1>3
  <2> HIDE DEF W
  <2>3. /\ {table'[i] : i \in Ids} \subseteq Held \cup W \cup {NoRow}
        /\ {idUserMap'[i] : i \in Ids} \subseteq Held \cup W \cup {NoRow}
        /\ {uidUserMap'[u] : u \in Uids} \subseteq Held \cup W \cup {NoRow}
    BY <1>3 DEF Held
  <2>4. Held' \subseteq Held \cup W
    BY <1>1, <1>3, <2>1, <2>3, OneHand
  <2>5. AnswersOnSide(a)' /\ \A i \in Ids : table[i] # NoRow => Agree(a, table'[i], table[i])
    BY <1>2, <1>3, AnswersKept
  <2>6. \A w \in W : w \in Held' => Fits(a, w) /\ Agree(a, table'[w.id], w)
    BY <2>2 DEF Held
  <2> QED  BY <2>4, <2>5, <2>6, SidesKept
<1>4. ASSUME UNCHANGED <<table, maps, answers>>, NEW q, IdCallFits(q), NEW r \in Held,
             \/ r.uid = q.uid
             \/ r.name = q.name /\ r.attr = q.attr
             \/ r.group /\ r.name = q.name /\ q.of \in GroupNames,
             call' = [call EXCEPT ![c] = Compared(q, r)]
      PROVE  Sided(a)'
  <2> DEFINE now == Compared(q, r).row
  <2>1. r \in Row /\ Fits(a, r) /\ Agree(a, table[r.id], r)
    BY <1>1 DEF Sided
  <2>3. Fits(a, now) /\ now.id = r.id /\ Agree(a, r, now)
    BY <1>4, <2>1, FoundFits
  <2> HIDE DEF now
  <2>4. Agree(a, table[now.id], now)
    BY <2>1, <2>3 DEF Agree
  <2> QED  BY <1>3, <1>4, <2>3, <2>4 DEF now
<1>5. Rows \subseteq Held
  BY DEF Rows, Held
<1>6. ASSUME NEW b \in Accounts, GetID(c, b) PROVE Sided(a)'
  <2> DEFINE asked == [at |-> "byUid", for |-> "id", of |-> b, uid |-> <<b, login>>, name |-> name[b],
                       attr |-> attr[b], row |-> NoRow]
             cached == uidUserMap[asked.uid]
  <2>1. IdCallFits(asked) /\ asked.uid \in Uids /\ asked.at \notin Late
    BY DEF Types, Stores, IdCallFits, IdCall, Late, Uids
  <2>2. cached # NoRow => cached \in Held /\ cached.uid = asked.uid
    BY <2>1 DEF Types, Stores, Held
  <2>3. /\ call' = [call EXCEPT ![c] = IF cached = NoRow THEN asked ELSE Compared(asked, cached)]
        /\ UNCHANGED <<table, maps, answers>>
    BY <1>6 DEF GetID
  <2> HIDE DEF asked, cached
  <2>4. CASE cached = NoRow
    BY <1>3, <2>1, <2>3, <2>4
  <2>5. CASE cached # NoRow
    BY <1>4, <2>1, <2>2, <2>3, <2>5
  <2> QED  BY <2>4, <2>5
<1>7. ASSUME NEW i \in Ids, GetByID(c, i) PROVE Sided(a)'
  <2> DEFINE new == [at |-> IF idUserMap[i] = NoRow THEN "byId" ELSE "answer", for |-> "uid", id |-> i,
                     row |-> idUserMap[i], settled |-> Settled(i)]
  <2>1. new.row \in Held \cup {NoRow}
    BY DEF Held
  <2>2. call' = [call EXCEPT ![c] = new] /\ UNCHANGED <<table, maps, answers>>
    BY <1>7 DEF GetByID
  <2> HIDE DEF new
  <2> QED  BY <1>3, <2>1, <2>2
<1>8. ASSUME NEW label, label \notin Late, call' = [call EXCEPT ![c].at = label],
             UNCHANGED <<table, maps, answers>>
      PROVE  Sided(a)'
  <2>1. CallFits(k)
    BY <1>1 DEF CallsFit
  <2> DEFINE new == [k EXCEPT !.at = label]
  <2>2. call' = [call EXCEPT ![c] = new]
    BY <1>8
  <2>3. new.at \notin Late
    BY <1>8, <2>1 DEF CallFits, IdCallFits, UidCallFits, IdCall, UidCall, Idle
  <2> HIDE DEF new
  <2> QED  BY <1>3, <1>8, <2>2, <2>3
<1>9. CASE QueryUid(c)
  <2>1. IdCallFits(k) /\ UNCHANGED <<table, maps, answers>>
    BY <1>1, <1>9, KindOfCall DEF QueryUid, At
  <2>2. \/ call' = [call EXCEPT ![c].at = "byAttr"]
        \/ \E r \in Held : r.uid = k.uid /\ call' = [call EXCEPT ![c] = Compared(k, r)]
    BY <1>5, <1>9 DEF QueryUid, Query, Goto
  <2>3. "byAttr" \notin Late
    BY DEF Late
  <2> QED  BY <1>4, <1>8, <2>1, <2>2, <2>3
<1>10. CASE QueryAttr(c)
  <2> DEFINE label == IF k.of \in GroupNames THEN "byName" ELSE "create"
  <2>1. IdCallFits(k) /\ UNCHANGED <<table, maps, answers>>
    BY <1>1, <1>10, KindOfCall DEF QueryAttr, At
  <2>2. \/ call' = [call EXCEPT ![c].at = label]
        \/ \E r \in Held : r.name = k.name /\ r.attr = k.attr /\ call' = [call EXCEPT ![c] = Compared(k, r)]
    BY <1>5, <1>10 DEF QueryAttr, Query, Goto, ByNameAndAttr
  <2>3. label \notin Late
    BY DEF Late
  <2> HIDE DEF label
  <2> QED  BY <1>4, <1>8, <2>1, <2>2, <2>3
<1>11. CASE QueryName(c)
  <2>1. IdCallFits(k) /\ k.of \in GroupNames /\ UNCHANGED <<table, maps, answers>>
    BY <1>1, <1>11, KindOfCall DEF QueryName, At, IdCallFits
  <2>2. \/ call' = [call EXCEPT ![c].at = "create"]
        \/ \E r \in Held : r.group /\ r.name = k.name /\ call' = [call EXCEPT ![c] = Compared(k, r)]
    BY <1>5, <1>11 DEF QueryName, Query, Goto, Groups
  <2>3. "create" \notin Late
    BY DEF Late
  <2> QED  BY <1>4, <1>8, <2>1, <2>2, <2>3
<1>12. CASE QueryFails(c) \/ QueryIdFails(c)
  <2>1. call' = [call EXCEPT ![c] = Idle] /\ UNCHANGED <<table, maps, answers>>
    BY <1>12 DEF QueryFails, QueryIdFails, Return
  <2>2. Idle.at \notin Late
    BY DEF Idle, Late
  <2> QED  BY <1>3, <2>1, <2>2
<1>13. CASE QueryId(c)
  <2> DEFINE r == table[k.id]
             new == [k EXCEPT !.row = r, !.at = "keepId"]
  <2>1. UidCallFits(k) /\ UNCHANGED <<table, maps, answers>>
    BY <1>1, <1>13, KindOfCall DEF QueryId, At
  <2>2. r \in Held \cup {NoRow} /\ new.row = r
    BY <2>1 DEF Held, UidCallFits, UidCall
  <2>3. call' = [call EXCEPT ![c] = Idle] \/ call' = [call EXCEPT ![c] = new]
    BY <1>13 DEF QueryId, Return
  <2>4. Idle.at \notin Late
    BY DEF Idle, Late
  <2> HIDE DEF r, new
  <2> QED  BY <1>3, <2>1, <2>2, <2>3, <2>4
<1>14. ASSUME NEW label, label \in Late, k.at \in Late, call' = [call EXCEPT ![c].at = label]
       PROVE  /\ call' = [call EXCEPT ![c] = [k EXCEPT !.at = label]]
              /\ [k EXCEPT !.at = label].row = k.row /\ k.row \in Held
  <2>1. k.row \in Row /\ (IdCallFits(k) \/ UidCallFits(k))
    BY <1>1, <1>14, KindOfCall
  <2>2. k.row \in Held
    BY <1>14, <2>1, NoRowIsNoRow DEF Held
  <2> QED  BY <1>14, <2>1, <2>2 DEF IdCallFits, UidCallFits, IdCall, UidCall
<1>15. CASE UpdateFails(c)
  <2>1. /\ call' = [call EXCEPT ![c].at = "keepId"] /\ k.at \in Late /\ "keepId" \in Late
        /\ UNCHANGED <<table, maps, answers>>
    BY <1>15 DEF UpdateFails, At, Goto, Late
  <2> QED  BY <1>3, <1>14, <2>1
<1>16. CASE KeepId(c) \/ KeepUid(c)
  <2> DEFINE W == {}
  <2>0. \A w \in W : Fits(a, w) /\ Agree(a, table'[w.id], w)
    OBVIOUS
  <2> HIDE DEF W
  <2>1. PICK label \in Late : call' = [call EXCEPT ![c].at = label]
    BY <1>16 DEF KeepId, KeepUid, Goto, Late
  <2>2. k.at \in Late /\ UNCHANGED <<table, answers>>
    BY <1>16 DEF KeepId, KeepUid, At, Late
  <2> DEFINE new == [k EXCEPT !.at = label]
  <2>3. call' = [call EXCEPT ![c] = new] /\ new.row \in Held /\ k.row \in Held
    BY <1>14, <2>1, <2>2
  <2>4. /\ {table'[i] : i \in Ids} \subseteq Held \cup W \cup {NoRow}
        /\ {idUserMap'[i] : i \in Ids} \subseteq Held \cup W \cup {NoRow}
        /\ {uidUserMap'[u] : u \in Uids} \subseteq Held \cup W \cup {NoRow}
    <3>1. \A i \in Ids : table'[i] \in Held \cup {NoRow}
      BY <2>2 DEF Held
    <3>2. \A i \in Ids : idUserMap'[i] = idUserMap[i] \/ idUserMap'[i] = k.row
      BY <1>16 DEF KeepId, KeepUid, Types, Stores
    <3>3. \A u \in Uids : uidUserMap'[u] = uidUserMap[u] \/ uidUserMap'[u] = k.row
      BY <1>16 DEF KeepId, KeepUid, Types, Stores
    <3>4. \A i \in Ids : idUserMap[i] \in Held \cup {NoRow}
      BY DEF Held
    <3>5. \A u \in Uids : uidUserMap[u] \in Held \cup {NoRow}
      BY DEF Held
    <3> QED  BY <2>3, <3>1, <3>2, <3>3, <3>4, <3>5
  <2> HIDE DEF new
  <2>5. Held' \subseteq Held \cup W
    BY <1>1, <2>3, <2>4, OneHand
  <2>6. AnswersOnSide(a)' /\ \A i \in Ids : table[i] # NoRow => Agree(a, table'[i], table[i])
    BY <1>2, <2>2, AnswersKept
  <2> QED  BY <2>5, <2>6, <2>0, SidesKept
<1>17. CASE Answer(c)
  <2> DEFINE W == {}
  <2>0. \A w \in W : Fits(a, w) /\ Agree(a, table'[w.id], w)
    OBVIOUS
  <2> HIDE DEF W
  <2>1. call' = [call EXCEPT ![c] = Idle] /\ Idle.at \notin Late /\ UNCHANGED <<table, maps>>
    BY <1>17 DEF Answer, Return, Idle, Late
  <2>2. /\ {table'[i] : i \in Ids} \subseteq Held \cup W \cup {NoRow}
        /\ {idUserMap'[i] : i \in Ids} \subseteq Held \cup W \cup {NoRow}
        /\ {uidUserMap'[u] : u \in Uids} \subseteq Held \cup W \cup {NoRow}
    BY <2>1 DEF Held
  <2>3. Held' \subseteq Held \cup W
    BY <1>1, <2>1, <2>2, OneHand
  <2>4. AnswersOnSide(a)'
    <3>1. CASE UNCHANGED answers
      BY <1>2, <2>1, <3>1, AnswersKept
    <3>2. CASE k.for = "id" /\ answers' = answers \cup {<<k.of, login, k.row.id>>}
      <4>1. k.at \in Late /\ k.row \in Held
        <5>1. k.at \in Late /\ k.row \in Row
          BY <1>1, <1>17, KindOfCall DEF Answer, At, Late
        <5> QED  BY <5>1, NoRowIsNoRow DEF Held
      <4>2. IdCallFits(k)
        BY <1>1, <3>2, <4>1, KindOfCall DEF UidCallFits, UidCall
      <4>3. k.row.uid[1] = k.of
        BY <4>1, <4>2 DEF IdCallFits
      <4>4. Agree(a, table[k.row.id], k.row)
        BY <4>1 DEF Sided
      <4>5. \A b \in Accounts, i \in Ids : 
                AnswersWithin(b, i)' => AnswersWithin(b, i) \/ (b = k.of /\ i = k.row.id)
        BY <3>2 DEF AnswersWithin
      <4> QED  BY <2>1, <4>3, <4>4, <4>5 DEF Sided, AnswersOnSide, Agree
    <3> QED  BY <1>17, <3>1, <3>2 DEF Answer
  <2>5. \A i \in Ids : table[i] # NoRow => Agree(a, table'[i], table[i])
    BY <1>2, <2>1
  <2> QED  BY <2>3, <2>4, <2>5, <2>0, SidesKept
<1>18. CASE Create(c)
  <2> DEFINE r == NewRow(k)
             new == [k EXCEPT !.row = r, !.at = "keepId"]
  <2>1. IdCallFits(k) /\ UNCHANGED <<maps, answers>>
    BY <1>1, <1>18, KindOfCall DEF Create, At
  <2>2. Fits(a, r) /\ r \in Row /\ r.id \in Ids /\ Agree(a, r, r)
    BY <2>1, NewRowFits, NoRowIsNoRow DEF Row, Agree
  <2>3. CASE table[r.id] # NoRow
    <3>1. call' = [call EXCEPT ![c] = Idle] /\ UNCHANGED table /\ Idle.at \notin Late
      BY <1>18, <2>3 DEF Create, Return, Idle, Late
    <3> QED  BY <1>3, <2>1, <3>1
  <2>4. CASE table[r.id] = NoRow
    <3>1. table' = [table EXCEPT ![r.id] = r] /\ call' = [call EXCEPT ![c] = new]
      BY <1>18, <2>4 DEF Create
    <3>2. new.row = r
      BY <2>1 DEF IdCallFits, IdCall
    <3> HIDE DEF r, new
    <3>3. \A i \in Ids : table'[i] = IF i = r.id THEN r ELSE table[i]
      BY <3>1 DEF Types, Stores
    <3> DEFINE W == {r}
    <3>4. /\ {table'[i] : i \in Ids} \subseteq Held \cup W \cup {NoRow}
          /\ {idUserMap'[i] : i \in Ids} \subseteq Held \cup W \cup {NoRow}
          /\ {uidUserMap'[u] : u \in Uids} \subseteq Held \cup W \cup {NoRow}
      BY <2>1, <3>3 DEF Held
    <3>5. \A w \in W : Fits(a, w) /\ Agree(a, table'[w.id], w)
      BY <2>2, <3>3
    <3>6. new.row \in W
      BY <3>2
    <3> HIDE DEF W
    <3>7. Held' \subseteq Held \cup W
      BY <1>1, <3>1, <3>4, <3>6, OneHand
    <3>8. \A i \in Ids : table[i] # NoRow => Agree(a, table'[i], table[i])
      BY <1>2, <2>4, <3>3
    <3>9. AnswersOnSide(a)'
      BY <2>1, <3>8, AnswersKept
    <3> QED  BY <3>7, <3>8, <3>9, <3>5, SidesKept
  <2> QED  BY <2>3, <2>4
<1>19. CASE Update(c)
  <2> DEFINE r == k.row
             old == table[r.id]
             new == [k EXCEPT !.at = "keepId"]
             w == Rewritten(r, old)
  <2>1. /\ call' = [call EXCEPT ![c].at = "keepId"] /\ k.at \in Late /\ "keepId" \in Late
        /\ UNCHANGED <<maps, answers>>
    BY <1>19 DEF Update, At, Goto, Late
  <2>2. call' = [call EXCEPT ![c] = new] /\ new.row = r /\ r \in Held
    BY <1>14, <2>1
  <2>3. r \in Row /\ r.id \in Ids /\ Fits(a, r) /\ Agree(a, old, r)
    BY <1>1, <2>2 DEF Sided, Row
  <2>4. old # NoRow /\ old \in Held
    BY <2>3 DEF Agree, Held
  <2>5. old \in Row /\ Fits(a, old) /\ old.id = r.id
    BY <1>1, <2>3, <2>4 DEF Sided, Types, Stores
  <2>6. w \in Row /\ Fits(a, w) /\ w.id = r.id /\ Agree(a, w, old) /\ Agree(a, w, w)
    BY <2>3, <2>5, RewrittenFits
  <2>7. table' = [table EXCEPT ![r.id] = IF table[r.id] = NoRow THEN NoRow ELSE Rewritten(r, table[r.id])]
    BY <1>19 DEF Update
  <2> HIDE DEF r, new
  <2>8. \A i \in Ids : table'[i] = IF i = r.id THEN w ELSE table[i]
    BY <2>4, <2>7 DEF Types, Stores
  <2> HIDE DEF w, old
  <2> DEFINE W == {w}
  <2>9. /\ {table'[i] : i \in Ids} \subseteq Held \cup W \cup {NoRow}
        /\ {idUserMap'[i] : i \in Ids} \subseteq Held \cup W \cup {NoRow}
        /\ {uidUserMap'[u] : u \in Uids} \subseteq Held \cup W \cup {NoRow}
    BY <2>1, <2>8 DEF Held
  <2>10. \A v \in W : Fits(a, v) /\ Agree(a, table'[v.id], v)
    BY <2>3, <2>6, <2>8
  <2> HIDE DEF W
  <2>11. Held' \subseteq Held \cup W
    BY <1>1, <2>2, <2>9, OneHand
  <2>12. \A i \in Ids : table[i] # NoRow => Agree(a, table'[i], table[i])
    BY <1>2, <2>6, <2>8 DEF old
  <2>13. AnswersOnSide(a)'
    BY <2>1, <2>12, AnswersKept
  <2> QED  BY <2>10, <2>11, <2>12, <2>13, SidesKept
<1> QED  BY <1>6, <1>7, <1>9, <1>10, <1>11, <1>12, <1>13, <1>15, <1>16, <1>17, <1>18, <1>19 DEF Step

\* All rows are on a side, and all answers lead to it.
Sides == \A a \in Accounts : Unmistakable(a) => Sided(a)

\* Nothing that happens takes a row or an id to the other side.
LEMMA SidesHold == Spec => []Sides
<1>1. Init => Sides
  BY DEF Init, Sides, Sided, Held, Late, Idle, AnswersOnSide, AnswersWithin
<1>2. Types /\ Sides /\ [Next]_vars => Sides'
  <2> SUFFICES ASSUME Types, [Next]_vars, NEW a \in Accounts, Unmistakable(a), Sided(a) PROVE Sided(a)'
    BY DEF Sides
  <2>1. ASSUME UNCHANGED <<table, answers>>, Held' \subseteq Held PROVE Sided(a)'
    BY <2>1 DEF Sided, AnswersOnSide, AnswersWithin
  <2>2. ASSUME NEW b \in Accounts, Rename(b) PROVE Sided(a)'
    BY <2>1, <2>2 DEF Rename, Held, maps, past
  <2>3. CASE Restart
    BY <2>1, <2>3 DEF Restart, Held, Late, Idle
  <2>4. ASSUME NEW c \in Callers, Step(c) PROVE Sided(a)'
    BY <2>4, StepKeepsSides
  <2>5. CASE UNCHANGED vars
    BY <2>1, <2>5 DEF vars, Held, maps, past
  <2> QED  BY <2>2, <2>3, <2>4, <2>5 DEF Next
<1> QED  BY <1>1, <1>2, TypesHold, PTL DEF Spec

-----------------------------------------------------------------------------
\* Table, caches and calls have the shapes of the code's (GetID, GetByID and all they store).
THEOREM DirectoryTypeCorrect == Spec => []TypeOK
<1>1. Types => TypeOK
  <2>1. ASSUME CallsFit, NEW c \in Callers
        PROVE  call[c].at \in {"idle", "byUid", "byAttr", "byName", "create", "update",
                               "byId", "keepId", "keepUid", "answer"}
    <3>1. CallFits(call[c])
      BY <2>1 DEF CallsFit
    <3> QED  BY <3>1 DEF CallFits, IdCallFits, UidCallFits, IdCall, UidCall, Late, Idle
  <2> QED  BY <2>1 DEF Types, Stores, TypeOK
<1> QED  BY <1>1, TypesHold, PTL

\* An account that cannot be mistaken for another never shares an id (GetID and its caches).
THEOREM OwnIdHolds == Spec => []OwnId
<1>1. Sides => OwnId
  BY DEF Sides, Sided, AnswersOnSide, OwnId
<1> QED  BY <1>1, SidesHold, PTL

\* What is addressed to the id of such an account goes to a uid of that account (GetByID).
THEOREM ReachesOwnerHolds == Spec => []ReachesOwner
<1>1. Types /\ Sides => ReachesOwner
  <2> SUFFICES ASSUME Types, NEW a \in Accounts, NEW c \in Replying, Sided(a), AnswersWithin(a, call[c].id)
               PROVE  call[c].row.uid[1] = a
    BY DEF Sides, ReachesOwner
  <2>1. c \in Callers /\ call[c].at = "answer" /\ call[c].for = "uid" /\ CallFits(call[c])
    BY DEF Replying, At, Types, CallsFit
  <2>2. UidCallFits(call[c])
    BY <2>1 DEF CallFits, IdCallFits, IdCall, Idle
  <2>3. call[c].row \in Row /\ call[c].row.id = call[c].id /\ call[c].id \in Ids
    BY <2>1, <2>2 DEF UidCallFits, UidCall, Late
  <2>4. call[c].row \in Held
    BY <2>1, <2>3, NoRowIsNoRow DEF Held, Late
  <2> QED  BY <2>3, <2>4 DEF Sided, AnswersOnSide, Agree
<1> QED  BY <1>1, TypesHold, SidesHold, PTL

-----------------------------------------------------------------------------
(* The account keeps its rows. *)

\* The ids of the rows of an account.
RowsOf(a) == {i \in Ids : table[i] # NoRow /\ table[i].uid[1] = a}

\* The goroutine calls GetID for a.
For(c, a) == call[c].for = "id" /\ call[c].of = a

-----------------------------------------------------------------------------
(* What a step of a goroutine does to the rows of an account. *)

\* A row that GetID has in hand, and that has an id of a, is for a and of this login.
LEMMA OwnHand ==
    ASSUME NEW a \in Accounts, Types, Sided(a), NEW c \in Callers, call[c].at \in Late
    PROVE  /\ call[c].row \in Row /\ call[c].row \in Held
           /\ table[call[c].row.id] # NoRow
           /\ call[c].row.uid[1] = a <=> call[c].row.id \in RowsOf(a)
           /\ call[c].for = "id" => /\ call[c].row.uid = <<call[c].of, login>>
                                    /\ call[c].row.id \in RowsOf(a) <=> call[c].of = a
           /\ call[c].for = "uid" => call[c].row.id = call[c].id
<1> DEFINE k == call[c]
<1>1. k.row \in Row /\ (IdCallFits(k) \/ UidCallFits(k))
  BY KindOfCall DEF Types
<1>2. k.row \in Held /\ k.row.id \in Ids
  BY <1>1, NoRowIsNoRow DEF Held, Row
<1>3. Agree(a, table[k.row.id], k.row)
  BY <1>2 DEF Sided
<1>4. k.row.uid[1] = a <=> k.row.id \in RowsOf(a)
  BY <1>2, <1>3 DEF Agree, RowsOf
<1>5. k.for = "id" => k.row.uid = <<k.of, login>>
  BY <1>1 DEF IdCallFits, UidCallFits, UidCall
<1>6. k.for = "uid" => k.row.id = k.id
  BY <1>1 DEF IdCallFits, UidCallFits, IdCall
<1> QED  BY <1>1, <1>2, <1>3, <1>4, <1>5, <1>6 DEF Agree

\* A step leaves the table alone, or creates the row of the call, or rewrites one with its uid.
LEMMA TableMoves ==
    ASSUME NEW a \in Accounts, Types, Sided(a), NEW c \in Callers, Step(c)
    PROVE  \/ UNCHANGED table
           \/ /\ Create(c) /\ IdCallFits(call[c])
              /\ LET r == NewRow(call[c]) IN
                 /\ r \in Row /\ table[r.id] = NoRow /\ r.uid = <<call[c].of, login>> /\ r.id = IdOfUid[call[c].uid]
                 /\ \A i \in Ids : table'[i] = IF i = r.id THEN r ELSE table[i]
                 /\ call' = [call EXCEPT ![c].row = r, ![c].at = "keepId"]
           \/ /\ Update(c) /\ IdCallFits(call[c])
              /\ LET r == call[c].row IN
                 /\ \A i \in Ids : i # r.id => table'[i] = table[i]
                 /\ table'[r.id] # NoRow /\ table'[r.id].uid = r.uid
<1> DEFINE k == call[c]
<1>1. CASE Create(c) /\ table[NewRow(k).id] # NoRow
  BY <1>1 DEF Create
<1>2. CASE Create(c) /\ table[NewRow(k).id] = NoRow
  <2> DEFINE r == NewRow(k)
  <2>1. IdCallFits(k)
    BY <1>2, KindOfCall DEF Create, At, Types
  <2>2. r \in Row /\ r.uid = <<k.of, login>> /\ r.id = IdOfUid[k.uid]
    BY <2>1, NewRowFits DEF NewRow, IdCallFits
  <2>3. table' = [table EXCEPT ![r.id] = r] /\ call' = [call EXCEPT ![c].row = r, ![c].at = "keepId"]
    BY <1>2 DEF Create
  <2> HIDE DEF r
  <2>4. \A i \in Ids : table'[i] = IF i = r.id THEN r ELSE table[i]
    BY <2>2, <2>3 DEF Types, Stores
  <2> QED  BY <1>2, <2>1, <2>2, <2>3, <2>4 DEF r
<1>3. CASE Update(c)
  <2> DEFINE r == k.row
             w == Rewritten(r, table[r.id])
  <2>1. IdCallFits(k) /\ k.at \in Late
    BY <1>3, KindOfCall DEF Update, At, Types, Late
  <2>2. r \in Row /\ r.id \in Ids /\ table[r.id] \in Row
    <3>1. r \in Row /\ table[r.id] # NoRow
      BY <2>1, OwnHand
    <3> QED  BY <3>1 DEF Types, Stores, Row
  <2>3. w \in Row /\ w.uid = r.uid /\ w # NoRow
    BY <2>2, NoRowIsNoRow DEF Rewritten, Written, Row
  <2>4. table' = [table EXCEPT ![r.id] = w]
    BY <1>3, <2>2, NoRowIsNoRow DEF Update
  <2> HIDE DEF r, w
  <2>5. \A i \in Ids : table'[i] = IF i = r.id THEN w ELSE table[i]
    BY <2>4 DEF Types, Stores
  <2> QED  BY <1>3, <2>1, <2>2, <2>3, <2>5 DEF r
<1> QED  BY <1>1, <1>2, <1>3
         DEF Step, GetID, GetByID, QueryUid, QueryAttr, QueryName, QueryFails, UpdateFails, QueryId, QueryIdFails,
             KeepId, KeepUid, Answer, maps

\* A step never takes a row from its account, nor the uid of this login from a row, and gives
\* an account at most the row that it creates for it.
LEMMA RowsKept ==
    ASSUME NEW a \in Accounts, Types, Sided(a), NEW c \in Callers, Step(c)
    PROVE  /\ RowsOf(a) \subseteq RowsOf(a)'
           /\ \A i \in RowsOf(a) : table[i].uid = <<a, login>> => table'[i].uid = <<a, login>>
           /\ \/ RowsOf(a)' = RowsOf(a)
              \/ /\ Create(c) /\ IdCallFits(call[c]) /\ call[c].of = a /\ NewRow(call[c]).id = IdOfUid[call[c].uid]
                 /\ table[NewRow(call[c]).id] = NoRow
                 /\ RowsOf(a)' = RowsOf(a) \cup {NewRow(call[c]).id}
                 /\ call' = [call EXCEPT ![c].row = NewRow(call[c]), ![c].at = "keepId"]
<1> DEFINE k == call[c]
<1>1. CASE UNCHANGED table
  BY <1>1 DEF RowsOf
<1>2. CASE /\ Create(c) /\ IdCallFits(k)
           /\ LET r == NewRow(k) IN
              /\ r \in Row /\ table[r.id] = NoRow /\ r.uid = <<k.of, login>> /\ r.id = IdOfUid[k.uid]
              /\ \A i \in Ids : table'[i] = IF i = r.id THEN r ELSE table[i]
              /\ call' = [call EXCEPT ![c].row = r, ![c].at = "keepId"]
  <2> DEFINE r == NewRow(k)
  <2>1. r.id \in Ids /\ r # NoRow /\ r.uid[1] = k.of
    BY <1>2, NoRowIsNoRow DEF Row
  <2> HIDE DEF r
  <2>2. RowsOf(a)' = IF k.of = a THEN RowsOf(a) \cup {r.id} ELSE RowsOf(a)
    BY <1>2, <2>1 DEF RowsOf, r
  <2>3. \A i \in RowsOf(a) : table'[i] = table[i]
    BY <1>2 DEF RowsOf
  <2> QED  BY <1>2, <2>2, <2>3 DEF r
<1>3. CASE /\ Update(c) /\ IdCallFits(k)
           /\ LET r == k.row IN
              /\ \A i \in Ids : i # r.id => table'[i] = table[i]
              /\ table'[r.id] # NoRow /\ table'[r.id].uid = r.uid
  <2>1. k.at \in Late /\ k.for = "id"
    BY <1>3 DEF Update, At, Late, IdCallFits, IdCall
  <2>2. k.row.id \in RowsOf(a) <=> table'[k.row.id].uid[1] = a
    BY <1>3, <2>1, OwnHand
  <2>3. k.row.id \in RowsOf(a) => table'[k.row.id].uid = <<a, login>>
    BY <1>3, <2>1, OwnHand
  <2> QED  BY <1>3, <2>2, <2>3 DEF RowsOf
<1> QED  BY <1>1, <1>2, <1>3, TableMoves

-----------------------------------------------------------------------------
(* The id lasts. *)

\* The account has one row at most, and whoever is about to create one makes no second.
OneRow(a) ==
    /\ \A i, j \in RowsOf(a) : i = j
    /\ \A c \in Callers : At(c, "create") /\ For(c, a) => RowsOf(a) \subseteq {IdOfUid[call[c].uid]}

\* A goroutine that goes on to create a row for a steady account has seen that there is none.
LEMMA LookedInVain ==
    ASSUME NEW a \in Accounts, Unmistakable(a), Steady(a), Types, Sided(a), NEW c \in Callers, Step(c),
           call'[c].at = "create", call'[c].for = "id", call'[c].of = a
    PROVE  RowsOf(a) = {}
<1> DEFINE k == call[c]
<1>0. ASSUME NEW new, call' = [call EXCEPT ![c] = new] PROVE call'[c] = new
  BY <1>0 DEF Types, CallsFit
<1>1. \A i \in RowsOf(a) : /\ table[i] \in Rows /\ table[i].name \in NamesOf[a] /\ table[i].attr \in AttrsOf[a]
                           /\ table[i].group = (a \in GroupNames)
  <2> SUFFICES ASSUME NEW i \in RowsOf(a)
               PROVE  /\ table[i] \in Rows /\ table[i].name \in NamesOf[a] /\ table[i].attr \in AttrsOf[a]
                      /\ table[i].group = (a \in GroupNames)
    OBVIOUS
  <2>1. i \in Ids /\ table[i] # NoRow /\ table[i].uid[1] = a
    BY DEF RowsOf
  <2>2. Fits(a, table[i])
    BY <2>1 DEF Sided, Held
  <2> QED  BY <2>1, <2>2 DEF Fits, Rows
<1>2. \/ /\ QueryAttr(c) /\ k.of \notin GroupNames /\ ByNameAndAttr(k) = {}
         /\ call' = [call EXCEPT ![c].at = "create"]
      \/ QueryName(c) /\ Groups(k) = {} /\ call' = [call EXCEPT ![c].at = "create"]
  <2>1. ASSUME NEW r, NEW q, IdCallFits(q), r \in Row, call' = [call EXCEPT ![c] = Compared(q, r)] PROVE FALSE
    <3>1. Compared(q, r).at \in {"answer", "update"}
      BY <2>1, ComparedFits
    <3> QED  BY <1>0, <2>1, <3>1
  <2>2. Rows \subseteq Row
    BY DEF Rows, Types, Stores
  <2>3. ASSUME NEW new, new.at # "create", call' = [call EXCEPT ![c] = new] PROVE FALSE
    BY <1>0, <2>3
  <2>4. ASSUME NEW label, label # "create", CallFits(k), call' = [call EXCEPT ![c].at = label] PROVE FALSE
    <3> DEFINE new == [k EXCEPT !.at = label]
    <3>1. new.at = label
      BY <2>4 DEF CallFits, Idle, IdCallFits, UidCallFits, IdCall, UidCall
    <3>2. call' = [call EXCEPT ![c] = new]
      BY <2>4
    <3> HIDE DEF new
    <3> QED  BY <2>3, <2>4, <3>1, <3>2
  <2>5. CallFits(k) /\ Idle.at # "create"
    BY DEF Types, CallsFit, Idle
  <2>6. ASSUME NEW b \in Accounts, GetID(c, b) PROVE FALSE
    <3> DEFINE asked == [at |-> "byUid", for |-> "id", of |-> b, uid |-> <<b, login>>, name |-> name[b],
                         attr |-> attr[b], row |-> NoRow]
               cached == uidUserMap[asked.uid]
    <3>1. IdCallFits(asked) /\ asked.at # "create" /\ cached \in Row \cup {NoRow}
      BY DEF Types, Stores, IdCallFits, IdCall, Late, Uids
    <3>2. call' = [call EXCEPT ![c] = IF cached = NoRow THEN asked ELSE Compared(asked, cached)]
      BY <2>6 DEF GetID
    <3> HIDE DEF asked, cached
    <3> QED  BY <2>1, <2>3, <3>1, <3>2
  <2>7. ASSUME NEW i \in Ids, GetByID(c, i) PROVE FALSE
    BY <1>0, <2>7 DEF GetByID
  <2>8. ASSUME QueryUid(c) PROVE FALSE
    <3>1. IdCallFits(k)
      BY <2>8, KindOfCall DEF QueryUid, At, Types
    <3>2. call' = [call EXCEPT ![c].at = "byAttr"] \/ \E r \in Row : call' = [call EXCEPT ![c] = Compared(k, r)]
      BY <2>2, <2>8 DEF QueryUid, Query, Goto
    <3> QED  BY <2>1, <2>4, <2>5, <3>1, <3>2
  <2>9. CASE QueryAttr(c)
    <3>1. IdCallFits(k)
      BY <2>9, KindOfCall DEF QueryAttr, At, Types
    <3>2. \/ /\ ByNameAndAttr(k) = {}
             /\ call' = [call EXCEPT ![c].at = IF k.of \in GroupNames THEN "byName" ELSE "create"]
          \/ \E r \in Row : call' = [call EXCEPT ![c] = Compared(k, r)]
      BY <2>2, <2>9 DEF QueryAttr, Query, Goto, ByNameAndAttr
    <3> QED  BY <2>1, <2>4, <2>5, <2>9, <3>1, <3>2
  <2>10. CASE QueryName(c)
    <3>1. IdCallFits(k)
      BY <2>10, KindOfCall DEF QueryName, At, Types
    <3>2. \/ Groups(k) = {} /\ call' = [call EXCEPT ![c].at = "create"]
          \/ \E r \in Row : call' = [call EXCEPT ![c] = Compared(k, r)]
      BY <2>2, <2>10 DEF QueryName, Query, Goto, Groups
    <3> QED  BY <2>1, <2>10, <3>1, <3>2
  <2>11. ASSUME QueryFails(c) \/ QueryIdFails(c) \/ Answer(c) PROVE FALSE
    BY <2>3, <2>5, <2>11 DEF QueryFails, QueryIdFails, Answer, Return
  <2>12. ASSUME Create(c) PROVE FALSE
    <3>1. IdCallFits(k)
      BY <2>12, KindOfCall DEF Create, At, Types
    <3>2. [k EXCEPT !.row = NewRow(k), !.at = "keepId"].at = "keepId"
      BY <3>1 DEF IdCallFits, IdCall
    <3>3. call' = [call EXCEPT ![c] = [k EXCEPT !.row = NewRow(k), !.at = "keepId"]] \/ call' = [call EXCEPT ![c] = Idle]
      BY <2>12 DEF Create, Return
    <3> QED  BY <2>3, <2>5, <3>2, <3>3
  <2>13. ASSUME Update(c) \/ UpdateFails(c) \/ KeepId(c) \/ KeepUid(c) PROVE FALSE
    BY <2>4, <2>5, <2>13 DEF Update, UpdateFails, KeepId, KeepUid, Goto
  <2>14. ASSUME QueryId(c) PROVE FALSE
    <3>1. UidCallFits(k)
      BY <2>14, KindOfCall DEF QueryId, At, Types
    <3>2. [k EXCEPT !.row = table[k.id], !.at = "keepId"].at = "keepId"
      BY <3>1 DEF UidCallFits, UidCall
    <3>3. \/ call' = [call EXCEPT ![c] = [k EXCEPT !.row = table[k.id], !.at = "keepId"]]
          \/ call' = [call EXCEPT ![c] = Idle]
      BY <2>14 DEF QueryId, Return
    <3> QED  BY <2>3, <2>5, <3>2, <3>3
  <2> QED  BY <2>6, <2>7, <2>8, <2>9, <2>10, <2>11, <2>12, <2>13, <2>14 DEF Step
<1>3. IdCallFits(k) /\ k.of = a
  <2>1. IdCallFits(k)
    BY <1>2, KindOfCall DEF QueryAttr, QueryName, At, Types
  <2>2. call'[c] = [k EXCEPT !.at = "create"]
    BY <1>0, <1>2
  <2> QED  BY <2>1, <2>2 DEF IdCallFits, IdCall
<1>4. \A i \in RowsOf(a) : table[i].name = k.name
  BY <1>1, <1>3 DEF Steady, IdCallFits
<1>5. CASE QueryAttr(c) /\ a \notin GroupNames /\ ByNameAndAttr(k) = {}
  BY <1>1, <1>3, <1>4, <1>5 DEF Steady, IdCallFits, ByNameAndAttr
<1>6. CASE QueryName(c) /\ Groups(k) = {}
  <2>1. a \in GroupNames
    BY <1>3, <1>6 DEF QueryName, At, IdCallFits
  <2> QED  BY <1>1, <1>4, <1>6, <2>1 DEF Groups
<1> QED  BY <1>2, <1>3, <1>5, <1>6

OneRowEach == \A a \in Accounts : Unmistakable(a) /\ Steady(a) => OneRow(a)

\* A steady account never gets a second row.
LEMMA OneRowHolds == Spec => []OneRowEach
<1>1. Init => OneRowEach
  BY DEF Init, OneRowEach, OneRow, RowsOf, At, Idle
<1>2. Types /\ Sides /\ OneRowEach /\ [Next]_vars => OneRowEach'
  <2> SUFFICES ASSUME Types, [Next]_vars, NEW a \in Accounts, Unmistakable(a), Steady(a), Sided(a), OneRow(a)
               PROVE  OneRow(a)'
    BY DEF Sides, OneRowEach
  <2>1. ASSUME NEW b \in Accounts, Rename(b) PROVE OneRow(a)'
    BY <2>1 DEF Rename, OneRow, RowsOf, At, For
  <2>2. CASE Restart
    BY <2>2 DEF Restart, OneRow, RowsOf, At, For, Idle
  <2>3. ASSUME NEW c \in Callers, Step(c) PROVE OneRow(a)'
    <3> DEFINE k == call[c]
    <3>1. \A e \in Callers \ {c} : call'[e] = call[e]
      <4>1. \E new : call' = [call EXCEPT ![c] = new]
        BY <2>3 DEF Step, GetID, GetByID, QueryUid, QueryAttr, QueryName, QueryFails, Create, Update, UpdateFails,
                    QueryId, QueryIdFails, KeepId, KeepUid, Answer, Query, Goto, Return
      <4> QED  BY <4>1 DEF Types, CallsFit
    <3>2. CASE RowsOf(a)' = RowsOf(a)
      <4>1. ASSUME NEW e \in Callers, call'[e].at = "create", call'[e].for = "id", call'[e].of = a
            PROVE  RowsOf(a) \subseteq {IdOfUid[call'[e].uid]}
        <5>1. CASE e = c
          BY <2>3, <4>1, <5>1, LookedInVain
        <5>2. CASE e # c
          BY <3>1, <4>1, <5>2 DEF OneRow, At, For
        <5> QED  BY <5>1, <5>2
      <4> QED  BY <3>2, <4>1 DEF OneRow, At, For
    <3>3. CASE /\ Create(c) /\ IdCallFits(k) /\ k.of = a /\ NewRow(k).id = IdOfUid[k.uid]
               /\ table[NewRow(k).id] = NoRow
               /\ RowsOf(a)' = RowsOf(a) \cup {NewRow(k).id}
               /\ call' = [call EXCEPT ![c].row = NewRow(k), ![c].at = "keepId"]
      <4>1. RowsOf(a) = {}
        <5>1. RowsOf(a) \subseteq {NewRow(k).id}
          BY <3>3 DEF OneRow, Create, For, IdCallFits, IdCall
        <5> QED  BY <3>3, <5>1 DEF RowsOf
      <4>2. call'[c].at = "keepId"
        <5> DEFINE new == [k EXCEPT !.row = NewRow(k), !.at = "keepId"]
        <5>1. new.at = "keepId"
          BY <3>3 DEF IdCallFits, IdCall
        <5>2. call' = [call EXCEPT ![c] = new]
          BY <3>3
        <5> HIDE DEF new
        <5> QED  BY <5>1, <5>2 DEF Types, CallsFit
      <4>3. ASSUME NEW e \in Callers, call'[e].at = "create", call'[e].for = "id", call'[e].of = a
            PROVE  IdOfUid[call'[e].uid] = NewRow(k).id
        <5>1. call[e] = call'[e] /\ IdCallFits(call[e])
          BY <3>1, <4>2, <4>3, KindOfCall DEF Types
        <5>2. call[e].uid = k.uid
          BY <3>3, <4>3, <5>1 DEF IdCallFits
        <5> QED  BY <3>3, <5>1, <5>2
      <4> QED  BY <3>3, <4>1, <4>3 DEF OneRow, At, For
    <3> QED  BY <2>3, <3>2, <3>3, RowsKept
  <2>4. CASE UNCHANGED vars
    BY <2>4 DEF vars, OneRow, RowsOf, At, For
  <2> QED  BY <2>1, <2>2, <2>3, <2>4 DEF Next
<1> QED  BY <1>1, <1>2, TypesHold, SidesHold, PTL DEF Spec

\* An account that cannot be mistaken, and keeps what GetID looks for, is always answered the same id.
THEOREM SteadyIdHolds == Spec => []SteadyId
<1>1. Sides /\ OneRowEach => SteadyId
  BY DEF Sides, OneRowEach, Sided, AnswersOnSide, OneRow, RowsOf, SteadyId
<1> QED  BY <1>1, SidesHold, OneRowHolds, PTL

-----------------------------------------------------------------------------
(* The uid lasts. *)

\* A goroutine of GetID is about to store a row of the id.
Storing(i) == \E e \in Callers : At(e, "keepId") /\ call[e].for = "id" /\ call[e].row.id = i

\* A lookup is about to store a row of the id with another uid, or to read one.
Stale(a, i) ==
    \E e \in Callers :
        \/ At(e, "byId") /\ call[e].id = i /\ table[i].uid # <<a, login>>
        \/ At(e, "keepId") /\ call[e].for = "uid" /\ call[e].id = i /\ call[e].row.uid # <<a, login>>

\* GetID takes, or has taken, the id for that of a in this login.
Known(a, i) ==
    \/ table[i].uid = <<a, login>>
    \/ idUserMap[i] # NoRow /\ idUserMap[i].uid = <<a, login>>
    \/ uidUserMap[<<a, login>>] # NoRow /\ uidUserMap[<<a, login>>].id = i
    \/ <<a, login, i>> \in answers
    \/ \E e \in Callers : call[e].at \in {"keepUid", "answer"} /\ For(e, a) /\ call[e].row.id = i

\* GetByID and GetName come from the id to the uid of this login.
Leads(a, i) == IF idUserMap[i] = NoRow THEN table[i].uid = <<a, login>> ELSE idUserMap[i].uid = <<a, login>>

\* They do for every id that is known, unless it is lost, or about to be stored.
KnownLeads(a) ==
    \A i \in RowsOf(a) : Known(a, i) /\ i \notin lost /\ ~Storing(i) => Leads(a, i) /\ ~Stale(a, i)

\* A lookup has the uid of this login from the table only.
ReadFromTable(a) ==
    \A e \in Callers : call[e].at \in {"keepId", "keepUid"} /\ call[e].for = "uid" /\ call[e].row.uid = <<a, login>> =>
        table[call[e].id].uid = <<a, login>>

\* A lookup that began when GetID had answered has the uid of this login, or will read it.
SettledLeads(a) ==
    \A e \in Callers : call[e].at # "idle" /\ call[e].for = "uid" /\ call[e].settled =>
        /\ \E b \in Accounts : <<b, login, call[e].id>> \in answers
        /\ <<a, login, call[e].id>> \in answers /\ call[e].id \notin lost =>
             /\ At(e, "byId") => table[call[e].id].uid = <<a, login>>
             /\ call[e].at \in Late => call[e].row.uid = <<a, login>>

Lasting(a) == KnownLeads(a) /\ ReadFromTable(a) /\ SettledLeads(a)

\* What may be said of the call that a goroutine comes to.
MayKnow(a, k) ==
    \A i \in RowsOf(a) : k.at \in {"keepUid", "answer"} /\ k.for = "id" /\ k.of = a /\ k.row.id = i => Known(a, i)
MayRead(a, k) ==
    \A i \in RowsOf(a) : Leads(a, i) /\ ~Stale(a, i) =>
        /\ k.at = "byId" /\ k.id = i => table[i].uid = <<a, login>>
        /\ k.at = "keepId" /\ k.for = "uid" /\ k.id = i => k.row.uid = <<a, login>>
HasRead(a, k) ==
    k.at \in {"keepId", "keepUid"} /\ k.for = "uid" /\ k.row.uid = <<a, login>> => table[k.id].uid = <<a, login>>
WellSettled(a, k) ==
    k.at # "idle" /\ k.for = "uid" /\ k.settled =>
        /\ \E b \in Accounts : <<b, login, k.id>> \in answers
        /\ <<a, login, k.id>> \in answers /\ k.id \notin lost =>
             /\ k.at = "byId" => table[k.id].uid = <<a, login>>
             /\ k.at \in Late => k.row.uid = <<a, login>>

\* The row of an id that GetID has answered for a is a row of a.
LEMMA AnsweredRow ==
    ASSUME NEW a \in Accounts, Types, Sided(a), NEW b \in Accounts, NEW i, <<b, login, i>> \in answers
    PROVE  i \in Ids /\ (i \in RowsOf(a) <=> b = a)
<1>1. i \in Ids /\ AnswersWithin(b, i)
  BY DEF Types, Stores, AnswersWithin
<1> QED  BY <1>1 DEF Sided, AnswersOnSide, RowsOf

\* A step that touches neither caches nor history, and rewrites no row of a but that it goes on to store.
LEMMA CallMoves ==
    ASSUME NEW a \in Accounts, Types, Sided(a), Lasting(a), NEW c \in Callers, NEW new,
           call' = [call EXCEPT ![c] = new], UNCHANGED <<login, maps, answers, lost>>,
           ~(At(c, "keepId") /\ call[c].for = "id"),
           \A i \in RowsOf(a)' :
              \/ new.at = "keepId" /\ new.for = "id" /\ new.row.id = i
              \/ i \in RowsOf(a) /\ (table'[i].uid = <<a, login>> <=> table[i].uid = <<a, login>>),
           \A i \in RowsOf(a) : table[i].uid = <<a, login>> => table'[i].uid = <<a, login>>,
           MayKnow(a, new), MayRead(a, new),
           new.for = "id" \/ (UNCHANGED table /\ HasRead(a, new) /\ WellSettled(a, new))
    PROVE  Lasting(a)'
<1>0. \A e \in Callers : call'[e] = IF e = c THEN new ELSE call[e]
  BY DEF Types, CallsFit
<1>1. KnownLeads(a)'
  <2> SUFFICES ASSUME NEW i \in RowsOf(a)', Known(a, i)', i \notin lost, ~Storing(i)'
               PROVE  Leads(a, i)' /\ ~Stale(a, i)'
    BY DEF KnownLeads
  <2>1. i \in RowsOf(a) /\ (table'[i].uid = <<a, login>> <=> table[i].uid = <<a, login>>)
    BY <1>0 DEF Storing, At
  <2>2. ~Storing(i)
    <3> SUFFICES ASSUME NEW e \in Callers, At(e, "keepId"), call[e].for = "id", call[e].row.id = i PROVE FALSE
      BY DEF Storing
    <3>1. e # c
      OBVIOUS
    <3> QED  BY <1>0, <3>1 DEF Storing, At
  <2>3. Known(a, i)
    <3>1. ASSUME NEW e \in Callers, call'[e].at \in {"keepUid", "answer"}, For(e, a)', call'[e].row.id = i
          PROVE  Known(a, i)
      <4>1. CASE e = c
        BY <1>0, <2>1, <3>1, <4>1 DEF MayKnow, For
      <4>2. CASE e # c
        BY <1>0, <3>1, <4>2 DEF Known, For
      <4> QED  BY <4>1, <4>2
    <3> QED  BY <2>1, <3>1 DEF Known, maps
  <2>4. Leads(a, i) /\ ~Stale(a, i)
    BY <2>1, <2>2, <2>3 DEF Lasting, KnownLeads
  <2>5. Leads(a, i)'
    BY <2>1, <2>4 DEF Leads, maps
  <2>6. ASSUME NEW e \in Callers,
               \/ call'[e].at = "byId" /\ call'[e].id = i /\ table[i].uid # <<a, login>>
               \/ call'[e].at = "keepId" /\ call'[e].for = "uid" /\ call'[e].id = i /\ call'[e].row.uid # <<a, login>>
        PROVE  FALSE
    <3>1. CASE e = c
      BY <1>0, <2>1, <2>4, <2>6, <3>1 DEF MayRead
    <3>2. CASE e # c
      BY <1>0, <2>4, <2>6, <3>2 DEF Stale, At
    <3> QED  BY <3>1, <3>2
  <2> QED  BY <2>1, <2>5, <2>6 DEF Stale, At
<1>2. ReadFromTable(a)'
  <2> SUFFICES ASSUME NEW e \in Callers, call'[e].at \in {"keepId", "keepUid"}, call'[e].for = "uid",
                      call'[e].row.uid = <<a, login>>
               PROVE  table'[call'[e].id].uid = <<a, login>>
    BY DEF ReadFromTable
  <2>1. CASE e = c
    BY <1>0, <2>1 DEF HasRead
  <2>2. CASE e # c
    <3>1. call'[e] = call[e] /\ call[e].at \in Late
      BY <1>0, <2>2 DEF Late
    <3>2. call[e].id \in RowsOf(a)
      BY <3>1, OwnHand
    <3>3. table[call[e].id].uid = <<a, login>>
      BY <3>1 DEF Lasting, ReadFromTable
    <3> QED  BY <3>1, <3>2, <3>3
  <2> QED  BY <2>1, <2>2
<1>3. SettledLeads(a)'
  <2> SUFFICES ASSUME NEW e \in Callers, call'[e].at # "idle", call'[e].for = "uid", call'[e].settled
               PROVE  /\ \E b \in Accounts : <<b, login, call'[e].id>> \in answers
                      /\ <<a, login, call'[e].id>> \in answers /\ call'[e].id \notin lost =>
                           /\ call'[e].at = "byId" => table'[call'[e].id].uid = <<a, login>>
                           /\ call'[e].at \in Late => call'[e].row.uid = <<a, login>>
    BY DEF SettledLeads, At
  <2>1. CASE e = c
    BY <1>0, <2>1 DEF WellSettled
  <2>2. CASE e # c
    <3>1. call'[e] = call[e]
      BY <1>0, <2>2
    <3>2. <<a, login, call[e].id>> \in answers => call[e].id \in RowsOf(a)
      BY AnsweredRow
    <3> QED  BY <3>1, <3>2 DEF Lasting, SettledLeads, At
  <2> QED  BY <2>1, <2>2
<1> QED  BY <1>1, <1>2, <1>3 DEF Lasting

\* KeepId puts what GetID has found in place, or remembers that a lookup was overtaken.
LEMMA KeepIdLasts ==
    ASSUME NEW a \in Accounts, Types, Sided(a), Lasting(a), NEW c \in Callers, KeepId(c)
    PROVE  Lasting(a)'
<1> DEFINE k == call[c]
           r == k.row
           new == [k EXCEPT !.at = "keepUid"]
<1> USE DEF wechat, maps, past
<1>0. /\ k.at = "keepId" /\ k.at \in Late /\ call' = [call EXCEPT ![c] = new]
      /\ UNCHANGED <<login, table, uidUserMap, answers>> /\ lost \subseteq lost'
  BY DEF KeepId, At, Goto, Late
<1>1. IdCallFits(k) \/ UidCallFits(k)
  BY <1>0, KindOfCall DEF Types
<1>2. /\ new.at = "keepUid" /\ new.for = k.for /\ new.row = k.row
      /\ k.for = "id" => new.of = k.of
      /\ k.for = "uid" => new.id = k.id /\ new.settled = k.settled
      /\ k.for \in {"id", "uid"}
  BY <1>1 DEF IdCallFits, UidCallFits, IdCall, UidCall
<1>3. \A e \in Callers : call'[e] = IF e = c THEN new ELSE call[e]
  BY <1>0 DEF Types, CallsFit
<1>4. /\ r \in Row /\ r.id \in Ids /\ r # NoRow /\ (r.uid[1] = a <=> r.id \in RowsOf(a))
      /\ k.for = "id" => r.uid = <<k.of, login>> /\ (r.id \in RowsOf(a) <=> k.of = a)
      /\ k.for = "uid" => r.id = k.id
  BY <1>0, OwnHand, NoRowIsNoRow DEF Row
<1>5. \A i \in Ids : idUserMap'[i] = IF i = r.id THEN r ELSE idUserMap[i]
  BY <1>4 DEF KeepId, Types, Stores
<1> HIDE DEF new
<1>6. KnownLeads(a)'
  <2>0. RowsOf(a)' = RowsOf(a)
    BY <1>0 DEF RowsOf
  <2> SUFFICES ASSUME NEW i \in RowsOf(a), Known(a, i)', i \notin lost', ~Storing(i)'
               PROVE  Leads(a, i)' /\ ~Stale(a, i)'
    BY <2>0 DEF KnownLeads
  <2>1. i \in Ids /\ i \notin lost
    BY <1>0 DEF RowsOf
  <2>2. CASE k.for = "id" /\ i = r.id
    <3>1. r.uid = <<a, login>> /\ ~Overtaken(c, r)
      BY <1>4, <2>1, <2>2 DEF KeepId
    <3>2. Leads(a, i)'
      BY <1>0, <1>4, <1>5, <2>1, <2>2, <3>1 DEF Leads
    <3>3. ASSUME Stale(a, i)' PROVE FALSE
      <4>1. PICK e \in Callers :
              \/ call'[e].at = "byId" /\ call'[e].id = i /\ table[i].uid # <<a, login>>
              \/ call'[e].at = "keepId" /\ call'[e].for = "uid" /\ call'[e].id = i /\ call'[e].row.uid # <<a, login>>
        BY <1>0, <3>3 DEF Stale, At
      <4>2. e # c
        BY <1>2, <1>3, <4>1
      <4>3. call'[e] = call[e]
        BY <1>3, <4>2
      <4> QED  BY <2>2, <3>1, <4>1, <4>3 DEF Overtaken, At
    <3> QED  BY <3>2, <3>3
  <2>3. CASE ~(k.for = "id" /\ i = r.id)
    <3>1. ~Storing(i)
      <4> SUFFICES ASSUME NEW e \in Callers, At(e, "keepId"), call[e].for = "id", call[e].row.id = i PROVE FALSE
        BY DEF Storing
      <4>1. e # c
        BY <2>3
      <4> QED  BY <1>3, <4>1 DEF Storing, At
    <3>2. Known(a, i)
      <4>1. ASSUME NEW e \in Callers, call'[e].at \in {"keepUid", "answer"}, For(e, a)', call'[e].row.id = i
            PROVE  Known(a, i)
        <5>1. e # c
          BY <1>2, <1>3, <2>3, <4>1 DEF For
        <5> QED  BY <1>3, <4>1, <5>1 DEF Known, For
      <4>2. ASSUME idUserMap'[i] # idUserMap[i], idUserMap'[i].uid = <<a, login>> PROVE Known(a, i)
        <5>1. i = r.id /\ k.for = "uid" /\ r.uid = <<a, login>>
          BY <1>2, <1>5, <2>1, <2>3, <4>2
        <5>2. table[k.id].uid = <<a, login>>
          BY <1>0, <5>1 DEF Lasting, ReadFromTable
        <5> QED  BY <1>4, <5>1, <5>2 DEF Known
      <4> QED  BY <1>0, <4>1, <4>2 DEF Known
    <3>3. Leads(a, i) /\ ~Stale(a, i)
      BY <2>1, <3>1, <3>2 DEF Lasting, KnownLeads
    <3>4. Leads(a, i)'
      <4>1. CASE i = r.id
        <5>1. k.for = "uid" /\ k.id = i
          BY <1>2, <1>4, <2>3, <4>1
        <5>2. r.uid = <<a, login>>
          BY <1>0, <3>3, <5>1 DEF Stale, At
        <5> QED  BY <1>0, <1>4, <1>5, <2>1, <4>1, <5>2 DEF Leads
      <4>2. CASE i # r.id
        BY <1>0, <1>5, <2>1, <3>3, <4>2 DEF Leads
      <4> QED  BY <4>1, <4>2
    <3>5. ASSUME Stale(a, i)' PROVE FALSE
      <4>1. PICK e \in Callers :
              \/ call'[e].at = "byId" /\ call'[e].id = i /\ table[i].uid # <<a, login>>
              \/ call'[e].at = "keepId" /\ call'[e].for = "uid" /\ call'[e].id = i /\ call'[e].row.uid # <<a, login>>
        BY <1>0, <3>5 DEF Stale, At
      <4>2. e # c
        BY <1>2, <1>3, <4>1
      <4>3. call'[e] = call[e]
        BY <1>3, <4>2
      <4> QED  BY <3>3, <4>1, <4>3 DEF Stale, At
    <3> QED  BY <3>4, <3>5
  <2> QED  BY <2>2, <2>3
<1>7. ReadFromTable(a)'
  <2> SUFFICES ASSUME NEW e \in Callers, call'[e].at \in {"keepId", "keepUid"}, call'[e].for = "uid",
                      call'[e].row.uid = <<a, login>>
               PROVE  table[call'[e].id].uid = <<a, login>>
    BY <1>0 DEF ReadFromTable
  <2>1. call[e].at \in {"keepId", "keepUid"} /\ call[e].for = "uid" /\ call[e].row = call'[e].row /\ call[e].id = call'[e].id
    BY <1>0, <1>2, <1>3
  <2> QED  BY <2>1 DEF Lasting, ReadFromTable
<1>8. SettledLeads(a)'
  <2> SUFFICES ASSUME NEW e \in Callers, call'[e].at # "idle", call'[e].for = "uid", call'[e].settled
               PROVE  /\ \E b \in Accounts : <<b, login, call'[e].id>> \in answers
                      /\ <<a, login, call'[e].id>> \in answers /\ call'[e].id \notin lost' =>
                           /\ call'[e].at = "byId" => table[call'[e].id].uid = <<a, login>>
                           /\ call'[e].at \in Late => call'[e].row.uid = <<a, login>>
    BY <1>0 DEF SettledLeads, At
  <2>1. /\ call[e].at # "idle" /\ call[e].for = "uid" /\ call[e].settled /\ call[e].id = call'[e].id
        /\ call'[e].at = "byId" => call[e].at = "byId"
        /\ call'[e].at \in Late => call[e].at \in Late /\ call[e].row = call'[e].row
    BY <1>0, <1>2, <1>3
  <2> QED  BY <1>0, <2>1 DEF Lasting, SettledLeads, At
<1> QED  BY <1>6, <1>7, <1>8 DEF Lasting

\* A goroutine that goes on without touching table and caches, and comes to no new lookup.
LEMMA MovesOn ==
    ASSUME NEW a \in Accounts, Types, Sided(a), Lasting(a), NEW c \in Callers, NEW new,
           call' = [call EXCEPT ![c] = new], UNCHANGED <<login, table, idUserMap, lost>>, call[c].at # "keepId",
           answers \subseteq answers',
           \A e \in Callers, b \in Accounts :
              <<b, login, call[e].id>> \in answers /\ <<a, login, call[e].id>> \in answers' =>
                 <<a, login, call[e].id>> \in answers,
           \A i \in RowsOf(a) : Known(a, i)' => Known(a, i),
           new.at \notin {"byId", "keepId"},
           new.at # "idle" /\ new.for = "uid" =>
              /\ new.at \in Late /\ call[c].at \in Late /\ call[c].for = "uid"
              /\ new.id = call[c].id /\ new.row = call[c].row /\ new.settled = call[c].settled
              /\ new.at = "keepUid" => call[c].at = "keepUid"
    PROVE  Lasting(a)'
<1>0. \A e \in Callers : call'[e] = IF e = c THEN new ELSE call[e]
  BY DEF Types, CallsFit
<1>1. KnownLeads(a)'
  <2>0. RowsOf(a)' = RowsOf(a)
    BY DEF RowsOf
  <2> SUFFICES ASSUME NEW i \in RowsOf(a), Known(a, i)', i \notin lost, ~Storing(i)'
               PROVE  Leads(a, i)' /\ ~Stale(a, i)'
    BY <2>0 DEF KnownLeads
  <2>1. ~Storing(i)
    <3> SUFFICES ASSUME NEW e \in Callers, At(e, "keepId"), call[e].for = "id", call[e].row.id = i PROVE FALSE
      BY DEF Storing
    <3>1. e # c
      BY DEF At
    <3> QED  BY <1>0, <3>1 DEF Storing, At
  <2>2. Leads(a, i) /\ ~Stale(a, i)
    BY <2>1 DEF Lasting, KnownLeads
  <2>3. ASSUME Stale(a, i)' PROVE FALSE
    <3>1. PICK e \in Callers :
            \/ call'[e].at = "byId" /\ call'[e].id = i /\ table[i].uid # <<a, login>>
            \/ call'[e].at = "keepId" /\ call'[e].for = "uid" /\ call'[e].id = i /\ call'[e].row.uid # <<a, login>>
      BY <2>3 DEF Stale, At
    <3>2. call'[e] = call[e]
      BY <1>0, <3>1
    <3> QED  BY <2>2, <3>1, <3>2 DEF Stale, At
  <2> QED  BY <2>2, <2>3 DEF Leads
<1>2. ReadFromTable(a)'
  <2> SUFFICES ASSUME NEW e \in Callers, call'[e].at \in {"keepId", "keepUid"}, call'[e].for = "uid",
                      call'[e].row.uid = <<a, login>>
               PROVE  table[call'[e].id].uid = <<a, login>>
    BY DEF ReadFromTable
  <2>1. call[e].at \in {"keepId", "keepUid"} /\ call[e].for = "uid" /\ call[e].row = call'[e].row /\ call[e].id = call'[e].id
    BY <1>0
  <2> QED  BY <2>1 DEF Lasting, ReadFromTable
<1>3. SettledLeads(a)'
  <2> SUFFICES ASSUME NEW e \in Callers, call'[e].at # "idle", call'[e].for = "uid", call'[e].settled
               PROVE  /\ \E b \in Accounts : <<b, login, call'[e].id>> \in answers'
                      /\ <<a, login, call'[e].id>> \in answers' /\ call'[e].id \notin lost =>
                           /\ call'[e].at = "byId" => table[call'[e].id].uid = <<a, login>>
                           /\ call'[e].at \in Late => call'[e].row.uid = <<a, login>>
    BY DEF SettledLeads, At
  <2>1. /\ call[e].at # "idle" /\ call[e].for = "uid" /\ call[e].settled /\ call[e].id = call'[e].id
        /\ call'[e].at = "byId" => call[e].at = "byId"
        /\ call'[e].at \in Late => call[e].at \in Late /\ call[e].row = call'[e].row
    <3>1. "idle" \notin Late
      BY DEF Late
    <3> QED  BY <1>0, <3>1
  <2>2. PICK b \in Accounts : <<b, login, call[e].id>> \in answers
    BY <2>1 DEF Lasting, SettledLeads
  <2>3. <<a, login, call[e].id>> \in answers' => <<a, login, call[e].id>> \in answers
    BY <2>2
  <2> QED  BY <2>1, <2>2, <2>3 DEF Lasting, SettledLeads, At
<1> QED  BY <1>1, <1>2, <1>3 DEF Lasting

\* KeepUid and Answer tell nobody anything new.
LEMMA KeepUidLasts ==
    ASSUME NEW a \in Accounts, Types, Sided(a), Lasting(a), NEW c \in Callers, KeepUid(c)
    PROVE  Lasting(a)'
<1> DEFINE k == call[c]
           r == k.row
           new == [k EXCEPT !.at = "answer"]
<1> USE DEF wechat, maps, past
<1>0. /\ k.at = "keepUid" /\ k.at \in Late /\ call' = [call EXCEPT ![c] = new]
      /\ UNCHANGED <<login, table, idUserMap, answers, lost>>
  BY DEF KeepUid, At, Goto, Late
<1>1. IdCallFits(k) \/ UidCallFits(k)
  BY <1>0, KindOfCall DEF Types
<1>2. /\ new.at = "answer" /\ new.for = k.for /\ new.row = k.row
      /\ k.for = "id" => new.of = k.of
      /\ k.for = "uid" => new.id = k.id /\ new.settled = k.settled
      /\ k.for \in {"id", "uid"}
  BY <1>1 DEF IdCallFits, UidCallFits, IdCall, UidCall
<1>3. \A e \in Callers : call'[e] = IF e = c THEN new ELSE call[e]
  BY <1>0 DEF Types, CallsFit
<1>4. /\ r \in Row /\ r.uid \in Uids /\ (r.uid[1] = a <=> r.id \in RowsOf(a))
      /\ k.for = "id" => r.uid = <<k.of, login>> /\ (r.id \in RowsOf(a) <=> k.of = a)
      /\ k.for = "uid" => r.id = k.id
  BY <1>0, OwnHand DEF Row
<1>5. \A u \in Uids : uidUserMap'[u] = IF u = r.uid THEN r ELSE uidUserMap[u]
  BY <1>4 DEF KeepUid, Types, Stores
<1>6. "answer" \in Late
  BY DEF Late
<1> HIDE DEF new
<1>7. ASSUME NEW i \in RowsOf(a), Known(a, i)' PROVE Known(a, i)
  <2>1. ASSUME NEW e \in Callers, call'[e].at \in {"keepUid", "answer"}, For(e, a)', call'[e].row.id = i
        PROVE  Known(a, i)
    <3>1. call[e].at \in {"keepUid", "answer"} /\ For(e, a) /\ call[e].row.id = i
      BY <1>0, <1>2, <1>3, <2>1 DEF For
    <3> QED  BY <3>1 DEF Known
  <2>2. ASSUME uidUserMap'[<<a, login>>] # NoRow, uidUserMap'[<<a, login>>].id = i PROVE Known(a, i)
    <3>0. <<a, login>> \in Uids
      BY DEF Uids, Types, Stores
    <3>1. CASE <<a, login>> # r.uid
      BY <1>5, <2>2, <3>0, <3>1 DEF Known
    <3>2. CASE <<a, login>> = r.uid /\ k.for = "id"
      BY <1>0, <1>4, <1>5, <2>2, <3>0, <3>2 DEF Known, For
    <3>3. CASE <<a, login>> = r.uid /\ k.for = "uid"
      <4>1. table[k.id].uid = <<a, login>>
        BY <1>0, <3>3 DEF Lasting, ReadFromTable
      <4> QED  BY <1>4, <1>5, <2>2, <3>0, <3>3, <4>1 DEF Known
    <3> QED  BY <1>2, <3>1, <3>2, <3>3
  <2> QED  BY <1>0, <1>7, <2>1, <2>2 DEF Known
<1> QED  BY <1>0, <1>2, <1>6, <1>7, MovesOn

LEMMA AnswerLasts ==
    ASSUME NEW a \in Accounts, Types, Sided(a), Lasting(a), NEW c \in Callers, Answer(c)
    PROVE  Lasting(a)'
<1> DEFINE k == call[c]
           r == k.row
<1> USE DEF wechat, maps, past
<1>0. /\ k.at = "answer" /\ k.at \in Late /\ call' = [call EXCEPT ![c] = Idle]
      /\ UNCHANGED <<login, table, maps, lost>>
      /\ answers' = IF k.for = "id" THEN answers \cup {<<k.of, login, r.id>>} ELSE answers
  BY DEF Answer, At, Return, Late
<1>1. IdCallFits(k) \/ UidCallFits(k)
  BY <1>0, KindOfCall DEF Types
<1>2. k.for = "id" => k.of \in Accounts /\ r.uid = <<k.of, login>>
  BY <1>0, <1>1 DEF IdCallFits, UidCallFits, IdCall, UidCall
<1>3. r.id \in Ids /\ r \in Held
  BY <1>0, OwnHand DEF Row
<1>4. \A e \in Callers : call'[e] = IF e = c THEN Idle ELSE call[e]
  BY <1>0 DEF Types, CallsFit
<1>5. Idle.at = "idle"
  BY DEF Idle
<1>6. ASSUME NEW i \in RowsOf(a), Known(a, i)' PROVE Known(a, i)
  <2>1. ASSUME NEW e \in Callers, call'[e].at \in {"keepUid", "answer"}, For(e, a)', call'[e].row.id = i
        PROVE  Known(a, i)
    <3>1. e # c
      BY <1>4, <1>5, <2>1
    <3> QED  BY <1>4, <2>1, <3>1 DEF Known, For
  <2>2. ASSUME <<a, login, i>> \in answers' PROVE Known(a, i)
    BY <1>0, <2>2 DEF Known, For
  <2> QED  BY <1>0, <1>6, <2>1, <2>2 DEF Known
<1>7. ASSUME NEW e \in Callers, NEW b \in Accounts, <<b, login, call[e].id>> \in answers,
             <<a, login, call[e].id>> \in answers', <<a, login, call[e].id>> \notin answers
      PROVE  FALSE
  <2>1. k.for = "id" /\ k.of = a /\ call[e].id = r.id
    BY <1>0, <1>7
  <2>2. AnswersWithin(b, r.id)
    BY <1>7, <2>1 DEF AnswersWithin, Types, Stores
  <2>3. table[r.id].uid[1] = a <=> b = a
    BY <1>3, <2>2 DEF Sided, AnswersOnSide
  <2>4. table[r.id].uid[1] = a
    BY <1>2, <1>3, <2>1 DEF Sided, Agree
  <2> QED  BY <1>7, <2>3, <2>4
<1> QED  BY <1>0, <1>5, <1>6, <1>7, MovesOn

\* Every other step of a goroutine is a move of its call, with or without a row written.
LEMMA StepLasts ==
    ASSUME NEW a \in Accounts, Unmistakable(a), Types, Sided(a), Lasting(a), NEW c \in Callers, Step(c)
    PROVE  Lasting(a)'
<1> DEFINE k == call[c]
<1> USE DEF wechat, maps, past
<1>0. CallsFit /\ CallFits(k) /\ Rows \subseteq Row
  BY DEF Types, CallsFit, Rows, Stores
<1>1. Idle.at = "idle" /\ MayKnow(a, Idle) /\ MayRead(a, Idle) /\ HasRead(a, Idle) /\ WellSettled(a, Idle)
  BY DEF Idle, MayKnow, MayRead, HasRead, WellSettled
<1>2. ASSUME NEW q, q.for = "id"
      PROVE  /\ HasRead(a, q) /\ WellSettled(a, q)
             /\ q.at \notin {"keepUid", "answer", "keepId", "byId"} => MayKnow(a, q) /\ MayRead(a, q)
  BY <1>2 DEF MayKnow, MayRead, HasRead, WellSettled
<1>3. ASSUME NEW new, call' = [call EXCEPT ![c] = new], UNCHANGED <<login, table, maps, answers, lost>>,
             k.at # "keepId", MayKnow(a, new), MayRead(a, new), HasRead(a, new), WellSettled(a, new)
      PROVE  Lasting(a)'
  <2>1. RowsOf(a)' = RowsOf(a) /\ ~(At(c, "keepId") /\ call[c].for = "id")
    BY <1>3 DEF RowsOf, At
  <2> QED  BY <1>3, <2>1, CallMoves
<1>4. ASSUME NEW q, IdCallFits(q), NEW r \in Row,
             \A i \in RowsOf(a) : i = r.id /\ r.uid = <<a, login>> => Known(a, i),
             call' = [call EXCEPT ![c] = Compared(q, r)], UNCHANGED <<login, table, maps, answers, lost>>, k.at # "keepId"
      PROVE  Lasting(a)'
  <2> DEFINE new == Compared(q, r)
  <2>1. /\ new.at \in {"answer", "update"} /\ new.for = "id" /\ new.of = q.of
        /\ new.row = [r EXCEPT !.name = q.name, !.attr = q.attr, !.uid = q.uid]
    BY <1>4, ComparedFits
  <2>2. new.at = "answer" => new.row = r
    BY <1>4, <2>1 DEF Compared, IdCallFits, IdCall, Late
  <2>3. new.row.id = r.id /\ new.row.uid = <<q.of, login>>
    BY <1>4, <2>1 DEF Row, IdCallFits
  <2> HIDE DEF new
  <2>4. MayKnow(a, new) /\ MayRead(a, new)
    BY <1>4, <2>1, <2>2, <2>3 DEF MayKnow, MayRead
  <2>5. call' = [call EXCEPT ![c] = new]
    BY <1>4 DEF new
  <2>6. HasRead(a, new) /\ WellSettled(a, new)
    BY <1>2, <2>1
  <2> QED  BY <1>3, <1>4, <2>4, <2>5, <2>6
<1>5. ASSUME NEW label, label \in {"byAttr", "byName", "create"}, IdCallFits(k), k.at # "keepId",
             call' = [call EXCEPT ![c].at = label], UNCHANGED <<login, table, maps, answers, lost>>
      PROVE  Lasting(a)'
  <2> DEFINE new == [k EXCEPT !.at = label]
  <2>1. new.at = label /\ new.for = "id"
    BY <1>5 DEF IdCallFits, IdCall
  <2>2. call' = [call EXCEPT ![c] = new]
    BY <1>5
  <2> HIDE DEF new
  <2>3. MayKnow(a, new) /\ MayRead(a, new) /\ HasRead(a, new) /\ WellSettled(a, new)
    BY <1>2, <1>5, <2>1
  <2> QED  BY <1>3, <1>5, <2>2, <2>3
<1>6. \A r \in Rows : \A i \in RowsOf(a) : i = r.id /\ r.uid = <<a, login>> => Known(a, i)
  BY DEF Rows, Known, RowsOf, Types, Stores
<1>7. ASSUME NEW b \in Accounts, GetID(c, b) PROVE Lasting(a)'
  <2> DEFINE asked == [at |-> "byUid", for |-> "id", of |-> b, uid |-> <<b, login>>, name |-> name[b],
                       attr |-> attr[b], row |-> NoRow]
             cached == uidUserMap[asked.uid]
  <2>1. /\ IdCallFits(asked) /\ asked.uid \in Uids /\ asked.at = "byUid" /\ asked.for = "id"
        /\ asked.uid = <<b, login>>
    BY DEF Types, Stores, IdCallFits, IdCall, Late, Uids
  <2>2. cached \in Row \cup {NoRow} /\ (cached # NoRow => cached.uid = asked.uid)
    BY <2>1 DEF Types, Stores
  <2>3. /\ call' = [call EXCEPT ![c] = IF cached = NoRow THEN asked ELSE Compared(asked, cached)]
        /\ UNCHANGED <<login, table, maps, answers, lost>> /\ k.at # "keepId"
    BY <1>7 DEF GetID, At
  <2>4. cached # NoRow => \A i \in RowsOf(a) : i = cached.id /\ cached.uid = <<a, login>> => Known(a, i)
    BY <2>1, <2>2 DEF Known
  <2> HIDE DEF asked, cached
  <2>5. CASE cached = NoRow
    <3>1. MayKnow(a, asked) /\ MayRead(a, asked) /\ HasRead(a, asked) /\ WellSettled(a, asked)
      BY <1>2, <2>1
    <3> QED  BY <1>3, <2>1, <2>3, <2>5, <3>1
  <2>6. CASE cached # NoRow
    BY <1>4, <2>1, <2>2, <2>3, <2>4, <2>6
  <2> QED  BY <2>5, <2>6
<1>8. ASSUME NEW i \in Ids, GetByID(c, i) PROVE Lasting(a)'
  <2> DEFINE new == [at |-> IF idUserMap[i] = NoRow THEN "byId" ELSE "answer", for |-> "uid", id |-> i,
                     row |-> idUserMap[i], settled |-> Settled(i)]
  <2>1. /\ new.at = IF idUserMap[i] = NoRow THEN "byId" ELSE "answer"
        /\ new.for = "uid" /\ new.id = i /\ new.row = idUserMap[i] /\ new.settled = Settled(i)
    OBVIOUS
  <2>2. /\ call' = [call EXCEPT ![c] = new] /\ UNCHANGED <<login, table, maps, answers, lost>> /\ k.at # "keepId"
    BY <1>8 DEF GetByID, At
  <2> HIDE DEF new
  <2>3. MayKnow(a, new)
    BY <2>1 DEF MayKnow
  <2>4. MayRead(a, new)
    BY <2>1 DEF MayRead, Leads
  <2>5. HasRead(a, new)
    BY <2>1 DEF HasRead
  <2>6. WellSettled(a, new)
    <3> SUFFICES ASSUME Settled(i)
                 PROVE  /\ \E b \in Accounts : <<b, login, i>> \in answers
                        /\ <<a, login, i>> \in answers /\ i \notin lost =>
                             /\ new.at = "byId" => table[i].uid = <<a, login>>
                             /\ new.at \in Late => idUserMap[i].uid = <<a, login>>
      BY <2>1 DEF WellSettled
    <3>1. ~Storing(i)
      <4> SUFFICES ASSUME NEW e \in Callers, At(e, "keepId"), call[e].for = "id", call[e].row.id = i PROVE FALSE
        BY DEF Storing
      <4> QED  BY DEF Settled
    <3>2. ASSUME <<a, login, i>> \in answers, i \notin lost PROVE Leads(a, i)
      <4>1. i \in RowsOf(a)
        BY <3>2, AnsweredRow
      <4> QED  BY <3>1, <3>2, <4>1 DEF Lasting, KnownLeads, Known
    <3> QED  BY <2>1, <3>2 DEF Settled, Leads, Late
  <2> QED  BY <1>3, <2>2, <2>3, <2>4, <2>5, <2>6
<1>9. CASE QueryUid(c)
  <2>1. IdCallFits(k) /\ UNCHANGED <<login, table, maps, answers, lost>> /\ k.at # "keepId"
    BY <1>0, <1>9, KindOfCall DEF QueryUid, At
  <2>2. \/ call' = [call EXCEPT ![c].at = "byAttr"]
        \/ \E r \in Rows : call' = [call EXCEPT ![c] = Compared(k, r)]
    BY <1>9 DEF QueryUid, Query, Goto
  <2> QED  BY <1>0, <1>4, <1>5, <1>6, <2>1, <2>2
<1>10. CASE QueryAttr(c)
  <2> DEFINE label == IF k.of \in GroupNames THEN "byName" ELSE "create"
  <2>1. IdCallFits(k) /\ UNCHANGED <<login, table, maps, answers, lost>> /\ k.at # "keepId"
    BY <1>0, <1>10, KindOfCall DEF QueryAttr, At
  <2>2. \/ call' = [call EXCEPT ![c].at = label]
        \/ \E r \in Rows : call' = [call EXCEPT ![c] = Compared(k, r)]
    BY <1>10 DEF QueryAttr, Query, Goto, ByNameAndAttr
  <2>3. label \in {"byAttr", "byName", "create"}
    OBVIOUS
  <2> HIDE DEF label
  <2> QED  BY <1>0, <1>4, <1>5, <1>6, <2>1, <2>2, <2>3
<1>11. CASE QueryName(c)
  <2>1. IdCallFits(k) /\ UNCHANGED <<login, table, maps, answers, lost>> /\ k.at # "keepId"
    BY <1>0, <1>11, KindOfCall DEF QueryName, At
  <2>2. \/ call' = [call EXCEPT ![c].at = "create"]
        \/ \E r \in Rows : call' = [call EXCEPT ![c] = Compared(k, r)]
    BY <1>11 DEF QueryName, Query, Goto, Groups
  <2> QED  BY <1>0, <1>4, <1>5, <1>6, <2>1, <2>2
<1>12. CASE QueryFails(c) \/ QueryIdFails(c)
  <2>1. /\ call' = [call EXCEPT ![c] = Idle] /\ UNCHANGED <<login, table, maps, answers, lost>>
        /\ k.at # "keepId"
    BY <1>12 DEF QueryFails, QueryIdFails, Return, At
  <2> QED  BY <1>1, <1>3, <2>1
<1>13. CASE Create(c)
  <2> DEFINE r == NewRow(k)
             new == [k EXCEPT !.row = r, !.at = "keepId"]
  <2>1. IdCallFits(k) /\ UNCHANGED <<login, maps, answers, lost>> /\ k.at = "create"
    BY <1>0, <1>13, KindOfCall DEF Create, At
  <2>2. CASE table[r.id] # NoRow
    <3>1. call' = [call EXCEPT ![c] = Idle] /\ UNCHANGED table
      BY <1>13, <2>2 DEF Create, Return
    <3> QED  BY <1>1, <1>3, <2>1, <3>1
  <2>3. CASE table[r.id] = NoRow
    <3>1. new.at = "keepId" /\ new.for = "id" /\ new.row = r
      BY <2>1 DEF IdCallFits, IdCall
    <3>2. call' = [call EXCEPT ![c] = new] /\ table' = [table EXCEPT ![r.id] = r]
      BY <1>13, <2>3 DEF Create
    <3>3. RowsOf(a)' \subseteq RowsOf(a) \cup {r.id} /\ r.id \notin RowsOf(a)
      BY <1>0, <2>3, RowsKept DEF RowsOf
    <3> HIDE DEF r, new
    <3>4. \A i \in RowsOf(a) : table'[i] = table[i]
      BY <3>2, <3>3 DEF RowsOf, Types, Stores
    <3>5. MayKnow(a, new) /\ MayRead(a, new)
      BY <3>1 DEF MayKnow, MayRead
    <3>6. ~(At(c, "keepId") /\ call[c].for = "id")
      BY <2>1 DEF At
    <3>7. \A i \in RowsOf(a)' :
              \/ new.at = "keepId" /\ new.for = "id" /\ new.row.id = i
              \/ i \in RowsOf(a) /\ (table'[i].uid = <<a, login>> <=> table[i].uid = <<a, login>>)
      BY <3>1, <3>3, <3>4
    <3> QED  BY <2>1, <3>1, <3>2, <3>4, <3>5, <3>6, <3>7, CallMoves
  <2> QED  BY <2>2, <2>3
<1>14. CASE Update(c) \/ UpdateFails(c)
  <2> DEFINE r == k.row
             new == [k EXCEPT !.at = "keepId"]
  <2>1. /\ IdCallFits(k) /\ UNCHANGED <<login, maps, answers, lost>> /\ k.at = "update"
        /\ call' = [call EXCEPT ![c].at = "keepId"]
    BY <1>0, <1>14, KindOfCall DEF Update, UpdateFails, At, Goto
  <2>2. new.at = "keepId" /\ new.for = "id" /\ new.row = r
    BY <2>1 DEF IdCallFits, IdCall
  <2>3. call' = [call EXCEPT ![c] = new]
    BY <2>1
  <2>4. RowsOf(a)' = RowsOf(a) /\ \A i \in RowsOf(a) : table[i].uid = <<a, login>> => table'[i].uid = <<a, login>>
    BY <1>0, <1>14, <2>1, RowsKept DEF Create, At
  <2>5. \A i \in Ids : i # r.id => table'[i] = table[i]
    BY <1>14 DEF Update, UpdateFails, Types, Stores
  <2> HIDE DEF r, new
  <2>6. \A i \in RowsOf(a)' :
            \/ new.at = "keepId" /\ new.for = "id" /\ new.row.id = i
            \/ i \in RowsOf(a) /\ (table'[i].uid = <<a, login>> <=> table[i].uid = <<a, login>>)
    BY <2>2, <2>4, <2>5 DEF RowsOf
  <2>7. MayKnow(a, new) /\ MayRead(a, new)
    BY <2>2 DEF MayKnow, MayRead
  <2>8. ~(At(c, "keepId") /\ call[c].for = "id")
    BY <2>1 DEF At
  <2> QED  BY <2>1, <2>2, <2>3, <2>4, <2>6, <2>7, <2>8, CallMoves
<1>15. CASE QueryId(c)
  <2> DEFINE r == table[k.id]
             new == [k EXCEPT !.row = r, !.at = "keepId"]
  <2>1. UidCallFits(k) /\ UNCHANGED <<login, table, maps, answers, lost>> /\ k.at = "byId" /\ k.for = "uid"
    BY <1>0, <1>15, KindOfCall DEF QueryId, At, UidCallFits, UidCall
  <2>2. \/ call' = [call EXCEPT ![c] = Idle]
        \/ call' = [call EXCEPT ![c] = new]
    BY <1>15 DEF QueryId, Return
  <2>3. new.at = "keepId" /\ new.for = "uid" /\ new.row = r /\ new.id = k.id /\ new.settled = k.settled
    BY <2>1 DEF UidCallFits, UidCall
  <2> HIDE DEF new
  <2>4. MayKnow(a, new)
    BY <2>3 DEF MayKnow
  <2>5. MayRead(a, new)
    BY <2>1, <2>3 DEF MayRead, Stale, At
  <2>6. HasRead(a, new)
    BY <2>3 DEF HasRead
  <2>7. WellSettled(a, new)
    BY <2>1, <2>3 DEF WellSettled, Lasting, SettledLeads, At
  <2> QED  BY <1>1, <1>3, <2>1, <2>2, <2>4, <2>5, <2>6, <2>7
<1> QED  BY <1>7, <1>8, <1>9, <1>10, <1>11, <1>12, <1>13, <1>14, <1>15, KeepIdLasts, KeepUidLasts, AnswerLasts
         DEF Step

Lasts == \A a \in Accounts : Unmistakable(a) => Lasting(a)

\* What GetID has found out in a login, lookups find too, in this login and after a restart in it.
LEMMA LastsHolds == Spec => []Lasts
<1> USE DEF wechat, maps, past
<1>1. Init => Lasts
  BY DEF Init, Lasts, Lasting, KnownLeads, RowsOf, ReadFromTable, SettledLeads, Idle
<1>2. Types /\ Sides /\ Lasts /\ [Next]_vars => Lasts'
  <2> SUFFICES ASSUME Types, [Next]_vars, NEW a \in Accounts, Unmistakable(a), Sided(a), Lasting(a)
               PROVE  Lasting(a)'
    BY DEF Sides, Lasts
  <2>1. ASSUME UNCHANGED <<login, table, maps, call, answers, lost>> PROVE Lasting(a)'
    BY <2>1 DEF Lasting, KnownLeads, RowsOf, Known, Leads, Stale, Storing, For, At, ReadFromTable, SettledLeads
  <2>2. ASSUME NEW b \in Accounts, Rename(b) PROVE Lasting(a)'
    BY <2>1, <2>2 DEF Rename
  <2>3. CASE Restart
    <3>1. \A e \in Callers : call'[e] = Idle
      BY <2>3 DEF Restart
    <3>2. ReadFromTable(a)' /\ SettledLeads(a)'
      BY <3>1 DEF ReadFromTable, SettledLeads, Idle
    <3>3. ASSUME NEW i \in RowsOf(a)', Known(a, i)', i \notin lost' PROVE Leads(a, i)' /\ ~Stale(a, i)'
      <4>1. i \in Ids
        BY DEF RowsOf
      <4>2. idUserMap'[i] = NoRow /\ uidUserMap'[<<a, login'>>] = NoRow
        <5>1. <<a, login'>> \in Uids
          BY <2>3, BoundsAreNat DEF Restart, Types, Stores, Uids
        <5> QED  BY <2>3, <4>1, <5>1 DEF Restart
      <4>3. ~Stale(a, i)'
        BY <3>1 DEF Stale, At, Idle
      <4>4. table[i].uid = <<a, login'>> \/ <<a, login', i>> \in answers
        BY <2>3, <3>1, <3>3, <4>2 DEF Known, Idle, Restart
      <4>5. <<a, login', i>> \in answers => table[i].uid = <<a, login'>>
        BY <2>3, <3>3, <4>1 DEF Restart
      <4> QED  BY <2>3, <4>2, <4>3, <4>4, <4>5 DEF Leads, Restart
    <3> QED  BY <3>2, <3>3 DEF Lasting, KnownLeads
  <2>4. ASSUME NEW c \in Callers, Step(c) PROVE Lasting(a)'
    BY <2>4, StepLasts
  <2>5. CASE UNCHANGED vars
    BY <2>1, <2>5 DEF vars
  <2> QED  BY <2>2, <2>3, <2>4, <2>5 DEF Next
<1> QED  BY <1>1, <1>2, TypesHold, SidesHold, PTL DEF Spec

\* Once GetID has answered an id in a login, it leads to the uid of that login, unless it is lost.
THEOREM CurrentUnlessLostHolds == Spec => []CurrentUnlessLost
<1>1. Types /\ Lasts => CurrentUnlessLost
  <2> SUFFICES ASSUME Types, NEW a \in Accounts, NEW c \in Replying, Lasting(a),
                      <<a, login, call[c].id>> \in answers, call[c].settled, call[c].id \notin lost
               PROVE  call[c].row.uid = <<a, login>>
    BY DEF CurrentUnlessLost, Lasts
  <2>1. c \in Callers /\ call[c].at = "answer" /\ call[c].for = "uid"
    BY DEF Replying, At
  <2> QED  BY <2>1 DEF Lasting, SettledLeads, Late
<1> QED  BY <1>1, TypesHold, LastsHolds, PTL
=============================================================================
