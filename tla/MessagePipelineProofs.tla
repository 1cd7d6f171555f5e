----------------------- MODULE MessagePipelineProofs -----------------------
(***************************************************************************)
(* Proofs about MessagePipeline, for any messages, redirects, bounds and   *)
(* size of the cache.                                                      *)
(*                                                                         *)
(* That a message is forwarded once rests on the table: once its row is    *)
(* there, no delivery of it is on the way to Save any more (NoneBehind),   *)
(* because only one was there when the row was written (OneUnsaved).       *)
(***************************************************************************)
EXTENDS MessagePipeline, TLAPS

\* Deliveries of a message for which the filter gives its promise.
Sound == {d \in Deliveries : d[1] \notin overlapped \cup faulted}

\* Out, or on the way out, to redirects.
Emitted(d) == pc[d] = "spawn" \/ \E r \in Redirects : <<r, d>> \in sending \cup sent

\* Where a message is says what kind it is.
KindFits ==
    \A d \in Deliveries :
        /\ pc[d] \in {"work", "save"} => KindOf[d[1]] \in {"chat", "rename"}
        /\ KindOf[d[1]] = "event" => /\ pc[d] \notin Unsaved
                                     /\ pc[d] # "none" => d[2] = 1

SentAfterSpawn ==
    \A d \in Deliveries, r \in Redirects :
        <<r, d>> \in sending \cup sent => pc[d] \in {"done", "killed"}

EmittedIsSaved ==
    \A d \in Deliveries : Emitted(d) => d[1] \in rows \cup faulted \/ KindOf[d[1]] = "event"

CachedIsSaved ==
    /\ cache \subseteq rows
    /\ \A d \in Deliveries : pc[d] = "put" => d[1] \in rows

InOrder ==
    \A d, e \in Deliveries :
        d[1] = e[1] /\ d[2] < e[2] /\ pc[e] # "none" => pc[d] # "none"

OneUnsaved ==
    \A d, e \in Sound : d[1] = e[1] /\ pc[d] \in Unsaved /\ pc[e] \in Unsaved => d = e

NoneBehind == \A d \in Sound : d[1] \in rows => pc[d] \notin {"work", "save"}

OneEmitted == \A d, e \in Sound : d[1] = e[1] /\ Emitted(d) /\ Emitted(e) => d = e

IInv ==
    /\ TypeOK /\ KindFits /\ SentAfterSpawn /\ EmittedIsSaved /\ CachedIsSaved
    /\ InOrder /\ OneUnsaved /\ NoneBehind /\ OneEmitted

-----------------------------------------------------------------------------
LEMMA InitSatisfies == Init => IInv
  BY BoundsAreNat DEF Init, IInv, TypeOK, KindFits, SentAfterSpawn, EmittedIsSaved,
     CachedIsSaved, InOrder, OneUnsaved, NoneBehind, OneEmitted, Emitted, Sound, Unsaved, history

\* A goroutine moves on before dispatch, or ends there; the variables of the
\* table, the cache and the redirects keep what the next lemma asks of them.
LEMMA Moves ==
    ASSUME IInv, NEW d \in Deliveries, NEW label \in Unsaved \cup {"filtered", "dropped"},
           pc[d] \in Unsaved, Goto(d, label),
           label = "save" => pc[d] = "work",
           label = "work" => KindOf[d[1]] # "own" /\ d[1] \notin rows \ faulted',
           label = "put" => d[1] \in rows,
           faulted \subseteq faulted', faulted' \subseteq Messages, cache' \subseteq rows, faults' \in 0..MaxFaults,
           UNCHANGED <<rows, sending, sent, overlapped, crashes>>
    PROVE  IInv'
<1>0. \A e \in Deliveries : pc'[e] = IF e = d THEN label ELSE pc[e]
  BY DEF Goto, IInv, TypeOK
<1>1. TypeOK'
  <2>1. pc' \in [Deliveries -> Unsaved \cup {"none", "spawn", "filtered", "dropped", "done", "killed"}]
    BY DEF Goto, IInv, TypeOK
  <2>2. \A r \in Redirects, e \in Deliveries : <<r, e>> \in sending => pc'[e] = "done" /\ <<r, e>> \notin sent
    BY <1>0 DEF IInv, TypeOK, Unsaved
  <2> QED  BY <2>1, <2>2 DEF IInv, TypeOK
<1>2. KindFits'
  BY <1>0, KindOfType DEF IInv, KindFits, Kinds, Unsaved, Deliveries
<1>3. \A e \in Deliveries : Emitted(e)' <=> Emitted(e)
  BY <1>0 DEF Emitted, Unsaved
<1>4. SentAfterSpawn' /\ EmittedIsSaved'
  BY <1>0, <1>3 DEF IInv, SentAfterSpawn, EmittedIsSaved, Unsaved
<1>5. CachedIsSaved'
  BY <1>0 DEF IInv, CachedIsSaved
<1>6. InOrder'
  BY <1>0 DEF IInv, InOrder, Unsaved
<1>7. Sound' \subseteq Sound
  BY DEF Sound
<1>8. OneUnsaved'
  BY <1>0, <1>7 DEF IInv, OneUnsaved, Sound
<1>9. NoneBehind'
  BY <1>0, <1>7 DEF IInv, NoneBehind, Sound
<1>10. OneEmitted'
  BY <1>3, <1>7 DEF IInv, OneEmitted, Sound
<1> QED  BY <1>1, <1>2, <1>4, <1>5, <1>6, <1>8, <1>9, <1>10 DEF IInv

\* Up to dispatch every step of a handler is such a move.
LEMMA HandlerMoves ==
    ASSUME IInv, NEW d \in Deliveries,
           LookInCache(d) \/ LookInTable(d) \/ LookupFails(d) \/ Put(d) \/ RacyPut(d)
             \/ Prepare(d) \/ Drop(d)
    PROVE  IInv'
<1> USE DEF Unsaved, history, IInv, Deliveries
<1>1. faults \in 0..MaxFaults /\ MaxFaults \in Nat
  BY BoundsAreNat DEF TypeOK
<1>2. d[1] \in Messages /\ faulted \subseteq Messages
  BY DEF TypeOK
<1>3. cache \subseteq rows /\ (pc[d] = "put" => d[1] \in rows)
  BY DEF CachedIsSaved
<1>4. CASE LookInCache(d)
  BY <1>1, <1>2, <1>3, <1>4, Moves DEF LookInCache, Goto
<1>5. CASE LookInTable(d)
  BY <1>1, <1>2, <1>3, <1>5, Moves DEF LookInTable, AfterLookup, AfterMiss, Goto
<1>6. CASE LookupFails(d)
  <2>1. faults' \in 0..MaxFaults
    BY <1>1, <1>6 DEF LookupFails, Fault
  <2>2. AfterMiss(d) \in {"filtered", "work"} /\ (AfterMiss(d) = "work" => KindOf[d[1]] # "own")
    BY DEF AfterMiss
  <2> QED  BY <2>1, <2>2, <1>2, <1>3, <1>6, Moves DEF LookupFails
<1>7. CASE Put(d)
  BY <1>1, <1>2, <1>3, <1>7, Moves DEF Put, Goto
<1>8. CASE RacyPut(d)
  BY <1>1, <1>2, <1>3, <1>8, Moves DEF RacyPut, Races, Goto
<1>9. CASE Prepare(d)
  BY <1>1, <1>2, <1>3, <1>9, Moves DEF Prepare, Goto
<1>10. CASE Drop(d)
  BY <1>1, <1>2, <1>3, <1>10, Moves DEF Drop, Goto
<1> QED  BY <1>4, <1>5, <1>6, <1>7, <1>8, <1>9, <1>10

LEMMA DeliverKeeps ==
    ASSUME IInv, NEW m \in Messages, NEW k \in 1..MaxDeliveries, Deliver(m, k)
    PROVE  IInv'
<1> DEFINE d == <<m, k>>
<1>0. /\ d \in Deliveries /\ d[1] = m /\ d[2] = k
      /\ \A e \in Deliveries : e[1] \in Messages /\ e[2] \in 1..MaxDeliveries /\ e = <<e[1], e[2]>>
  BY DEF Deliveries
<1>1. \A e \in Deliveries : pc'[e] = IF e = d THEN "cache" ELSE pc[e]
  BY <1>0 DEF Deliver, Goto, IInv, TypeOK
<1>2. pc[d] = "none" /\ KindOf[m] # "event"
  BY DEF Deliver
<1>3. TypeOK'
  <2>1. pc' \in [Deliveries -> Unsaved \cup {"none", "spawn", "filtered", "dropped", "done", "killed"}]
    BY DEF Deliver, Goto, IInv, TypeOK, Unsaved
  <2>2. \A r \in Redirects, e \in Deliveries : <<r, e>> \in sending => pc'[e] = "done" /\ <<r, e>> \notin sent
    BY <1>1, <1>2 DEF IInv, TypeOK
  <2>3. overlapped' \subseteq Messages
    BY DEF Deliver, IInv, TypeOK
  <2> QED  BY <2>1, <2>2, <2>3 DEF IInv, TypeOK, Deliver
<1>4. KindFits'
  BY <1>0, <1>1, <1>2 DEF IInv, KindFits
<1>5. \A e \in Deliveries : Emitted(e)' <=> Emitted(e)
  BY <1>1, <1>2 DEF Emitted, Deliver
<1>6. SentAfterSpawn' /\ EmittedIsSaved'
  BY <1>1, <1>2, <1>5 DEF IInv, SentAfterSpawn, EmittedIsSaved, Deliver
<1>7. CachedIsSaved'
  BY <1>1 DEF IInv, CachedIsSaved, Deliver
<1>8. InOrder'
  <2> SUFFICES ASSUME NEW e \in Deliveries, NEW f \in Deliveries,
                      e[1] = f[1], e[2] < f[2], pc'[f] # "none"
               PROVE  pc'[e] # "none"
    BY DEF InOrder
  <2>1. CASE f # d
    BY <2>1, <1>1 DEF IInv, InOrder
  <2>2. CASE f = d
    <3> DEFINE g == <<m, k - 1>>
    <3>1. e[1] = m /\ e[2] \in 1..MaxDeliveries /\ e[2] < k /\ k \in 1..MaxDeliveries
      BY <2>2, <1>0
    <3>2. k > 1 /\ k - 1 \in 1..MaxDeliveries /\ g \in Deliveries /\ pc[g] # "none"
      BY <3>1, BoundsAreNat DEF Deliver, Deliveries
    <3>3. CASE e[2] = k - 1
      BY <3>3, <3>1, <3>2, <1>0, <1>1
    <3>4. CASE e[2] < k - 1
      BY <3>4, <3>1, <3>2, <1>0, <1>1 DEF IInv, InOrder
    <3> QED  BY <3>1, <3>3, <3>4
  <2> QED  BY <2>1, <2>2
<1>9. Sound' \subseteq Sound
  BY DEF Sound, Deliver
<1>10. OneUnsaved'
  <2>1. ASSUME NEW e \in Sound', e # d, e[1] = m, pc'[e] \in Unsaved
        PROVE  FALSE
    <3>1. e \in Deliveries /\ e[2] \in 1..MaxDeliveries /\ k \in 1..MaxDeliveries /\ pc[e] \in Unsaved
      BY <2>1, <1>0, <1>1 DEF Sound
    <3>2. e[2] # k
      BY <2>1, <1>0, <3>1
    <3>3. CASE e[2] < k
      <4>1. e[2] \in 1..k - 1 /\ e = <<m, e[2]>>
        BY <3>1, <3>3, <2>1, <1>0, BoundsAreNat
      <4>2. m \in overlapped'
        BY <4>1, <3>1 DEF Deliver
      <4> QED  BY <4>2, <2>1 DEF Sound
    <3>4. CASE k < e[2]
      BY <3>4, <3>1, <2>1, <1>0, <1>2 DEF IInv, InOrder, Unsaved
    <3> QED  BY <3>1, <3>2, <3>3, <3>4, BoundsAreNat
  <2> QED  BY <2>1, <1>0, <1>1, <1>9 DEF IInv, OneUnsaved, Sound
<1>11. NoneBehind'
  BY <1>1, <1>9 DEF IInv, NoneBehind, Sound, Deliver
<1>12. OneEmitted'
  BY <1>5, <1>9 DEF IInv, OneEmitted, Sound
<1> QED  BY <1>3, <1>4, <1>6, <1>7, <1>8, <1>10, <1>11, <1>12 DEF IInv

LEMMA AnnounceKeeps ==
    ASSUME IInv, NEW m \in Messages, Announce(m)
    PROVE  IInv'
<1> DEFINE d == <<m, 1>>
<1>0. /\ d \in Deliveries /\ d[1] = m /\ d[2] = 1
      /\ \A e \in Deliveries : e[2] \in Nat /\ e[2] >= 1 /\ e = <<e[1], e[2]>>
  BY BoundsAreNat DEF Deliveries
<1>1. \A e \in Deliveries : pc'[e] = IF e = d THEN "spawn" ELSE pc[e]
  BY <1>0 DEF Announce, Goto, IInv, TypeOK
<1>2. pc[d] = "none" /\ KindOf[m] = "event"
  BY DEF Announce
<1>3. TypeOK'
  <2>1. pc' \in [Deliveries -> Unsaved \cup {"none", "spawn", "filtered", "dropped", "done", "killed"}]
    BY DEF Announce, Goto, IInv, TypeOK
  <2>2. \A r \in Redirects, e \in Deliveries : <<r, e>> \in sending => pc'[e] = "done" /\ <<r, e>> \notin sent
    BY <1>1, <1>2 DEF IInv, TypeOK
  <2> QED  BY <2>1, <2>2 DEF IInv, TypeOK, Announce, history
<1>4. KindFits'
  BY <1>0, <1>1, <1>2 DEF IInv, KindFits, Unsaved
<1>5. \A e \in Deliveries : Emitted(e)' <=> (e = d \/ Emitted(e))
  BY <1>1, <1>2 DEF Emitted, Announce
<1>6. SentAfterSpawn' /\ EmittedIsSaved'
  BY <1>0, <1>1, <1>2, <1>5 DEF IInv, SentAfterSpawn, EmittedIsSaved, Announce, history
<1>7. CachedIsSaved' /\ OneUnsaved' /\ NoneBehind'
  BY <1>1 DEF IInv, CachedIsSaved, OneUnsaved, NoneBehind, Sound, Unsaved, Announce, history
<1>8. InOrder'
  BY <1>0, <1>1 DEF IInv, InOrder
<1>9. OneEmitted'
  <2>1. ASSUME NEW e \in Deliveries, Emitted(e), e[1] = m PROVE e = d
    <3>1. pc[e] # "none"
      BY <2>1 DEF Emitted, IInv, SentAfterSpawn
    <3>2. e[2] = 1
      BY <3>1, <2>1, <1>2 DEF IInv, KindFits
    <3> QED  BY <3>2, <2>1, <1>0
  <2> QED  BY <2>1, <1>0, <1>5 DEF IInv, OneEmitted, Sound, Announce, history
<1> QED  BY <1>3, <1>4, <1>6, <1>7, <1>8, <1>9 DEF IInv

LEMMA DyingKeeps ==
    ASSUME IInv, Died, crashes' \in 0..MaxCrashes
    PROVE  IInv'
<1>1. \A e \in Deliveries : pc'[e] = pc[e] \/ (pc[e] # "none" /\ pc'[e] = "killed")
  BY DEF Died, IInv, TypeOK, Unsaved
<1>2. \A e \in Deliveries : pc'[e] \notin Unsaved \cup {"spawn"}
  BY DEF Died, Unsaved
<1>3. \A e \in Deliveries : Emitted(e)' => Emitted(e)
  BY <1>2 DEF Emitted, Died
<1>4. TypeOK'
  <2>1. pc' \in [Deliveries -> Unsaved \cup {"none", "spawn", "filtered", "dropped", "done", "killed"}]
    BY DEF Died, IInv, TypeOK
  <2> QED  BY <2>1 DEF IInv, TypeOK, Died, history
<1>5. KindFits'
  BY <1>1, <1>2 DEF IInv, KindFits, Unsaved
<1>6. SentAfterSpawn' /\ EmittedIsSaved'
  BY <1>1, <1>3 DEF IInv, SentAfterSpawn, EmittedIsSaved, Died, history
<1>7. CachedIsSaved' /\ OneUnsaved' /\ NoneBehind'
  BY <1>2 DEF CachedIsSaved, OneUnsaved, NoneBehind, Sound, Unsaved, Died
<1>8. InOrder'
  BY <1>1 DEF IInv, InOrder
<1>9. OneEmitted'
  BY <1>3 DEF IInv, OneEmitted, Sound, Died, history
<1> QED  BY <1>4, <1>5, <1>6, <1>7, <1>8, <1>9 DEF IInv

\* Saved or not, d is now on its way to the redirects, and it is the only delivery
\* of its message that is, unless a database call failed.
LEMMA SavingKeeps ==
    ASSUME IInv, NEW d \in Deliveries, Save(d) \/ SaveFails(d)
    PROVE  IInv'
<1>0. d[1] \in Messages /\ \A e \in Deliveries : e[1] \in Messages
  BY DEF Deliveries
<1>1. \A e \in Deliveries : pc'[e] = IF e = d THEN "spawn" ELSE pc[e]
  BY DEF Save, SaveFails, Goto, IInv, TypeOK
<1>2. /\ pc[d] = "save" /\ KindOf[d[1]] \in {"chat", "rename"}
      /\ rows \subseteq rows' /\ rows' \subseteq rows \cup {d[1]}
      /\ faulted \subseteq faulted' /\ d[1] \in rows' \cup faulted'
      /\ UNCHANGED <<cache, sending, sent, overlapped, crashes>>
  BY DEF Save, SaveFails, Saved, IInv, KindFits, history
<1>3. TypeOK'
  <2>1. pc' \in [Deliveries -> Unsaved \cup {"none", "spawn", "filtered", "dropped", "done", "killed"}]
    BY DEF Save, SaveFails, Goto, IInv, TypeOK
  <2>2. \A r \in Redirects, e \in Deliveries : <<r, e>> \in sending => pc'[e] = "done" /\ <<r, e>> \notin sent
    BY <1>1, <1>2 DEF IInv, TypeOK
  <2>3. faults' \in 0..MaxFaults /\ faulted' \subseteq Messages
    BY <1>0, BoundsAreNat DEF Save, SaveFails, Fault, IInv, TypeOK, history
  <2> QED  BY <2>1, <2>2, <2>3, <1>0, <1>2 DEF IInv, TypeOK
<1>4. KindFits'
  BY <1>1, <1>2 DEF IInv, KindFits, Unsaved
<1>5. \A e \in Deliveries : Emitted(e)' <=> (e = d \/ Emitted(e))
  BY <1>1, <1>2 DEF Emitted
<1>6. SentAfterSpawn' /\ EmittedIsSaved'
  BY <1>1, <1>2, <1>5 DEF IInv, SentAfterSpawn, EmittedIsSaved
<1>7. CachedIsSaved' /\ InOrder'
  BY <1>1, <1>2 DEF IInv, CachedIsSaved, InOrder
<1>8. Sound' \subseteq Sound
  BY <1>2 DEF Sound
<1>9. OneUnsaved'
  BY <1>1, <1>8 DEF IInv, OneUnsaved, Sound, Unsaved
<1>10. NoneBehind'
  <2>1. ASSUME NEW e \in Sound', e[1] = d[1], e # d PROVE pc[e] \notin Unsaved
    BY <2>1, <1>2, <1>8 DEF IInv, OneUnsaved, Sound, Unsaved
  <2> QED  BY <2>1, <1>1, <1>2, <1>8 DEF IInv, NoneBehind, Sound, Unsaved
<1>11. OneEmitted'
  <2>1. ASSUME NEW e \in Sound', e[1] = d[1], Emitted(e) PROVE FALSE
    <3>1. d \in Sound /\ e \in Sound /\ e \in Deliveries
      BY <2>1, <1>8 DEF Sound
    <3>2. d[1] \in rows
      BY <2>1, <3>1, <1>2 DEF IInv, EmittedIsSaved, Sound
    <3> QED  BY <3>1, <3>2, <1>2 DEF IInv, NoneBehind
  <2> QED  BY <2>1, <1>5, <1>8 DEF IInv, OneEmitted, Sound
<1> QED  BY <1>3, <1>4, <1>6, <1>7, <1>9, <1>10, <1>11 DEF IInv

LEMMA SpawnKeeps ==
    ASSUME IInv, NEW d \in Deliveries, Spawn(d)
    PROVE  IInv'
<1>1. \A e \in Deliveries : pc'[e] = IF e = d THEN "done" ELSE pc[e]
  BY DEF Spawn, Goto, IInv, TypeOK
<1>2. /\ pc[d] = "spawn" /\ sending' = sending \cup (Redirects \X {d})
      /\ UNCHANGED <<rows, cache, sent, overlapped, faulted, faults, crashes>>
  BY DEF Spawn, history
<1>3. \A r \in Redirects : <<r, d>> \notin sending \cup sent
  BY <1>2 DEF IInv, SentAfterSpawn
<1>4. \A r \in Redirects, e \in Deliveries : <<r, e>> \in sending' <=> (e = d \/ <<r, e>> \in sending)
  BY <1>2
<1>5. TypeOK'
  <2>1. pc' \in [Deliveries -> Unsaved \cup {"none", "spawn", "filtered", "dropped", "done", "killed"}]
    BY DEF Spawn, Goto, IInv, TypeOK
  <2>2. sending' \subseteq Redirects \X Deliveries
    BY <1>2 DEF IInv, TypeOK
  <2>3. \A r \in Redirects, e \in Deliveries : <<r, e>> \in sending' => pc'[e] = "done" /\ <<r, e>> \notin sent
    BY <1>1, <1>3, <1>4 DEF IInv, TypeOK
  <2> QED  BY <2>1, <2>2, <2>3, <1>2 DEF IInv, TypeOK
<1>6. KindFits'
  BY <1>1, <1>2 DEF IInv, KindFits, Unsaved
<1>7. \A e \in Deliveries : Emitted(e)' => Emitted(e)
  BY <1>1, <1>2, <1>4 DEF Emitted
<1>8. SentAfterSpawn' /\ EmittedIsSaved'
  BY <1>1, <1>2, <1>4, <1>7 DEF IInv, SentAfterSpawn, EmittedIsSaved
<1>9. CachedIsSaved' /\ InOrder' /\ OneUnsaved' /\ NoneBehind'
  BY <1>1, <1>2 DEF IInv, CachedIsSaved, InOrder, OneUnsaved, NoneBehind, Sound, Unsaved
<1>10. OneEmitted'
  BY <1>7, <1>2 DEF IInv, OneEmitted, Sound
<1> QED  BY <1>5, <1>6, <1>8, <1>9, <1>10 DEF IInv

LEMMA ReachKeeps ==
    ASSUME IInv, NEW d \in Deliveries, NEW r \in Redirects, Reach(r, d)
    PROVE  IInv'
<1>1. /\ <<r, d>> \in sending
      /\ sending' = sending \ {<<r, d>>} /\ sent' = sent \cup {<<r, d>>}
      /\ UNCHANGED <<rows, cache, pc, overlapped, faulted, faults, crashes>>
  BY DEF Reach, history
<1>2. sending' \cup sent' = sending \cup sent
  BY <1>1
<1>3. TypeOK'
  <2>1. \A s \in Redirects, e \in Deliveries : <<s, e>> \in sending' => pc[e] = "done" /\ <<s, e>> \notin sent'
    BY <1>1 DEF IInv, TypeOK
  <2>2. sending' \subseteq Redirects \X Deliveries /\ sent' \subseteq Redirects \X Deliveries
    BY <1>1 DEF IInv, TypeOK
  <2> QED  BY <2>1, <2>2, <1>1 DEF IInv, TypeOK
<1>4. \A e \in Deliveries : Emitted(e)' <=> Emitted(e)
  BY <1>1, <1>2 DEF Emitted
<1>5. SentAfterSpawn' /\ EmittedIsSaved' /\ OneEmitted'
  BY <1>1, <1>2, <1>4 DEF IInv, SentAfterSpawn, EmittedIsSaved, OneEmitted, Sound
<1>6. KindFits' /\ CachedIsSaved' /\ InOrder' /\ OneUnsaved' /\ NoneBehind'
  BY <1>1 DEF IInv, KindFits, CachedIsSaved, InOrder, OneUnsaved, NoneBehind, Sound
<1> QED  BY <1>3, <1>5, <1>6 DEF IInv

LEMMA Inductive == IInv /\ [Next]_vars => IInv'
<1> SUFFICES ASSUME IInv, [Next]_vars PROVE IInv'
  OBVIOUS
<1>1. crashes \in 0..MaxCrashes /\ MaxCrashes \in Nat
  BY BoundsAreNat DEF IInv, TypeOK
<1>2. ASSUME NEW m \in Messages, Announce(m) PROVE IInv'
  BY <1>2, AnnounceKeeps
<1>3. ASSUME NEW m \in Messages, NEW k \in 1..MaxDeliveries, Deliver(m, k) PROVE IInv'
  BY <1>3, DeliverKeeps
<1>4. ASSUME NEW d \in Deliveries, Handle(d) PROVE IInv'
  <2>1. CASE LookInCache(d) \/ LookInTable(d) \/ LookupFails(d) \/ Put(d) \/ RacyPut(d)
               \/ Prepare(d) \/ Drop(d)
    BY <2>1, HandlerMoves
  <2>2. CASE MapFatal(d) \/ NilMessage(d)
    BY <2>2, <1>1, DyingKeeps DEF MapFatal, NilMessage
  <2>3. CASE Save(d) \/ SaveFails(d)
    BY <2>3, SavingKeeps
  <2>4. CASE Spawn(d)
    BY <2>4, SpawnKeeps
  <2> QED  BY <1>4, <2>1, <2>2, <2>3, <2>4 DEF Handle
<1>5. ASSUME NEW d \in Deliveries, NEW r \in Redirects, Reach(r, d) PROVE IInv'
  BY <1>5, ReachKeeps
<1>6. CASE Crash
  BY <1>6, <1>1, DyingKeeps DEF Crash
<1>7. CASE UNCHANGED vars
  <2>1. \A e : Emitted(e)' <=> Emitted(e)
    BY <1>7 DEF vars, Emitted
  <2> QED
    BY <1>7, <2>1 DEF vars, history, IInv, TypeOK, KindFits, SentAfterSpawn, EmittedIsSaved, CachedIsSaved,
                      InOrder, OneUnsaved, NoneBehind, OneEmitted, Sound
<1> QED  BY <1>2, <1>3, <1>4, <1>5, <1>6, <1>7 DEF Next

LEMMA Invariant == Spec => []IInv
  BY InitSatisfies, Inductive, PTL DEF Spec

(* Every variable of the pipeline keeps its type; a redirect's goroutine     *)
(* runs only for a delivery whose dispatch has ended (hub.go, dispatch).     *)
THEOREM TypeCorrect == Spec => []TypeOK
<1>1. IInv => TypeOK
  BY DEF IInv
<1> QED  BY <1>1, Invariant, PTL

(* existIdCache never answers for a message that has no row, so that nothing *)
(* new is filtered (hub/message_manager.go, Exist).                          *)
THEOREM CacheSound == Spec => []CacheIsSound
<1>1. IInv => CacheIsSound
  BY DEF IInv, CachedIsSaved, CacheIsSound
<1> QED  BY <1>1, Invariant, PTL

(* dispatch saves before it starts the goroutines that send.                 *)
THEOREM SavedFirst == Spec => []SavedBeforeSent
<1>1. IInv => SavedBeforeSent
  BY DEF IInv, EmittedIsSaved, Emitted, SavedBeforeSent
<1> QED  BY <1>1, Invariant, PTL

(* No redirect gets a message twice, over any number of deliveries, restarts *)
(* and races in the cache, but for overlapping deliveries and failing calls. *)
THEOREM Once == Spec => []ForwardedOnce
<1>1. IInv => ForwardedOnce
  <2> SUFFICES ASSUME IInv, NEW r \in Redirects, NEW m \in Messages \ (overlapped \cup faulted),
                      NEW j \in 1..MaxDeliveries, NEW k \in 1..MaxDeliveries,
                      <<r, <<m, j>>>> \in sent, <<r, <<m, k>>>> \in sent
               PROVE  j = k
    BY DEF ForwardedOnce
  <2>1. <<m, j>> \in Sound /\ <<m, k>> \in Sound
    BY DEF Sound, Deliveries
  <2>2. Emitted(<<m, j>>) /\ Emitted(<<m, k>>)
    BY DEF Emitted
  <2>3. <<m, j>> = <<m, k>>
    BY <2>1, <2>2 DEF IInv, OneEmitted
  <2> QED  BY <2>3
<1> QED  BY <1>1, Invariant, PTL
=============================================================================
