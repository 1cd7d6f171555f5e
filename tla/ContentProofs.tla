--------------------------- MODULE ContentProofs ---------------------------
(***************************************************************************)
(* Proofs about Content, for any texts, names and limit.                   *)
(*                                                                         *)
(* The operators on strings are defined by what they look for; the lemmas  *)
(* say it character by character.  That a search finds a first place, and  *)
(* the names that fit a longest, comes from Least: every set of numbers    *)
(* has a least one, since their intervals are well-founded by inclusion.   *)
(***************************************************************************)
EXTENDS Content, SequenceTheorems, FiniteSetTheorems, TLAPS

String == Seq(Chars)

-----------------------------------------------------------------------------
(* Least and greatest numbers. *)

LEMMA Least ==
    ASSUME NEW S, S \subseteq Nat, S # {}
    PROVE  \E m \in S : \A k \in S : m <= k
<1> DEFINE T == {0..m : m \in S}
<1>1. T \subseteq FiniteSubsetsOf(Nat) /\ T # {}
    <2>1. \A m \in Nat : IsFiniteSet(0..m) /\ 0..m \subseteq Nat
        BY FS_Interval
    <2>2. QED
        BY <2>1 DEF FiniteSubsetsOf
<1>2. PICK x \in T : \A y \in T : ~(<<y, x>> \in StrictSubsetOrdering(Nat))
    BY <1>1, FS_StrictSubsetOrderingWellFounded, WFMin
<1>3. PICK m \in S : x = 0..m
    BY <1>2
<1>4. ASSUME NEW k \in S, ~(m <= k)
      PROVE  FALSE
    <2>1. 0..k \subseteq 0..m /\ 0..k # 0..m /\ 0..k \subseteq Nat /\ 0..m \subseteq Nat
        <3>1. k \in Nat /\ m \in Nat /\ k < m
            BY <1>4
        <3>2. m \in 0..m /\ m \notin 0..k
            BY <3>1
        <3>3. QED
            BY <3>1, <3>2
    <2>2. <<0..k, 0..m>> \in StrictSubsetOrdering(Nat)
        BY <2>1 DEF StrictSubsetOrdering
    <2>3. QED
        BY <1>2, <1>3, <2>2
<1>5. QED
    BY <1>4

LEMMA Greatest ==
    ASSUME NEW n \in Nat, NEW S, S \subseteq 0..n, S # {}
    PROVE  \E m \in S : \A k \in S : k <= m
<1> DEFINE T == {n - k : k \in S}
<1>1. T \subseteq Nat /\ T # {}
    OBVIOUS
<1>2. PICK x \in T : \A y \in T : x <= y
    BY <1>1, Least
<1>3. PICK m \in S : x = n - m
    BY <1>2
<1>4. ASSUME NEW k \in S
      PROVE  k <= m
    <2>1. n - k \in T
        OBVIOUS
    <2>2. n - m <= n - k
        BY <1>2, <1>3, <2>1
    <2>3. QED
        BY <2>2
<1>5. QED
    BY <1>4

LEMMA MinMax ==
    ASSUME NEW n \in Nat, NEW S, S \subseteq 0..n, S # {}
    PROVE  /\ Min(S) \in S /\ Max(S) \in S
           /\ \A k \in S : Min(S) <= k /\ k <= Max(S)
<1>1. \E m \in S : \A k \in S : m <= k
    <2>1. S \subseteq Nat
        OBVIOUS
    <2>2. QED
        BY <2>1, Least
<1>2. \E m \in S : \A k \in S : m >= k
    <2>1. PICK m \in S : \A k \in S : k <= m
        BY Greatest
    <2>2. QED
        BY <2>1
<1>3. Min(S) \in S /\ \A k \in S : Min(S) <= k
    BY <1>1 DEF Min
<1>4. Max(S) \in S /\ \A k \in S : Max(S) >= k
    BY <1>2 DEF Max
<1>5. QED
    BY <1>3, <1>4

-----------------------------------------------------------------------------
(* Where one string stands in another. *)

\* s stands in t from its i-th character on.
Stands(s, t, i) ==
    /\ i \in 1..(Len(t) - Len(s) + 1)
    /\ \A k \in 1..Len(s) : t[i + k - 1] = s[k]

LEMMA PartOf ==
    ASSUME NEW t \in String, NEW i \in 1..(Len(t) + 1), NEW j \in (i - 1)..Len(t)
    PROVE  /\ SubSeq(t, i, j) \in String
           /\ Len(SubSeq(t, i, j)) = j - i + 1
           /\ \A k \in 1..(j - i + 1) : SubSeq(t, i, j)[k] = t[i + k - 1]
<1>1. Len(t) \in Nat
    BY LenProperties DEF String
<1>2. \A k \in i..j : t[k] \in Chars
    BY <1>1, ElementOfSeq DEF String
<1>3. i \in Int /\ j \in Int /\ j - i + 1 >= 0
    BY <1>1
<1>4. QED
    BY <1>2, <1>3, SubSeqProperties DEF String

LEMMA StandsAsPart ==
    ASSUME NEW s \in String, NEW t \in String, NEW i \in 1..(Len(t) - Len(s) + 1)
    PROVE  Stands(s, t, i) <=> SubSeq(t, i, i + Len(s) - 1) = s
<1>1. Len(s) \in Nat /\ Len(t) \in Nat
    BY LenProperties DEF String
<1> DEFINE u == SubSeq(t, i, i + Len(s) - 1)
<1>2. u \in String /\ Len(u) = Len(s) /\ \A k \in 1..Len(s) : u[k] = t[i + k - 1]
    <2>1. i \in 1..(Len(t) + 1) /\ i + Len(s) - 1 \in (i - 1)..Len(t)
        BY <1>1
    <2>2. QED
        BY <1>1, <2>1, PartOf
<1> HIDE DEF u
<1>3. Stands(s, t, i) => u = s
    BY <1>2, SeqEqual DEF Stands, String
<1>4. u = s => Stands(s, t, i)
    BY <1>2 DEF Stands
<1>5. QED
    BY <1>3, <1>4 DEF u

LEMMA InsideStands ==
    ASSUME NEW s \in String, NEW t \in String, s # <<>>
    PROVE  Inside(s, t) <=> \E i \in 1..(Len(t) - Len(s) + 1) : Stands(s, t, i)
<1>1. Len(s) \in Nat \ {0} /\ Len(t) \in Nat
    BY LenProperties, EmptySeq DEF String
<1>2. ASSUME Inside(s, t)
      PROVE  \E i \in 1..(Len(t) - Len(s) + 1) : Stands(s, t, i)
    <2>1. PICK a \in 0..Len(t), b \in 0..Len(t) : s = SubSeq(t, a + 1, b)
        BY <1>2 DEF Inside, SubSeqs
    <2>2. a + 1 <= b
        BY <1>1, <2>1, SubSeqEmpty
    <2>3. Len(s) = b - a
        BY <1>1, <2>1, <2>2, PartOf
    <2>4. a + 1 \in 1..(Len(t) - Len(s) + 1) /\ b = (a + 1) + Len(s) - 1
        BY <1>1, <2>1, <2>3
    <2>5. QED
        BY <2>1, <2>4, StandsAsPart
<1>3. ASSUME NEW i \in 1..(Len(t) - Len(s) + 1), Stands(s, t, i)
      PROVE  Inside(s, t)
    <2>1. SubSeq(t, (i - 1) + 1, i + Len(s) - 1) = s
        BY <1>1, <1>3, StandsAsPart
    <2>2. i - 1 \in 0..Len(t) /\ i + Len(s) - 1 \in 0..Len(t)
        BY <1>1
    <2>3. \A a, b \in 0..Len(t) : SubSeq(t, a + 1, b) \in SubSeqs(t)
        BY DEF SubSeqs
    <2>4. SubSeq(t, (i - 1) + 1, i + Len(s) - 1) \in SubSeqs(t)
        BY <2>2, <2>3
    <2>5. QED
        BY <2>1, <2>4 DEF Inside
<1>4. QED
    BY <1>2, <1>3

\* The index strings.Index finds is that of the first place.
LEMMA FirstStands ==
    ASSUME NEW s \in String, NEW t \in String, s # <<>>, Inside(s, t)
    PROVE  /\ First(s, t) \in 1..(Len(t) - Len(s) + 1)
           /\ Stands(s, t, First(s, t))
           /\ \A i \in 1..(First(s, t) - 1) : ~Stands(s, t, i)
<1>1. Len(s) \in Nat \ {0} /\ Len(t) \in Nat
    BY LenProperties, EmptySeq DEF String
<1> DEFINE Ends == {e \in 0..Len(t) : s \in SubSeqs(SubSeq(t, 1, e))}
           last == CHOOSE i \in 0..Len(t) : /\ s \in SubSeqs(SubSeq(t, 1, i))
                                            /\ \A j \in 0..(i - 1) : s \notin SubSeqs(SubSeq(t, 1, j))
\* A text up to e has s in it if s stands there and ends by then.
<1>2. \A e \in 0..Len(t) : s \in SubSeqs(SubSeq(t, 1, e)) <=> \E i \in 1..(e - Len(s) + 1) : Stands(s, t, i)
    <2> SUFFICES ASSUME NEW e \in 0..Len(t)
                 PROVE  Inside(s, SubSeq(t, 1, e)) <=> \E i \in 1..(e - Len(s) + 1) : Stands(s, t, i)
        BY DEF Inside
    <2> DEFINE u == SubSeq(t, 1, e)
    <2>1. u \in String /\ Len(u) = e /\ \A k \in 1..e : u[k] = t[k]
        BY <1>1, PartOf
    <2> HIDE DEF u
    <2>2. \A i \in 1..(e - Len(s) + 1) : Stands(s, u, i) <=> Stands(s, t, i)
        BY <1>1, <2>1 DEF Stands
    <2>3. Inside(s, u) <=> \E i \in 1..(Len(u) - Len(s) + 1) : Stands(s, u, i)
        BY <2>1, InsideStands
    <2>4. QED
        BY <2>1, <2>2, <2>3 DEF u
<1>3. Ends # {} /\ Ends \subseteq Nat
    <2>1. SubSeq(t, 1, Len(t)) = t
        BY SubSeqFull DEF String
    <2>2. s \in SubSeqs(SubSeq(t, 1, Len(t)))
        BY <2>1, Zenon DEF Inside
    <2>3. QED
        BY <1>1, <2>2
<1>4. PICK e \in Ends : \A k \in Ends : e <= k
    BY <1>3, Least
<1>5. \A j \in 0..(e - 1) : s \notin SubSeqs(SubSeq(t, 1, j))
    BY <1>1, <1>4
<1>6. /\ last \in 0..Len(t) /\ s \in SubSeqs(SubSeq(t, 1, last))
      /\ \A j \in 0..(last - 1) : s \notin SubSeqs(SubSeq(t, 1, j))
    BY <1>4, <1>5
<1>7. First(s, t) = last - (Len(s) - 1)
    BY DEF First, IndexFirstSubSeq
<1> HIDE DEF last
<1>8. PICK i \in 1..(last - Len(s) + 1) : Stands(s, t, i)
    BY <1>2, <1>6
<1>9. ASSUME NEW j \in 1..(last - Len(s))
      PROVE  ~Stands(s, t, j)
    <2>1. j + Len(s) - 1 \in 0..(last - 1) /\ j + Len(s) - 1 \in 0..Len(t)
        BY <1>1, <1>6
    <2>2. j \in 1..((j + Len(s) - 1) - Len(s) + 1)
        BY <1>1
    <2>3. QED
        BY <1>2, <1>6, <2>1, <2>2
<1>10. i = last - Len(s) + 1
    <2>1. i \notin 1..(last - Len(s))
        BY <1>8, <1>9
    <2>2. QED
        BY <1>1, <1>6, <2>1
<1>11. QED
    BY <1>1, <1>6, <1>7, <1>8, <1>9, <1>10

LEMMA PrefixStands ==
    ASSUME NEW s \in String, NEW t \in String
    PROVE  IsPrefix(s, t) <=> Stands(s, t, 1)
<1>1. Len(s) \in Nat /\ Len(t) \in Nat /\ SubSeq(s, 1, Len(s)) = s
    BY LenProperties, SubSeqFull DEF String
<1>2. 1 \in 1..(Len(t) - Len(s) + 1) <=> Len(s) <= Len(t)
    BY <1>1
<1>3. CASE Len(s) <= Len(t)
    <2>1. Stands(s, t, 1) <=> SubSeq(t, 1, 1 + Len(s) - 1) = s
        BY <1>2, <1>3, StandsAsPart
    <2>2. 1 + Len(s) - 1 = Len(s)
        BY <1>1
    <2>3. QED
        BY <1>1, <1>3, <2>1, <2>2 DEF IsPrefix
<1>4. CASE ~(Len(s) <= Len(t))
    BY <1>2, <1>4 DEF IsPrefix, Stands
<1>5. QED
    BY <1>3, <1>4

LEMMA BehindIs ==
    ASSUME NEW t \in String, NEW i \in 1..(Len(t) + 1)
    PROVE  /\ Behind(i, t) \in String
           /\ Len(Behind(i, t)) = Len(t) - i + 1
           /\ \A k \in 1..(Len(t) - i + 1) : Behind(i, t)[k] = t[i + k - 1]
<1>1. Len(t) \in (i - 1)..Len(t)
    BY LenProperties DEF String
<1>2. QED
    BY <1>1, PartOf DEF Behind

\* c is s less a characters in front and some behind, which are white, with a newline off
\* a row of dashes at either end.
Trims(c, s, a) ==
    /\ c \in String /\ Len(c) + a <= Len(s)
    /\ \A i \in 1..Len(c) : \/ c[i] = s[i + a]
                            \/ s[i + a] = "line" /\ c[i] = "dashes"
    /\ \A j \in 1..Len(s) : s[j] \notin White => j - a \in 1..Len(c)
    /\ \A i \in 2..(Len(c) - 1) : c[i] = s[i + a]
    /\ c # <<>> => s[a + 1] \notin White /\ s[a + Len(c)] \notin White

LEMMA TrimTrims ==
    ASSUME NEW s \in String
    PROVE  \E a \in 0..Len(s) : Trims(Trim(s), s, a)
<1> DEFINE kept == {i \in DOMAIN s : s[i] \notin White}
           core == IF kept = {} THEN <<>> ELSE SubSeq(s, Min(kept), Max(kept))
           a    == IF kept = {} THEN 0 ELSE Min(kept) - 1
           c    == Trim(s)
<1>1. Len(s) \in Nat /\ DOMAIN s = 1..Len(s)
    BY LenProperties DEF String
<1>2. /\ core \in String /\ a \in 0..Len(s) /\ Len(core) + a <= Len(s)
      /\ \A i \in 1..Len(core) : core[i] = s[i + a]
      /\ \A j \in 1..Len(s) : s[j] \notin White => j - a \in 1..Len(core)
      /\ core # <<>> => s[a + 1] \notin White /\ s[a + Len(core)] \notin White
    <2>1. CASE kept = {}
        <3>1. core = <<>> /\ a = 0
            BY <2>1
        <3>2. <<>> \in String /\ Len(<<>>) = 0
            BY EmptySeq DEF String
        <3>3. \A j \in 1..Len(s) : s[j] \in White
            BY <1>1, <2>1
        <3>4. QED
            BY <1>1, <3>1, <3>2, <3>3
    <2>2. CASE kept # {}
        <3>1. kept \subseteq 0..Len(s)
            BY <1>1
        <3>2. /\ Min(kept) \in kept /\ Max(kept) \in kept
              /\ \A k \in kept : Min(kept) <= k /\ k <= Max(kept)
            BY <1>1, <2>2, <3>1, MinMax
        <3> DEFINE lo == Min(kept)
                   hi == Max(kept)
        <3>3. lo \in 1..Len(s) /\ hi \in lo..Len(s) /\ s[lo] \notin White /\ s[hi] \notin White
            BY <1>1, <3>2
        <3>4. core = SubSeq(s, lo, hi) /\ a = lo - 1
            BY <2>2
        <3>5. \A j \in 1..Len(s) : s[j] \notin White => lo <= j /\ j <= hi
            BY <1>1, <3>2
        <3> HIDE DEF lo, hi, core, a, kept
        <3>6. /\ core \in String /\ Len(core) = hi - lo + 1
              /\ \A k \in 1..(hi - lo + 1) : core[k] = s[lo + k - 1]
            BY <1>1, <3>3, <3>4, PartOf
        <3>7. QED
            BY <1>1, <3>3, <3>4, <3>5, <3>6
    <2>3. QED
        BY <2>1, <2>2
<1>3. c = [i \in DOMAIN core |-> IF core[i] = "line" /\ i \in {1, Len(core)} THEN "dashes" ELSE core[i]]
    BY DEF Trim
<1> HIDE DEF core, a, c, kept
<1>4. DOMAIN core = 1..Len(core) /\ Len(core) \in Nat /\ \A i \in 1..Len(core) : core[i] \in Chars
    BY <1>2, LenProperties, ElementOfSeq DEF String
<1>5. c \in [1..Len(core) -> Chars]
    <2>1. \A i \in 1..Len(core) : (IF core[i] = "line" /\ i \in {1, Len(core)} THEN "dashes" ELSE core[i]) \in Chars
        <3>1. "dashes" \in Chars
            BY CharsType
        <3>2. QED
            BY <1>4, <3>1
    <2>2. QED
        BY <1>3, <1>4, <2>1
<1>6. c \in String
    BY <1>4, <1>5, SeqDef DEF String
<1>7. Len(c) = Len(core)
    BY <1>4, <1>5, <1>6, LenProperties DEF String
<1>8. \A i \in 1..Len(core) :
        c[i] = IF core[i] = "line" /\ i \in {1, Len(core)} THEN "dashes" ELSE core[i]
    BY <1>3, <1>4
<1>9. c # <<>> => core # <<>>
    BY <1>2, <1>4, <1>6, <1>7, EmptySeq DEF String
<1>10. Trims(c, s, a)
    <2>1. Len(c) + a <= Len(s) /\ \A j \in 1..Len(s) : s[j] \notin White => j - a \in 1..Len(c)
        BY <1>2, <1>7
    <2>2. \A i \in 1..Len(c) : c[i] = s[i + a] \/ (s[i + a] = "line" /\ c[i] = "dashes")
        BY <1>2, <1>7, <1>8
    <2>3. ASSUME NEW i \in 2..(Len(c) - 1)
          PROVE  c[i] = s[i + a]
        <3> DEFINE n == Len(core)
        <3>1. i \in 2..(n - 1) /\ n \in Nat
            BY <1>4, <1>7
        <3> HIDE DEF n
        <3>2. i \in 1..n /\ i # 1 /\ i # n
            BY <3>1
        <3>3. c[i] = core[i] /\ i \in 1..Len(core)
            BY <1>8, <3>2 DEF n
        <3>4. QED
            BY <1>2, <3>3
    <2>4. c # <<>> => s[a + 1] \notin White /\ s[a + Len(c)] \notin White
        BY <1>2, <1>7, <1>9
    <2>5. QED
        BY <1>6, <2>1, <2>2, <2>3, <2>4 DEF Trims
<1>11. QED
    BY <1>2, <1>10 DEF c

-----------------------------------------------------------------------------
(* getUserFromContent. *)

LEMMA NamesAre ==
    ASSUME NEW n \in Names
    PROVE  /\ n \in String /\ Len(n) \in Nat \ {0} /\ IsMember(n) /\ Known(n)
           /\ n[1] \notin White /\ n[Len(n)] \notin White
           /\ \A k \in 1..Len(n) : n[k] \notin {"line", "dashes"}
<1>1. n \in String /\ n # <<>>
    BY NamesType DEF String, NoName
<1>2. Len(n) \in Nat \ {0} /\ DOMAIN n = 1..Len(n)
    BY <1>1, EmptySeq, LenProperties DEF String
<1>3. \A k \in 1..Len(n) : n[k] \in Range(n)
    BY <1>2 DEF Range
<1>4. QED
    BY <1>1, <1>2, <1>3, NamesType DEF IsMember, Known

\* The part of the content in which a name is looked for.
CutOff(u, s) ==
    /\ u \in String /\ Len(u) <= Len(s)
    /\ Len(u) = Len(s) \/ Len(u) = Limit
    /\ \A k \in 1..Len(u) : u[k] = s[k]

LEMMA CutIs ==
    ASSUME NEW s \in String
    PROVE  \E u : CutOff(u, s) /\ Cut(s) = Trim(u)
<1>1. Len(s) \in Nat
    BY LenProperties DEF String
<1>2. CASE Len(s) > Limit
    <2>1. Limit \in (1 - 1)..Len(s) /\ 1 \in 1..(Len(s) + 1) /\ Limit - 1 + 1 = Limit
        BY <1>1, <1>2, LimitIsNat
    <2>2. /\ SubSeq(s, 1, Limit) \in String
          /\ Len(SubSeq(s, 1, Limit)) = Limit - 1 + 1
          /\ \A k \in 1..(Limit - 1 + 1) : SubSeq(s, 1, Limit)[k] = s[1 + k - 1]
        BY <2>1, PartOf
    <2>3. \A k \in 1..Limit : SubSeq(s, 1, Limit)[k] = s[k]
        BY <2>1, <2>2
    <2>4. CutOff(SubSeq(s, 1, Limit), s)
        BY <1>1, <1>2, <2>1, <2>2, <2>3 DEF CutOff
    <2>5. Cut(s) = Trim(SubSeq(s, 1, Limit))
        BY <1>2 DEF Cut
    <2>6. QED
        BY <2>4, <2>5
<1>3. CASE ~(Len(s) > Limit)
    <2>1. CutOff(s, s)
        BY <1>1 DEF CutOff
    <2>2. Cut(s) = Trim(s)
        BY <1>3 DEF Cut
    <2>3. QED
        BY <2>1, <2>2
<1>4. QED
    BY <1>2, <1>3

\* The names of members among the parts of c that are tried.
Candidates(c, separator) ==
    {n \in {c} \cup {SubSeq(c, 1, i - 1) : i \in {j \in DOMAIN c : IsPrefix(separator, Behind(j, c))}} :
        Known(n)}

LEMMA CandidatesAre ==
    ASSUME NEW c \in String, NEW separator, NEW n \in Candidates(c, separator)
    PROVE  /\ n \in String /\ n \in Names \cup {NoName}
           /\ Len(n) \in 0..Len(c) /\ \A k \in 1..Len(n) : n[k] = c[k]
<1>1. Len(c) \in Nat /\ DOMAIN c = 1..Len(c)
    BY LenProperties DEF String
<1>2. n \in Names \cup {NoName}
    BY DEF Candidates, Known
<1>3. CASE n = c
    BY <1>1, <1>2, <1>3
<1>4. CASE n # c
    <2>1. PICK i \in 1..Len(c) : n = SubSeq(c, 1, i - 1)
        BY <1>1, <1>4 DEF Candidates
    <2>2. i - 1 \in (1 - 1)..Len(c) /\ 1 \in 1..(Len(c) + 1)
        BY <1>1
    <2>3. n \in String /\ Len(n) = i - 1 - 1 + 1 /\ \A k \in 1..(i - 1 - 1 + 1) : n[k] = c[1 + k - 1]
        BY <2>1, <2>2, PartOf
    <2>4. QED
        BY <1>1, <1>2, <2>2, <2>3
<1>5. QED
    BY <1>3, <1>4

\* Joining the parts again from all of them down finds the longest name.
LEMMA NameInIs ==
    ASSUME NEW s \in String, NEW separator
    PROVE  LET names == Candidates(Cut(s), separator)
               name  == NameIn(s, separator)
           IN  /\ Cut(s) \in String
               /\ names = {} => name = Nobody
               /\ names # {} => name \in names /\ \A n \in names : Len(n) <= Len(name)
<1> DEFINE c     == Cut(s)
           names == Candidates(c, separator)
           name  == NameIn(s, separator)
<1>1. c \in String
    <2>1. PICK u : CutOff(u, s) /\ Cut(s) = Trim(u)
        BY CutIs
    <2>2. \E a \in 0..Len(u) : Trims(Trim(u), u, a)
        BY <2>1, TrimTrims DEF CutOff
    <2>3. QED
        BY <2>1, <2>2 DEF Trims
<1>2. name = IF names = {} THEN Nobody ELSE PreferredOf(names)
    BY DEF NameIn, Candidates
<1> HIDE DEF c, name
<1>3. ASSUME names # {}
      PROVE  PreferredOf(names) \in names /\ \A n \in names : Len(n) <= Len(PreferredOf(names))
    <2> DEFINE lengths == {Len(n) : n \in names}
    <2>1. Len(c) \in Nat /\ \A n \in names : Len(n) \in 0..Len(c)
        BY <1>1, CandidatesAre, LenProperties DEF String
    <2>2. lengths \subseteq 0..Len(c) /\ lengths # {}
        BY <1>3, <2>1
    <2>3. PICK m \in lengths : \A k \in lengths : k <= m
        BY <2>1, <2>2, Greatest
    <2>4. PICK n \in names : m = Len(n)
        BY <2>3
    <2>5. \A other \in names : Len(n) >= Len(other)
        BY <2>1, <2>3, <2>4
    <2>6. /\ PreferredOf(names) \in names
          /\ \A other \in names : Len(PreferredOf(names)) >= Len(other)
        BY <2>5 DEF PreferredOf
    <2>7. QED
        BY <2>1, <2>6
<1>4. QED
    BY <1>1, <1>2, <1>3 DEF c, name

-----------------------------------------------------------------------------
(* getQuote. *)

LEMMA MarksAre ==
    ASSUME NEW m \in {Zh, En}
    PROVE  /\ m.prefix \in String /\ Len(m.prefix) = 1
           /\ m.suffix \in String /\ Len(m.suffix) = 2 /\ m.suffix # <<>>
           /\ m.separator \in String /\ Len(m.separator) \in 1..2
<1>1. \A c, d \in Chars : /\ <<c>> \in String /\ Len(<<c>>) = 1
                          /\ <<c, d>> \in String /\ Len(<<c, d>>) = 2 /\ <<c, d>> # <<>>
    BY DEF String
<1>2. /\ "[" \in Chars /\ "]" \in Chars /\ "line" \in Chars /\ "q" \in Chars
      /\ "zh:" \in Chars /\ ":" \in Chars /\ " " \in Chars
    BY CharsType
<1>3. CASE m = Zh
    <2>1. m.prefix = <<"[">> /\ m.suffix = <<"]", "line">> /\ m.separator = <<"zh:">>
        BY <1>3 DEF Zh
    <2>2. /\ <<"[">> \in String /\ Len(<<"[">>) = 1 /\ <<"zh:">> \in String /\ Len(<<"zh:">>) = 1
          /\ <<"]", "line">> \in String /\ Len(<<"]", "line">>) = 2 /\ <<"]", "line">> # <<>>
        BY <1>1, <1>2
    <2>3. QED
        BY <2>1, <2>2
<1>4. CASE m = En
    <2>1. m.prefix = <<"q">> /\ m.suffix = <<"q", "line">> /\ m.separator = <<":", " ">>
        BY <1>4 DEF En
    <2>2. /\ <<"q">> \in String /\ Len(<<"q">>) = 1 /\ <<":", " ">> \in String /\ Len(<<":", " ">>) = 2
          /\ <<"q", "line">> \in String /\ Len(<<"q", "line">>) = 2 /\ <<"q", "line">> # <<>>
        BY <1>1, <1>2
    <2>3. 2 \in 1..2
        OBVIOUS
    <2>4. QED
        BY <2>1, <2>2, <2>3
<1>5. QED
    BY <1>3, <1>4

LEMMA PrefixTaken ==
    ASSUME NEW s \in String, NEW t \in String, IsPrefix(s, t)
    PROVE  /\ Behind(Len(s) + 1, t) \in String
           /\ Len(s) <= Len(t)
           /\ t = s \o Behind(Len(s) + 1, t)
<1>1. Len(s) \in Nat /\ Len(t) \in Nat /\ Len(s) <= Len(t)
    BY LenProperties DEF String, IsPrefix
<1>2. SubSeq(s, 1, Len(s)) = s /\ SubSeq(t, 1, Len(t)) = t
    BY SubSeqFull DEF String
<1>3. 1 \in 1..(Len(t) + 1) /\ Len(s) \in (1 - 1)..Len(t) /\ Len(t) \in Len(s)..Len(t)
    BY <1>1
<1>4. SubSeq(t, 1, Len(s)) \o SubSeq(t, Len(s) + 1, Len(t)) = SubSeq(t, 1, Len(t))
    BY <1>3, ConcatAdjacentSubSeq DEF String
<1>5. SubSeq(t, 1, Len(s)) = s
    BY <1>2 DEF IsPrefix
<1>6. Behind(Len(s) + 1, t) \in String
    BY <1>1, BehindIs
<1>7. QED
    BY <1>1, <1>2, <1>4, <1>5, <1>6 DEF Behind

\* The text in front of the first s, s, and the text behind it.
LEMMA TakenApart ==
    ASSUME NEW s \in String, NEW t \in String, s # <<>>, Inside(s, t)
    PROVE  LET i == First(s, t)
           IN  /\ i \in 1..(Len(t) - Len(s) + 1)
               /\ SubSeq(t, 1, i - 1) \in String /\ Behind(i + Len(s), t) \in String
               /\ t = SubSeq(t, 1, i - 1) \o s \o Behind(i + Len(s), t)
<1> DEFINE i == First(s, t)
<1>1. Len(s) \in Nat /\ Len(t) \in Nat
    BY LenProperties DEF String
<1>2. i \in 1..(Len(t) - Len(s) + 1) /\ Stands(s, t, i)
    BY FirstStands
<1> HIDE DEF i
<1>3. SubSeq(t, i, i + Len(s) - 1) = s
    BY <1>2, StandsAsPart
<1>4. SubSeq(t, 1, i - 1) \in String /\ Behind(i + Len(s), t) \in String
    <2>1. 1 \in 1..(Len(t) + 1) /\ i - 1 \in (1 - 1)..Len(t) /\ i + Len(s) \in 1..(Len(t) + 1)
        BY <1>1, <1>2
    <2>2. QED
        BY <2>1, PartOf, BehindIs
<1>5. SubSeq(t, 1, i - 1) \o SubSeq(t, i, i + Len(s) - 1) = SubSeq(t, 1, i + Len(s) - 1)
    <2>1. /\ 1 \in 1..(Len(t) + 1) /\ i - 1 \in (1 - 1)..Len(t)
          /\ i + Len(s) - 1 \in (i - 1)..Len(t) /\ (i - 1) + 1 = i
        BY <1>1, <1>2
    <2>2. SubSeq(t, 1, i - 1) \o SubSeq(t, (i - 1) + 1, i + Len(s) - 1) = SubSeq(t, 1, i + Len(s) - 1)
        BY <2>1, ConcatAdjacentSubSeq DEF String
    <2>3. QED
        BY <2>1, <2>2
<1>6. SubSeq(t, 1, i + Len(s) - 1) \o SubSeq(t, i + Len(s), Len(t)) = SubSeq(t, 1, Len(t))
    <2>1. /\ 1 \in 1..(Len(t) + 1) /\ i + Len(s) - 1 \in (1 - 1)..Len(t)
          /\ Len(t) \in (i + Len(s) - 1)..Len(t) /\ (i + Len(s) - 1) + 1 = i + Len(s)
        BY <1>1, <1>2
    <2>2. SubSeq(t, 1, i + Len(s) - 1) \o SubSeq(t, (i + Len(s) - 1) + 1, Len(t)) = SubSeq(t, 1, Len(t))
        BY <2>1, ConcatAdjacentSubSeq DEF String
    <2>3. QED
        BY <2>1, <2>2
<1>7. SubSeq(t, 1, Len(t)) = t
    BY SubSeqFull DEF String
<1>8. t = SubSeq(t, 1, i - 1) \o s \o Behind(i + Len(s), t)
    BY <1>3, <1>5, <1>6, <1>7 DEF Behind
<1>9. QED
    BY <1>2, <1>4, <1>8 DEF i

\* A text with a quote is put together again from its prefix, the quote, the suffix and the rest.
LEMMA QuoteTakenApart ==
    ASSUME NEW t \in String, NEW m \in {Zh, En}, HasQuote(t, m), First(m.suffix, t) > Len(m.prefix)
    PROVE  /\ Quoted(t, m) \in String /\ Rest(t, m) \in String
           /\ t = m.prefix \o Quoted(t, m) \o m.suffix \o Rest(t, m)
<1> DEFINE i == First(m.suffix, t)
           front == SubSeq(t, 1, i - 1)
<1>1. Len(t) \in Nat
    BY LenProperties DEF String
<1>2. Inside(m.suffix, t) /\ IsPrefix(m.prefix, t)
    BY DEF HasQuote
<1>3. /\ i \in 1..(Len(t) - 1) /\ front \in String /\ Behind(i + Len(m.suffix), t) \in String
      /\ t = front \o m.suffix \o Behind(i + Len(m.suffix), t)
    <2> HIDE DEF i
    <2>1. Len(m.suffix) = 2
        BY MarksAre
    <2>2. Len(t) - Len(m.suffix) + 1 = Len(t) - 1
        BY <1>1, <2>1
    <2>3. QED
        BY <1>2, <2>2, TakenApart, MarksAre DEF i
<1>4. i > 1 /\ Rest(t, m) = Behind(i + Len(m.suffix), t)
    BY MarksAre DEF Rest
<1>5. Quoted(t, m) = SubSeq(t, 1 + 1, i - 1)
    BY MarksAre DEF Quoted
<1> HIDE DEF i
<1>6. SubSeq(t, 1, 1) \o SubSeq(t, 1 + 1, i - 1) = SubSeq(t, 1, i - 1)
    <2>1. 1 \in 1..(Len(t) + 1) /\ 1 \in (1 - 1)..Len(t) /\ i - 1 \in 1..Len(t)
        BY <1>1, <1>3, <1>4
    <2>2. QED
        BY <2>1, ConcatAdjacentSubSeq DEF String
<1>7. SubSeq(t, 1, 1) = m.prefix
    BY <1>2, MarksAre, SubSeqFull DEF IsPrefix, String
<1>8. Quoted(t, m) \in String
    <2>1. 1 + 1 \in 1..(Len(t) + 1) /\ i - 1 \in ((1 + 1) - 1)..Len(t)
        BY <1>1, <1>3, <1>4
    <2>2. QED
        BY <1>5, <2>1, PartOf
<1>9. front = m.prefix \o Quoted(t, m)
    BY <1>5, <1>6, <1>7
<1>10. QED
    BY <1>3, <1>4, <1>8, <1>9

\* So is a quote, from the name, the separator and the words, or the words alone.
LEMMA UnnamedTaken ==
    ASSUME NEW q \in String, NEW name \in String, NEW m \in {Zh, En}
    PROVE  /\ Unnamed(q, name, m) \in String
           /\ q \in {Unnamed(q, name, m), name \o m.separator \o Unnamed(q, name, m)}
<1> DEFINE head == name \o m.separator
<1>1. head \in String
    BY MarksAre, ConcatProperties DEF String
<1>2. CASE IsPrefix(head, q)
    <2>1. Unnamed(q, name, m) = Behind(Len(head) + 1, q)
        BY <1>2 DEF Unnamed
    <2> HIDE DEF head
    <2>2. Unnamed(q, name, m) \in String /\ q = head \o Unnamed(q, name, m)
        BY <1>1, <1>2, <2>1, PrefixTaken
    <2>3. QED
        BY <2>2 DEF head
<1>3. CASE ~IsPrefix(head, q)
    BY <1>3 DEF Unnamed
<1>4. QED
    BY <1>2, <1>3

-----------------------------------------------------------------------------
(* Nothing is lost. *)

Types ==
    /\ input \in String /\ group \in BOOLEAN
    /\ text \in String /\ body \in String

\* What holds in front of each step of onText.
Stages ==
    /\ pc = "received" => quote = Nothing /\ at = Nothing
    /\ pc = "quote" => group /\ text = Whole /\ body = Whole /\ quote = Nothing /\ at = Nothing
    /\ pc = "mention" => group /\ text = body /\ at = Nothing /\ Rejoins
    /\ pc = "panicked" => at = Nothing

Inv == Types /\ Stages /\ NothingLost

LEMMA TrimIs ==
    ASSUME NEW s \in String
    PROVE  Trim(s) \in String
BY TrimTrims DEF Trims

LEMMA NameInMember ==
    ASSUME NEW s \in String, NEW separator, IsMember(NameIn(s, separator))
    PROVE  NameIn(s, separator) \in Names
<1> DEFINE name == NameIn(s, separator)
<1>1. name \in Candidates(Cut(s), separator) /\ Cut(s) \in String
    BY NameInIs DEF IsMember
<1>2. name \in Names \cup {NoName}
    BY <1>1, CandidatesAre
<1>3. QED
    BY <1>2 DEF IsMember

LEMMA MarksOfMention ==
    /\ <<"u2005">> \in String /\ <<"@">> \in String /\ <<" ">> \in String
    /\ Len(<<"u2005">>) = 1 /\ Len(<<"@">>) = 1 /\ Len(<<" ">>) = 1
    /\ <<"u2005">> # <<>> /\ <<"@">> # <<>> /\ <<" ">> # <<>>
<1>1. \A c \in Chars : <<c>> \in String /\ Len(<<c>>) = 1 /\ <<c>> # <<>>
    BY DEF String
<1>2. "u2005" \in Chars /\ "@" \in Chars /\ " " \in Chars
    BY CharsType
<1>3. QED
    BY <1>1, <1>2

LEMMA SpaceTaken ==
    ASSUME NEW t \in String
    PROVE  LET r == ReplaceFirstSubSeq(<<>>, <<"u2005">>, t)
               f == First(<<"u2005">>, t)
           IN  /\ r \in String
               /\ ~Inside(<<"u2005">>, t) => r = t
               /\ Inside(<<"u2005">>, t) =>
                    /\ f \in 1..Len(t) /\ Len(r) = Len(t) - 1
                    /\ \A j \in 1..(Len(t) - 1) : r[j] = IF j < f THEN t[j] ELSE t[j + 1]
<1> DEFINE space == <<"u2005">>
           f     == First(space, t)
           front == SubSeq(t, 1, f - 1)
           rest  == Behind(f + Len(space), t)
           r     == ReplaceFirstSubSeq(<<>>, space, t)
<1>1. space \in String /\ space # <<>> /\ Len(space) = 1 /\ Len(t) \in Nat
    BY MarksOfMention, LenProperties DEF String
<1>2. CASE Inside(space, t)
    <2>1. f \in 1..(Len(t) - Len(space) + 1) /\ front \in String /\ rest \in String
        BY <1>1, <1>2, TakenApart
    <2>2. r = front \o <<>> \o rest
        BY <1>2 DEF Inside, ReplaceFirstSubSeq, ReplaceSubSeqAt, First, Behind
    <2>3. f + Len(space) = f + 1 /\ Len(t) - Len(space) + 1 = Len(t)
        <3> HIDE DEF space, f
        <3>1. QED
            BY <1>1
    <2>4. f \in 1..Len(t) /\ rest = Behind(f + 1, t)
        BY <2>1, <2>3
    <2> HIDE DEF f, r
    <2>5. Len(front) = f - 1 /\ \A k \in 1..(f - 1) : front[k] = t[k]
        <3>1. 1 \in 1..(Len(t) + 1) /\ f - 1 \in (1 - 1)..Len(t) /\ (f - 1) - 1 + 1 = f - 1
            BY <1>1, <2>4
        <3>2. /\ Len(front) = (f - 1) - 1 + 1
              /\ \A k \in 1..((f - 1) - 1 + 1) : front[k] = t[1 + k - 1]
            BY <3>1, PartOf
        <3>3. \A k \in 1..(f - 1) : 1 + k - 1 = k
            BY <2>4
        <3>4. QED
            BY <3>1, <3>2, <3>3
    <2>6. Len(rest) = Len(t) - f /\ \A k \in 1..(Len(t) - f) : rest[k] = t[f + k]
        <3>1. f + 1 \in 1..(Len(t) + 1) /\ Len(t) - (f + 1) + 1 = Len(t) - f
            BY <1>1, <2>4
        <3>2. /\ Len(Behind(f + 1, t)) = Len(t) - (f + 1) + 1
              /\ \A k \in 1..(Len(t) - (f + 1) + 1) : Behind(f + 1, t)[k] = t[(f + 1) + k - 1]
            BY <3>1, BehindIs
        <3>3. \A k \in 1..(Len(t) - f) : (f + 1) + k - 1 = f + k
            BY <1>1, <2>4
        <3>4. QED
            BY <2>4, <3>1, <3>2, <3>3
    <2> HIDE DEF front, rest
    <2>7. r = front \o rest
        BY <2>1, <2>2, ConcatEmptySeq DEF String
    <2>8. /\ r \in String /\ Len(r) = Len(front) + Len(rest)
          /\ \A j \in 1..(Len(front) + Len(rest)) :
               r[j] = IF j <= Len(front) THEN front[j] ELSE rest[j - Len(front)]
        BY <2>1, <2>7, ConcatProperties DEF String
    <2>9. Len(front) + Len(rest) = Len(t) - 1
        BY <1>1, <2>4, <2>5, <2>6
    <2>10. ASSUME NEW j \in 1..(Len(t) - 1)
           PROVE  r[j] = IF j < f THEN t[j] ELSE t[j + 1]
        <3>1. CASE j < f
            <4>1. j \in 1..(f - 1) /\ j <= Len(front)
                BY <2>4, <2>5, <3>1
            <4>2. QED
                BY <2>5, <2>8, <2>9, <3>1, <4>1
        <3>2. CASE ~(j < f)
            <4>1. /\ ~(j <= Len(front)) /\ j - Len(front) = j - f + 1
                  /\ j - f + 1 \in 1..(Len(t) - f) /\ f + (j - f + 1) = j + 1
                BY <1>1, <2>4, <2>5, <3>2
            <4>2. r[j] = rest[j - f + 1]
                BY <2>8, <2>9, <4>1
            <4>3. rest[j - f + 1] = t[j + 1]
                BY <2>6, <4>1
            <4>4. QED
                BY <3>2, <4>2, <4>3
        <3>3. QED
            BY <3>1, <3>2
    <2>11. QED
        BY <1>2, <2>4, <2>8, <2>9, <2>10 DEF f, r
<1>3. CASE ~Inside(space, t)
    BY <1>3 DEF Inside, ReplaceFirstSubSeq
<1>4. QED
    BY <1>2, <1>3

LEMMA InitInv == Init => Inv
<1> SUFFICES ASSUME Init
             PROVE  Inv
    OBVIOUS
<1>1. input \in String
    BY TextsType DEF Init, String
<1>2. QED
    BY <1>1 DEF Init, Inv, Types, Stages, NothingLost

LEMMA ReceiveKeeps == Inv /\ Receive => Inv'
<1> SUFFICES ASSUME Inv, Receive
             PROVE  Inv'
    OBVIOUS
<1>1. input' = input /\ input \in String /\ group' = group /\ group \in BOOLEAN
    BY DEF Inv, Types, Receive
<1>2. Whole' = Whole /\ text' = Whole /\ body' = Whole /\ Whole \in String
    BY <1>1, TrimIs DEF Receive, Whole
<1>3. quote' = Nothing /\ at' = Nothing
    BY DEF Inv, Stages, Receive
<1>4. pc' = IF group THEN "quote" ELSE "dispatched"
    BY DEF Receive
<1>5. Types'
    BY <1>1, <1>2 DEF Types
<1>6. Stages'
    BY <1>1, <1>2, <1>3, <1>4 DEF Stages
<1>7. NothingLost'
    BY <1>2, <1>3, <1>4 DEF NothingLost, Rejoins
<1>8. QED
    BY <1>5, <1>6, <1>7 DEF Inv

\* Only the prefix of an English quote is the start of its suffix.
LEMMA PanicKeeps == Inv /\ Panic => Inv'
<1> SUFFICES ASSUME Inv, Panic
             PROVE  Inv'
    OBVIOUS
<1>1. input' = input /\ Whole' = Whole /\ text = Whole /\ text \in String /\ at' = Nothing
    BY DEF Inv, Types, Stages, Panic, Whole
<1>2. PICK m \in {Zh, En} : HasQuote(text, m) /\ First(m.suffix, text) <= Len(m.prefix)
    BY DEF Panic
<1>3. /\ First(m.suffix, text) \in 1..(Len(text) - Len(m.suffix) + 1)
      /\ Stands(m.suffix, text, First(m.suffix, text))
    BY <1>1, <1>2, FirstStands, MarksAre DEF HasQuote
<1>4. First(m.suffix, text) = 1
    <2>1. Len(m.prefix) = 1
        BY MarksAre
    <2>2. \A i, k : i \in 1..k /\ i <= 1 => i = 1
        OBVIOUS
    <2>3. QED
        BY <1>2, <1>3, <2>1, <2>2
<1>5. Stands(m.suffix, text, 1) /\ Stands(m.prefix, text, 1)
    BY <1>1, <1>2, <1>3, <1>4, PrefixStands, MarksAre DEF HasQuote
<1>6. m.suffix[1] = m.prefix[1]
    BY <1>5, MarksAre DEF Stands
<1>7. m = En
    <2>1. Zh.suffix[1] = "]" /\ Zh.prefix[1] = "["
        BY DEF Zh
    <2>2. QED
        BY <1>6, <2>1
<1>8. IsPrefix(En.suffix, Whole')
    BY <1>1, <1>5, <1>7, PrefixStands, MarksAre
<1>9. Types' /\ Stages' /\ NothingLost'
    BY <1>1, <1>8 DEF Inv, Types, Stages, NothingLost, Panic
<1>10. QED
    BY <1>9 DEF Inv

LEMMA TakeQuoteKeeps ==
    ASSUME Inv, NEW m \in {Zh, En}, TakeQuote(m)
    PROVE  Inv'
<1> DEFINE q    == Quoted(text, m)
           name == NameIn(q, m.separator)
<1>1. /\ input' = input /\ Whole' = Whole /\ text = Whole /\ text \in String
      /\ at' = Nothing /\ group' = group /\ group /\ quote = Nothing
    BY DEF Inv, Types, Stages, TakeQuote, Whole
<1>2. /\ q \in String /\ body' \in String /\ text' = body'
      /\ Whole = m.prefix \o q \o m.suffix \o body'
    BY <1>1, QuoteTakenApart DEF TakeQuote
<1>3. HasQuote(Whole, m) /\ q = Quoted(Whole, m)
    BY <1>1 DEF TakeQuote
<1>4. \/ IsMember(name) /\ quote' = [name |-> name, content |-> Unnamed(q, name, m)]
      \/ quote' = Nothing
    BY <1>1 DEF TakeQuote
<1>5. Rejoins'
    <2>1. CASE quote' = Nothing
        BY <1>1, <1>2, <1>3, <2>1 DEF Rejoins
    <2>2. CASE quote' # Nothing
        <3>1. IsMember(name) /\ quote' = [name |-> name, content |-> Unnamed(q, name, m)]
            BY <1>4, <2>2
        <3>2. name \in String
            BY <1>2, <3>1, NameInMember, NamesAre
        <3>3. q \in {Unnamed(q, name, m), name \o m.separator \o Unnamed(q, name, m)}
            BY <1>2, <3>2, UnnamedTaken
        <3> HIDE DEF q, name
        <3>4. quote'.name = name /\ quote'.content = Unnamed(q, name, m)
            BY <3>1
        <3>5. q \in {quote'.content, quote'.name \o m.separator \o quote'.content}
            BY <3>3, <3>4
        <3>6. Whole' \in {m.prefix \o quote'.content \o m.suffix \o body',
                          m.prefix \o (quote'.name \o m.separator \o quote'.content) \o m.suffix \o body'}
            BY <1>1, <1>2, <3>5
        <3>7. QED
            BY <2>2, <3>6 DEF Rejoins
    <2>3. QED
        BY <2>1, <2>2
<1>6. pc' = "mention"
    BY DEF TakeQuote
<1>7. Types' /\ Stages' /\ NothingLost'
    BY <1>1, <1>2, <1>5, <1>6 DEF Inv, Types, Stages, NothingLost
<1>8. QED
    BY <1>7 DEF Inv

LEMMA NoQuoteKeeps == Inv /\ NoQuote => Inv'
<1> SUFFICES ASSUME Inv, NoQuote
             PROVE  Inv'
    OBVIOUS
<1>1. Whole' = Whole /\ body' = Whole /\ quote' = Nothing
    BY DEF Inv, Stages, NoQuote, Whole
<1>2. Rejoins'
    BY <1>1 DEF Rejoins
<1>3. Types' /\ Stages' /\ NothingLost'
    BY <1>1, <1>2 DEF Inv, Types, Stages, NothingLost, NoQuote
<1>4. QED
    BY <1>3 DEF Inv

LEMMA MentionKeeps == Inv /\ (TakeMention \/ NoMention) => Inv'
<1> SUFFICES ASSUME Inv, TakeMention \/ NoMention
             PROVE  Inv'
    OBVIOUS
<1>1. /\ Whole' = Whole /\ body' = body /\ quote' = quote /\ input' = input /\ group' = group
      /\ pc = "mention" /\ pc' = "dispatched" /\ text = body
    BY DEF Inv, Stages, TakeMention, NoMention, Whole
<1>2. text' \in {body', ReplaceFirstSubSeq(<<>>, <<"u2005">>, body')}
    BY <1>1 DEF TakeMention, NoMention
<1>3. Rejoins'
    BY <1>1 DEF Inv, Stages, Rejoins
<1>4. Types'
    BY <1>1, <1>2, SpaceTaken DEF Inv, Types
<1>5. QED
    BY <1>1, <1>2, <1>3, <1>4 DEF Inv, Stages, NothingLost

LEMMA StepInv == Inv /\ [Next]_vars => Inv'
<1> SUFFICES ASSUME Inv, [Next]_vars
             PROVE  Inv'
    OBVIOUS
<1>1. CASE UNCHANGED vars
    BY <1>1 DEF Inv, Types, Stages, NothingLost, Rejoins, Whole, vars
<1>2. ASSUME NEW m \in {Zh, En}, TakeQuote(m)
      PROVE  Inv'
    BY <1>2, TakeQuoteKeeps
<1>3. QED
    BY <1>1, <1>2, ReceiveKeeps, PanicKeeps, NoQuoteKeeps, MentionKeeps DEF Next

LEMMA Invariant == Spec => []Inv
BY InitInv, StepInv, PTL DEF Spec

(***************************************************************************)
(* No part of a message gets lost in onText: what it dispatches can be put *)
(* together to the message again, whatever the texts, the names and the    *)
(* limit; and the slice of an empty quote panics only for the English      *)
(* marks.                                                                  *)
(***************************************************************************)
THEOREM MessageKeptWhole == Spec => []NothingLost
<1>1. Inv => NothingLost
    BY DEF Inv
<1>2. QED
    BY <1>1, Invariant, PTL

-----------------------------------------------------------------------------
(* The author of a quote is found. *)

\* A name in front is not trimmed.
LEMMA TrimKeeps ==
    ASSUME NEW u \in String, NEW n \in Names, Stands(n, u, 1)
    PROVE  Trims(Trim(u), u, 0) /\ Stands(n, Trim(u), 1)
<1> DEFINE c == Trim(u)
           k == Len(n)
<1>1. /\ n \in String /\ k \in Nat \ {0} /\ n[1] \notin White /\ n[k] \notin White
      /\ \A i \in 1..k : n[i] # "line"
    BY NamesAre
<1>2. Len(u) \in Nat /\ k <= Len(u) /\ \A i \in 1..k : u[i] = n[i]
    BY <1>1, LenProperties DEF Stands, String
<1>3. PICK a \in 0..Len(u) : Trims(c, u, a)
    BY TrimTrims
<1> HIDE DEF c, k
<1>4. Len(c) \in Nat
    BY <1>3, LenProperties DEF Trims, String
<1>5. 1 \in 1..Len(u) /\ k \in 1..Len(u) /\ 1 \in 1..k /\ k \in 1..k
    BY <1>1, <1>2
<1>6. u[1] \notin White /\ u[k] \notin White
    BY <1>1, <1>2, <1>5
<1>7. 1 - a \in 1..Len(c) /\ k - a \in 1..Len(c)
    BY <1>3, <1>5, <1>6 DEF Trims
<1>8. a = 0 /\ k <= Len(c)
    BY <1>1, <1>4, <1>7
<1>9. \A i \in 1..k : c[i] = n[i]
    <2> TAKE i \in 1..k
    <2>1. i \in 1..Len(c) /\ i + a = i
        BY <1>1, <1>4, <1>8
    <2>2. u[i] = n[i] /\ u[i] # "line"
        BY <1>1, <1>2
    <2>3. QED
        BY <1>3, <2>1, <2>2 DEF Trims
<1>10. Stands(n, c, 1)
    <2>1. 1 \in 1..(Len(c) - k + 1)
        BY <1>1, <1>4, <1>8
    <2>2. \A i \in 1..k : c[1 + i - 1] = n[i]
        BY <1>1, <1>9
    <2>3. QED
        BY <2>1, <2>2 DEF Stands, k
<1>11. QED
    BY <1>3, <1>8, <1>10 DEF c

\* Neither is it cut off.
LEMMA CutKeeps ==
    ASSUME NEW s \in String, NEW n \in Names, Stands(n, s, 1), Len(n) <= Limit
    PROVE  \E u : /\ CutOff(u, s) /\ Cut(s) = Trim(u)
                  /\ Trims(Cut(s), u, 0) /\ Stands(n, Cut(s), 1)
<1>1. PICK u : CutOff(u, s) /\ Cut(s) = Trim(u)
    BY CutIs
<1>2. u \in String /\ Len(u) \in Nat /\ Len(s) \in Nat /\ Len(n) \in Nat \ {0}
    BY <1>1, NamesAre, LenProperties DEF CutOff, String
<1>3. Len(n) <= Len(s) /\ \A i \in 1..Len(n) : s[i] = n[i]
    BY <1>2 DEF Stands
<1>4. Len(n) <= Len(u)
    BY <1>1, <1>2, <1>3, LimitIsNat DEF CutOff
<1>5. Stands(n, u, 1)
    BY <1>1, <1>2, <1>3, <1>4 DEF Stands, CutOff
<1>6. QED
    BY <1>1, <1>2, <1>5, TrimKeeps

\* A name is tried that is all of the content, or has the separator behind it.
LEMMA Tried ==
    ASSUME NEW c \in String, NEW n \in Names, Stands(n, c, 1), NEW separator \in String,
           separator # <<>>, Len(c) = Len(n) \/ Stands(separator, c, Len(n) + 1)
    PROVE  n \in Candidates(c, separator)
<1>1. /\ Len(c) \in Nat /\ DOMAIN c = 1..Len(c) /\ Len(separator) \in Nat \ {0}
      /\ n \in String /\ Len(n) \in Nat \ {0} /\ Known(n)
    BY NamesAre, LenProperties, EmptySeq DEF String
<1>2. CASE Len(c) = Len(n)
    <2>1. \A i \in 1..Len(n) : c[i] = n[i]
        BY <1>1 DEF Stands
    <2>2. c = n
        BY <1>1, <1>2, <2>1, SeqEqual DEF String
    <2>3. QED
        BY <1>1, <2>2 DEF Candidates
<1>3. CASE Stands(separator, c, Len(n) + 1)
    <2>1. /\ Len(n) + 1 \in 1..(Len(c) - Len(separator) + 1)
          /\ \A k \in 1..Len(separator) : c[(Len(n) + 1) + k - 1] = separator[k]
        BY <1>3 DEF Stands
    <2>2. Len(n) + 1 \in DOMAIN c /\ Len(n) + 1 \in 1..(Len(c) + 1)
        BY <1>1, <2>1
    <2> DEFINE b == Behind(Len(n) + 1, c)
    <2>3. /\ b \in String /\ Len(b) = Len(c) - (Len(n) + 1) + 1
          /\ \A k \in 1..(Len(c) - (Len(n) + 1) + 1) : b[k] = c[(Len(n) + 1) + k - 1]
        BY <2>2, BehindIs
    <2> HIDE DEF b
    <2>4. Stands(separator, b, 1)
        BY <1>1, <2>1, <2>3 DEF Stands
    <2>5. IsPrefix(separator, b)
        BY <2>3, <2>4, PrefixStands
    <2>6. SubSeq(c, 1, (Len(n) + 1) - 1) = n
        <3>1. 1 \in 1..(Len(c) - Len(n) + 1)
            BY DEF Stands
        <3>2. SubSeq(c, 1, 1 + Len(n) - 1) = n
            BY <1>1, <3>1, StandsAsPart
        <3>3. 1 + Len(n) - 1 = (Len(n) + 1) - 1
            BY <1>1
        <3>4. QED
            BY <3>2, <3>3
    <2>7. QED
        BY <1>1, <2>2, <2>5, <2>6 DEF Candidates, b
<1>4. QED
    BY <1>2, <1>3

LEMMA NotMistaken ==
    ASSUME NEW s \in String, NEW separator, NEW n \in Names, n \in Candidates(Cut(s), separator)
    PROVE  /\ IsMember(NameIn(s, separator)) /\ NameIn(s, separator) \in Names
           /\ Len(NameIn(s, separator)) >= Len(n)
<1> DEFINE name == NameIn(s, separator)
<1>1. name \in Candidates(Cut(s), separator) /\ Len(n) <= Len(name) /\ Cut(s) \in String
    BY NameInIs
<1> HIDE DEF name
<1>2. name \in Names \cup {NoName}
    BY <1>1, CandidatesAre
<1>3. name # NoName
    <2>1. Len(NoName) = 0 /\ Len(n) \in Nat \ {0}
        BY NamesAre DEF NoName
    <2>2. QED
        BY <1>1, <2>1
<1>4. IsMember(name)
    BY <1>2, <1>3, NamesAre
<1>5. QED
    BY <1>1, <1>2, <1>3, <1>4, NamesAre DEF name

\* The separator stays behind the name: what trims the content stands beyond it, and the
\* cut is in front of the separator, behind it, or an English one is cut off.
LEMMA AuthorTried ==
    ASSUME NEW q \in String, NEW n \in Names, NEW m \in {Zh, En},
           IsPrefix(n \o m.separator, q), Len(n) <= Limit,
           m = En => Len(n) \notin {Limit - 2, Limit - 1},
           Len(q) > Len(n \o m.separator), q[Len(n \o m.separator) + 1] \notin White
    PROVE  n \in Candidates(Cut(q), m.separator)
<1> DEFINE sep  == m.separator
           c    == Cut(q)
           k    == Len(n)
           l    == Len(sep)
           head == n \o sep
<1>1. /\ n \in String /\ sep \in String /\ k \in Nat \ {0} /\ l \in 1..2 /\ Len(q) \in Nat
      /\ l = 2 => m = En
    <2>1. Len(Zh.separator) = 1
        BY DEF Zh
    <2>2. l = 2 => m = En
        <3>1. m = Zh => l = 1
            BY <2>1
        <3> HIDE DEF l
        <3>2. QED
            BY <3>1
    <2>3. n \in String /\ k \in Nat \ {0} /\ Len(q) \in Nat
        BY NamesAre, LenProperties DEF String
    <2>4. sep \in String /\ l \in 1..2
        BY MarksAre
    <2>5. QED
        BY <2>2, <2>3, <2>4
<1>2. /\ head \in String /\ Len(head) = k + l
      /\ \A i \in 1..(k + l) : head[i] = IF i <= k THEN n[i] ELSE sep[i - k]
    BY <1>1, ConcatProperties DEF String
<1>3. \A i \in 1..l : sep[i] # "line"
    <2>1. Zh.separator[1] = "zh:" /\ Len(Zh.separator) = 1
        BY DEF Zh
    <2>2. En.separator[1] = ":" /\ En.separator[2] = " " /\ Len(En.separator) = 2
        BY DEF En
    <2>3. CASE m = Zh
        <3>1. l = 1 /\ sep[1] = "zh:"
            BY <2>1, <2>3
        <3> HIDE DEF l, sep
        <3>2. QED
            BY <3>1
    <2>4. CASE m = En
        <3>1. l = 2 /\ sep[1] = ":" /\ sep[2] = " "
            BY <2>2, <2>4
        <3> HIDE DEF l, sep
        <3>2. \A i \in 1..2 : i = 1 \/ i = 2
            OBVIOUS
        <3>3. QED
            BY <3>1, <3>2
    <2>5. QED
        BY <2>3, <2>4
<1>4. \A i \in 1..(k + l) : q[i] = head[i]
    <2>1. Stands(head, q, 1)
        BY <1>2, PrefixStands
    <2>2. QED
        BY <1>2, <2>1 DEF Stands
<1> HIDE DEF head, k, l, sep
<1>5. /\ k + l + 1 <= Len(q) /\ q[k + l + 1] \notin White
      /\ \A i \in 1..k : q[i] = n[i]
      /\ \A i \in 1..l : q[k + i] = sep[i]
    <2>1. Len(q) > k + l /\ q[k + l + 1] \notin White
        BY <1>2 DEF head, sep
    <2>2. \A i \in 1..k : q[i] = n[i]
        BY <1>1, <1>2, <1>4
    <2>3. ASSUME NEW i \in 1..l
          PROVE  q[k + i] = sep[i]
        <3>1. k + i \in 1..(k + l) /\ ~(k + i <= k) /\ (k + i) - k = i
            BY <1>1
        <3>2. QED
            BY <1>2, <1>4, <3>1
    <2>4. QED
        BY <1>1, <2>1, <2>2, <2>3
<1>6. Stands(n, q, 1)
    <2>1. 1 \in 1..(Len(q) - k + 1) /\ \A i \in 1..k : q[1 + i - 1] = n[i]
        BY <1>1, <1>5
    <2>2. QED
        BY <2>1 DEF Stands, k
<1>7. PICK u : CutOff(u, q) /\ Trims(c, u, 0) /\ Stands(n, c, 1)
    <2>1. \E u : CutOff(u, q) /\ Trims(Cut(q), u, 0) /\ Stands(n, Cut(q), 1)
        BY <1>6, CutKeeps
    <2>2. QED
        BY <2>1 DEF c
<1> HIDE DEF c
<1>8. /\ c \in String /\ Len(c) \in Nat /\ Len(u) \in Nat /\ k <= Len(c) /\ Len(c) <= Len(u)
      /\ Len(u) <= Len(q) /\ (Len(u) = Len(q) \/ Len(u) = Limit)
      /\ \A i \in 1..Len(u) : u[i] = q[i]
    <2>1. 1 \in 1..(Len(c) - k + 1)
        BY <1>7 DEF Stands, k
    <2>2. c \in String /\ u \in String /\ Len(c) \in Nat /\ Len(u) \in Nat
        BY <1>7, LenProperties DEF CutOff, Trims, String
    <2>3. Len(c) <= Len(u)
        BY <1>7, <2>2 DEF Trims
    <2>4. QED
        BY <1>1, <1>7, <2>1, <2>2, <2>3 DEF CutOff
\* Where it is not cut off, the words keep the separator.
<1>9. ASSUME k + l <= Len(c)
      PROVE  Stands(sep, c, k + 1)
    <2>1. ASSUME NEW i \in 1..l
          PROVE  c[(k + 1) + i - 1] = sep[i]
        <3>1. (k + 1) + i - 1 = k + i /\ k + i \in 1..Len(c) /\ k + i \in 1..Len(u)
            BY <1>1, <1>8, <1>9
        <3>2. u[k + i] = sep[i] /\ sep[i] # "line"
            BY <1>3, <1>5, <1>8, <3>1
        <3>3. c[k + i] = u[(k + i) + 0] \/ u[(k + i) + 0] = "line"
            BY <1>7, <3>1 DEF Trims
        <3>4. (k + i) + 0 = k + i
            BY <1>1
        <3>5. QED
            BY <3>1, <3>2, <3>3, <3>4
    <2>2. k + 1 \in 1..(Len(c) - l + 1)
        BY <1>1, <1>8, <1>9
    <2>3. QED
        BY <2>1, <2>2 DEF Stands, l
<1>10. Len(c) = k \/ k + l <= Len(c)
    <2>1. CASE k + l + 1 <= Len(u)
        <3>1. k + l + 1 \in 1..Len(u)
            BY <1>1, <1>8, <2>1
        <3>2. u[k + l + 1] \notin White
            BY <1>5, <1>8, <3>1
        <3>3. (k + l + 1) - 0 \in 1..Len(c)
            BY <1>7, <3>1, <3>2 DEF Trims
        <3>4. QED
            BY <1>1, <1>8, <3>3
    <2>2. CASE ~(k + l + 1 <= Len(u))
        <3>1. Len(u) = Limit /\ Limit < k + l + 1 /\ Limit \in Nat
            BY <1>1, <1>5, <1>8, <2>2, LimitIsNat
        <3>2. l = 2 => k # Limit - 2 /\ k # Limit - 1
            BY <1>1 DEF k
        <3>3. k <= Limit
            BY DEF k
        <3>4. CASE l = 2
            BY <1>1, <1>8, <3>1, <3>2, <3>3, <3>4
        <3>5. CASE l = 1
            BY <1>1, <1>8, <3>1, <3>3, <3>5
        <3>6. QED
            BY <1>1, <3>4, <3>5
    <2>3. QED
        BY <2>1, <2>2
<1>11. n \in Candidates(c, sep)
    <2>1. Len(c) = Len(n) \/ Stands(sep, c, Len(n) + 1)
        BY <1>9, <1>10 DEF k
    <2>2. sep # <<>>
        <3>1. l # 0
            BY <1>1
        <3>2. Len(<<>>) = 0
            OBVIOUS
        <3>3. QED
            BY <3>1, <3>2 DEF l
    <2>3. QED
        BY <1>1, <1>7, <1>8, <2>1, <2>2, Tried
<1>12. QED
    BY <1>11 DEF c, sep

\* A text starts with the prefix of only one kind of quote.
LEMMA OneKind ==
    ASSUME NEW t \in String, NEW m \in {Zh, En}, NEW o \in {Zh, En}, HasQuote(t, m), HasQuote(t, o)
    PROVE  m = o
<1>1. Stands(m.prefix, t, 1) /\ Stands(o.prefix, t, 1)
    BY PrefixStands, MarksAre DEF HasQuote
<1>2. m.prefix[1] = o.prefix[1]
    BY <1>1, MarksAre DEF Stands
<1>3. Zh.prefix[1] = "[" /\ En.prefix[1] = "q"
    BY DEF Zh, En
<1>4. QED
    BY <1>2, <1>3

LEMMA AuthorsStep == Inv /\ AuthorsFound /\ [Next]_vars => AuthorsFound'
<1> SUFFICES ASSUME Inv, AuthorsFound, [Next]_vars
             PROVE  AuthorsFound'
    OBVIOUS
<1>1. CASE UNCHANGED vars
    BY <1>1 DEF AuthorsFound, Quotes, Finds, Whole, vars
<1>2. ASSUME NEW o \in {Zh, En}, TakeQuote(o)
      PROVE  AuthorsFound'
    <2>1. Whole' = Whole /\ text = Whole /\ text \in String /\ quote = Nothing
        BY <1>2 DEF Inv, Types, Stages, TakeQuote, Whole
    <2>2. SUFFICES ASSUME NEW n \in Names, NEW m \in {Zh, En}, Len(n) <= Limit,
                          m = En => Len(n) \notin {Limit - 2, Limit - 1}, Quotes(n, m)'
                   PROVE  Finds(n)'
        BY DEF AuthorsFound
    <2>3. Quotes(n, m)
        BY <2>1, <2>2 DEF Quotes
    <2>4. m = o
        BY <1>2, <2>1, <2>3, OneKind DEF Quotes, TakeQuote
    <2> DEFINE q    == Quoted(text, m)
               name == NameIn(q, m.separator)
               head == n \o m.separator
    <2>5. q \in String
        BY <1>2, <2>1, <2>4, QuoteTakenApart DEF TakeQuote
    <2>6. IsPrefix(head, q) /\ Unnamed(q, n, m) # <<>> /\ Unnamed(q, n, m)[1] \notin White
        BY <2>1, <2>3 DEF Quotes
    <2>7. Unnamed(q, n, m) = Behind(Len(head) + 1, q)
        BY <2>6 DEF Unnamed
    <2>8. head \in String /\ Len(head) \in Nat /\ Len(q) \in Nat
        BY <2>5, MarksAre, NamesAre, ConcatProperties, LenProperties DEF String
    <2> HIDE DEF q, head
    <2>9. Len(head) <= Len(q)
        BY <2>5, <2>6, <2>8, PrefixTaken
    <2>10. /\ Behind(Len(head) + 1, q) \in String
           /\ Len(Behind(Len(head) + 1, q)) = Len(q) - (Len(head) + 1) + 1
           /\ \A k \in 1..(Len(q) - (Len(head) + 1) + 1) :
                Behind(Len(head) + 1, q)[k] = q[(Len(head) + 1) + k - 1]
        <3>1. Len(head) + 1 \in 1..(Len(q) + 1)
            BY <2>8, <2>9
        <3>2. QED
            BY <2>5, <3>1, BehindIs
    <2>11. Len(q) > Len(head)
        <3>1. Len(Behind(Len(head) + 1, q)) # 0
            BY <2>6, <2>7, <2>10, EmptySeq DEF String
        <3>2. QED
            BY <2>8, <2>9, <2>10, <3>1
    <2>12. q[Len(head) + 1] \notin White
        <3>1. 1 \in 1..(Len(q) - (Len(head) + 1) + 1) /\ (Len(head) + 1) + 1 - 1 = Len(head) + 1
            BY <2>8, <2>11
        <3>2. QED
            BY <2>6, <2>7, <2>10, <3>1
    <2>13. n \in Candidates(Cut(q), m.separator)
        BY <2>2, <2>5, <2>6, <2>11, <2>12, AuthorTried DEF head
    <2>14. IsMember(name) /\ name \in Names /\ Len(name) >= Len(n)
        BY <2>5, <2>13, NotMistaken
    <2>15. \/ quote' = [name |-> name, content |-> Unnamed(q, name, m)]
           \/ "quote" \in failed'
        BY <1>2, <2>4, <2>14 DEF TakeQuote, q
    <2>16. [name |-> name, content |-> Unnamed(q, name, m)] # Nothing
        <3>1. Unnamed(q, name, m) \in Seq(Chars)
            BY <2>5, <2>14, UnnamedTaken, NamesAre DEF String
        <3>2. QED
            BY <2>14, <3>1, NothingIsNothing
    <2>17. QED
        BY <2>14, <2>15, <2>16 DEF Finds
<1>3. CASE NoQuote
    BY <1>3 DEF Inv, Stages, NoQuote, AuthorsFound, Quotes, Whole
<1>4. CASE Receive \/ Panic \/ TakeMention \/ NoMention
    BY <1>4 DEF Receive, Panic, TakeMention, NoMention, AuthorsFound
<1>5. QED
    BY <1>1, <1>2, <1>3, <1>4 DEF Next

(***************************************************************************)
(* Whoever wrote the words of a quote is found, or somebody with a longer  *)
(* name that fits as well, whatever the quote and the names, where the cut *)
(* does not fall into the English separator.                               *)
(***************************************************************************)
THEOREM AuthorsAreFound == Spec => []AuthorsFound
<1>1. Init => AuthorsFound
    BY DEF Init, AuthorsFound
<1>2. QED
    BY <1>1, AuthorsStep, Invariant, PTL DEF Spec

-----------------------------------------------------------------------------
(* A mention is found. *)

LEMMA ConcatStands ==
    ASSUME NEW s \in String, NEW r \in String, NEW t \in String, IsPrefix(s \o r, t), r # <<>>
    PROVE  Stands(s, t, 1) /\ Stands(r, t, Len(s) + 1)
<1>1. Len(s) \in Nat /\ Len(r) \in Nat \ {0} /\ Len(t) \in Nat
    BY LenProperties, EmptySeq DEF String
<1>2. /\ s \o r \in String /\ Len(s \o r) = Len(s) + Len(r)
      /\ \A i \in 1..(Len(s) + Len(r)) : (s \o r)[i] = IF i <= Len(s) THEN s[i] ELSE r[i - Len(s)]
    BY ConcatProperties DEF String
<1> DEFINE both == s \o r
<1>3. Stands(both, t, 1)
    BY <1>2, PrefixStands
<1> HIDE DEF both
<1>4. /\ Len(s) + Len(r) <= Len(t)
      /\ \A i \in 1..(Len(s) + Len(r)) : t[i] = both[i]
    <2>1. Len(both) = Len(s) + Len(r)
        BY <1>2 DEF both
    <2>2. QED
        BY <1>1, <1>3, <2>1 DEF Stands
<1>5. Stands(s, t, 1)
    <2>1. \A k \in 1..Len(s) : t[1 + k - 1] = s[k]
        BY <1>1, <1>2, <1>4 DEF both
    <2>2. QED
        BY <1>1, <1>4, <2>1 DEF Stands
<1>6. Stands(r, t, Len(s) + 1)
    <2>1. ASSUME NEW k \in 1..Len(r)
          PROVE  t[(Len(s) + 1) + k - 1] = r[k]
        <3>1. /\ (Len(s) + 1) + k - 1 = Len(s) + k /\ Len(s) + k \in 1..(Len(s) + Len(r))
              /\ ~(Len(s) + k <= Len(s)) /\ (Len(s) + k) - Len(s) = k
            BY <1>1
        <3>2. both[Len(s) + k] = r[k]
            BY <1>2, <3>1 DEF both
        <3>3. QED
            BY <1>4, <3>1, <3>2
    <2>2. Len(s) + 1 \in 1..(Len(t) - Len(r) + 1)
        BY <1>1, <1>4
    <2>3. QED
        BY <2>1, <2>2 DEF Stands
<1>7. QED
    BY <1>5, <1>6

\* The same for a single character.
LEMMA OneStands ==
    ASSUME NEW c \in Chars, NEW t \in String, NEW i
    PROVE  Stands(<<c>>, t, i) <=> i \in 1..Len(t) /\ t[i] = c
<1>1. Len(t) \in Nat /\ Len(<<c>>) = 1 /\ <<c>>[1] = c
    BY LenProperties DEF String
<1>2. i \in 1..(Len(t) - 1 + 1) <=> i \in 1..Len(t)
    BY <1>1
<1>3. \A k : k \in 1..1 <=> k = 1
    OBVIOUS
<1>4. i \in 1..Len(t) => i + 1 - 1 = i
    OBVIOUS
<1>5. Stands(<<c>>, t, i) <=> i \in 1..(Len(t) - 1 + 1) /\ \A k \in 1..1 : t[i + k - 1] = <<c>>[k]
    BY <1>1 DEF Stands
<1>6. QED
    BY <1>1, <1>2, <1>3, <1>4, <1>5

LEMMA OneInside ==
    ASSUME NEW c \in Chars, NEW t \in String
    PROVE  /\ Inside(<<c>>, t) <=> \E i \in 1..Len(t) : t[i] = c
           /\ Inside(<<c>>, t) => /\ First(<<c>>, t) \in 1..Len(t) /\ t[First(<<c>>, t)] = c
                                  /\ \A i \in 1..(First(<<c>>, t) - 1) : t[i] # c
<1>1. <<c>> \in String /\ <<c>> # <<>> /\ Len(<<c>>) = 1 /\ Len(t) \in Nat
    BY LenProperties DEF String
<1>2. Len(t) - Len(<<c>>) + 1 = Len(t)
    BY <1>1
<1>3. Inside(<<c>>, t) <=> \E i \in 1..Len(t) : Stands(<<c>>, t, i)
    BY <1>1, <1>2, InsideStands
<1> DEFINE f == First(<<c>>, t)
<1>4. Inside(<<c>>, t) => /\ f \in 1..Len(t) /\ Stands(<<c>>, t, f)
                          /\ \A i \in 1..(f - 1) : ~Stands(<<c>>, t, i)
    BY <1>1, <1>2, FirstStands
<1> HIDE DEF f
<1>5. Inside(<<c>>, t) => f \in 1..Len(t) /\ t[f] = c
    BY <1>4, OneStands
<1>6. ASSUME Inside(<<c>>, t), NEW i \in 1..(f - 1)
      PROVE  t[i] # c
    <2>1. i \in 1..Len(t)
        BY <1>1, <1>5, <1>6
    <2>2. QED
        BY <1>4, <1>6, <2>1, OneStands
<1>7. QED
    BY <1>3, <1>5, <1>6, OneStands DEF f

\* The text behind the first @.
LEMMA BehindAt ==
    ASSUME NEW t \in String, Inside(<<"@">>, t)
    PROVE  LET i == First(<<"@">>, t)
           IN  /\ i \in 1..Len(t) /\ t[i] = "@" /\ Len(t) \in Nat
               /\ Behind(i + 1, t) \in String
               /\ Len(Behind(i + 1, t)) = Len(t) - i
               /\ \A k \in 1..(Len(t) - i) : Behind(i + 1, t)[k] = t[i + k]
<1> DEFINE i == First(<<"@">>, t)
<1>1. Len(t) \in Nat
    BY LenProperties DEF String
<1>3. i \in 1..Len(t) /\ t[i] = "@"
    BY OneInside, CharsType
<1> HIDE DEF i
<1>4. i + 1 \in 1..(Len(t) + 1)
    BY <1>1, <1>3
<1>5. /\ Behind(i + 1, t) \in String
      /\ Len(Behind(i + 1, t)) = Len(t) - (i + 1) + 1
      /\ \A k \in 1..(Len(t) - (i + 1) + 1) : Behind(i + 1, t)[k] = t[(i + 1) + k - 1]
    BY <1>4, BehindIs
<1>6. Len(t) - (i + 1) + 1 = Len(t) - i /\ \A k \in 1..(Len(t) - i) : (i + 1) + k - 1 = i + k
    BY <1>1, <1>3
<1>7. QED
    BY <1>1, <1>3, <1>5, <1>6 DEF i

LEMMA TrimmedName ==
    ASSUME NEW n \in Names
    PROVE  Trim(n) = n
<1>1. n \in String /\ Len(n) \in Nat \ {0}
    BY NamesAre
<1>2. Stands(n, n, 1)
    BY <1>1 DEF Stands
<1>3. Trims(Trim(n), n, 0) /\ Stands(n, Trim(n), 1)
    BY <1>1, <1>2, TrimKeeps
<1> DEFINE c == Trim(n)
<1> HIDE DEF c
<1>4. c \in String /\ Len(c) \in Nat /\ Len(c) + 0 <= Len(n)
    BY <1>3, LenProperties DEF Trims, String, c
<1>5. 1 \in 1..(Len(c) - Len(n) + 1) /\ \A i \in 1..Len(n) : c[i] = n[i]
    BY <1>1, <1>3 DEF Stands, c
<1>6. Len(c) = Len(n)
    BY <1>1, <1>4, <1>5
<1>7. c = n
    BY <1>1, <1>4, <1>5, <1>6, SeqEqual DEF String
<1>8. QED
    BY <1>7 DEF c

LEMMA MentionedFound ==
    ASSUME NEW t \in String, body = t, NEW n \in Names, Len(n) <= Limit, Mentions(n), ~IsAt
    PROVE  /\ IsMember(Mentioned(t)) /\ Mentioned(t) \in Names
           /\ Len(Mentioned(t)) >= Len(n)
<1> DEFINE rest  == Behind(First(<<"@">>, t) + 1, t)
           space == <<"u2005">>
           name  == Trim(SubSeq(rest, 1, First(space, rest) - 1))
           k     == Len(n)
<1>1. n \in String /\ k \in Nat \ {0} /\ Known(n) /\ IsMember(n)
    BY NamesAre
<1>2. Inside(<<"@">>, t)
    BY DEF Mentions
<1>3. rest \in String
    BY <1>2, BehindAt
<1>4. /\ Inside(space, rest) => Mentioned(t) = IF Known(name) THEN name ELSE Nobody
      /\ ~Inside(space, rest) => Mentioned(t) = NameIn(rest, <<" ">>)
    BY <1>2 DEF Mentioned
<1>5. \/ ~Inside(space, n) /\ IsPrefix(n \o space, rest)
      \/ ~Inside(space, rest) /\ (rest = n \/ IsPrefix(n \o <<" ">>, rest))
    BY DEF Mentions
<1> HIDE DEF rest
<1>6. Len(rest) \in Nat
    BY <1>3, LenProperties DEF String
<1>7. CASE ~Inside(space, n) /\ IsPrefix(n \o space, rest)
    <2>1. Stands(n, rest, 1) /\ Stands(space, rest, k + 1)
        BY <1>1, <1>3, <1>7, ConcatStands, MarksOfMention
    <2>2. k + 1 \in 1..Len(rest) /\ rest[k + 1] = "u2005" /\ \A j \in 1..k : n[j] # "u2005"
        <3>1. "u2005" \in Chars
            BY CharsType
        <3>2. k + 1 \in 1..Len(rest) /\ rest[k + 1] = "u2005"
            BY <1>3, <2>1, <3>1, OneStands
        <3>3. \A j \in 1..k : n[j] # "u2005"
            BY <1>1, <1>7, <3>1, OneInside
        <3>4. QED
            BY <3>2, <3>3
    <2> DEFINE i == First(space, rest)
    <2>3. Inside(space, rest) /\ i \in 1..Len(rest) /\ rest[i] = "u2005"
        BY <1>3, <2>2, OneInside, CharsType
    <2>4. \A j \in 1..(i - 1) : rest[j] # "u2005"
        BY <1>3, <2>3, OneInside, CharsType
    <2> HIDE DEF i
    <2>5. \A j \in 1..k : rest[j] = n[j]
        BY <1>1, <2>1 DEF Stands
    <2>6. i = k + 1
        BY <1>1, <1>6, <2>2, <2>3, <2>4, <2>5
    <2>7. SubSeq(rest, 1, i - 1) = n
        <3>1. 1 \in 1..(Len(rest) - Len(n) + 1)
            BY <2>1 DEF Stands
        <3>2. SubSeq(rest, 1, 1 + Len(n) - 1) = n
            BY <1>1, <1>3, <2>1, <3>1, StandsAsPart
        <3>3. 1 + Len(n) - 1 = i - 1
            BY <1>1, <2>6
        <3>4. QED
            BY <3>2, <3>3
    <2>8. name = n
        BY <2>7, TrimmedName DEF i
    <2> HIDE DEF name
    <2>9. Mentioned(t) = n
        BY <1>1, <1>4, <2>3, <2>8
    <2>10. QED
        BY <1>1, <2>9
<1>8. CASE ~Inside(space, rest) /\ (rest = n \/ IsPrefix(n \o <<" ">>, rest))
    <2>1. Stands(n, rest, 1)
        <3>1. CASE rest = n
            BY <1>1, <3>1 DEF Stands
        <3>2. CASE IsPrefix(n \o <<" ">>, rest)
            BY <1>1, <1>3, <3>2, ConcatStands, MarksOfMention
        <3>3. QED
            BY <1>8, <3>1, <3>2
    <2> DEFINE c == Cut(rest)
    <2>2. PICK u : CutOff(u, rest) /\ Trims(c, u, 0) /\ Stands(n, c, 1)
        BY <1>3, <2>1, CutKeeps
    <2> HIDE DEF c
    <2>3. /\ c \in String /\ Len(c) \in Nat /\ Len(u) \in Nat /\ k <= Len(c) /\ Len(c) <= Len(u)
          /\ Len(u) <= Len(rest)
        <3>1. 1 \in 1..(Len(c) - k + 1)
            BY <2>2 DEF Stands
        <3>2. c \in String /\ u \in String /\ Len(c) \in Nat /\ Len(u) \in Nat
            BY <2>2, LenProperties DEF CutOff, Trims, String
        <3>3. QED
            BY <1>1, <2>2, <3>1, <3>2 DEF CutOff, Trims
    <2>4. ASSUME Len(c) # k
          PROVE  Stands(<<" ">>, c, k + 1)
        <3>1. rest # n
            BY <1>1, <2>3, <2>4
        <3>2. Stands(<<" ">>, rest, k + 1)
            BY <1>1, <1>3, <1>8, <3>1, ConcatStands, MarksOfMention
        <3>3. rest[k + 1] = " "
            BY <1>3, <3>2, OneStands, CharsType
        <3>4. k + 1 \in 1..Len(c) /\ k + 1 \in 1..Len(u) /\ (k + 1) + 0 = k + 1
            BY <1>1, <2>3, <2>4
        <3>5. c[k + 1] = " "
            BY <2>2, <3>3, <3>4 DEF CutOff, Trims
        <3>6. QED
            BY <2>3, <3>4, <3>5, OneStands, CharsType
    <2>5. n \in Candidates(c, <<" ">>)
        BY <2>2, <2>3, <2>4, Tried, MarksOfMention
    <2>6. QED
        BY <1>3, <1>4, <1>8, <2>5, NotMistaken DEF c
<1>9. QED
    BY <1>5, <1>7, <1>8

LEMMA MentionedMember ==
    ASSUME NEW t \in String, IsMember(Mentioned(t))
    PROVE  Mentioned(t) \in Names
<1> DEFINE rest == Behind(First(<<"@">>, t) + 1, t)
           name == Trim(SubSeq(rest, 1, First(<<"u2005">>, rest) - 1))
<1>1. CASE IsAt
    BY <1>1, NamesType DEF Mentioned
<1>2. CASE ~IsAt /\ ~Inside(<<"@">>, t)
    BY <1>2 DEF Mentioned, IsMember
<1>3. CASE ~IsAt /\ Inside(<<"@">>, t)
    <2>1. rest \in String
        BY <1>3, BehindAt
    <2>2. Mentioned(t) = IF Inside(<<"u2005">>, rest) THEN IF Known(name) THEN name ELSE Nobody
                         ELSE NameIn(rest, <<" ">>)
        BY <1>3 DEF Mentioned
    <2> HIDE DEF rest, name
    <2>3. CASE Inside(<<"u2005">>, rest)
        BY <2>2, <2>3 DEF IsMember, Known
    <2>4. CASE ~Inside(<<"u2005">>, rest)
        BY <2>1, <2>2, <2>4, NameInMember
    <2>5. QED
        BY <2>3, <2>4
<1>4. QED
    BY <1>1, <1>2, <1>3

\* Where the flag stands in the text, the place is that of the flag.
LEMMA PlaceIs ==
    ASSUME NEW name \in Names, NEW t \in String
    PROVE  LET flag == <<"@">> \o name
               p    == Place(name, t)
               i    == p.offset
               j    == i + p.length
           IN  /\ p \in [offset : Int, length : Nat]
               /\ Inside(flag, t) => i # -1
               /\ i # -1 => j <= Len(t) /\ SubSeq(t, i + 1, j) \in {flag, flag \o <<" ">>}
<1> DEFINE flag == <<"@">> \o name
           wide == flag \o <<" ">>
           p    == Place(name, t)
           Marked(s, q) == /\ q \in [offset : Int, length : Nat] /\ q.offset # -1
                           /\ q.offset + q.length <= Len(t)
                           /\ SubSeq(t, q.offset + 1, q.offset + q.length) = s
<1>1. flag \in String /\ Len(flag) \in Nat \ {0}
    <2>1. name \in String /\ <<"@">> \in String /\ Len(name) \in Nat \ {0} /\ Len(<<"@">>) = 1
        BY NamesAre, MarksOfMention
    <2>2. flag \in String /\ Len(flag) = Len(<<"@">>) + Len(name)
        BY <2>1, ConcatProperties DEF String
    <2>3. QED
        BY <2>1, <2>2
<1> HIDE DEF flag
<1>2. wide \in String /\ Len(wide) \in Nat \ {0}
    <2>1. <<" ">> \in String /\ Len(<<" ">>) = 1
        BY MarksOfMention
    <2>2. wide \in String /\ Len(wide) = Len(flag) + Len(<<" ">>)
        BY <1>1, <2>1, ConcatProperties DEF String
    <2> HIDE DEF wide
    <2>3. Len(wide) = Len(flag) + 1
        BY <2>1, <2>2
    <2>4. QED
        BY <1>1, <2>2, <2>3
<1>3. p = IF Inside(wide, t) THEN [offset |-> Offset(wide, t), length |-> Len(wide)]
          ELSE IF Inside(flag, t) THEN [offset |-> Offset(flag, t), length |-> Len(flag)]
          ELSE [offset |-> -1, length |-> 0]
    BY DEF Place, flag
<1> HIDE DEF wide, p
<1>4. ASSUME NEW s \in String, Len(s) \in Nat \ {0}, Inside(s, t)
      PROVE  Marked(s, [offset |-> Offset(s, t), length |-> Len(s)])
    <2> DEFINE f == First(s, t)
    <2>1. s # <<>> /\ Len(t) \in Nat
        BY <1>4, LenProperties, EmptySeq DEF String
    <2>2. f \in 1..(Len(t) - Len(s) + 1) /\ Stands(s, t, f)
        BY <1>4, <2>1, FirstStands
    <2> HIDE DEF f
    <2>3. SubSeq(t, f, f + Len(s) - 1) = s
        BY <2>2, StandsAsPart
    <2>4. /\ f - 1 \in Int /\ f - 1 # -1 /\ (f - 1) + Len(s) <= Len(t)
          /\ (f - 1) + 1 = f /\ (f - 1) + Len(s) = f + Len(s) - 1
        BY <1>4, <2>1, <2>2
    <2>5. Offset(s, t) = f - 1
        BY DEF Offset, f
    <2>6. QED
        BY <1>4, <2>3, <2>4, <2>5
<1>5. CASE Inside(wide, t)
    <2>1. Marked(wide, p)
        BY <1>2, <1>3, <1>4, <1>5
    <2>2. QED
        BY <2>1 DEF p, wide, flag
<1>6. CASE ~Inside(wide, t) /\ Inside(flag, t)
    <2>1. Marked(flag, p)
        BY <1>1, <1>3, <1>4, <1>6
    <2>2. QED
        BY <2>1 DEF p, flag
<1>7. CASE ~Inside(wide, t) /\ ~Inside(flag, t)
    <2>1. p = [offset |-> -1, length |-> 0]
        BY <1>3, <1>7
    <2>2. p \in [offset : Int, length : Nat] /\ p.offset = -1
        BY <2>1
    <2>3. QED
        BY <1>7, <2>2 DEF p, flag
<1>8. QED
    BY <1>5, <1>6, <1>7

LEMMA MentionsStep == Inv /\ MentionsFound /\ [Next]_vars => MentionsFound'
<1> SUFFICES ASSUME Inv, MentionsFound, [Next]_vars
             PROVE  MentionsFound'
    OBVIOUS
<1>1. CASE UNCHANGED vars
    BY <1>1 DEF MentionsFound, Mentions, IsAt, vars
<1>2. CASE TakeMention \/ NoMention
    <2>1. text = body /\ body \in String /\ body' = body /\ at = Nothing /\ text' \in String
        BY <1>2, SpaceTaken DEF Inv, Types, Stages, TakeMention, NoMention
    <2>2. IsAt' <=> IsAt
        BY <1>2 DEF TakeMention, NoMention, IsAt
    <2>3. SUFFICES ASSUME NEW n \in Names, Len(n) <= Limit, Mentions(n)', "at" \notin failed'
                   PROVE  at' # Nothing /\ (Len(at'.name) >= Len(n) \/ (IsAt /\ at'.name = Bot))
        BY <2>2 DEF MentionsFound
    <2>4. Mentions(n)
        BY <2>1, <2>3 DEF Mentions
    <2> DEFINE name == Mentioned(body)
    <2>5. IF IsAt THEN name = Bot ELSE IsMember(name) /\ Len(name) >= Len(n)
        BY <2>1, <2>3, <2>4, MentionedFound DEF Mentioned
    <2>6. TakeMention /\ at' = [name |-> name, place |-> Place(name, text')]
        BY <1>2, <2>1, <2>3, <2>5 DEF TakeMention, NoMention
    <2>7. name \in Names
        BY <2>1, <2>6, MentionedMember DEF TakeMention
    <2>8. at' # Nothing
        <3> DEFINE place == Place(name, text')
        <3>1. place \in [offset : Int, length : Nat]
            BY <2>1, <2>7, PlaceIs
        <3> HIDE DEF place, name
        <3>2. [name |-> name, place |-> place] # Nothing
            BY <2>7, <3>1, NothingIsNothing
        <3>3. QED
            BY <2>6, <3>2 DEF place
    <2>9. QED
        BY <2>5, <2>6, <2>8
<1>3. CASE Receive
    BY <1>3 DEF Receive, MentionsFound
<1>4. ASSUME NEW m \in {Zh, En}, TakeQuote(m)
      PROVE  MentionsFound'
    BY <1>4 DEF TakeQuote, MentionsFound
<1>5. CASE Panic \/ NoQuote
    BY <1>5 DEF Panic, NoQuote, MentionsFound
<1>6. QED
    BY <1>1, <1>2, <1>3, <1>4, <1>5 DEF Next

(***************************************************************************)
(* A member the text mentions is found, or one with a longer name, or the  *)
(* bot, whose mentions go first.                                           *)
(***************************************************************************)
THEOREM MentionsAreFound == Spec => []MentionsFound
<1>1. Init => MentionsFound
    BY DEF Init, MentionsFound
<1>2. QED
    BY <1>1, MentionsStep, Invariant, PTL DEF Spec

-----------------------------------------------------------------------------
(* The mention is marked in the text. *)

\* What has no special space in it is kept when the first one is taken out.
LEMMA SpaceKeeps ==
    ASSUME NEW t \in String, NEW s \in String, s # <<>>, \A k \in 1..Len(s) : s[k] # "u2005",
           NEW i, Stands(s, t, i)
    PROVE  Inside(s, ReplaceFirstSubSeq(<<>>, <<"u2005">>, t))
<1> DEFINE r == ReplaceFirstSubSeq(<<>>, <<"u2005">>, t)
           f == First(<<"u2005">>, t)
<1>1. Len(t) \in Nat /\ Len(s) \in Nat \ {0} /\ r \in String
    BY SpaceTaken, LenProperties, EmptySeq DEF String
<1>2. i \in 1..(Len(t) - Len(s) + 1) /\ \A k \in 1..Len(s) : t[i + k - 1] = s[k]
    BY DEF Stands
<1>3. CASE ~Inside(<<"u2005">>, t)
    BY <1>2, <1>3, SpaceTaken, InsideStands
<1>4. CASE Inside(<<"u2005">>, t)
    <2>1. t[f] = "u2005"
        BY <1>4, OneInside, CharsType
    <2>2. /\ f \in 1..Len(t) /\ Len(r) = Len(t) - 1
          /\ \A j \in 1..(Len(t) - 1) : r[j] = IF j < f THEN t[j] ELSE t[j + 1]
        BY <1>4, SpaceTaken
    <2> HIDE DEF f, r
    <2>3. f < i \/ i + Len(s) <= f
        <3>1. ASSUME i <= f, f < i + Len(s)
              PROVE  FALSE
            <4>1. f - i + 1 \in 1..Len(s) /\ i + (f - i + 1) - 1 = f
                BY <1>1, <1>2, <2>2, <3>1
            <4>2. t[i + (f - i + 1) - 1] = s[f - i + 1]
                BY <1>2, <4>1
            <4>3. QED
                BY <2>1, <4>1, <4>2
        <3>2. QED
            BY <1>1, <1>2, <2>2, <3>1
    <2>4. CASE f < i
        <3>1. i - 1 \in 1..(Len(r) - Len(s) + 1)
            BY <1>1, <1>2, <2>2, <2>4
        <3>2. ASSUME NEW k \in 1..Len(s)
              PROVE  r[(i - 1) + k - 1] = s[k]
            <4>1. /\ (i - 1) + k - 1 \in 1..(Len(t) - 1) /\ ~((i - 1) + k - 1 < f)
                  /\ ((i - 1) + k - 1) + 1 = i + k - 1
                BY <1>1, <1>2, <2>2, <2>4
            <4>2. r[(i - 1) + k - 1] = t[((i - 1) + k - 1) + 1]
                BY <2>2, <4>1
            <4>3. QED
                BY <1>2, <4>1, <4>2
        <3>3. Stands(s, r, i - 1)
            BY <3>1, <3>2 DEF Stands
        <3>4. QED
            BY <1>1, <3>1, <3>3, InsideStands DEF r
    <2>5. CASE i + Len(s) <= f
        <3>1. i \in 1..(Len(r) - Len(s) + 1)
            BY <1>1, <1>2, <2>2, <2>5
        <3>2. ASSUME NEW k \in 1..Len(s)
              PROVE  r[i + k - 1] = s[k]
            <4>1. i + k - 1 \in 1..(Len(t) - 1) /\ i + k - 1 < f
                BY <1>1, <1>2, <2>2, <2>5
            <4>2. r[i + k - 1] = t[i + k - 1]
                BY <2>2, <4>1
            <4>3. QED
                BY <1>2, <4>2
        <3>3. Stands(s, r, i)
            BY <3>1, <3>2 DEF Stands
        <3>4. QED
            BY <1>1, <3>1, <3>3, InsideStands DEF r
    <2>6. QED
        BY <2>3, <2>4, <2>5
<1>5. QED
    BY <1>3, <1>4

\* What has no white ends is kept when the text is trimmed.
LEMMA TrimKeepsInside ==
    ASSUME NEW t \in String, NEW s \in String, NEW i, Stands(s, t, i), s # <<>>,
           s[1] \notin White, s[Len(s)] \notin White, \A k \in 1..Len(s) : s[k] # "line"
    PROVE  \E j : Stands(s, Trim(t), j)
<1> DEFINE c == Trim(t)
           l == Len(s)
<1>1. Len(t) \in Nat /\ l \in Nat \ {0}
    BY LenProperties, EmptySeq DEF String
<1>2. PICK a \in 0..Len(t) : Trims(c, t, a)
    BY TrimTrims
<1> HIDE DEF c
<1>3. c \in String /\ Len(c) \in Nat
    BY <1>2, LenProperties DEF Trims, String
<1>4. i \in 1..(Len(t) - l + 1) /\ \A k \in 1..l : t[i + k - 1] = s[k]
    BY DEF Stands
<1>5. s[1] \notin White /\ s[l] \notin White /\ \A k \in 1..l : s[k] # "line"
    OBVIOUS
<1> HIDE DEF l
<1>6. i - a \in 1..Len(c)
    <2>1. i + 1 - 1 = i /\ 1 \in 1..l /\ i \in 1..Len(t)
        BY <1>1, <1>4
    <2>2. t[i] \notin White
        BY <1>4, <1>5, <2>1
    <2>3. QED
        BY <1>2, <2>1, <2>2 DEF Trims
<1>7. (i + l - 1) - a \in 1..Len(c)
    <2>1. l \in 1..l /\ i + l - 1 \in 1..Len(t)
        BY <1>1, <1>4
    <2>2. t[i + l - 1] \notin White
        BY <1>4, <1>5, <2>1
    <2>3. QED
        BY <1>2, <2>1, <2>2 DEF Trims
<1>8. ASSUME NEW k \in 1..l
      PROVE  c[(i - a) + k - 1] = s[k]
    <2>1. (i - a) + k - 1 \in 1..Len(c) /\ ((i - a) + k - 1) + a = i + k - 1
        BY <1>1, <1>3, <1>4, <1>6, <1>7
    <2>2. t[i + k - 1] = s[k] /\ s[k] # "line"
        BY <1>4, <1>5
    <2>3. \/ c[(i - a) + k - 1] = t[((i - a) + k - 1) + a]
          \/ t[((i - a) + k - 1) + a] = "line"
        BY <1>2, <2>1 DEF Trims
    <2>4. QED
        BY <2>1, <2>2, <2>3
<1>9. i - a \in 1..(Len(c) - l + 1)
    BY <1>1, <1>3, <1>4, <1>6, <1>7
<1>10. Stands(s, c, i - a)
    BY <1>8, <1>9 DEF Stands, l
<1>11. QED
    BY <1>10 DEF c

\* A name at the start of a trimmed text is at the start of the text, unless that is white.
LEMMA TrimmedPrefix ==
    ASSUME NEW u \in String, NEW n \in Names, Len(u) >= 1 => u[1] \notin White, Stands(n, Trim(u), 1)
    PROVE  Stands(n, u, 1)
<1> DEFINE c == Trim(u)
           k == Len(n)
<1>1. k \in Nat \ {0} /\ Len(u) \in Nat /\ \A i \in 1..k : n[i] # "dashes"
    BY NamesAre, LenProperties DEF String
<1>2. PICK a \in 0..Len(u) : Trims(c, u, a)
    BY TrimTrims
<1> HIDE DEF c
<1>3. Len(c) \in Nat /\ Len(c) + a <= Len(u)
    BY <1>2, LenProperties DEF Trims, String
<1>4. 1 \in 1..(Len(c) - k + 1) /\ \A i \in 1..k : c[1 + i - 1] = n[i]
    BY DEF Stands, c
<1> HIDE DEF k
<1>5. 1 \in 1..Len(u) /\ Len(u) >= 1 /\ k <= Len(c) /\ k <= Len(u)
    BY <1>1, <1>3, <1>4
<1>6. 1 - a \in 1..Len(c)
    BY <1>2, <1>5 DEF Trims
<1>7. a = 0
    BY <1>3, <1>6
<1>8. ASSUME NEW i \in 1..k
      PROVE  u[1 + i - 1] = n[i]
    <2>1. 1 + i - 1 = i /\ i + a = i /\ i \in 1..Len(c)
        BY <1>1, <1>3, <1>5, <1>7
    <2>2. c[i] = n[i] /\ c[i] # "dashes"
        BY <1>1, <1>4, <2>1
    <2>3. QED
        BY <1>2, <2>1, <2>2 DEF Trims
<1>9. 1 \in 1..(Len(u) - k + 1)
    BY <1>1, <1>5
<1>10. QED
    BY <1>8, <1>9 DEF Stands, k

LEMMA FlagIs ==
    ASSUME NEW n \in Names
    PROVE  LET flag == <<"@">> \o n
           IN  /\ flag \in String /\ flag # <<>> /\ Len(flag) = Len(n) + 1 /\ flag[1] = "@"
               /\ \A k \in 1..Len(n) : flag[k + 1] = n[k]
<1> DEFINE flag == <<"@">> \o n
<1>1. n \in String /\ Len(n) \in Nat \ {0}
    BY NamesAre
<1>2. <<"@">> \in String /\ Len(<<"@">>) = 1 /\ <<"@">>[1] = "@"
    BY MarksOfMention
<1>3. /\ flag \in String /\ Len(flag) = 1 + Len(n)
      /\ \A j \in 1..(1 + Len(n)) : flag[j] = IF j <= 1 THEN <<"@">>[j] ELSE n[j - 1]
    BY <1>1, <1>2, ConcatProperties DEF String
<1> HIDE DEF flag
<1>4. flag # <<>>
    BY <1>1, <1>3, EmptySeq DEF String
<1>5. flag[1] = "@"
    <2>1. 1 \in 1..(1 + Len(n)) /\ 1 <= 1
        BY <1>1
    <2>2. QED
        BY <1>2, <1>3, <2>1
<1>6. ASSUME NEW k \in 1..Len(n)
      PROVE  flag[k + 1] = n[k]
    <2>1. k + 1 \in 1..(1 + Len(n)) /\ ~(k + 1 <= 1) /\ (k + 1) - 1 = k
        BY <1>1
    <2>2. QED
        BY <1>3, <2>1
<1>7. QED
    BY <1>1, <1>3, <1>4, <1>5, <1>6 DEF flag

\* The bot's name, where openwechat found it, stands in the text that is trimmed.
LEMMA BotStands ==
    ASSUME input \in String, IsAt
    PROVE  \E j : Stands(<<"@">> \o Bot, Whole, j)
<1> DEFINE flag  == <<"@">> \o Bot
           space == IF Inside(<<"u2005">>, input) THEN <<"u2005">> ELSE <<>>
           l     == Len(flag)
<1>1. Bot \in Names
    BY NamesType
<1>2. /\ flag \in String /\ flag # <<>> /\ Len(flag) = Len(Bot) + 1 /\ flag[1] = "@"
      /\ \A k \in 1..Len(Bot) : flag[k + 1] = Bot[k]
    BY <1>1, FlagIs
<1>3. /\ Len(Bot) \in Nat \ {0} /\ Bot[Len(Bot)] \notin White
      /\ \A k \in 1..Len(Bot) : Bot[k] # "line"
    BY <1>1, NamesAre
<1>4. space \in String
    <2>1. <<"u2005">> \in String /\ <<>> \in String
        BY MarksOfMention, EmptySeq DEF String
    <2>2. QED
        BY <2>1
<1>5. Inside(flag \o space, input)
    BY DEF IsAt
<1> HIDE DEF flag, space, l
<1>6. /\ flag \o space \in String /\ Len(flag \o space) = l + Len(space) /\ Len(space) \in Nat
      /\ \A k \in 1..(l + Len(space)) : (flag \o space)[k] = IF k <= l THEN flag[k] ELSE space[k - l]
    BY <1>2, <1>4, ConcatProperties, LenProperties DEF String, l
<1>7. l \in Nat \ {0} /\ l = Len(Bot) + 1
    BY <1>2, <1>3 DEF l
<1>8. \E i : Stands(flag, input, i)
    <2> DEFINE both == flag \o space
    <2>1. both # <<>>
        BY <1>6, <1>7, EmptySeq DEF String
    <2>2. PICK i : Stands(both, input, i)
        BY <1>5, <1>6, <2>1, InsideStands
    <2> HIDE DEF both
    <2>3. /\ Len(both) = l + Len(space) /\ Len(input) \in Nat
          /\ \A k \in 1..l : both[k] = flag[k]
        BY <1>6, <1>7, LenProperties DEF both, String
    <2>4. i \in 1..(Len(input) - l + 1) /\ \A k \in 1..l : input[i + k - 1] = flag[k]
        BY <1>6, <1>7, <2>2, <2>3 DEF Stands
    <2>5. QED
        BY <2>4 DEF Stands, l
<1>9. flag[1] \notin White /\ flag[l] \notin White /\ \A k \in 1..l : flag[k] # "line"
    <2>1. "@" \notin White /\ "@" # "line"
        BY DEF White
    <2>2. \A k \in 1..l : k = 1 \/ (k - 1 \in 1..Len(Bot) /\ (k - 1) + 1 = k)
        BY <1>3, <1>7
    <2>3. \A k \in 1..l : k = 1 \/ flag[k] = Bot[k - 1]
        BY <1>2, <2>2
    <2>4. flag[l] = Bot[Len(Bot)]
        <3>1. Len(Bot) \in 1..Len(Bot)
            BY <1>3
        <3>2. QED
            BY <1>2, <1>7, <3>1
    <2>5. QED
        BY <1>2, <1>3, <2>1, <2>2, <2>3, <2>4
<1>10. \E j : Stands(flag, Trim(input), j)
    BY <1>2, <1>8, <1>9, TrimKeepsInside DEF l
<1>11. QED
    BY <1>10 DEF flag, Whole

\* The name that is found behind the first @ is what stands there.
LEMMA MentionStands ==
    ASSUME NEW t \in String, ~IsAt, IsMember(Mentioned(t)), \A c \in White : ~Inside(<<"@", c>>, t)
    PROVE  LET name == Mentioned(t)
           IN  /\ \E i : Stands(<<"@">> \o name, t, i)
               /\ \A k \in 1..Len(name) : name[k] # "u2005"
<1> DEFINE name  == Mentioned(t)
           i     == First(<<"@">>, t)
           rest  == Behind(i + 1, t)
           space == <<"u2005">>
           front == SubSeq(rest, 1, First(space, rest) - 1)
           k     == Len(name)
           flag  == <<"@">> \o name
<1>1. name \in Names
    BY MentionedMember
<1>2. name \in String /\ k \in Nat \ {0}
    BY <1>1, NamesAre
<1>3. Inside(<<"@">>, t)
    BY DEF Mentioned, IsMember
<1>4. name = IF Inside(space, rest) THEN IF Known(Trim(front)) THEN Trim(front) ELSE Nobody
             ELSE NameIn(rest, <<" ">>)
    BY <1>3 DEF Mentioned
<1>5. /\ i \in 1..Len(t) /\ t[i] = "@" /\ Len(t) \in Nat
      /\ rest \in String /\ Len(rest) = Len(t) - i
      /\ \A j \in 1..(Len(t) - i) : rest[j] = t[i + j]
    BY <1>3, BehindAt
<1> HIDE DEF name, i, rest, front, flag
<1>6. Len(rest) >= 1 => rest[1] \notin White
    <2>1. SUFFICES ASSUME Len(rest) >= 1, rest[1] \in White
                   PROVE  FALSE
        OBVIOUS
    <2> DEFINE c == rest[1]
               s == <<"@", c>>
    <2>2. c \in White /\ c \in Chars
        BY <2>1, CharsType DEF White
    <2>3. t[i + 1] = c /\ i + 1 \in 1..Len(t)
        BY <1>5, <2>1
    <2> HIDE DEF c
    <2>4. s \in String /\ s # <<>> /\ Len(s) = 2 /\ s[1] = "@" /\ s[2] = c
        <3>1. "@" \in Chars /\ c \in Chars
            BY <2>2, CharsType
        <3>2. \A a, b \in Chars : /\ <<a, b>> \in Seq(Chars) /\ <<a, b>> # <<>> /\ Len(<<a, b>>) = 2
                                  /\ <<a, b>>[1] = a /\ <<a, b>>[2] = b
            OBVIOUS
        <3>3. QED
            BY <3>1, <3>2 DEF String
    <2> HIDE DEF s
    <2>5. i \in 1..(Len(t) - Len(s) + 1)
        BY <1>5, <2>3, <2>4
    <2>6. ASSUME NEW j \in 1..Len(s)
          PROVE  t[i + j - 1] = s[j]
        <3>1. j = 1 \/ j = 2
            BY <2>4
        <3>2. i + 1 - 1 = i /\ i + 2 - 1 = i + 1
            BY <1>5
        <3>3. QED
            BY <1>5, <2>3, <2>4, <3>1, <3>2
    <2>7. Inside(s, t)
        BY <2>4, <2>5, <2>6, InsideStands DEF Stands
    <2>8. QED
        BY <2>2, <2>7 DEF s
<1>7. \E u \in String : /\ Stands(name, Trim(u), 1) /\ Len(u) <= Len(rest)
                        /\ \A j \in 1..Len(u) : u[j] = rest[j] /\ u[j] # "u2005"
    <2>1. CASE Inside(space, rest)
        <3> DEFINE f == First(space, rest)
        <3>1. name = Trim(front)
            BY <1>1, <1>4, <2>1, NamesAre DEF IsMember
        <3>2. f \in 1..Len(rest) /\ \A j \in 1..(f - 1) : rest[j] # "u2005"
            <4>1. "u2005" \in Chars
                BY CharsType
            <4>2. QED
                BY <1>5, <2>1, <4>1, OneInside
        <3>3. front = SubSeq(rest, 1, f - 1)
            BY DEF front
        <3> HIDE DEF f
        <3>4. Len(rest) \in Nat
            BY <1>5, LenProperties DEF String
        <3>5. 1 \in 1..(Len(rest) + 1) /\ f - 1 \in (1 - 1)..Len(rest) /\ (f - 1) - 1 + 1 = f - 1
            BY <3>2, <3>4
        <3>6. /\ front \in String /\ Len(front) = (f - 1) - 1 + 1
              /\ \A j \in 1..((f - 1) - 1 + 1) : front[j] = rest[1 + j - 1]
            BY <1>5, <3>3, <3>5, PartOf
        <3>7. Len(front) = f - 1 /\ Len(front) <= Len(rest) /\ \A j \in 1..(f - 1) : 1 + j - 1 = j
            BY <3>2, <3>4, <3>5, <3>6
        <3>8. \A j \in 1..Len(front) : front[j] = rest[j] /\ front[j] # "u2005"
            BY <3>2, <3>5, <3>6, <3>7
        <3>9. Stands(name, Trim(front), 1)
            <4>1. 1 \in 1..(Len(name) - Len(name) + 1) /\ \A j \in 1..Len(name) : name[1 + j - 1] = name[j]
                BY <1>2
            <4>2. QED
                BY <3>1, <4>1 DEF Stands
        <3>10. QED
            BY <3>6, <3>7, <3>8, <3>9
    <2>2. CASE ~Inside(space, rest)
        <3>1. name = NameIn(rest, <<" ">>) /\ IsMember(name)
            BY <1>4, <2>2 DEF name
        <3> DEFINE c == Cut(rest)
        <3>2. name \in Candidates(c, <<" ">>) /\ c \in String
            BY <1>5, <3>1, NameInIs DEF IsMember
        <3>3. PICK u : CutOff(u, rest) /\ c = Trim(u)
            BY <1>5, CutIs
        <3> HIDE DEF c
        <3>4. Len(name) \in 0..Len(c) /\ \A j \in 1..Len(name) : name[j] = c[j]
            BY <3>2, CandidatesAre
        <3>5. Stands(name, c, 1)
            <4>1. 1 \in 1..(Len(c) - Len(name) + 1) /\ \A j \in 1..Len(name) : c[1 + j - 1] = name[j]
                BY <1>2, <3>4
            <4>2. QED
                BY <4>1 DEF Stands
        <3>6. /\ u \in String /\ Len(u) <= Len(rest) /\ Len(u) \in Nat /\ Len(rest) \in Nat
              /\ \A j \in 1..Len(u) : u[j] = rest[j]
            BY <1>5, <3>3, LenProperties DEF CutOff, String
        <3>7. \A j \in 1..Len(rest) : rest[j] # "u2005"
            <4>1. "u2005" \in Chars
                BY CharsType
            <4>2. QED
                BY <1>5, <2>2, <4>1, OneInside
        <3>8. \A j \in 1..Len(u) : u[j] = rest[j] /\ u[j] # "u2005"
            BY <3>6, <3>7
        <3>9. QED
            BY <3>3, <3>5, <3>6, <3>8
    <2>3. QED
        BY <2>1, <2>2
<1>8. PICK u \in String : /\ Stands(name, Trim(u), 1) /\ Len(u) <= Len(rest)
                          /\ \A j \in 1..Len(u) : u[j] = rest[j] /\ u[j] # "u2005"
    BY <1>7
<1>9. Len(u) \in Nat
    BY LenProperties DEF String
<1>10. Stands(name, u, 1)
    <2>1. Len(u) >= 1 => u[1] \notin White
        BY <1>5, <1>6, <1>8, <1>9
    <2>2. QED
        BY <1>1, <1>8, <2>1, TrimmedPrefix
<1>11. k <= Len(u) /\ \A j \in 1..k : u[j] = name[j]
    BY <1>2, <1>9, <1>10 DEF Stands
<1>12. \A j \in 1..k : t[i + j] = name[j] /\ name[j] # "u2005"
    <2> TAKE j \in 1..k
    <2>1. j \in 1..Len(u) /\ j \in 1..(Len(t) - i)
        BY <1>2, <1>5, <1>8, <1>9, <1>11
    <2>2. QED
        BY <1>5, <1>8, <1>11, <2>1
<1>13. Stands(flag, t, i)
    <2>1. /\ Len(flag) = k + 1 /\ flag[1] = "@"
          /\ \A j \in 1..k : flag[j + 1] = name[j]
        BY <1>1, FlagIs DEF flag
    <2>2. i \in 1..(Len(t) - Len(flag) + 1)
        BY <1>2, <1>5, <1>8, <1>9, <1>11, <2>1
    <2>3. ASSUME NEW j \in 1..Len(flag)
          PROVE  t[i + j - 1] = flag[j]
        <3>1. CASE j = 1
            <4>1. i + 1 - 1 = i
                BY <1>5
            <4>2. QED
                BY <1>5, <2>1, <3>1, <4>1
        <3>2. CASE j # 1
            <4>1. j - 1 \in 1..k /\ (j - 1) + 1 = j /\ i + j - 1 = i + (j - 1)
                BY <1>2, <1>5, <2>1, <3>2
            <4>2. QED
                BY <1>12, <2>1, <4>1
        <3>3. QED
            BY <3>1, <3>2
    <2>4. QED
        BY <2>2, <2>3 DEF Stands
<1>14. QED
    BY <1>12, <1>13 DEF name, flag

LEMMA MentionStays ==
    ASSUME input \in String, NEW t \in String, body = t, IsMember(Mentioned(t)),
           IsAt => body = Whole /\ ~Inside(<<"u2005">>, Bot),
           \A c \in White : ~Inside(<<"@", c>>, t)
    PROVE  Inside(<<"@">> \o Mentioned(t), ReplaceFirstSubSeq(<<>>, <<"u2005">>, t))
<1> DEFINE name == Mentioned(t)
           flag == <<"@">> \o name
<1>1. name \in Names
    BY MentionedMember
<1>2. (\E i : Stands(flag, t, i)) /\ \A k \in 1..Len(name) : name[k] # "u2005"
    <2>1. CASE IsAt
        <3>1. name = Bot
            BY <2>1 DEF Mentioned
        <3>2. Bot \in String /\ "u2005" \in Chars /\ ~Inside(<<"u2005">>, Bot) /\ t = Whole
            BY <1>1, <2>1, <3>1, NamesAre, CharsType
        <3>3. \A k \in 1..Len(Bot) : Bot[k] # "u2005"
            BY <3>2, OneInside
        <3>4. \E i : Stands(<<"@">> \o Bot, t, i)
            BY <2>1, <3>2, BotStands
        <3>5. QED
            BY <3>1, <3>3, <3>4
    <2>2. CASE ~IsAt
        BY <2>2, MentionStands
    <2>3. QED
        BY <2>1, <2>2
<1> HIDE DEF name
<1>3. /\ flag \in String /\ flag # <<>> /\ Len(flag) = Len(name) + 1 /\ flag[1] = "@"
      /\ \A k \in 1..Len(name) : flag[k + 1] = name[k]
    BY <1>1, FlagIs
<1> HIDE DEF flag
<1>4. ASSUME NEW k \in 1..Len(flag)
      PROVE  flag[k] # "u2005"
    <2>1. Len(name) \in Nat
        BY <1>1, NamesAre
    <2>2. k = 1 \/ (k - 1 \in 1..Len(name) /\ (k - 1) + 1 = k)
        BY <1>3, <2>1
    <2>3. QED
        BY <1>2, <1>3, <2>2
<1>5. PICK i : Stands(flag, t, i)
    BY <1>2
<1>6. Inside(flag, ReplaceFirstSubSeq(<<>>, <<"u2005">>, t))
    BY <1>3, <1>4, <1>5, SpaceKeeps
<1>7. QED
    BY <1>6 DEF flag, name

LEMMA MarkedStep == Inv /\ MentionsMarked /\ [Next]_vars => MentionsMarked'
<1> SUFFICES ASSUME Inv, MentionsMarked, [Next]_vars
             PROVE  MentionsMarked'
    OBVIOUS
<1>1. CASE UNCHANGED vars
    BY <1>1 DEF MentionsMarked, IsAt, Whole, vars
<1>2. CASE TakeMention /\ at' # at
    <2>1. /\ text = body /\ body \in String /\ body' = body /\ input \in String
          /\ text' = ReplaceFirstSubSeq(<<>>, <<"u2005">>, body)
        BY <1>2 DEF Inv, Types, Stages, TakeMention
    <2>2. (IsAt' <=> IsAt) /\ Whole' = Whole
        BY <1>2 DEF TakeMention, IsAt, Whole
    <2> DEFINE name  == Mentioned(body)
               place == Place(name, text')
               i     == place.offset
               j     == i + place.length
               flag  == <<"@">> \o name
    <2>3. at' = [name |-> name, place |-> place] /\ IsMember(name)
        BY <1>2, <2>1 DEF TakeMention
    <2>4. name \in Names /\ text' \in String
        BY <2>1, <2>3, MentionedMember, SpaceTaken
    <2>5. /\ Inside(flag, text') => i # -1
          /\ i # -1 => j <= Len(text') /\ SubSeq(text', i + 1, j) \in {flag, flag \o <<" ">>}
        BY <2>4, PlaceIs
    <2>6. i = -1 => \/ IsAt /\ (body # Whole \/ Inside(<<"u2005">>, Bot))
                    \/ \E c \in White : Inside(<<"@", c>>, body)
        BY <2>1, <2>3, <2>5, MentionStays
    <2> HIDE DEF place, name
    <2>7. at'.place = place /\ at'.name = name
        BY <2>3
    <2>8. QED
        BY <2>1, <2>2, <2>5, <2>6, <2>7 DEF MentionsMarked
<1>3. CASE at' = Nothing
    BY <1>3 DEF MentionsMarked
<1>4. ASSUME at' # Nothing, Next
      PROVE  at' # at /\ TakeMention
    BY <1>4 DEF Inv, Stages, Next, Receive, Panic, TakeQuote, NoQuote, TakeMention, NoMention
<1>5. QED
    BY <1>1, <1>2, <1>3, <1>4

(***************************************************************************)
(* Offset and length of a mention, counted in the text that is dispatched, *)
(* are those of the member's name there, for any text; and none are only   *)
(* in the cases MentionsMarked lists.                                      *)
(***************************************************************************)
THEOREM MentionsAreMarked == Spec => []MentionsMarked
<1>1. Init => MentionsMarked
    BY DEF Init, MentionsMarked
<1>2. QED
    BY <1>1, MarkedStep, Invariant, PTL DEF Spec
=============================================================================
