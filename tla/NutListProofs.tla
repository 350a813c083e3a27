---------------------------- MODULE NutListProofs ----------------------------
(***************************************************************************)
(* What the list operators of NutList do to the elements, the order and the *)
(* absence of duplicates, for lists of any length.                          *)
(***************************************************************************)
EXTENDS NutList, SequenceTheorems, FiniteSetTheorems, WellFoundedInduction, TLAPS

(* A nonempty set of positions has a first one: the walks of                *)
(* NutThreadAddPriQueue() and NutTimerInsert() stop somewhere.              *)
LEMMA FirstPosition ==
    ASSUME NEW n \in Nat, NEW B \in SUBSET (1..n), B # {}
    PROVE  \E m \in B : \A j \in B : m <= j
<1> DEFINE F == {B \cap (1..m) : m \in B}
<1>0. IsFiniteSet(1..n)
  BY FS_Interval
<1>1. IsWellFoundedOn(StrictSubsetOrdering(1..n), SUBSET (1..n))
  BY <1>0, FS_StrictSubsetOrderingWellFounded, FS_FiniteSubsetsOfFinite
<1>2. F \subseteq SUBSET (1..n) /\ F # {}
  OBVIOUS
<1>3. PICK X \in F : \A Y \in F : <<Y, X>> \notin StrictSubsetOrdering(1..n)
  <2> HIDE DEF F
  <2> QED BY <1>1, <1>2, WFMin
<1>4. PICK m \in B : X = B \cap (1..m)
  BY <1>3
<1>5. ASSUME NEW j \in B, j < m
      PROVE  FALSE
  <2>1. B \cap (1..j) \in F
    OBVIOUS
  <2>2. B \cap (1..j) \subseteq X /\ m \in X /\ m \notin B \cap (1..j)
    BY <1>4, <1>5
  <2>3. <<B \cap (1..j), X>> \in StrictSubsetOrdering(1..n)
    BY <1>2, <1>3, <2>1, <2>2 DEF StrictSubsetOrdering
  <2> QED BY <1>3, <2>1, <2>3
<1> QED BY <1>5

(* The insertion walk stops at a place in the list.                         *)
LEMMA InsertPosFacts ==
    ASSUME NEW T, NEW s \in Seq(T), NEW key \in [T -> Int], NEW k \in Int
    PROVE  /\ InsertPos(s, key, k) \in 1..(Len(s) + 1)
           /\ IsInsertPos(s, key, k, InsertPos(s, key, k))
<1> DEFINE B == {i \in 1..Len(s) : key[s[i]] > k}
<1>1. \E p \in 1..(Len(s) + 1) : IsInsertPos(s, key, k, p)
  <2>1. CASE B = {}
    <3>1. \A j \in 1..Len(s) : key[s[j]] <= k
      BY <2>1
    <3> QED BY <3>1 DEF IsInsertPos
  <2>2. CASE B # {}
    <3>1. PICK p \in B : \A j \in B : p <= j
      BY <2>2, FirstPosition, LenProperties, ZenonT(60)
    <3> QED BY SMTT(30), <3>1 DEF IsInsertPos
  <2> QED BY <2>1, <2>2
<1> QED BY <1>1 DEF InsertPos

LEMMA SubSeqFacts ==
    ASSUME NEW T, NEW s \in Seq(T), NEW m \in 1..(Len(s) + 1), NEW n \in 0..Len(s)
    PROVE  /\ SubSeq(s, m, n) \in Seq(T)
           /\ Len(SubSeq(s, m, n)) = IF m <= n THEN n - m + 1 ELSE 0
           /\ \A i \in 1..(n - m + 1) : SubSeq(s, m, n)[i] = s[m + i - 1]
<1>1. Len(s) \in Nat
  BY LenProperties
<1>2. m \in Int /\ n \in Int
  BY <1>1
<1>3. \A i \in m..n : s[i] \in T
  BY <1>1, ElementOfSeq
<1> QED BY <1>2, <1>3, SubSeqProperties

LEMMA InsertAtFacts ==
    ASSUME NEW T, NEW s \in Seq(T), NEW e \in T, NEW i \in 1..(Len(s) + 1)
    PROVE  /\ InsertAt(s, i, e) \in Seq(T)
           /\ Len(InsertAt(s, i, e)) = Len(s) + 1
           /\ \A j \in 1..(Len(s) + 1) : InsertAt(s, i, e)[j] =
                 IF j < i THEN s[j] ELSE IF j = i THEN e ELSE s[j - 1]
<1> DEFINE a == SubSeq(s, 1, i - 1)
           b == SubSeq(s, i, Len(s))
           c == a \o <<e>>
<1>1. Len(s) \in Nat
  BY LenProperties
<1>2. a \in Seq(T) /\ Len(a) = i - 1 /\ \A j \in 1..(i - 1) : a[j] = s[j]
  BY <1>1, SubSeqFacts
<1>3. b \in Seq(T) /\ Len(b) = Len(s) - i + 1 /\ \A j \in 1..(Len(s) - i + 1) : b[j] = s[i + j - 1]
  BY <1>1, SubSeqFacts
<1>4. <<e>> \in Seq(T) /\ Len(<<e>>) = 1 /\ <<e>>[1] = e
  OBVIOUS
<1> HIDE DEF a, b
<1>5. c \in Seq(T) /\ Len(c) = i /\ \A j \in 1..i : c[j] = IF j < i THEN s[j] ELSE e
  BY <1>2, <1>4, ConcatProperties
<1> HIDE DEF c
<1>6. /\ c \o b \in Seq(T)
      /\ Len(c \o b) = Len(c) + Len(b)
      /\ \A j \in 1..(Len(c) + Len(b)) : (c \o b)[j] = IF j <= Len(c) THEN c[j] ELSE b[j - Len(c)]
  BY <1>3, <1>5, ConcatProperties
<1>7. Len(c) + Len(b) = Len(s) + 1 /\ Len(c) = i
  BY <1>1, <1>3, <1>5
<1>8. \A j \in 1..(Len(s) + 1) : (c \o b)[j] = IF j < i THEN s[j] ELSE IF j = i THEN e ELSE s[j - 1]
  BY <1>1, <1>3, <1>5, <1>6, <1>7
<1>9. InsertAt(s, i, e) = c \o b
  BY DEF InsertAt, a, b, c
<1> QED BY <1>6, <1>7, <1>8, <1>9

(* The first element after an insertion.                                    *)
LEMMA InsertAtHead ==
    ASSUME NEW T, NEW s \in Seq(T), NEW e \in T, NEW i \in 1..(Len(s) + 1)
    PROVE  /\ InsertAt(s, i, e) \in Seq(T)
           /\ Len(InsertAt(s, i, e)) = Len(s) + 1
           /\ InsertAt(s, i, e)[1] = IF 1 < i THEN s[1] ELSE e
<1>1. Len(s) \in Nat
  BY LenProperties
<1>2. /\ InsertAt(s, i, e) \in Seq(T)
      /\ Len(InsertAt(s, i, e)) = Len(s) + 1
      /\ \A j \in 1..(Len(s) + 1) : InsertAt(s, i, e)[j] =
            IF j < i THEN s[j] ELSE IF j = i THEN e ELSE s[j - 1]
  BY InsertAtFacts
<1>3. 1 \in 1..(Len(s) + 1)
  BY <1>1
<1>4. InsertAt(s, i, e)[1] = IF 1 < i THEN s[1] ELSE IF 1 = i THEN e ELSE s[1 - 1]
  BY <1>2, <1>3
<1> QED BY <1>1, <1>2, <1>4

LEMMA RemoveAtFacts ==
    ASSUME NEW T, NEW s \in Seq(T), NEW i \in 1..Len(s)
    PROVE  /\ RemoveAt(s, i) \in Seq(T)
           /\ Len(RemoveAt(s, i)) = Len(s) - 1
           /\ \A j \in 1..(Len(s) - 1) : RemoveAt(s, i)[j] = IF j < i THEN s[j] ELSE s[j + 1]
<1> DEFINE a == SubSeq(s, 1, i - 1)
           b == SubSeq(s, i + 1, Len(s))
<1>1. Len(s) \in Nat
  BY LenProperties
<1>2. a \in Seq(T) /\ Len(a) = i - 1 /\ \A j \in 1..(i - 1) : a[j] = s[j]
  BY <1>1, SubSeqFacts
<1>3. b \in Seq(T) /\ Len(b) = Len(s) - i /\ \A j \in 1..(Len(s) - i) : b[j] = s[i + j]
  BY <1>1, SubSeqFacts
<1> HIDE DEF a, b
<1>4. /\ a \o b \in Seq(T)
      /\ Len(a \o b) = Len(a) + Len(b)
      /\ \A j \in 1..(Len(a) + Len(b)) : (a \o b)[j] = IF j <= Len(a) THEN a[j] ELSE b[j - Len(a)]
  BY <1>2, <1>3, ConcatProperties
<1>5. Len(a) + Len(b) = Len(s) - 1 /\ Len(a) = i - 1
  BY <1>1, <1>2, <1>3
<1>6. \A j \in 1..(Len(s) - 1) : (a \o b)[j] = IF j < i THEN s[j] ELSE s[j + 1]
  BY <1>1, <1>2, <1>3, <1>4, <1>5
<1>7. RemoveAt(s, i) = a \o b
  BY DEF RemoveAt, a, b
<1> QED BY <1>4, <1>5, <1>6, <1>7

(* The elements of a list.                                                  *)
LEMMA ToSetFacts ==
    ASSUME NEW T, NEW s \in Seq(T)
    PROVE  /\ ToSet(s) = {s[i] : i \in 1..Len(s)}
           /\ ToSet(s) \subseteq T
           /\ \A e : IsIn(s, e) <=> e \in ToSet(s)
BY LenProperties, ElementOfSeq DEF ToSet, IsIn

(* Insertion by key: the list gains the element, stays free of duplicates   *)
(* and, if it was ascending, ascending.                                     *)
LEMMA InsertByFacts ==
    ASSUME NEW T, NEW s \in Seq(T), NEW e \in T, NEW key \in [T -> Int]
    PROVE  /\ InsertBy(s, e, key) \in Seq(T)
           /\ ToSet(InsertBy(s, e, key)) = ToSet(s) \cup {e}
           /\ NoDup(s) /\ e \notin ToSet(s) => NoDup(InsertBy(s, e, key))
           /\ Ascending(s, key) => Ascending(InsertBy(s, e, key), key)
<1> DEFINE p == InsertPos(s, key, key[e])
           r == InsertBy(s, e, key)
<1>1. Len(s) \in Nat /\ key[e] \in Int
  BY LenProperties
<1>2. p \in 1..(Len(s) + 1) /\ IsInsertPos(s, key, key[e], p)
  BY <1>1, InsertPosFacts
<1> HIDE DEF p
<1>3. /\ r \in Seq(T) /\ Len(r) = Len(s) + 1
      /\ \A j \in 1..(Len(s) + 1) : r[j] = IF j < p THEN s[j] ELSE IF j = p THEN e ELSE s[j - 1]
  <2>0. \A i \in 1..(Len(s) + 1) :
           /\ InsertAt(s, i, e) \in Seq(T) /\ Len(InsertAt(s, i, e)) = Len(s) + 1
           /\ \A j \in 1..(Len(s) + 1) : InsertAt(s, i, e)[j] =
                  IF j < i THEN s[j] ELSE IF j = i THEN e ELSE s[j - 1]
    BY InsertAtFacts
  <2>1. /\ InsertAt(s, p, e) \in Seq(T) /\ Len(InsertAt(s, p, e)) = Len(s) + 1
        /\ \A j \in 1..(Len(s) + 1) : InsertAt(s, p, e)[j] =
               IF j < p THEN s[j] ELSE IF j = p THEN e ELSE s[j - 1]
    BY <1>2, <2>0
  <2>2. r = InsertAt(s, p, e)
    BY DEF InsertBy, p
  <2> HIDE DEF r
  <2> QED BY <2>1, <2>2
<1> HIDE DEF r
<1>4. ToSet(s) = {s[i] : i \in 1..Len(s)} /\ ToSet(r) = {r[i] : i \in 1..Len(r)}
  BY <1>3, ToSetFacts
<1>5. ToSet(r) = ToSet(s) \cup {e}
  <2>1. ASSUME NEW j \in 1..Len(r)
        PROVE  r[j] \in ToSet(s) \cup {e}
    <3>0. \A n \in 1..Len(s) : s[n] \in ToSet(s)
      BY <1>4
    <3>1. CASE j < p
      <4>1. j \in 1..Len(s) /\ r[j] = s[j]
        BY <1>1, <1>2, <1>3, <3>1
      <4> QED BY <3>0, <4>1
    <3>2. CASE j = p
      <4>1. r[j] = e
        BY <1>1, <1>2, <1>3, <3>2
      <4> QED BY <4>1
    <3>3. CASE j > p
      <4>1. j - 1 \in 1..Len(s) /\ r[j] = s[j - 1]
        BY <1>1, <1>2, <1>3, <3>3
      <4> QED BY <3>0, <4>1
    <3> QED BY <1>2, <3>1, <3>2, <3>3
  <2>2. e \in ToSet(r)
    BY <1>1, <1>2, <1>3, <1>4
  <2>3. ASSUME NEW i \in 1..Len(s)
        PROVE  s[i] \in ToSet(r)
    <3>1. CASE i < p
      <4>1. i \in 1..Len(r) /\ r[i] = s[i]
        BY <1>1, <1>2, <1>3, <3>1
      <4> QED BY <1>4, <4>1
    <3>2. CASE i >= p
      <4>1. i + 1 \in 1..Len(r) /\ r[i + 1] = s[i]
        BY SMTT(30), <1>1, <1>2, <1>3, <3>2
      <4> QED BY <1>4, <4>1
    <3> QED BY <1>2, <3>1, <3>2
  <2> QED BY <1>4, <2>1, <2>2, <2>3
<1>6. ASSUME NoDup(s), e \notin ToSet(s)
      PROVE  NoDup(r)
  <2> SUFFICES ASSUME NEW i \in 1..Len(r), NEW j \in 1..Len(r), r[i] = r[j]
               PROVE  i = j
    BY DEF NoDup
  <2> DEFINE from(n) == IF n < p THEN n ELSE n - 1
  <2>1. \A n \in 1..Len(r) : n # p => from(n) \in 1..Len(s) /\ r[n] = s[from(n)]
    BY SMTT(30), <1>1, <1>2, <1>3
  <2>2. \A n \in 1..Len(s) : s[n] # e
    BY <1>4, <1>6
  <2>3. r[p] = e
    BY <1>1, <1>2, <1>3
  <2>4. CASE i = p \/ j = p
    BY <2>1, <2>2, <2>3, <2>4
  <2>5. CASE i # p /\ j # p
    <3>1. from(i) = from(j)
      BY <1>6, <2>1, <2>5 DEF NoDup
    <3> QED BY SMTT(30), <1>2, <1>3, <2>5, <3>1
  <2> QED BY <2>4, <2>5
<1>7. ASSUME Ascending(s, key)
      PROVE  Ascending(r, key)
  <2> SUFFICES ASSUME NEW i \in 1..Len(r), NEW j \in 1..Len(r), i < j
               PROVE  key[r[i]] <= key[r[j]]
    BY DEF Ascending
  <2>1. \A n \in 1..Len(s) : s[n] \in T /\ key[s[n]] \in Int
    BY ElementOfSeq
  <2>2. \A n \in 1..(p - 1) : key[s[n]] <= key[e]
    BY <1>2 DEF IsInsertPos
  <2>3. \A n \in p..Len(s) : key[e] <= key[s[n]]
    BY <1>1, <1>2, <1>7, <2>1 DEF IsInsertPos, Ascending
  <2> DEFINE from(n) == IF n < p THEN n ELSE n - 1
  <2>4. \A n \in 1..Len(r) : n # p => from(n) \in 1..Len(s) /\ r[n] = s[from(n)]
    BY SMTT(30), <1>1, <1>2, <1>3
  <2>5. r[p] = e
    BY <1>1, <1>2, <1>3
  <2>6. CASE j = p
    <3>1. i \in 1..(p - 1) /\ r[i] = s[i]
      BY <1>1, <1>2, <1>3, <2>6
    <3> QED BY <2>2, <2>5, <2>6, <3>1
  <2>7. CASE i = p
    <3>1. j - 1 \in p..Len(s) /\ r[j] = s[j - 1]
      BY <1>1, <1>2, <1>3, <2>7
    <3> QED BY <2>3, <2>5, <2>7, <3>1
  <2>8. CASE i # p /\ j # p /\ from(i) < from(j)
    BY <1>7, <2>4, <2>8 DEF Ascending
  <2>9. CASE i # p /\ j # p /\ ~(from(i) < from(j))
    <3>1. i = p - 1 /\ j = p
      BY <1>1, <1>2, <1>3, <2>9
    <3> QED BY <2>9, <3>1
  <2> QED BY <2>6, <2>7, <2>8, <2>9
<1> QED BY <1>3, <1>5, <1>6, <1>7 DEF r

(* Removal at an index: without duplicates, the list loses that element.    *)
LEMMA RemoveAtElements ==
    ASSUME NEW T, NEW s \in Seq(T), NEW i \in 1..Len(s)
    PROVE  /\ NoDup(s) => ToSet(RemoveAt(s, i)) = ToSet(s) \ {s[i]}
           /\ NoDup(s) => NoDup(RemoveAt(s, i))
           /\ \A key \in [T -> Int] : Ascending(s, key) => Ascending(RemoveAt(s, i), key)
<1> DEFINE r == RemoveAt(s, i)
<1>1. Len(s) \in Nat
  BY LenProperties
<1>2. /\ r \in Seq(T) /\ Len(r) = Len(s) - 1
      /\ \A j \in 1..(Len(s) - 1) : r[j] = IF j < i THEN s[j] ELSE s[j + 1]
  BY RemoveAtFacts
<1> HIDE DEF r
<1>3. ToSet(s) = {s[j] : j \in 1..Len(s)} /\ ToSet(r) = {r[j] : j \in 1..Len(r)}
  BY <1>2, ToSetFacts
<1>4. ASSUME NoDup(s)
      PROVE  ToSet(r) = ToSet(s) \ {s[i]}
  <2>1. ASSUME NEW j \in 1..Len(r)
        PROVE  r[j] \in ToSet(s) \ {s[i]}
    <3>1. CASE j < i
      <4>1. j \in 1..Len(s) /\ j # i /\ r[j] = s[j]
        BY <1>1, <1>2, <3>1
      <4> QED BY <1>3, <1>4, <4>1 DEF NoDup
    <3>2. CASE j >= i
      <4>1. j + 1 \in 1..Len(s) /\ j + 1 # i /\ r[j] = s[j + 1]
        BY <1>1, <1>2, <3>2
      <4> QED BY <1>3, <1>4, <4>1 DEF NoDup
    <3> QED BY <1>1, <1>2, <3>1, <3>2
  <2>2. ASSUME NEW j \in 1..Len(s), j # i
        PROVE  s[j] \in ToSet(r)
    <3>1. CASE j < i
      <4>1. j \in 1..Len(r) /\ r[j] = s[j]
        BY <1>1, <1>2, <3>1
      <4> QED BY <1>3, <4>1
    <3>2. CASE j > i
      <4>1. j - 1 \in 1..Len(r) /\ r[j - 1] = s[j]
        BY <1>1, <1>2, <3>2
      <4> QED BY <1>3, <4>1
    <3> QED BY <1>1, <2>2, <3>1, <3>2
  <2> QED BY <1>3, <2>1, <2>2
<1>5. ASSUME NoDup(s)
      PROVE  NoDup(r)
  <2> SUFFICES ASSUME NEW j \in 1..Len(r), NEW k \in 1..Len(r), r[j] = r[k]
               PROVE  j = k
    BY DEF NoDup
  <2> QED BY <1>1, <1>2, <1>5 DEF NoDup
<1>6. ASSUME NEW key \in [T -> Int], Ascending(s, key)
      PROVE  Ascending(r, key)
  <2> SUFFICES ASSUME NEW j \in 1..Len(r), NEW k \in 1..Len(r), j < k
               PROVE  key[r[j]] <= key[r[k]]
    BY DEF Ascending
  <2> DEFINE at(n) == IF n < i THEN n ELSE n + 1
  <2>1. r[j] = s[at(j)] /\ r[k] = s[at(k)]
    BY <1>1, <1>2
  <2>2. at(j) \in 1..Len(s) /\ at(k) \in 1..Len(s) /\ at(j) < at(k)
    BY <1>1, <1>2, SMTT(45)
  <2> QED BY <1>6, <2>1, <2>2 DEF Ascending
<1> QED BY <1>4, <1>5, <1>6 DEF r

LEMMA UnlinkFacts ==
    ASSUME NEW T, NEW s \in Seq(T), NEW e
    PROVE  /\ Unlink(s, e) \in Seq(T)
           /\ NoDup(s) => ToSet(Unlink(s, e)) = ToSet(s) \ {e}
           /\ NoDup(s) => NoDup(Unlink(s, e))
           /\ \A key \in [T -> Int] : Ascending(s, key) => Ascending(Unlink(s, e), key)
<1>1. CASE IsIn(s, e)
  <2>1. IndexIn(s, e) \in 1..Len(s) /\ s[IndexIn(s, e)] = e
    BY <1>1 DEF IsIn, IndexIn
  <2>2. Unlink(s, e) = RemoveAt(s, IndexIn(s, e))
    BY <1>1 DEF Unlink
  <2> QED BY <2>1, <2>2, RemoveAtFacts, RemoveAtElements
<1>2. CASE ~IsIn(s, e)
  <2>1. Unlink(s, e) = s
    BY <1>2 DEF Unlink
  <2>2. e \notin ToSet(s)
    BY <1>2, ToSetFacts
  <2> QED BY <2>1, <2>2
<1> QED BY <1>1, <1>2

(* A list that got a node in front, and a list without its first node.      *)
LEMMA ConsFacts ==
    ASSUME NEW T, NEW s \in Seq(T), NEW e \in T
    PROVE  /\ <<e>> \o s \in Seq(T)
           /\ ToSet(<<e>> \o s) = ToSet(s) \cup {e}
           /\ NoDup(s) /\ e \notin ToSet(s) => NoDup(<<e>> \o s)
           /\ Head(<<e>> \o s) = e
<1> DEFINE r == <<e>> \o s
<1>1. Len(s) \in Nat /\ <<e>> \in Seq(T) /\ Len(<<e>>) = 1 /\ <<e>>[1] = e
  BY LenProperties
<1>2. /\ r \in Seq(T) /\ Len(r) = Len(s) + 1
      /\ \A j \in 1..(Len(s) + 1) : r[j] = IF j = 1 THEN e ELSE s[j - 1]
  BY <1>1, ConcatProperties
<1> HIDE DEF r
<1>3. ToSet(s) = {s[j] : j \in 1..Len(s)} /\ ToSet(r) = {r[j] : j \in 1..Len(r)}
  BY <1>2, ToSetFacts
<1>4. ToSet(r) = ToSet(s) \cup {e}
  <2>1. \A j \in 1..Len(r) : r[j] \in ToSet(s) \cup {e}
    BY <1>1, <1>2, <1>3
  <2>2. e \in ToSet(r)
    BY <1>1, <1>2, <1>3
  <2>3. ASSUME NEW i \in 1..Len(s)
        PROVE  s[i] \in ToSet(r)
    <3>1. i + 1 \in 1..Len(r) /\ r[i + 1] = s[i]
      BY <1>1, <1>2
    <3> QED BY <1>3, <3>1
  <2> QED BY <1>3, <2>1, <2>2, <2>3
<1>5. ASSUME NoDup(s), e \notin ToSet(s)
      PROVE  NoDup(r)
  <2> SUFFICES ASSUME NEW i \in 1..Len(r), NEW j \in 1..Len(r), r[i] = r[j]
               PROVE  i = j
    BY DEF NoDup
  <2>1. \A n \in 1..Len(s) : s[n] # e
    BY <1>3, <1>5
  <2>2. \A n \in 1..Len(r) : n # 1 => n - 1 \in 1..Len(s) /\ r[n] = s[n - 1]
    BY <1>1, <1>2
  <2>3. r[1] = e
    BY <1>1, <1>2
  <2>4. CASE i = 1 \/ j = 1
    BY <2>1, <2>2, <2>3, <2>4
  <2>5. CASE i # 1 /\ j # 1
    <3>1. i - 1 = j - 1
      BY <1>5, <2>2, <2>5 DEF NoDup
    <3> QED BY <1>1, <1>2, <3>1
  <2> QED BY <2>4, <2>5
<1>6. r # <<>> /\ Head(r) = r[1] /\ r[1] = e
  BY <1>1, <1>2
<1> QED BY <1>2, <1>4, <1>5, <1>6 DEF r

LEMMA TailFacts ==
    ASSUME NEW T, NEW s \in Seq(T), s # <<>>
    PROVE  /\ Head(s) = s[1] /\ Head(s) \in T /\ Head(s) \in ToSet(s)
           /\ Tail(s) \in Seq(T) /\ Len(Tail(s)) = Len(s) - 1
           /\ \A j \in 1..(Len(s) - 1) : Tail(s)[j] = s[j + 1]
           /\ NoDup(s) => ToSet(Tail(s)) = ToSet(s) \ {Head(s)}
           /\ NoDup(s) => NoDup(Tail(s))
<1>1. Len(s) \in Nat /\ Len(s) >= 1 /\ Head(s) = s[1]
  BY LenProperties, EmptySeq
<1>2. Tail(s) \in Seq(T) /\ Len(Tail(s)) = Len(s) - 1
  BY HeadTailProperties
<1>3. \A j \in 1..(Len(s) - 1) : Tail(s)[j] = s[j + 1]
  BY <1>1, <1>2, HeadTailProperties
<1>4. ToSet(s) = {s[j] : j \in 1..Len(s)} /\ ToSet(Tail(s)) = {Tail(s)[j] : j \in 1..Len(Tail(s))}
  BY <1>2, ToSetFacts
<1>5. Head(s) \in T /\ Head(s) \in ToSet(s)
  BY <1>1, <1>4, HeadTailProperties
<1>6. ASSUME NoDup(s)
      PROVE  NoDup(Tail(s)) /\ ToSet(Tail(s)) = ToSet(s) \ {Head(s)}
  <2>1. NoDup(Tail(s))
    BY <1>1, <1>2, <1>3, <1>6 DEF NoDup
  <2>2. \A j \in 1..(Len(s) - 1) : Tail(s)[j] \in ToSet(s) \ {Head(s)}
    BY <1>1, <1>3, <1>4, <1>6 DEF NoDup
  <2>3. ASSUME NEW i \in 1..Len(s), s[i] # Head(s)
        PROVE  s[i] \in ToSet(Tail(s))
    <3>1. i - 1 \in 1..Len(Tail(s)) /\ Tail(s)[i - 1] = s[i]
      BY <1>1, <1>2, <1>3, <2>3
    <3> QED BY <1>4, <3>1
  <2> QED BY <1>2, <1>4, <2>1, <2>2, <2>3
<1> QED BY <1>1, <1>2, <1>3, <1>5, <1>6

(* A list of one node.                                                      *)
LEMMA SingleFacts ==
    ASSUME NEW e
    PROVE  /\ Len(<<e>>) = 1 /\ <<e>>[1] = e /\ Head(<<e>>) = e
           /\ ToSet(<<e>>) = {e} /\ NoDup(<<e>>) /\ <<e>> # <<>>
<1>1. <<e>> \in Seq({e}) /\ Len(<<e>>) = 1 /\ <<e>>[1] = e /\ <<e>> # <<>>
  OBVIOUS
<1>2. Head(<<e>>) = e
  OBVIOUS
<1>3. ToSet(<<e>>) = {e}
  <2> DEFINE s == <<e>>
  <2> HIDE DEF s
  <2>1. s \in Seq({e}) /\ Len(s) = 1 /\ s[1] = e
    BY <1>1 DEF s
  <2>2. ToSet(s) = {s[i] : i \in 1..Len(s)}
    BY <2>1, ToSetFacts
  <2>3. ToSet(s) = {e}
    BY <2>1, <2>2
  <2> QED BY <2>3 DEF s
<1> QED BY <1>1, <1>2, <1>3 DEF NoDup

LEMMA EmptyFacts ==
    ToSet(<<>>) = {} /\ NoDup(<<>>) /\ Len(<<>>) = 0
<1>1. Len(<<>>) = 0
  OBVIOUS
<1> QED BY <1>1 DEF ToSet, NoDup
=============================================================================
