--------------------------- MODULE NutTimerProofs ---------------------------
(***************************************************************************)
(* Proofs about the system timers (os/timer.c): the delta list keeps every  *)
(* timer's time, it implements the timers of NutTimers, and it is what      *)
(* module NutKernel has for it.                                             *)
(*                                                                          *)
(* The first part is about the list alone: sums of deltas, and what         *)
(* inserting, unlinking, counting down and taking off the first timer do to *)
(* the ticks left.  The second is about counters that are words.  The third *)
(* shows TimerInv to be inductive, one lemma per action.                    *)
(***************************************************************************)
EXTENDS NutTimer, NutListProofs

(* A set of positions that is not empty has one that is preceded by none.   *)
LEMMA FirstOf ==
    ASSUME NEW n \in Nat, NEW B \in SUBSET (1..n), B # {}
    PROVE  \E m \in 1..n : m \in B /\ m - 1 \in 0..n /\ \A j \in 1..(m - 1) : j \notin B
<1>1. PICK m \in B : \A j \in B : m <= j
  BY FirstPosition
<1> QED BY <1>1

(* The sums of the deltas exist: one more delta can always be added.        *)
LEMMA SumsExist ==
    ASSUME NEW l \in Seq(Timer), NEW left \in [Timer -> Int]
    PROVE  \E g \in [0..Len(l) -> Int] :
              g[0] = 0 /\ \A j \in 1..Len(l) : g[j] = g[j - 1] + left[l[j]]
<1> DEFINE sums(n, g) == g[0] = 0 /\ \A j \in 1..n : g[j] = g[j - 1] + left[l[j]]
           B == {n \in 1..Len(l) : ~ \E g \in [0..n -> Int] : sums(n, g)}
<1>1. Len(l) \in Nat /\ \A j \in 1..Len(l) : l[j] \in Timer /\ left[l[j]] \in Int
  BY LenProperties, ElementOfSeq
<1>2. \E g \in [0..0 -> Int] : sums(0, g)
  <2> DEFINE z == [i \in 0..0 |-> 0]
  <2>1. z \in [0..0 -> Int] /\ sums(0, z)
    OBVIOUS
  <2> QED BY <2>1
<1>3. ASSUME NEW n \in 1..Len(l), \E g \in [0..(n - 1) -> Int] : sums(n - 1, g)
      PROVE  \E g \in [0..n -> Int] : sums(n, g)
  <2>1. PICK g \in [0..(n - 1) -> Int] : sums(n - 1, g)
    BY <1>3
  <2> DEFINE e == [j \in 0..n |-> IF j = n THEN g[n - 1] + left[l[n]] ELSE g[j]]
  <2>2. e \in [0..n -> Int]
    BY <1>1
  <2>3. sums(n, e)
    BY <1>1, <2>1
  <2> QED BY <2>2, <2>3
<1>4. B = {}
  <2> SUFFICES ASSUME B # {} PROVE FALSE
    OBVIOUS
  <2>1. PICK m \in 1..Len(l) : m \in B /\ m - 1 \in 0..Len(l) /\ \A j \in 1..(m - 1) : j \notin B
    BY <1>1, FirstOf, ZenonT(60)
  <2>3. \E g \in [0..(m - 1) -> Int] : sums(m - 1, g)
    <3>1. CASE m = 1
      BY <1>2, <3>1
    <3>2. CASE m # 1
      <4>1. m - 1 \in 1..(m - 1) /\ m - 1 \in 1..Len(l)
        BY <1>1, <3>2
      <4>2. m - 1 \notin B
        BY <2>1, <4>1
      <4> QED BY <4>1, <4>2
    <3> QED BY <3>1, <3>2
  <2> QED BY <2>1, <2>3, <1>3
<1>5. CASE Len(l) = 0
  BY <1>2, <1>5
<1>6. CASE Len(l) # 0
  <2>1. Len(l) \in 1..Len(l)
    BY <1>1, <1>6
  <2> QED BY <1>4, <2>1
<1> QED BY <1>5, <1>6

(* Sum() is a solution of the equations it is defined by.                   *)
LEMMA SumFacts ==
    ASSUME NEW l \in Seq(Timer), NEW left \in [Timer -> Int]
    PROVE  /\ \A j \in 0..Len(l) : Sum(l, left, j) \in Int
           /\ Sum(l, left, 0) = 0
           /\ \A j \in 1..Len(l) : Sum(l, left, j) = Sum(l, left, j - 1) + left[l[j]]
<1> DEFINE P(f) == f = [j \in 0..Len(l) |-> IF j = 0 THEN 0 ELSE f[j - 1] + left[l[j]]]
           s == CHOOSE f : P(f)
<1>1. Len(l) \in Nat
  BY LenProperties
<1>2. PICK g \in [0..Len(l) -> Int] :
              g[0] = 0 /\ \A j \in 1..Len(l) : g[j] = g[j - 1] + left[l[j]]
  BY SumsExist
<1>3. P(g)
  BY <1>1, <1>2
<1>4. P(s)
  BY <1>3
<1>5. \A j : Sum(l, left, j) = s[j]
  BY DEF Sum
<1> HIDE DEF s
<1>6. s[0] = 0
  BY <1>1, <1>4
<1>7. \A j \in 1..Len(l) : s[j] = s[j - 1] + left[l[j]]
  BY <1>1, <1>4
<1>8. \A j \in 0..Len(l) : s[j] = g[j]
  <2> DEFINE B == {j \in 1..Len(l) : s[j] # g[j]}
  <2> SUFFICES ASSUME B # {} PROVE FALSE
    BY <1>1, <1>2, <1>6, SMTT(45)
  <2>0. B \in SUBSET (1..Len(l))
    OBVIOUS
  <2> HIDE DEF B
  <2>1. PICK m \in 1..Len(l) : m \in B /\ m - 1 \in 0..Len(l) /\ \A j \in 1..(m - 1) : j \notin B
    BY <1>1, <2>0, FirstOf
  <2> USE DEF B
  <2>2. \A j \in 1..(m - 1) : s[j] = g[j]
    BY <1>1, <2>1
  <2>3. s[m - 1] = g[m - 1]
    BY <1>2, <1>6, <2>1, <2>2
  <2> QED BY <1>2, <1>7, <2>1, <2>3
<1> QED BY <1>1, <1>2, <1>5, <1>6, <1>7, <1>8

(* The sums are the only solution of their equations.                       *)
LEMMA SumUnique ==
    ASSUME NEW l \in Seq(Timer), NEW left \in [Timer -> Int], NEW g,
           g[0] = 0, \A j \in 1..Len(l) : g[j] = g[j - 1] + left[l[j]]
    PROVE  \A j \in 0..Len(l) : Sum(l, left, j) = g[j]
<1> DEFINE s(j) == Sum(l, left, j)
           B == {j \in 1..Len(l) : s(j) # g[j]}
<1>1. Len(l) \in Nat
  BY LenProperties
<1>2. s(0) = 0 /\ \A j \in 1..Len(l) : s(j) = s(j - 1) + left[l[j]]
  BY SumFacts
<1> HIDE DEF s
<1> SUFFICES ASSUME B # {} PROVE FALSE
  BY <1>1, <1>2 DEF s
<1>3. PICK m \in 1..Len(l) : m \in B /\ m - 1 \in 0..Len(l) /\ \A j \in 1..(m - 1) : j \notin B
  BY <1>1, FirstOf, ZenonT(60)
<1>4. \A j \in 1..(m - 1) : s(j) = g[j]
  BY <1>1, <1>3
<1>5. s(m - 1) = g[m - 1]
  BY <1>2, <1>3, <1>4
<1> QED BY <1>2, <1>3, <1>5

(* Sums of ticks do not decrease along the list.                            *)
LEMMA SumMonotone ==
    ASSUME NEW l \in Seq(Timer), NEW left \in [Timer -> Nat]
    PROVE  \A i, j \in 0..Len(l) : i <= j => Sum(l, left, i) <= Sum(l, left, j)
<1> DEFINE s(j) == Sum(l, left, j)
<1>1. Len(l) \in Nat /\ left \in [Timer -> Int] /\ \A j \in 1..Len(l) : left[l[j]] \in Nat
  BY LenProperties, ElementOfSeq
<1>2. \A j \in 0..Len(l) : s(j) \in Int
  BY <1>1, SumFacts
<1>3. \A j \in 1..Len(l) : s(j) = s(j - 1) + left[l[j]]
  BY <1>1, SumFacts
<1> HIDE DEF s
<1> SUFFICES ASSUME NEW i \in 0..Len(l)
             PROVE  \A j \in 0..Len(l) : i <= j => s(i) <= s(j)
  BY DEF s
<1> DEFINE B == {j \in 1..Len(l) : i <= j /\ ~(s(i) <= s(j))}
<1>4. B = {}
  <2> SUFFICES ASSUME B # {} PROVE FALSE
    OBVIOUS
  <2>1. PICK m \in 1..Len(l) : m \in B /\ m - 1 \in 0..Len(l) /\ \A j \in 1..(m - 1) : j \notin B
    BY <1>1, FirstOf
  <2>2. i <= m /\ ~(s(i) <= s(m)) /\ i <= m - 1
    <3>1. i <= m /\ ~(s(i) <= s(m))
      BY <2>1
    <3>2. i # m
      BY <1>2, <3>1
    <3> QED BY <1>1, <2>1, <3>1, <3>2
  <2>3. s(i) <= s(m - 1)
    <3>1. CASE m - 1 = 0
      <4>1. i = m - 1
        BY <1>1, <2>1, <2>2, <3>1
      <4> QED BY <1>2, <4>1, SMTT(45)
    <3>2. CASE m - 1 # 0
      <4>1. m - 1 \in 1..(m - 1) /\ m - 1 \in 1..Len(l)
        BY <1>1, <2>1, <3>2
      <4>2. m - 1 \notin B
        BY <2>1, <4>1
      <4> QED BY <4>1, <4>2, <2>2
    <3> QED BY <3>1, <3>2
  <2>4. s(m) = s(m - 1) + left[l[m]] /\ left[l[m]] \in Nat
    BY <1>1, <1>3
  <2> HIDE DEF B
  <2> QED BY <1>2, <2>1, <2>2, <2>3, <2>4, SMTT(45)
<1>5. ASSUME NEW j \in 0..Len(l), i <= j PROVE s(i) <= s(j)
  <2>1. CASE j = 0
    <3>1. i = j
      BY <1>5, <2>1
    <3> QED BY <1>2, <3>1
  <2>2. CASE j # 0
    <3>1. j \in 1..Len(l)
      BY <2>2
    <3> QED BY <1>4, <1>5, <3>1
  <2> QED BY <2>1, <2>2
<1> QED BY <1>5

(* The ticks left of a timer are the sum up to its place.                   *)
LEMMA LeftFacts ==
    ASSUME NEW l \in Seq(Timer), NEW left \in [Timer -> Int], NoDup(l)
    PROVE  /\ LeftOf(l, left) \in [Timer -> Int]
           /\ \A i \in 1..Len(l) : LeftOf(l, left)[l[i]] = Sum(l, left, i)
           /\ \A h \in Timer : h \notin ToSet(l) => LeftOf(l, left)[h] = 0
<1>1. Len(l) \in Nat /\ \A i \in 1..Len(l) : l[i] \in Timer
  BY LenProperties, ElementOfSeq
<1>2. \A j \in 0..Len(l) : Sum(l, left, j) \in Int
  BY SumFacts
<1>3. ASSUME NEW i \in 1..Len(l)
      PROVE  IsIn(l, l[i]) /\ IndexIn(l, l[i]) = i
  <2>1. IsIn(l, l[i])
    BY DEF IsIn
  <2>2. IndexIn(l, l[i]) \in 1..Len(l) /\ l[IndexIn(l, l[i])] = l[i]
    BY DEF IndexIn
  <2> QED BY <2>1, <2>2 DEF NoDup
<1>4. ASSUME NEW h \in Timer
      PROVE  LeftOf(l, left)[h] = IF IsIn(l, h) THEN Sum(l, left, IndexIn(l, h)) ELSE 0
  BY DEF LeftOf
<1>5. \A i \in 1..Len(l) : LeftOf(l, left)[l[i]] = Sum(l, left, i)
  BY <1>1, <1>3, <1>4
<1>6. ASSUME NEW h \in Timer, h \notin ToSet(l)
      PROVE  LeftOf(l, left)[h] = 0
  BY <1>4, <1>6, ToSetFacts
<1>7. ASSUME NEW h \in Timer
      PROVE  LeftOf(l, left)[h] \in Int
  <2>1. CASE IsIn(l, h)
    <3>1. PICK i \in 1..Len(l) : l[i] = h
      BY <2>1 DEF IsIn
    <3>2. i \in 0..Len(l)
      BY <1>1
    <3> QED BY <1>2, <1>5, <3>1, <3>2
  <2>2. CASE ~IsIn(l, h)
    BY <1>4, <2>2
  <2> QED BY <2>1, <2>2
<1>8. LeftOf(l, left) = [h \in Timer |-> LeftOf(l, left)[h]]
  BY DEF LeftOf
<1> QED BY <1>5, <1>6, <1>7, <1>8

(* A list of timers and their deltas, and what becomes of it: timer h is in *)
(* the list with d ticks, or out of it, or the first timer has elapsed, or  *)
(* c ticks are gone.                                                        *)
TickList(l, left) == l \in Seq(Timer) /\ NoDup(l) /\ left \in [Timer -> Nat]

Inserted(l, left, h, d, r, new) ==
    /\ TickList(r, new)
    /\ ToSet(r) = ToSet(l) \cup {h}
    /\ \A k \in Timer : k \notin ToSet(r) => new[k] = left[k]
    /\ LeftOf(r, new) = [LeftOf(l, left) EXCEPT ![h] = d]

Unlinked(l, left, h, r, new) ==
    /\ TickList(r, new)
    /\ ToSet(r) = ToSet(l) \ {h}
    /\ \A k \in Timer : k \notin ToSet(l) => new[k] = left[k]
    /\ LeftOf(r, new) = [LeftOf(l, left) EXCEPT ![h] = 0]

FirstElapsed(l, left, r, new) ==
    /\ TickList(r, new)
    /\ ToSet(r) = ToSet(l) \ {Head(l)}
    /\ LeftOf(r, new) = [k \in Timer |->
           IF k \in ToSet(l) \ {Head(l)} THEN LeftOf(l, left)[k] - left[Head(l)] ELSE 0]

CountedDown(l, left, c, new) ==
    /\ TickList(l, new)
    /\ LeftOf(l, new) = [k \in Timer |->
           IF k \in ToSet(l) THEN LeftOf(l, left)[k] - c ELSE 0]

TakenOff(left, h, c) == [left EXCEPT ![h] = @ - c]

(* NutTimerInsert(): the timer gets d ticks, the others keep theirs.        *)
LEMMA InsertTicks ==
    ASSUME NEW l, NEW left, TickList(l, left),
           NEW h \in Timer, h \notin ToSet(l), NEW d \in Nat
    PROVE  Inserted(l, left, h, d, InsertList(l, left, h, d), InsertLeft(l, left, h, d))
<1> USE DEF TickList
<1> DEFINE key == LeftOf(l, left)
           p == InsertPos(l, key, d)
           r == InsertList(l, left, h, d)
           new == InsertLeft(l, left, h, d)
           s(j) == Sum(l, left, j)
           own == [left EXCEPT ![h] = d - s(p - 1)]
<1>1. /\ Len(l) \in Nat /\ left \in [Timer -> Int] /\ d \in Int
      /\ \A i \in 1..Len(l) : l[i] \in Timer /\ l[i] \in ToSet(l)
  BY LenProperties, ElementOfSeq, ToSetFacts
<1>2. key \in [Timer -> Int] /\ (\A i \in 1..Len(l) : key[l[i]] = s(i))
      /\ \A k \in Timer : k \notin ToSet(l) => key[k] = 0
  BY <1>1, LeftFacts
<1>3. (\A j \in 0..Len(l) : s(j) \in Int) /\ s(0) = 0
      /\ \A j \in 1..Len(l) : s(j) = s(j - 1) + left[l[j]]
  BY <1>1, SumFacts
<1>r. r = InsertAt(l, p, h)
  BY DEF InsertList
<1>n. new = IF p <= Len(l) THEN [own EXCEPT ![l[p]] = @ - own[h]] ELSE own
  BY DEF InsertLeft
<1> HIDE DEF key, s
<1>4. p \in 1..(Len(l) + 1) /\ IsInsertPos(l, key, d, p)
  BY <1>1, <1>2, InsertPosFacts
<1> HIDE DEF p, r, new
<1>5. /\ r \in Seq(Timer) /\ Len(r) = Len(l) + 1
      /\ \A j \in 1..(Len(l) + 1) : r[j] = IF j < p THEN l[j] ELSE IF j = p THEN h ELSE l[j - 1]
  <2>1. \A i \in 1..(Len(l) + 1) :
           /\ InsertAt(l, i, h) \in Seq(Timer) /\ Len(InsertAt(l, i, h)) = Len(l) + 1
           /\ \A j \in 1..(Len(l) + 1) : InsertAt(l, i, h)[j] =
                  IF j < i THEN l[j] ELSE IF j = i THEN h ELSE l[j - 1]
    BY InsertAtFacts
  <2> QED BY <1>r, <1>4, <2>1
<1>6. ToSet(r) = ToSet(l) \cup {h} /\ NoDup(r)
  <2> DEFINE k2 == [key EXCEPT ![h] = d]
  <2>1. \A j \in 1..Len(l) : k2[l[j]] = key[l[j]]
    BY <1>1, <1>2
  <2>2. \A q \in 1..(Len(l) + 1) : IsInsertPos(l, k2, d, q) <=> IsInsertPos(l, key, d, q)
    BY <1>1, <2>1 DEF IsInsertPos
  <2>3. InsertPos(l, k2, k2[h]) = p
    <3>1. k2[h] = d
      BY <1>2
    <3> QED BY <2>2, <3>1 DEF InsertPos, p
  <2>4. InsertBy(l, h, k2) = r
    BY <2>3, <1>r DEF InsertBy
  <2>5. k2 \in [Timer -> Int]
    BY <1>2
  <2> HIDE DEF k2
  <2> QED BY <2>4, <2>5, InsertByFacts
<1>7. d - s(p - 1) \in Nat
  <2>1. p - 1 \in 0..Len(l) /\ s(p - 1) \in Int
    BY <1>1, <1>3, <1>4
  <2>2. CASE p = 1
    BY <1>3, <2>2
  <2>3. CASE p # 1
    <3>1. p - 1 \in 1..Len(l) /\ p - 1 \in 1..(p - 1)
      BY <1>1, <1>4, <2>3
    <3>2. key[l[p - 1]] <= d
      BY <1>4, <3>1 DEF IsInsertPos
    <3> QED BY <1>2, <2>1, <3>1, <3>2
  <2> QED BY <2>2, <2>3
<1>8. own \in [Timer -> Nat] /\ own[h] = d - s(p - 1) /\ \A k \in Timer \ {h} : own[k] = left[k]
  BY <1>7
<1> HIDE DEF own
<1>9. ASSUME p <= Len(l)
      PROVE  own[l[p]] - own[h] = s(p) - d /\ s(p) - d \in Nat
  <2>1. p \in 1..Len(l) /\ p - 1 \in 0..Len(l)
    BY <1>1, <1>4, <1>9
  <2>2. own[l[p]] = left[l[p]] /\ left[l[p]] \in Nat
    BY <1>1, <1>8, <2>1
  <2>3. s(p) = s(p - 1) + left[l[p]] /\ s(p) \in Int /\ s(p - 1) \in Int
    BY <1>3, <2>1, <1>1
  <2>4. s(p) > d
    BY <1>2, <1>4, <2>1 DEF IsInsertPos
  <2> QED BY <1>8, <2>2, <2>3, <2>4, SMTT(45)
<1>10. /\ new \in [Timer -> Nat]
       /\ new[h] = d - s(p - 1)
       /\ p <= Len(l) => new[l[p]] = s(p) - d
       /\ \A k \in Timer : k # h /\ ~(p <= Len(l) /\ k = l[p]) => new[k] = left[k]
  <2>1. CASE p <= Len(l)
    <3>1. l[p] \in Timer /\ l[p] # h
      BY <1>1, <1>4, <2>1
    <3>2. new = [own EXCEPT ![l[p]] = s(p) - d] /\ s(p) - d \in Nat
      BY <1>n, <1>8, <1>9, <2>1, <3>1
    <3>3. new \in [Timer -> Nat] /\ new[l[p]] = s(p) - d
      BY <1>8, <3>1, <3>2
    <3>4. \A k \in Timer : k # l[p] => new[k] = own[k]
      BY <1>8, <3>1, <3>2
    <3> QED BY <1>8, <2>1, <3>1, <3>3, <3>4
  <2>2. CASE ~(p <= Len(l))
    BY <1>n, <1>8, <2>2
  <2> QED BY <2>1, <2>2
<1>11. \A k \in Timer : k \notin ToSet(l) \cup {h} => new[k] = left[k]
  BY <1>1, <1>4, <1>10
<1> DEFINE g == [j \in 0..Len(r) |-> IF j < p THEN s(j) ELSE IF j = p THEN d ELSE s(j - 1)]
<1>g. \A j \in 0..Len(r) : g[j] = IF j < p THEN s(j) ELSE IF j = p THEN d ELSE s(j - 1)
  OBVIOUS
<1> HIDE DEF g
<1>12. g[0] = 0 /\ \A j \in 1..Len(r) : g[j] = g[j - 1] + new[r[j]]
  <2>1. g[0] = 0
    BY <1>g, <1>1, <1>3, <1>4, <1>5
  <2>2. ASSUME NEW j \in 1..Len(r)
        PROVE  g[j] = g[j - 1] + new[r[j]]
    <3>0. /\ j \in 0..Len(r) /\ j - 1 \in 0..Len(r) /\ j \in Int /\ j \in 1..(Len(l) + 1)
          /\ p \in Int /\ p >= 1 /\ p <= Len(l) + 1
      BY <1>1, <1>4, <1>5
    <3>1. CASE j < p
      <4>1. j \in 1..Len(l) /\ r[j] = l[j]
        BY <1>1, <1>5, <3>0, <3>1
      <4>2. g[j] = s(j) /\ g[j - 1] = s(j - 1)
        BY <1>g, <3>0, <3>1, SMTT(45)
      <4>3. l[j] # h /\ ~(p <= Len(l) /\ l[j] = l[p])
        BY <1>1, <1>4, <3>1, <4>1 DEF NoDup
      <4> QED BY <1>1, <1>3, <1>10, <4>1, <4>2, <4>3
    <3>2. CASE j = p
      <4>1. r[j] = h /\ p - 1 \in 0..Len(l)
        BY <1>1, <1>5, <3>0, <3>2
      <4>2. g[j] = d /\ g[j - 1] = s(p - 1)
        BY <1>g, <3>0, <3>2
      <4>3. s(p - 1) \in Int /\ new[r[j]] = d - s(p - 1)
        BY <1>3, <1>10, <4>1
      <4> QED BY <1>1, <4>2, <4>3
    <3>3. CASE j = p + 1
      <4>1. r[j] = l[p] /\ p \in 0..Len(l) /\ p <= Len(l)
        <5>1. j - 1 = p
          BY <3>0, <3>3
        <5> QED BY <1>1, <1>5, <3>0, <3>3, <5>1
      <4>2. g[j] = s(p) /\ g[j - 1] = d
        <5>1. j - 1 = p
          BY <3>0, <3>3
        <5> QED BY <1>g, <3>0, <3>3, <5>1
      <4> QED BY <1>1, <1>3, <1>10, <4>1, <4>2
    <3>4. CASE j > p + 1
      <4>0. PICK i \in 1..Len(l) : i = j - 1
        BY <1>1, <3>0, <3>4
      <4>a. ~(j < p) /\ j # p /\ ~(j - 1 < p) /\ j - 1 # p
        BY <3>0, <3>4
      <4>1. r[j] = l[i]
        <5>1. r[j] = l[j - 1]
          BY <1>5, <3>0, <4>a
        <5> QED BY <4>0, <5>1
      <4>2. g[j] = s(i) /\ g[j - 1] = s(i - 1)
        <5>1. g[j] = s(j - 1)
          BY <1>g, <3>0, <4>a
        <5>2. g[j - 1] = s((j - 1) - 1)
          BY <1>g, <3>0, <4>a
        <5> QED BY <4>0, <5>1, <5>2
      <4>3. l[i] # h /\ ~(p <= Len(l) /\ l[i] = l[p])
        BY <1>1, <1>4, <3>4, <4>0 DEF NoDup
      <4> QED BY <1>1, <1>3, <1>10, <4>1, <4>2, <4>3
    <3> QED BY <3>0, <3>1, <3>2, <3>3, <3>4
  <2> QED BY <2>1, <2>2
<1>13. \A j \in 0..Len(r) : Sum(r, new, j) = g[j]
  <2>1. new \in [Timer -> Int]
    BY <1>10
  <2>2. r \in Seq(Timer)
    BY <1>5
  <2>3. g[0] = 0 /\ \A j \in 1..Len(r) : g[j] = g[j - 1] + new[r[j]]
    BY <1>12
  <2> QED BY <2>1, <2>2, <2>3, SumUnique, ZenonT(60)
<1>14. /\ LeftOf(r, new) \in [Timer -> Int] /\ LeftOf(r, new)[h] = d
       /\ \A k \in Timer : k # h => LeftOf(r, new)[k] = key[k]
  <2>1. /\ LeftOf(r, new) \in [Timer -> Int]
        /\ \A i \in 1..Len(r) : LeftOf(r, new)[r[i]] = Sum(r, new, i)
        /\ \A k \in Timer : k \notin ToSet(r) => LeftOf(r, new)[k] = 0
    <3>1. new \in [Timer -> Int]
      BY <1>10
    <3> QED BY <1>5, <1>6, <3>1, LeftFacts
  <2>2. p \in 1..Len(r) /\ r[p] = h /\ p \in 0..Len(r) /\ g[p] = d
    BY <1>g, <1>1, <1>4, <1>5
  <2>3. LeftOf(r, new)[h] = d
    BY <1>13, <2>1, <2>2
  <2>4. ASSUME NEW i \in 1..Len(l)
        PROVE  LeftOf(r, new)[l[i]] = key[l[i]]
    <3>1. CASE i < p
      <4>1. i \in 1..Len(r) /\ i \in 0..Len(r) /\ r[i] = l[i] /\ g[i] = s(i)
        BY <1>g, <1>1, <1>4, <1>5, <3>1, SMTT(45)
      <4> QED BY <1>2, <1>13, <2>1, <4>1
    <3>2. CASE i >= p
      <4>1. i + 1 \in 1..Len(r) /\ i + 1 \in 0..Len(r) /\ r[i + 1] = l[i] /\ g[i + 1] = s(i)
        <5>1. PICK j \in 1..Len(r) : j = i + 1 /\ j \in 0..Len(r) /\ j \in 1..(Len(l) + 1) /\ j > p /\ j - 1 = i
          BY <1>1, <1>4, <1>5, <3>2
        <5>2. ~(j < p) /\ j # p
          BY <1>4, <5>1
        <5>3. r[j] = l[j - 1]
          BY <1>5, <5>1, <5>2
        <5>4. g[j] = s(j - 1)
          BY <1>g, <5>1, <5>2
        <5> QED BY <5>1, <5>3, <5>4
      <4> QED BY <1>2, <1>13, <2>1, <4>1
    <3> QED BY <1>4, <3>1, <3>2
  <2>5. ASSUME NEW k \in Timer, k # h
        PROVE  LeftOf(r, new)[k] = key[k]
    <3>1. CASE k \in ToSet(l)
      BY <2>4, <3>1, ToSetFacts
    <3>2. CASE k \notin ToSet(l)
      BY <1>2, <1>6, <2>1, <2>5, <3>2
    <3> QED BY <3>1, <3>2
  <2> QED BY <2>1, <2>3, <2>5
<1>15. LeftOf(r, new) = [key EXCEPT ![h] = d]
  BY <1>2, <1>14
<1> QED BY <1>5, <1>6, <1>10, <1>11, <1>15 DEF r, new, key, Inserted

(* A timer that is unlinked leaves its ticks to the next one.               *)
LEMMA UnlinkTicks ==
    ASSUME NEW l, NEW left, TickList(l, left), NEW h \in ToSet(l)
    PROVE  Unlinked(l, left, h, Unlink(l, h), UnlinkLeft(l, left, h))
<1> USE DEF TickList
<1> DEFINE key == LeftOf(l, left)
           i == IndexIn(l, h)
           r == Unlink(l, h)
           new == UnlinkLeft(l, left, h)
           s(j) == Sum(l, left, j)
<1>1. /\ Len(l) \in Nat /\ left \in [Timer -> Int] /\ h \in Timer
      /\ \A j \in 1..Len(l) : l[j] \in Timer /\ l[j] \in ToSet(l) /\ left[l[j]] \in Nat
  BY LenProperties, ElementOfSeq, ToSetFacts
<1>2. key \in [Timer -> Int] /\ (\A j \in 1..Len(l) : key[l[j]] = s(j))
      /\ \A k \in Timer : k \notin ToSet(l) => key[k] = 0
  BY <1>1, LeftFacts
<1>3. (\A j \in 0..Len(l) : s(j) \in Int) /\ s(0) = 0
      /\ \A j \in 1..Len(l) : s(j) = s(j - 1) + left[l[j]]
  BY <1>1, SumFacts
<1> HIDE DEF key, s
<1>4. i \in 1..Len(l) /\ l[i] = h /\ IsIn(l, h)
  <2>1. IsIn(l, h)
    BY ToSetFacts
  <2> QED BY <2>1 DEF IsIn, IndexIn
<1>5. r = RemoveAt(l, i)
  BY <1>4 DEF Unlink
<1>6. new = IF i < Len(l) THEN [left EXCEPT ![l[i + 1]] = @ + left[h], ![h] = 0]
            ELSE [left EXCEPT ![h] = 0]
  BY DEF UnlinkLeft
<1>7. r \in Seq(Timer) /\ NoDup(r) /\ ToSet(r) = ToSet(l) \ {h}
  BY UnlinkFacts
<1> HIDE DEF i, r, new
<1>8. /\ Len(r) = Len(l) - 1
      /\ \A j \in 1..(Len(l) - 1) : r[j] = IF j < i THEN l[j] ELSE l[j + 1]
  <2>1. \A n \in 1..Len(l) :
           /\ Len(RemoveAt(l, n)) = Len(l) - 1
           /\ \A j \in 1..(Len(l) - 1) : RemoveAt(l, n)[j] = IF j < n THEN l[j] ELSE l[j + 1]
    BY RemoveAtFacts
  <2> QED BY <1>4, <1>5, <2>1
<1>9. /\ new \in [Timer -> Nat] /\ new[h] = 0
      /\ i < Len(l) => new[l[i + 1]] = left[l[i + 1]] + left[h]
      /\ \A k \in Timer : k # h /\ ~(i < Len(l) /\ k = l[i + 1]) => new[k] = left[k]
  <2>1. CASE i < Len(l)
    <3>1. PICK n \in 1..Len(l) : n = i + 1
      BY <1>1, <1>4, <2>1
    <3>2. l[n] \in Timer /\ l[n] # h /\ left[l[n]] + left[h] \in Nat
      BY <1>1, <1>4, <3>1 DEF NoDup
    <3>3. new = [left EXCEPT ![l[n]] = left[l[n]] + left[h], ![h] = 0]
      BY <1>6, <2>1, <3>1, <3>2
    <3>4. new \in [Timer -> Nat] /\ new[h] = 0 /\ new[l[n]] = left[l[n]] + left[h]
      BY <1>1, <3>2, <3>3
    <3>5. \A k \in Timer : k # h /\ k # l[n] => new[k] = left[k]
      BY <3>3
    <3> QED BY <2>1, <3>1, <3>4, <3>5
  <2>2. CASE ~(i < Len(l))
    BY <1>1, <1>6, <2>2
  <2> QED BY <2>1, <2>2
<1>10. \A k \in Timer : k \notin ToSet(l) => new[k] = left[k]
  <2> SUFFICES ASSUME NEW k \in Timer, k \notin ToSet(l) PROVE new[k] = left[k]
    OBVIOUS
  <2>1. k # h
    OBVIOUS
  <2>2. ASSUME i < Len(l) PROVE k # l[i + 1]
    <3>1. PICK n \in 1..Len(l) : n = i + 1
      BY <1>1, <1>4, <2>2
    <3> QED BY <1>1, <3>1
  <2> QED BY <1>9, <2>1, <2>2
<1> DEFINE g == [j \in 0..Len(r) |-> IF j < i THEN s(j) ELSE s(j + 1)]
<1>g. \A j \in 0..Len(r) : g[j] = IF j < i THEN s(j) ELSE s(j + 1)
  OBVIOUS
<1> HIDE DEF g
<1>11. g[0] = 0
  BY <1>1, <1>3, <1>4, <1>8, <1>g
<1>12. ASSUME NEW j \in 1..Len(r)
       PROVE  g[j] = g[j - 1] + new[r[j]]
  <2>1. /\ j \in Int /\ i \in Int /\ j \in 1..(Len(l) - 1) /\ j \in 0..Len(r) /\ j - 1 \in 0..Len(r)
        /\ j \in 1..Len(l)
    BY <1>1, <1>4, <1>8
  <2>2. PICK n \in 1..Len(l) : n = j + 1 /\ n - 1 = j
    BY <1>1, <2>1
  <2>3. CASE j < i
    <3>1. r[j] = l[j] /\ g[j] = s(j) /\ g[j - 1] = s(j - 1)
      BY <1>8, <1>g, <2>1, <2>3, SMTT(45)
    <3>2. l[j] # h /\ ~(i < Len(l) /\ l[j] = l[i + 1])
      <4>1. l[j] # h
        BY <1>4, <2>1, <2>3 DEF NoDup
      <4>2. ASSUME i < Len(l) PROVE l[j] # l[i + 1]
        <5>1. PICK m \in 1..Len(l) : m = i + 1
          BY <1>1, <1>4, <4>2
        <5> QED BY <2>1, <2>3, <5>1 DEF NoDup
      <4> QED BY <4>1, <4>2
    <3> QED BY <1>1, <1>3, <1>9, <2>1, <3>1, <3>2
  <2>4. CASE j = i
    <3>1. r[j] = l[n] /\ g[j] = s(n) /\ g[j - 1] = s(j - 1)
      <4>1. ~(j < i) /\ j - 1 < i
        BY <2>1, <2>4
      <4>2. r[j] = l[j + 1] /\ g[j] = s(j + 1) /\ g[j - 1] = s(j - 1)
        BY <1>8, <1>g, <2>1, <4>1
      <4> QED BY <2>2, <4>2
    <3>2. new[l[n]] = left[l[n]] + left[h]
      <4>1. i < Len(l)
        BY <1>1, <2>1, <2>4
      <4>2. new[l[j + 1]] = left[l[j + 1]] + left[h]
        BY <1>9, <2>4, <4>1
      <4> QED BY <2>2, <4>2
    <3>3. s(n) = s(j) + left[l[n]] /\ s(j) = s(j - 1) + left[h]
      <4>1. s(n) = s(n - 1) + left[l[n]]
        BY <1>3
      <4>2. s(j) = s(j - 1) + left[l[j]]
        BY <1>3, <2>1
      <4> QED BY <1>4, <2>2, <2>4, <4>1, <4>2
    <3>4. s(j - 1) \in Int /\ left[h] \in Int /\ left[l[n]] \in Int
      <4>1. j - 1 \in 0..Len(l)
        BY <1>1, <2>1
      <4> QED BY <1>1, <1>3, <4>1
    <3> QED BY <3>1, <3>2, <3>3, <3>4
  <2>5. CASE j > i
    <3>1. r[j] = l[n] /\ g[j] = s(n) /\ g[j - 1] = s(n - 1)
      <4>1. ~(j < i) /\ ~(j - 1 < i) /\ (j - 1) + 1 = j
        BY <2>1, <2>5
      <4>2. r[j] = l[j + 1] /\ g[j] = s(j + 1) /\ g[j - 1] = s((j - 1) + 1)
        BY <1>8, <1>g, <2>1, <4>1
      <4> QED BY <2>2, <4>1, <4>2
    <3>2. l[n] # h /\ ~(i < Len(l) /\ l[n] = l[i + 1])
      <4>1. l[n] # h
        BY <1>4, <2>1, <2>2, <2>5 DEF NoDup
      <4>2. ASSUME i < Len(l) PROVE l[n] # l[i + 1]
        <5>1. PICK m \in 1..Len(l) : m = i + 1
          BY <1>1, <1>4, <4>2
        <5> QED BY <2>1, <2>2, <2>5, <5>1 DEF NoDup
      <4> QED BY <4>1, <4>2
    <3> QED BY <1>1, <1>3, <1>9, <3>1, <3>2
  <2> QED BY <2>1, <2>3, <2>4, <2>5
<1>13. \A j \in 0..Len(r) : Sum(r, new, j) = g[j]
  <2>1. new \in [Timer -> Int]
    BY <1>9
  <2>2. r \in Seq(Timer)
    BY <1>7
  <2>3. g[0] = 0 /\ \A j \in 1..Len(r) : g[j] = g[j - 1] + new[r[j]]
    BY <1>11, <1>12
  <2> HIDE DEF r, new, g
  <2> QED BY <2>1, <2>2, <2>3, SumUnique, ZenonT(60)
<1>14. /\ LeftOf(r, new) \in [Timer -> Int] /\ LeftOf(r, new)[h] = 0
       /\ \A k \in Timer : k # h => LeftOf(r, new)[k] = key[k]
  <2>1. /\ LeftOf(r, new) \in [Timer -> Int]
        /\ \A j \in 1..Len(r) : LeftOf(r, new)[r[j]] = Sum(r, new, j)
        /\ \A k \in Timer : k \notin ToSet(r) => LeftOf(r, new)[k] = 0
    <3>1. new \in [Timer -> Int]
      BY <1>9
    <3> QED BY <1>7, <3>1, LeftFacts
  <2>2. LeftOf(r, new)[h] = 0
    BY <1>1, <1>7, <2>1
  <2>3. ASSUME NEW j \in 1..Len(l), j # i
        PROVE  LeftOf(r, new)[l[j]] = key[l[j]]
    <3>1. CASE j < i
      <4>1. j \in 1..Len(r) /\ j \in 0..Len(r) /\ j \in 1..(Len(l) - 1)
        BY <1>1, <1>4, <1>8, <3>1
      <4>2. r[j] = l[j] /\ g[j] = s(j)
        BY <1>8, <1>g, <3>1, <4>1
      <4> QED BY <1>2, <1>13, <2>1, <4>1, <4>2
    <3>2. CASE j > i
      <4>1. PICK n \in 1..Len(r) : n = j - 1 /\ n + 1 = j /\ n \in 0..Len(r) /\ n \in 1..(Len(l) - 1) /\ ~(n < i)
        BY <1>1, <1>4, <1>8, <3>2
      <4>2. r[n] = l[n + 1] /\ g[n] = s(n + 1)
        BY <1>8, <1>g, <4>1
      <4> QED BY <1>2, <1>13, <2>1, <4>1, <4>2
    <3> QED BY <1>1, <1>4, <2>3, <3>1, <3>2
  <2>4. ASSUME NEW k \in Timer, k # h
        PROVE  LeftOf(r, new)[k] = key[k]
    <3>1. CASE k \in ToSet(l)
      <4>1. PICK j \in 1..Len(l) : l[j] = k
        BY <3>1, ToSetFacts
      <4> QED BY <1>4, <2>3, <2>4, <4>1
    <3>2. CASE k \notin ToSet(l)
      BY <1>2, <1>7, <2>1, <3>2
    <3> QED BY <3>1, <3>2
  <2> QED BY <2>1, <2>2, <2>4
<1>15. LeftOf(r, new) = [key EXCEPT ![h] = 0]
  BY <1>2, <1>14
<1> QED BY <1>7, <1>9, <1>10, <1>15 DEF r, new, key, Unlinked

(* The first timer goes: the others lose what it had left, which was its    *)
(* own count.                                                               *)
LEMMA TailTicks ==
    ASSUME NEW l, NEW left, TickList(l, left), l # <<>>
    PROVE  FirstElapsed(l, left, Tail(l), TakenOff(left, Head(l), left[Head(l)]))
<1> USE DEF TickList
<1> DEFINE key == LeftOf(l, left)
           h == Head(l)
           r == Tail(l)
           new == TakenOff(left, h, left[h])
           s(j) == Sum(l, left, j)
<1>1. /\ Len(l) \in Nat /\ left \in [Timer -> Int]
      /\ \A j \in 1..Len(l) : l[j] \in Timer /\ l[j] \in ToSet(l) /\ left[l[j]] \in Nat
  BY LenProperties, ElementOfSeq, ToSetFacts
<1>2. key \in [Timer -> Int] /\ (\A j \in 1..Len(l) : key[l[j]] = s(j))
  BY <1>1, LeftFacts
<1>3. (\A j \in 0..Len(l) : s(j) \in Int) /\ s(0) = 0
      /\ \A j \in 1..Len(l) : s(j) = s(j - 1) + left[l[j]]
  BY <1>1, SumFacts
<1> HIDE DEF key, s
<1>4. /\ h = l[1] /\ h \in Timer /\ h \in ToSet(l) /\ r \in Seq(Timer) /\ Len(r) = Len(l) - 1
      /\ (\A j \in 1..(Len(l) - 1) : r[j] = l[j + 1])
      /\ ToSet(r) = ToSet(l) \ {h} /\ NoDup(r)
  BY TailFacts
<1>5. Len(l) >= 1 /\ 1 \in 1..Len(l)
  BY <1>1, LenProperties, EmptySeq
<1> HIDE DEF h, r
<1>6. s(1) = left[h] /\ key[h] = left[h] /\ left[h] \in Nat
  BY <1>1, <1>2, <1>3, <1>4, <1>5
<1>7. new \in [Timer -> Nat] /\ \A k \in Timer : k # h => new[k] = left[k]
  BY <1>4, <1>6 DEF TakenOff
<1> HIDE DEF new
<1> DEFINE g == [j \in 0..Len(r) |-> s(j + 1) - left[h]]
<1>g. \A j \in 0..Len(r) : g[j] = s(j + 1) - left[h]
  OBVIOUS
<1> HIDE DEF g
<1>8. g[0] = 0
  BY <1>1, <1>4, <1>5, <1>6, <1>g
<1>9. ASSUME NEW j \in 1..Len(r)
      PROVE  g[j] = g[j - 1] + new[r[j]]
  <2>1. PICK n \in 1..Len(l) : n = j + 1 /\ n - 1 = j /\ n # 1
    BY <1>1, <1>4
  <2>2. j \in 0..Len(r) /\ j - 1 \in 0..Len(r) /\ j \in 1..(Len(l) - 1) /\ (j - 1) + 1 = j /\ j \in 0..Len(l)
    BY <1>1, <1>4
  <2>3. r[j] = l[n]
    <3>1. r[j] = l[j + 1]
      BY <1>4, <2>2
    <3> QED BY <2>1, <3>1
  <2>4. g[j] = s(n) - left[h] /\ g[j - 1] = s(j) - left[h]
    <3>1. g[j] = s(j + 1) - left[h] /\ g[j - 1] = s((j - 1) + 1) - left[h]
      BY <1>g, <2>2
    <3> QED BY <2>1, <2>2, <3>1
  <2>5. s(n) = s(j) + left[l[n]]
    <3>1. s(n) = s(n - 1) + left[l[n]]
      BY <1>3
    <3> QED BY <2>1, <3>1
  <2>6. l[n] # h
    BY <1>4, <1>5, <2>1 DEF NoDup
  <2>7. s(j) \in Int /\ left[l[n]] \in Int /\ new[l[n]] = left[l[n]]
    BY <1>1, <1>3, <1>7, <2>2, <2>6
  <2> QED BY <1>6, <2>3, <2>4, <2>5, <2>7
<1>10. \A j \in 0..Len(r) : Sum(r, new, j) = g[j]
  <2>1. new \in [Timer -> Int]
    BY <1>7
  <2>2. \A j \in 1..Len(r) : g[j] = g[j - 1] + new[r[j]]
    BY <1>9
  <2>3. r \in Seq(Timer)
    BY <1>4
  <2> QED BY <1>8, <2>1, <2>2, <2>3, SumUnique, ZenonT(60)
<1>11. LeftOf(r, new) = [k \in Timer |-> IF k \in ToSet(l) \ {h} THEN key[k] - left[h] ELSE 0]
  <2>1. /\ LeftOf(r, new) \in [Timer -> Int]
        /\ \A j \in 1..Len(r) : LeftOf(r, new)[r[j]] = Sum(r, new, j)
        /\ \A k \in Timer : k \notin ToSet(r) => LeftOf(r, new)[k] = 0
    <3>1. new \in [Timer -> Int]
      BY <1>7
    <3> QED BY <1>4, <3>1, LeftFacts
  <2>2. ASSUME NEW k \in ToSet(r)
        PROVE  LeftOf(r, new)[k] = key[k] - left[h]
    <3>1. PICK j \in 1..Len(r) : r[j] = k
      BY <1>4, ToSetFacts, SMTT(45)
    <3>2. PICK n \in 1..Len(l) : n = j + 1
      BY <1>1, <1>4
    <3>3. k = l[n]
      <4>1. j \in 1..(Len(l) - 1)
        BY <1>4
      <4>2. r[j] = l[j + 1]
        BY <1>4, <4>1
      <4> QED BY <3>1, <3>2, <4>2
    <3>4. Sum(r, new, j) = s(n) - left[h]
      <4>1. j \in 0..Len(r)
        BY <1>1, <1>4
      <4>2. Sum(r, new, j) = s(j + 1) - left[h]
        BY <1>10, <1>g, <4>1
      <4> QED BY <3>2, <4>2
    <3>5. LeftOf(r, new)[k] = Sum(r, new, j)
      BY <2>1, <3>1
    <3> QED BY <1>2, <3>3, <3>4, <3>5
  <2> QED BY <1>4, <2>1, <2>2
<1> QED BY <1>4, <1>7, <1>11 DEF h, r, key, new, FirstElapsed

(* Ticks that are taken off the first timer are taken off all.              *)
LEMMA CountDownTicks ==
    ASSUME NEW l, NEW left, TickList(l, left), l # <<>>, NEW c \in Nat, c <= left[Head(l)]
    PROVE  CountedDown(l, left, c, TakenOff(left, Head(l), c))
<1> USE DEF TickList
<1> DEFINE key == LeftOf(l, left)
           h == Head(l)
           new == TakenOff(left, h, c)
           s(j) == Sum(l, left, j)
<1>1. /\ Len(l) \in Nat /\ left \in [Timer -> Int]
      /\ \A j \in 1..Len(l) : l[j] \in Timer /\ l[j] \in ToSet(l) /\ left[l[j]] \in Nat
  BY LenProperties, ElementOfSeq, ToSetFacts
<1>2. key \in [Timer -> Int] /\ (\A j \in 1..Len(l) : key[l[j]] = s(j))
  BY <1>1, LeftFacts
<1>3. (\A j \in 0..Len(l) : s(j) \in Int) /\ s(0) = 0
      /\ \A j \in 1..Len(l) : s(j) = s(j - 1) + left[l[j]]
  BY <1>1, SumFacts
<1> HIDE DEF key, s
<1>4. h = l[1] /\ h \in Timer
  BY TailFacts
<1>5. Len(l) >= 1 /\ 1 \in 1..Len(l)
  BY <1>1, LenProperties, EmptySeq
<1>6. left[h] \in Nat
  BY <1>4
<1>7. new \in [Timer -> Nat] /\ new[h] = left[h] - c /\ \A k \in Timer : k # h => new[k] = left[k]
  BY <1>4, <1>6 DEF TakenOff
<1> HIDE DEF h, new
<1> DEFINE g == [j \in 0..Len(l) |-> IF j = 0 THEN 0 ELSE s(j) - c]
<1>g. \A j \in 0..Len(l) : g[j] = IF j = 0 THEN 0 ELSE s(j) - c
  OBVIOUS
<1> HIDE DEF g
<1>8. g[0] = 0
  BY <1>1, <1>g
<1>9. ASSUME NEW j \in 1..Len(l)
      PROVE  g[j] = g[j - 1] + new[l[j]]
  <2>1. /\ j \in 0..Len(l) /\ j - 1 \in 0..Len(l) /\ j # 0 /\ g[j] = s(j) - c
        /\ s(j) = s(j - 1) + left[l[j]] /\ s(j - 1) \in Int /\ left[l[j]] \in Nat
    BY <1>1, <1>3, <1>g
  <2>2. CASE j = 1
    <3>1. j - 1 = 0 /\ g[j - 1] = 0 /\ s(j - 1) = 0 /\ l[j] = h
      BY <1>3, <1>4, <1>8, <2>2
    <3> QED BY <1>6, <1>7, <2>1, <3>1
  <2>3. CASE j # 1
    <3>1. j - 1 # 0
      BY <2>3
    <3>2. g[j - 1] = s(j - 1) - c
      BY <1>g, <2>1, <3>1
    <3>3. l[j] # h
      BY <1>4, <1>5, <2>3 DEF NoDup
    <3> QED BY <1>1, <1>7, <2>1, <3>2, <3>3
  <2> QED BY <2>2, <2>3
<1>10. \A j \in 0..Len(l) : Sum(l, new, j) = g[j]
  <2>1. new \in [Timer -> Int]
    BY <1>7
  <2>2. \A j \in 1..Len(l) : g[j] = g[j - 1] + new[l[j]]
    BY <1>9
  <2> QED BY <1>8, <2>1, <2>2, SumUnique
<1>11. LeftOf(l, new) = [k \in Timer |-> IF k \in ToSet(l) THEN key[k] - c ELSE 0]
  <2>1. /\ LeftOf(l, new) \in [Timer -> Int]
        /\ \A j \in 1..Len(l) : LeftOf(l, new)[l[j]] = Sum(l, new, j)
        /\ \A k \in Timer : k \notin ToSet(l) => LeftOf(l, new)[k] = 0
    <3>1. new \in [Timer -> Int]
      BY <1>7
    <3> QED BY <3>1, LeftFacts
  <2>2. ASSUME NEW k \in ToSet(l)
        PROVE  LeftOf(l, new)[k] = key[k] - c
    <3>1. PICK j \in 1..Len(l) : l[j] = k
      BY ToSetFacts
    <3>2. j \in 0..Len(l) /\ j # 0
      BY <1>1
    <3>3. Sum(l, new, j) = s(j) - c
      BY <1>10, <1>g, <3>2
    <3> QED BY <1>2, <2>1, <3>1, <3>3
  <2> QED BY <2>1, <2>2
<1> QED BY <1>7, <1>11 DEF key, h, new, CountedDown

(* No timer elapses before the first one.                                   *)
LEMMA LeftBounds ==
    ASSUME NEW l \in Seq(Timer), NEW left \in [Timer -> Nat], NoDup(l), NEW h \in ToSet(l)
    PROVE  /\ l # <<>> /\ LeftOf(l, left)[h] \in Nat
           /\ left[h] <= LeftOf(l, left)[h]
           /\ left[Head(l)] <= LeftOf(l, left)[h]
<1>1. Len(l) \in Nat /\ left \in [Timer -> Int] /\ \A j \in 1..Len(l) : left[l[j]] \in Nat
  BY LenProperties, ElementOfSeq
<1>2. PICK j \in 1..Len(l) : l[j] = h
  BY ToSetFacts
<1>3. l # <<>>
  BY <1>1, <1>2, EmptySeq
<1>4. Head(l) = l[1]
  BY <1>3, TailFacts
<1>5. LeftOf(l, left)[h] = Sum(l, left, j)
  BY <1>1, <1>2, LeftFacts
<1>6. /\ \A n \in 0..Len(l) : Sum(l, left, n) \in Int
      /\ Sum(l, left, 0) = 0
      /\ \A n \in 1..Len(l) : Sum(l, left, n) = Sum(l, left, n - 1) + left[l[n]]
  BY <1>1, SumFacts
<1>7. 1 \in 1..Len(l) /\ 1 \in 0..Len(l) /\ 0 \in 0..Len(l) /\ j \in 0..Len(l) /\ j - 1 \in 0..Len(l)
      /\ 1 <= j /\ 0 <= j - 1
  BY <1>1, <1>2
<1>8. Sum(l, left, 1) <= Sum(l, left, j) /\ Sum(l, left, 0) <= Sum(l, left, j - 1)
  BY <1>7, SumMonotone
<1>9. Sum(l, left, 1) = left[l[1]]
  <2>1. Sum(l, left, 1) = Sum(l, left, 1 - 1) + left[l[1]]
    BY <1>6, <1>7
  <2> QED BY <1>1, <1>6, <1>7, <2>1
<1>10. left[h] <= Sum(l, left, j) /\ Sum(l, left, j) \in Nat
  BY <1>1, <1>2, <1>6, <1>7, <1>8
<1> QED BY <1>3, <1>4, <1>5, <1>8, <1>9, <1>10

-----------------------------------------------------------------------------
USE WordAssumption, CallbackAssumption

(* The ticks since the last pass, counted in words.                         *)
LEMMA ModWord ==
    ASSUME NEW x \in 0..(Word - 1)
    PROVE  x % Word = x /\ (x - Word) % Word = x /\ (x + Word) % Word = x
  OBVIOUS

LEMMA PendFacts ==
    ASSUME TypeOK
    PROVE  /\ Pend \in 0..(Word - 1)
           /\ Pend = nut_ticks - nut_ticks_resume \/ Pend = nut_ticks - nut_ticks_resume + Word
<1>1. nut_ticks \in 0..(Word - 1) /\ nut_ticks_resume \in 0..(Word - 1)
  BY DEF TypeOK
<1>2. CASE nut_ticks >= nut_ticks_resume
  <2>1. nut_ticks - nut_ticks_resume \in 0..(Word - 1)
    BY <1>1, <1>2
  <2> QED BY <2>1, ModWord DEF Pend
<1>3. CASE nut_ticks < nut_ticks_resume
  <2>1. nut_ticks - nut_ticks_resume + Word \in 0..(Word - 1)
    BY <1>1, <1>3
  <2>2. (nut_ticks - nut_ticks_resume + Word) - Word = nut_ticks - nut_ticks_resume
    BY <1>1
  <2> QED BY <2>1, <2>2, ModWord DEF Pend
<1> QED BY <1>1, <1>2, <1>3

(* A timer started now gets the pending ticks added.                        *)
LEMMA ArmTicks ==
    ASSUME TypeOK, NEW n \in Nat, n + Pend < Word
    PROVE  (n + nut_ticks - nut_ticks_resume) % Word = n + Pend
<1>1. n + Pend \in 0..(Word - 1) /\ nut_ticks \in Int /\ nut_ticks_resume \in Int
  BY PendFacts DEF TypeOK
<1>2. CASE Pend = nut_ticks - nut_ticks_resume
  <2>1. n + nut_ticks - nut_ticks_resume = n + Pend
    BY <1>1, <1>2
  <2> QED BY <1>1, <2>1, ModWord
<1>3. CASE Pend = nut_ticks - nut_ticks_resume + Word
  <2>1. n + nut_ticks - nut_ticks_resume = (n + Pend) - Word
    BY <1>1, <1>3
  <2> QED BY <1>1, <2>1, ModWord
<1> QED BY <1>2, <1>3, PendFacts

(* NutTimerMillisToTicks() of a time that fits in a word.                   *)
LEMMA MillisFacts ==
    ASSUME TimesFit, NEW ms \in Ms
    PROVE  /\ NutTimerMillisToTicks(ms) \in Nat
           /\ NutTimerMillisToTicks(ms) = (ms * TickClock) \div Second
           /\ NutTimerMillisToTicks(ms) + MaxPend < Word
<1>1. ms \in Nat /\ ms * TickClock \in Nat
  OBVIOUS
<1>2. (ms * TickClock) % Word = ms * TickClock
  <2>1. ms * TickClock \in 0..(Word - 1)
    BY <1>1 DEF TimesFit
  <2> QED BY <2>1, ModWord
<1>3. ASSUME NEW x \in Nat PROVE x \div Second \in Nat
  OBVIOUS
<1> QED BY <1>1, <1>2, <1>3 DEF TimesFit, NutTimerMillisToTicks

(* What TypeOK and the bound of the sums say of the list.                   *)
LEMMA ListTyped ==
    ASSUME TimerInv
    PROVE  /\ TickList(nutTimerList, tn_ticks_left)
           /\ nutTimerList \in Seq(Timer) /\ NoDup(nutTimerList) /\ Listed \subseteq Timer
           /\ tn_ticks_left \in [Timer -> Nat] /\ Left \in [Timer -> Int]
           /\ \A h \in Listed : Left[h] \in Nat
           /\ \A h \in Timer : h \notin Listed => Left[h] = 0
<1>1. nutTimerList \in Seq(Timer) /\ NoDup(nutTimerList) /\ tn_ticks_left \in [Timer -> Nat]
  BY DEF TimerInv, TypeOK
<1>2. Listed \subseteq Timer
  BY <1>1, ToSetFacts DEF Listed
<1>3. tn_ticks_left \in [Timer -> Int]
  BY <1>1
<1> QED BY <1>1, <1>2, <1>3, LeftFacts, LeftBounds DEF Left, Listed, TickList

(* Deltas are words when the sums are.                                      *)
LEMMA DeltasTyped ==
    ASSUME NEW l \in Seq(Timer), NEW left \in [Timer -> Nat], NoDup(l),
           \A h \in ToSet(l) : LeftOf(l, left)[h] < Word,
           \A h \in Timer : h \notin ToSet(l) => left[h] < Word
    PROVE  left \in [Timer -> 0..(Word - 1)]
<1> SUFFICES ASSUME NEW h \in Timer PROVE left[h] \in 0..(Word - 1)
  OBVIOUS
<1>1. CASE h \in ToSet(l)
  <2>1. left[h] <= LeftOf(l, left)[h] /\ LeftOf(l, left)[h] \in Nat /\ LeftOf(l, left)[h] < Word
    BY <1>1, LeftBounds
  <2>2. left[h] \in Nat
    OBVIOUS
  <2> QED BY <2>1, <2>2
<1>2. CASE h \notin ToSet(l)
  BY <1>2
<1> QED BY <1>1, <1>2

-----------------------------------------------------------------------------
(* What the steps do to the ticks left.                                     *)
LEMMA StartTicks ==
    ASSUME TimerInv, TimesFit, NEW h \in Timer, NEW ms \in Ms, NEW callback, NEW flags,
           NutTimerStart(h, ms, callback, flags)
    PROVE  /\ h \notin Listed
           /\ Inserted(nutTimerList, tn_ticks_left, h, NutTimerMillisToTicks(ms) + Pend,
                       nutTimerList', tn_ticks_left')
           /\ nutTimerList' = InsertList(nutTimerList, tn_ticks_left, h,
                                         NutTimerMillisToTicks(ms) + Pend)
           /\ NutTimerMillisToTicks(ms) + Pend \in 0..(Word - 1)
           /\ Pend' = Pend
<1> DEFINE n == NutTimerMillisToTicks(ms)
           d == (n + nut_ticks - nut_ticks_resume) % Word
<1>1. n \in Nat /\ n + MaxPend < Word
  BY MillisFacts
<1>2. Pend \in Nat /\ Pend <= MaxPend /\ TypeOK
  BY PendFacts DEF TimerInv
<1>3. n + Pend < Word /\ n + Pend \in Nat
  BY <1>1, <1>2
<1>4. d = n + Pend
  BY <1>1, <1>2, <1>3, ArmTicks
<1>5. /\ nutTimerList' = InsertList(nutTimerList, tn_ticks_left, h, d)
      /\ tn_ticks_left' = InsertLeft(nutTimerList, tn_ticks_left, h, d)
      /\ h \notin Listed /\ UNCHANGED clock
  BY DEF NutTimerStart, Arm
<1> HIDE DEF d
<1>6. Pend' = Pend
  BY <1>5 DEF Pend, clock
<1>7. TickList(nutTimerList, tn_ticks_left)
  BY ListTyped
<1>8. h \notin ToSet(nutTimerList) /\ d \in Nat
  BY <1>3, <1>4, <1>5 DEF Listed
<1>9. Inserted(nutTimerList, tn_ticks_left, h, d, nutTimerList', tn_ticks_left')
  BY <1>5, <1>7, <1>8, InsertTicks
<1> QED BY <1>3, <1>4, <1>5, <1>6, <1>9

LEMMA StopTicks ==
    ASSUME TimerInv, NEW h \in Timer, NutTimerStop(h)
    PROVE  /\ h \in Listed /\ Listed' = Listed
           /\ TickList(nutTimerList', tn_ticks_left')
           /\ \A k \in Timer : k \notin Listed => tn_ticks_left'[k] = tn_ticks_left[k]
           /\ \/ UNCHANGED <<nutTimerList, tn_ticks_left, Left>>
              \/ /\ Left' = [Left EXCEPT ![h] = 0]
                 /\ nutTimerList' = InsertList(Unlink(nutTimerList, h),
                                       UnlinkLeft(nutTimerList, tn_ticks_left, h), h, 0)
                 /\ Unlinked(nutTimerList, tn_ticks_left, h, Unlink(nutTimerList, h),
                             UnlinkLeft(nutTimerList, tn_ticks_left, h))
           /\ Pend' = Pend
<1>1. h \in ToSet(nutTimerList) /\ h \in Listed /\ UNCHANGED clock
  BY DEF NutTimerStop, Armed, Listed
<1>2. Pend' = Pend
  BY <1>1 DEF Pend, clock
<1>3. TickList(nutTimerList, tn_ticks_left) /\ Left \in [Timer -> Int] /\ h \in Timer
  BY ListTyped
<1>4. CASE tn_ticks_left[h] = 0
  <2>1. nutTimerList' = nutTimerList /\ tn_ticks_left' = tn_ticks_left
    BY <1>4 DEF NutTimerStop
  <2> QED BY <1>1, <1>2, <1>3, <2>1 DEF Left, Listed
<1>5. CASE tn_ticks_left[h] # 0
  <2> DEFINE l == Unlink(nutTimerList, h)
             left == UnlinkLeft(nutTimerList, tn_ticks_left, h)
  <2>1. nutTimerList' = InsertList(l, left, h, 0) /\ tn_ticks_left' = InsertLeft(l, left, h, 0)
    BY <1>5 DEF NutTimerStop
  <2>2. Unlinked(nutTimerList, tn_ticks_left, h, l, left)
    BY <1>1, <1>3, UnlinkTicks
  <2>3. h \notin ToSet(l) /\ 0 \in Nat /\ TickList(l, left)
    BY <2>2 DEF Unlinked
  <2>4. Inserted(l, left, h, 0, nutTimerList', tn_ticks_left')
    BY <2>1, <2>3, InsertTicks
  <2> HIDE DEF l, left
  <2>5. Left' = [Left EXCEPT ![h] = 0]
    BY <1>3, <2>2, <2>4 DEF Left, Inserted, Unlinked
  <2>6. Listed' = Listed
    BY <1>1, <2>2, <2>4 DEF Inserted, Unlinked, Listed
  <2>7. \A k \in Timer : k \notin Listed => tn_ticks_left'[k] = tn_ticks_left[k]
    BY <1>1, <2>2, <2>4 DEF Inserted, Unlinked, Listed
  <2> QED BY <1>1, <1>2, <2>1, <2>2, <2>4, <2>5, <2>6, <2>7 DEF Inserted, l, left
<1> QED BY <1>4, <1>5

LEMMA CountDownStep ==
    ASSUME TimerInv, CountDown
    PROVE  /\ CountedDown(nutTimerList, tn_ticks_left, ticks_new, tn_ticks_left')
           /\ \A k \in Timer : k \notin Listed => tn_ticks_left'[k] = tn_ticks_left[k]
           /\ \A h \in Listed : ticks_new < Left[h]
           /\ Pend' = Pend /\ UNCHANGED nutTimerList /\ Listed' = Listed
           /\ ticks_new \in Nat /\ ticks_new' = 0
<1> DEFINE h == Head(nutTimerList)
<1>1. /\ nutTimerList # <<>> /\ ticks_new < tn_ticks_left[h]
      /\ tn_ticks_left' = TakenOff(tn_ticks_left, h, ticks_new)
      /\ UNCHANGED <<clock, nutTimerList>> /\ ticks_new' = 0
  BY DEF CountDown, InPass, TakenOff
<1>2. nutTimerList \in Seq(Timer) /\ NoDup(nutTimerList) /\ tn_ticks_left \in [Timer -> Nat]
  BY ListTyped
<1>3. ticks_new \in Nat
  BY DEF TimerInv, TypeOK
<1>4. h \in Timer /\ h \in Listed
  BY <1>1, <1>2, TailFacts DEF Listed
<1>5. ticks_new <= tn_ticks_left[h] /\ TickList(nutTimerList, tn_ticks_left)
  BY <1>1, <1>2, <1>3, <1>4 DEF TickList
<1>6. CountedDown(nutTimerList, tn_ticks_left, ticks_new, tn_ticks_left')
  BY <1>1, <1>3, <1>5, CountDownTicks
<1>7. \A k \in Listed : tn_ticks_left[h] <= Left[k] /\ Left[k] \in Nat
  BY <1>2, LeftBounds DEF Left, Listed
<1>8. Pend' = Pend /\ Listed' = Listed
  BY <1>1 DEF Pend, clock, Listed
<1>9. tn_ticks_left[h] \in Nat
  BY <1>2, <1>4
<1> HIDE DEF h
<1>10. \A k \in Timer : k \notin Listed => tn_ticks_left'[k] = tn_ticks_left[k]
  BY <1>1, <1>2, <1>4 DEF TakenOff
<1> QED BY <1>1, <1>3, <1>6, <1>7, <1>8, <1>9, <1>10

(* The first timer has elapsed and is freed, or starts another period.      *)
LEMMA ReloadStep ==
    ASSUME TimerInv, NEW h \in Timer, NoRestarts, Elapsed(h)
    PROVE  /\ h \in Listed /\ nutTimerList # <<>> /\ h = Head(nutTimerList)
           /\ TickList(nutTimerList', tn_ticks_left')
           /\ \A k \in Timer : k \notin Listed => tn_ticks_left'[k] = tn_ticks_left[k]
           /\ tn_ticks[h] = 0 => Listed' = Listed \ {h} /\ tn_ticks_left'[h] = 0
                                 /\ nutTimerList' = Tail(nutTimerList)
           /\ tn_ticks[h] # 0 => Listed' = Listed
           /\ Left' = [k \in Timer |-> IF k = h THEN tn_ticks[h]
                                       ELSE IF k \in Listed THEN Left[k] - Left[h] ELSE 0]
           /\ Left[h] \in Nat /\ Left[h] <= ticks_new /\ ticks_new' = ticks_new - Left[h]
           /\ ticks_new \in Nat
           /\ \A k \in Listed : Left[h] <= Left[k]
           /\ Reload(h) /\ Pend' = Pend
<1> DEFINE rest == Tail(nutTimerList)
           elapsed == TakenOff(tn_ticks_left, h, tn_ticks_left[h])
<1>1. /\ nutTimerList # <<>> /\ h = Head(nutTimerList) /\ tn_ticks_left[h] <= ticks_new
      /\ UNCHANGED clock /\ ticks_new' = ticks_new - tn_ticks_left[h]
  BY DEF Elapsed, InPass
<1>2. nutTimerList \in Seq(Timer) /\ NoDup(nutTimerList) /\ tn_ticks_left \in [Timer -> Nat]
      /\ TickList(nutTimerList, tn_ticks_left) /\ Left \in [Timer -> Int]
  BY ListTyped DEF TickList
<1>3. ticks_new \in Nat /\ tn_ticks[h] \in Nat
  BY DEF TimerInv, TypeOK
<1>4. FirstElapsed(nutTimerList, tn_ticks_left, rest, elapsed)
  BY <1>1, <1>2, TailTicks
<1>5. h \in Listed
  BY <1>1, <1>2, TailFacts DEF Listed
<1>6. elapsed = [tn_ticks_left EXCEPT ![h] = 0] /\ elapsed[h] = 0
      /\ \A k \in Timer : k # h => elapsed[k] = tn_ticks_left[k]
  <2>1. tn_ticks_left[h] - tn_ticks_left[h] = 0
    BY <1>2
  <2> QED BY <1>2, <2>1 DEF TakenOff
<1>7. Reload(h)
  <2>1. tn_callback[h] # "NutMsgQTimerCb"
    BY DEF TimerInv, TypeOK, NoRestarts
  <2> QED BY <2>1 DEF Elapsed, Restarts
<1> HIDE DEF elapsed, rest
<1>8. /\ TickList(rest, elapsed) /\ ToSet(rest) = Listed \ {h}
      /\ LeftOf(rest, elapsed) = [k \in Timer |->
             IF k \in Listed \ {h} THEN Left[k] - tn_ticks_left[h] ELSE 0]
  BY <1>1, <1>4 DEF FirstElapsed, Left, Listed
<1>9. \A k \in Listed : tn_ticks_left[h] <= Left[k] /\ Left[k] \in Nat
  BY <1>1, <1>2, LeftBounds DEF Left, Listed
<1>10. Left[h] = tn_ticks_left[h] /\ Pend' = Pend
  <2>1. Len(nutTimerList) >= 1 /\ Head(nutTimerList) = nutTimerList[1] /\ Len(nutTimerList) \in Nat
    BY <1>1, <1>2, LenProperties, EmptySeq, TailFacts
  <2>2. 1 \in 1..Len(nutTimerList) /\ 1 - 1 = 0 /\ tn_ticks_left \in [Timer -> Int]
    BY <1>2, <2>1
  <2>3. Left[h] = Sum(nutTimerList, tn_ticks_left, 1)
    BY <1>1, <1>2, <2>1, <2>2, LeftFacts, SMTT(45) DEF Left
  <2>4. Sum(nutTimerList, tn_ticks_left, 1) = 0 + tn_ticks_left[nutTimerList[1]]
    BY <1>2, <2>2, SumFacts
  <2> QED BY <1>1, <1>2, <2>1, <2>3, <2>4 DEF Pend, clock
<1>11. CASE tn_ticks[h] = 0
  <2>1. nutTimerList' = rest /\ tn_ticks_left' = elapsed
    BY <1>6, <1>7, <1>11 DEF Reload, rest
  <2>2. Left' = LeftOf(rest, elapsed) /\ Listed' = ToSet(rest)
    BY <2>1 DEF Left, Listed
  <2>3. Left' = [k \in Timer |-> IF k = h THEN tn_ticks[h]
                                 ELSE IF k \in Listed THEN Left[k] - Left[h] ELSE 0]
    BY <1>8, <1>10, <1>11, <2>2
  <2>4. \A k \in Timer : k \notin Listed => tn_ticks_left'[k] = tn_ticks_left[k]
    BY <1>5, <1>6, <2>1
  <2> QED BY <1>1, <1>3, <1>5, <1>6, <1>7, <1>8, <1>9, <1>10, <1>11, <2>1, <2>2, <2>3, <2>4 DEF rest
<1>12. CASE tn_ticks[h] # 0
  <2>1. /\ nutTimerList' = InsertList(rest, elapsed, h, tn_ticks[h])
        /\ tn_ticks_left' = InsertLeft(rest, elapsed, h, tn_ticks[h])
    BY <1>6, <1>7, <1>12 DEF Reload, rest
  <2>2. h \notin ToSet(rest)
    BY <1>8
  <2>3. Inserted(rest, elapsed, h, tn_ticks[h], nutTimerList', tn_ticks_left')
    BY <1>3, <1>8, <2>1, <2>2, InsertTicks
  <2>4. Left' = [k \in Timer |-> IF k = h THEN tn_ticks[h]
                                 ELSE IF k \in Listed THEN Left[k] - Left[h] ELSE 0]
    <3>1. Left' = [LeftOf(rest, elapsed) EXCEPT ![h] = tn_ticks[h]]
      BY <2>3 DEF Left, Inserted
    <3> QED BY <1>8, <1>10, <3>1
  <2>5. Listed' = Listed
    BY <1>5, <1>8, <2>3 DEF Listed, Inserted
  <2>6. \A k \in Timer : k \notin Listed => tn_ticks_left'[k] = tn_ticks_left[k]
    BY <1>5, <1>6, <1>8, <2>3 DEF Inserted
  <2>7. TickList(nutTimerList', tn_ticks_left')
    BY <2>3 DEF Inserted
  <2> QED BY <1>1, <1>3, <1>5, <1>7, <1>9, <1>10, <1>12, <2>4, <2>5, <2>6, <2>7
<1> QED BY <1>11, <1>12

-----------------------------------------------------------------------------
(* The inductive invariant, one lemma per action.                           *)
LEMMA InitTimerInv == ASSUME Init PROVE TimerInv
<1>1. nutTimerList = <<>> /\ Listed = {} /\ Armed = {} /\ nutTimerList \in Seq(Timer)
      /\ NoDup(nutTimerList)
  BY EmptyFacts DEF Init, Listed, Armed
<1>2. Pend = 0
  <2>1. 0 \in 0..(Word - 1) /\ 0 - 0 = 0 /\ nut_ticks = 0 /\ nut_ticks_resume = 0
    BY DEF Init
  <2> QED BY <2>1, ModWord DEF Pend
<1>3. TypeOK
  BY <1>1 DEF Init, TypeOK
<1>4. DueKept
  BY <1>1 DEF DueKept
<1> QED BY <1>1, <1>2, <1>3, <1>4 DEF TimerInv, Init

LEMMA StartInv ==
    ASSUME TimerInv, TimesFit, NEW h \in Timer, NEW ms \in Ms, NEW callback \in Callback,
           NEW flags \in Flags, NutTimerStart(h, ms, callback, flags)
    PROVE  TimerInv'
<1> DEFINE n == NutTimerMillisToTicks(ms)
<1>1. n \in Nat /\ n = (ms * TickClock) \div Second /\ n + MaxPend < Word
  BY MillisFacts
<1>2. /\ pc = "app" /\ pc' = "app" /\ h \notin Listed
      /\ tn_ticks' = [tn_ticks EXCEPT ![h] = IF flags = "TM_ONESHOT" THEN 0 ELSE n]
      /\ tn_callback' = [tn_callback EXCEPT ![h] = callback]
      /\ due' = [due EXCEPT ![h] = n]
      /\ nut_ticks' = nut_ticks /\ nut_ticks_resume' = nut_ticks_resume /\ ticks_new' = ticks_new
  BY <1>1 DEF NutTimerStart, Arm, clock
<1> HIDE DEF n
<1>3. /\ Inserted(nutTimerList, tn_ticks_left, h, n + Pend, nutTimerList', tn_ticks_left')
      /\ n + Pend \in 0..(Word - 1) /\ Pend' = Pend
  BY StartTicks DEF n
<1>4. /\ TickList(nutTimerList', tn_ticks_left') /\ Listed' = Listed \cup {h}
      /\ \A k \in Timer : k \notin Listed' => tn_ticks_left'[k] = tn_ticks_left[k]
      /\ Left' = [Left EXCEPT ![h] = n + Pend]
  BY <1>3 DEF Inserted, Listed, Left
<1>5. Left \in [Timer -> Int] /\ Listed \subseteq Timer
  BY ListTyped
<1>6. Left'[h] = n + Pend /\ \A k \in Timer : k # h => Left'[k] = Left[k]
  BY <1>4, <1>5
<1>7. TypeOK /\ DueKept /\ Pend <= MaxPend /\ ticks_new = 0 /\ Pend \in Nat
      /\ \A k \in Listed : Left[k] < Word
  BY <1>2, PendFacts DEF TimerInv
<1>8. \A k \in Listed' : Left'[k] < Word
  BY <1>3, <1>4, <1>5, <1>6, <1>7
<1>9. tn_ticks_left' \in [Timer -> 0..(Word - 1)]
  <2>1. \A k \in Timer : k \notin Listed' => tn_ticks_left'[k] < Word
    BY <1>4, <1>7 DEF TypeOK
  <2> QED BY <1>4, <1>8, <2>1, DeltasTyped DEF TickList, Listed, Left
<1>10. TypeOK'
  <2>1. n \in 0..(Word - 1) /\ n \in Int
    BY <1>1
  <2>2. tn_ticks' \in [Timer -> 0..(Word - 1)] /\ due' \in [Timer -> Int]
        /\ tn_callback' \in [Timer -> Callback \cup {"none"}]
    BY <1>2, <1>7, <2>1 DEF TypeOK
  <2> QED BY <1>2, <1>4, <1>7, <1>9, <2>2 DEF TypeOK, TickList
<1>11. DueKept'
  <2> SUFFICES ASSUME NEW k \in Armed'
               PROVE  due'[k] = Left'[k] - ticks_new' - Pend'
    BY DEF DueKept
  <2>1. k \in Timer /\ k \in Listed' /\ tn_callback'[k] # "none"
    BY <1>4, <1>5 DEF Armed
  <2>2. CASE k = h
    BY <1>1, <1>2, <1>3, <1>6, <1>7, <2>1, <2>2 DEF TypeOK
  <2>3. CASE k # h
    <3>1. k \in Armed
      BY <1>2, <1>4, <1>7, <2>1, <2>3 DEF Armed, TypeOK
    <3> QED BY <1>2, <1>3, <1>6, <1>7, <2>1, <2>3, <3>1 DEF DueKept, TypeOK
  <2> QED BY <2>2, <2>3
<1>12. /\ \A k \in Timer : k \in Listed' \/ tn_callback'[k] = "none"
       /\ \A k \in Timer : tn_callback'[k] = "none" => tn_ticks'[k] = 0
  <2>1. callback # "none"
    OBVIOUS
  <2>2. ASSUME NEW k \in Timer
        PROVE  /\ k \in Listed' \/ tn_callback'[k] = "none"
               /\ tn_callback'[k] = "none" => tn_ticks'[k] = 0
    <3>1. CASE k = h
      BY <1>2, <1>4, <1>7, <2>1, <3>1 DEF TypeOK
    <3>2. CASE k # h
      BY <1>2, <1>4, <1>7, <3>2 DEF TypeOK, TimerInv
    <3> QED BY <3>1, <3>2
  <2> QED BY <2>2
<1>13. Pend' <= MaxPend /\ (pc' = "app" => ticks_new' = 0)
  BY <1>2, <1>3, <1>7
<1> QED BY <1>8, <1>10, <1>11, <1>12, <1>13 DEF TimerInv

LEMMA StopInv ==
    ASSUME TimerInv, NEW h \in Timer, NutTimerStop(h)
    PROVE  TimerInv'
<1>1. /\ h \in Listed /\ Listed' = Listed
      /\ TickList(nutTimerList', tn_ticks_left') /\ Pend' = Pend
      /\ \A k \in Timer : k \notin Listed => tn_ticks_left'[k] = tn_ticks_left[k]
      /\ Left' = Left \/ Left' = [Left EXCEPT ![h] = 0]
  BY StopTicks
<1>2. /\ pc = "app" /\ pc' = "app"
      /\ tn_ticks' = [tn_ticks EXCEPT ![h] = 0]
      /\ tn_callback' = [tn_callback EXCEPT ![h] = "none"]
      /\ due' = [due EXCEPT ![h] = 0]
      /\ nut_ticks' = nut_ticks /\ nut_ticks_resume' = nut_ticks_resume /\ ticks_new' = ticks_new
  BY DEF NutTimerStop, clock
<1>3. Left \in [Timer -> Int] /\ Listed \subseteq Timer
  BY ListTyped
<1>4. TypeOK /\ DueKept /\ Pend <= MaxPend /\ ticks_new = 0
      /\ \A k \in Listed : Left[k] < Word
  BY <1>2 DEF TimerInv
<1>5. (\A k \in Timer : k # h => Left'[k] = Left[k]) /\ \A k \in Listed' : Left'[k] < Word
  BY <1>1, <1>3, <1>4
<1>6. TypeOK'
  <2>1. tn_ticks_left' \in [Timer -> 0..(Word - 1)]
    <3>1. \A k \in Timer : k \notin Listed' => tn_ticks_left'[k] < Word
      BY <1>1, <1>4 DEF TypeOK
    <3> QED BY <1>1, <1>5, <3>1, DeltasTyped DEF TickList, Listed, Left
  <2>2. tn_ticks' \in [Timer -> 0..(Word - 1)] /\ due' \in [Timer -> Int]
        /\ tn_callback' \in [Timer -> Callback \cup {"none"}]
    BY <1>2, <1>4 DEF TypeOK
  <2> QED BY <1>1, <1>2, <1>4, <2>1, <2>2 DEF TypeOK, TickList
<1>7. DueKept'
  <2> SUFFICES ASSUME NEW k \in Armed'
               PROVE  due'[k] = Left'[k] - ticks_new' - Pend'
    BY DEF DueKept
  <2>1. k \in Timer /\ k # h /\ k \in Armed
    BY <1>1, <1>2, <1>3, <1>4 DEF Armed, TypeOK
  <2> QED BY <1>1, <1>2, <1>4, <1>5, <2>1 DEF DueKept, TypeOK
<1>8. /\ \A k \in Timer : k \in Listed' \/ tn_callback'[k] = "none"
      /\ \A k \in Timer : tn_callback'[k] = "none" => tn_ticks'[k] = 0
  BY <1>1, <1>2, <1>4 DEF TypeOK, TimerInv
<1> QED BY <1>1, <1>2, <1>4, <1>5, <1>6, <1>7, <1>8 DEF TimerInv

LEMMA IntrInv ==
    ASSUME TimerInv, NutTimerIntr
    PROVE  TimerInv' /\ Pend' = Pend + 1
<1>1. /\ Pend < MaxPend /\ nut_ticks' = (nut_ticks + 1) % Word
      /\ nut_ticks_resume' = nut_ticks_resume /\ nutTimerList' = nutTimerList
      /\ tn_ticks' = tn_ticks /\ tn_ticks_left' = tn_ticks_left /\ tn_callback' = tn_callback
      /\ pc' = pc /\ ticks_new' = ticks_new
      /\ due' = [h \in Timer |-> IF h \in Armed THEN due[h] - 1 ELSE 0]
  BY DEF NutTimerIntr, list
<1>2. TypeOK /\ DueKept /\ ticks_new \in Nat /\ due \in [Timer -> Int]
  BY DEF TimerInv, TypeOK
<1>3. Listed' = Listed /\ Armed' = Armed /\ Left' = Left
  BY <1>1 DEF Listed, Armed, Left
<1>4. nut_ticks' \in 0..(Word - 1)
      /\ (nut_ticks' = nut_ticks + 1 \/ nut_ticks' = nut_ticks + 1 - Word)
  <2>1. nut_ticks \in 0..(Word - 1)
    BY <1>2 DEF TypeOK
  <2>2. CASE nut_ticks + 1 = Word
    <3>1. (0 + Word) % Word = 0
      OBVIOUS
    <3> QED BY <1>1, <2>1, <2>2, <3>1
  <2>3. CASE nut_ticks + 1 # Word
    <3>1. nut_ticks + 1 \in 0..(Word - 1)
      BY <2>1, <2>3
    <3> QED BY <1>1, <3>1, ModWord
  <2> QED BY <2>2, <2>3
<1>5. TypeOK'
  BY <1>1, <1>2, <1>4 DEF TypeOK
<1>6. Pend' = Pend + 1
  <2>1. Pend \in 0..(Word - 1) /\ Pend + 1 \in 0..(Word - 1)
        /\ (Pend = nut_ticks - nut_ticks_resume \/ Pend = nut_ticks - nut_ticks_resume + Word)
    BY <1>1, <1>2, PendFacts
  <2>2. nut_ticks \in Int /\ nut_ticks' \in Int /\ nut_ticks_resume \in 0..(Word - 1)
        /\ nut_ticks \in 0..(Word - 1)
    BY <1>1, <1>2, <1>4 DEF TypeOK
  <2>3. \/ nut_ticks' - nut_ticks_resume' = Pend + 1
        \/ nut_ticks' - nut_ticks_resume' = Pend + 1 - Word
        \/ nut_ticks' - nut_ticks_resume' = Pend + 1 - Word - Word
    BY <1>1, <1>4, <2>1, <2>2
  <2>4. nut_ticks' - nut_ticks_resume' # Pend + 1 - Word - Word
    BY <1>1, <1>4, <2>1, <2>2
  <2>5. Pend' = (nut_ticks' - nut_ticks_resume') % Word
    BY DEF Pend
  <2> QED BY <2>1, <2>3, <2>4, <2>5, ModWord
<1>7. DueKept'
  <2> SUFFICES ASSUME NEW h \in Armed PROVE due'[h] = Left'[h] - ticks_new' - Pend'
    BY <1>3 DEF DueKept
  <2>1. h \in Timer /\ Left[h] \in Int /\ Pend \in Int /\ due[h] = Left[h] - ticks_new - Pend
    BY <1>2, ListTyped, PendFacts DEF Armed, DueKept
  <2>2. due'[h] = due[h] - 1
    BY <1>1, <2>1
  <2> QED BY <1>1, <1>2, <1>3, <1>6, <2>1, <2>2
<1>8. Pend' <= MaxPend
  BY <1>1, <1>2, <1>6, PendFacts
<1> QED BY <1>1, <1>3, <1>5, <1>6, <1>7, <1>8 DEF TimerInv

LEMMA PassStartInv ==
    ASSUME TimerInv, PassStart
    PROVE  TimerInv' /\ Pend' = 0
<1>1. /\ pc = "app" /\ ticks_new' = Pend /\ nut_ticks_resume' = nut_ticks /\ pc' = "pass"
      /\ nut_ticks' = nut_ticks /\ nutTimerList' = nutTimerList
      /\ tn_ticks' = tn_ticks /\ tn_ticks_left' = tn_ticks_left /\ tn_callback' = tn_callback
      /\ due' = due
  BY DEF PassStart, list
<1>2. TypeOK /\ DueKept /\ ticks_new = 0 /\ Pend \in 0..MaxPend /\ Pend \in Int
  BY <1>1, PendFacts DEF TimerInv
<1>3. Listed' = Listed /\ Armed' = Armed /\ Left' = Left
  BY <1>1 DEF Listed, Armed, Left
<1>4. Pend' = 0
  <2>1. nut_ticks - nut_ticks = 0 /\ 0 \in 0..(Word - 1)
    BY <1>2 DEF TypeOK
  <2>2. Pend' = (nut_ticks - nut_ticks) % Word
    BY <1>1 DEF Pend
  <2> QED BY <2>1, <2>2, ModWord
<1>5. TypeOK'
  BY <1>1, <1>2 DEF TypeOK
<1>6. DueKept'
  <2> SUFFICES ASSUME NEW h \in Armed PROVE due'[h] = Left'[h] - ticks_new' - Pend'
    BY <1>3 DEF DueKept
  <2>1. Left[h] \in Int /\ due[h] = Left[h] - ticks_new - Pend
    BY <1>2, ListTyped DEF Armed, DueKept
  <2> QED BY <1>1, <1>2, <1>3, <1>4, <2>1
<1> QED BY <1>1, <1>2, <1>3, <1>4, <1>5, <1>6 DEF TimerInv

LEMMA CountDownInv ==
    ASSUME TimerInv, CountDown
    PROVE  TimerInv'
<1>1. /\ CountedDown(nutTimerList, tn_ticks_left, ticks_new, tn_ticks_left')
      /\ \A k \in Timer : k \notin Listed => tn_ticks_left'[k] = tn_ticks_left[k]
      /\ Pend' = Pend /\ nutTimerList' = nutTimerList /\ Listed' = Listed
      /\ ticks_new \in Nat /\ ticks_new' = 0
      /\ \A h \in Listed : ticks_new < Left[h]
  BY CountDownStep
<1>2. /\ pc' = pc /\ due' = due /\ tn_ticks' = tn_ticks /\ tn_callback' = tn_callback
      /\ nut_ticks' = nut_ticks /\ nut_ticks_resume' = nut_ticks_resume /\ Armed' = Armed
  BY <1>1 DEF CountDown, clock, Armed
<1>3. Left \in [Timer -> Int] /\ Listed \subseteq Timer
  BY ListTyped
<1>4. TypeOK /\ DueKept /\ Pend <= MaxPend /\ \A k \in Listed : Left[k] < Word
  BY DEF TimerInv
<1>5. \A k \in Listed : Left'[k] = Left[k] - ticks_new
  BY <1>1, <1>3 DEF CountedDown, Left, Listed
<1>6. \A k \in Listed' : Left'[k] < Word
  BY <1>1, <1>3, <1>4, <1>5
<1>7. TypeOK'
  <2>1. tn_ticks_left' \in [Timer -> 0..(Word - 1)]
    <3>1. \A k \in Timer : k \notin Listed' => tn_ticks_left'[k] < Word
      BY <1>1, <1>4 DEF TypeOK
    <3>2. TickList(nutTimerList', tn_ticks_left')
      BY <1>1 DEF CountedDown
    <3> QED BY <1>6, <3>1, <3>2, DeltasTyped DEF TickList, Listed, Left
  <2> QED BY <1>1, <1>2, <1>4, <2>1 DEF TypeOK
<1>8. DueKept'
  <2> SUFFICES ASSUME NEW k \in Armed
               PROVE  due'[k] = Left'[k] - ticks_new' - Pend'
    BY <1>2 DEF DueKept
  <2>1. k \in Listed /\ Left[k] \in Int /\ Pend \in Int
    BY <1>3, <1>4, PendFacts DEF Armed
  <2> QED BY <1>1, <1>2, <1>4, <1>5, <2>1 DEF DueKept
<1> QED BY <1>1, <1>2, <1>4, <1>6, <1>7, <1>8 DEF TimerInv

LEMMA ElapsedInv ==
    ASSUME TimerInv, NoRestarts, NEW h \in Timer, Elapsed(h)
    PROVE  TimerInv'
<1>1. /\ h \in Listed
      /\ TickList(nutTimerList', tn_ticks_left')
      /\ \A k \in Timer : k \notin Listed => tn_ticks_left'[k] = tn_ticks_left[k]
      /\ tn_ticks[h] = 0 => Listed' = Listed \ {h} /\ tn_ticks_left'[h] = 0
      /\ tn_ticks[h] # 0 => Listed' = Listed
      /\ Left' = [k \in Timer |-> IF k = h THEN tn_ticks[h]
                                  ELSE IF k \in Listed THEN Left[k] - Left[h] ELSE 0]
      /\ Left[h] \in Nat /\ Left[h] <= ticks_new /\ ticks_new' = ticks_new - Left[h]
      /\ ticks_new \in Nat
      /\ \A k \in Listed : Left[h] <= Left[k]
      /\ Reload(h) /\ Pend' = Pend
  BY ReloadStep
<1>2. /\ pc' = pc /\ tn_ticks' = tn_ticks /\ pc = "pass"
      /\ nut_ticks' = nut_ticks /\ nut_ticks_resume' = nut_ticks_resume
  BY <1>1 DEF Elapsed, InPass, clock, Reload
<1>3. /\ due' = [due EXCEPT ![h] = IF tn_ticks[h] = 0 THEN 0 ELSE @ + tn_ticks[h]]
      /\ tn_ticks[h] = 0 => tn_callback' = [tn_callback EXCEPT ![h] = "none"]
      /\ tn_ticks[h] # 0 => tn_callback' = tn_callback
  BY <1>1 DEF Reload
<1>4. Left \in [Timer -> Int] /\ Listed \subseteq Timer /\ \A k \in Listed : Left[k] \in Nat
  BY ListTyped
<1>5. TypeOK /\ DueKept /\ Pend <= MaxPend /\ \A k \in Listed : Left[k] < Word
  BY DEF TimerInv
<1>6. Left'[h] = tn_ticks[h] /\ tn_ticks[h] \in 0..(Word - 1)
      /\ \A k \in Listed : k # h => Left'[k] = Left[k] - Left[h]
  BY <1>1, <1>4, <1>5 DEF TypeOK
<1>7. Listed' \subseteq Listed /\ \A k \in Listed' : Left'[k] < Word
  <2>1. Listed' \subseteq Listed
    BY <1>1
  <2> QED BY <1>1, <1>4, <1>5, <1>6, <2>1
<1>8. TypeOK'
  <2>1. tn_ticks_left' \in [Timer -> 0..(Word - 1)]
    <3>0. 0 < Word
      OBVIOUS
    <3>1. ASSUME NEW k \in Timer, k \notin Listed' PROVE tn_ticks_left'[k] < Word
      <4>1. CASE k \in Listed
        <5>1. k = h /\ tn_ticks_left'[h] = 0
          BY <1>1, <3>1, <4>1
        <5> QED BY <3>0, <5>1
      <4>2. CASE k \notin Listed
        BY <1>1, <1>5, <4>2 DEF TypeOK
      <4> QED BY <4>1, <4>2
    <3> QED BY <1>1, <1>7, <3>1, DeltasTyped DEF TickList, Listed, Left
  <2>2. tn_callback' \in [Timer -> Callback \cup {"none"}]
    BY <1>3, <1>5 DEF TypeOK
  <2>3. due' \in [Timer -> Int]
    <3>1. due[h] + tn_ticks[h] \in Int
      BY <1>5, <1>6 DEF TypeOK
    <3> QED BY <1>3, <1>5, <3>1 DEF TypeOK
  <2>4. ticks_new' \in 0..MaxPend
    BY <1>1, <1>5 DEF TypeOK
  <2> QED BY <1>1, <1>2, <1>5, <2>1, <2>2, <2>3, <2>4 DEF TypeOK, TickList
<1>9. DueKept'
  <2> SUFFICES ASSUME NEW k \in Armed'
               PROVE  due'[k] = Left'[k] - ticks_new' - Pend'
    BY DEF DueKept
  <2>1. k \in Listed /\ k \in Timer /\ Left[k] \in Int /\ Pend \in Int
        /\ due \in [Timer -> Int] /\ k \in Listed' /\ tn_callback'[k] # "none"
    BY <1>4, <1>5, <1>7, PendFacts DEF Armed, TypeOK
  <2>2. CASE tn_ticks[h] = 0
    <3>1. k # h /\ k \in Armed
      BY <1>1, <1>3, <1>5, <2>1, <2>2 DEF Armed, TypeOK
    <3>2. due'[k] = due[k]
      BY <1>3, <2>1, <3>1
    <3> QED BY <1>1, <1>5, <1>6, <2>1, <3>1, <3>2 DEF DueKept
  <2>3. CASE tn_ticks[h] # 0
    <3>1. k \in Armed
      BY <1>3, <2>1, <2>3 DEF Armed
    <3>2. due[k] = Left[k] - ticks_new - Pend
      BY <1>5, <3>1 DEF DueKept
    <3>3. CASE k = h
      BY <1>1, <1>3, <1>6, <2>1, <2>3, <3>2, <3>3
    <3>4. CASE k # h
      BY <1>1, <1>3, <1>6, <2>1, <3>2, <3>4
    <3> QED BY <3>3, <3>4
  <2> QED BY <2>2, <2>3
<1>10. \A k \in Timer : k \in Listed' \/ tn_callback'[k] = "none"
  <2> SUFFICES ASSUME NEW k \in Timer PROVE k \in Listed' \/ tn_callback'[k] = "none"
    OBVIOUS
  <2>1. k \in Listed \/ tn_callback[k] = "none"
    BY DEF TimerInv
  <2>2. CASE tn_ticks[h] = 0
    BY <1>1, <1>3, <1>5, <2>1, <2>2 DEF TypeOK
  <2>3. CASE tn_ticks[h] # 0
    BY <1>1, <1>3, <2>1, <2>3
  <2> QED BY <2>2, <2>3
<1>11. \A k \in Timer : tn_callback'[k] = "none" => tn_ticks'[k] = 0
  <2> SUFFICES ASSUME NEW k \in Timer, tn_callback'[k] = "none" PROVE tn_ticks[k] = 0
    BY <1>2
  <2>1. tn_callback[k] = "none" => tn_ticks[k] = 0
    BY DEF TimerInv
  <2>2. CASE tn_ticks[h] = 0
    BY <1>3, <1>5, <2>1, <2>2 DEF TypeOK
  <2>3. CASE tn_ticks[h] # 0
    BY <1>3, <2>1, <2>3
  <2> QED BY <2>2, <2>3
<1> QED BY <1>1, <1>2, <1>5, <1>7, <1>8, <1>9, <1>10, <1>11 DEF TimerInv

LEMMA PassDoneInv ==
    ASSUME TimerInv, PassDone
    PROVE  /\ TimerInv' /\ Pend' = Pend /\ ticks_new' = 0
           /\ nutTimerList = <<>> \/ ticks_new = 0
<1>1. /\ nutTimerList = <<>> \/ ticks_new = 0
      /\ ticks_new' = 0 /\ pc' = "app" /\ due' = due
      /\ nut_ticks' = nut_ticks /\ nut_ticks_resume' = nut_ticks_resume
      /\ nutTimerList' = nutTimerList /\ tn_ticks' = tn_ticks
      /\ tn_ticks_left' = tn_ticks_left /\ tn_callback' = tn_callback
  BY DEF PassDone, clock, list
<1>2. Listed' = Listed /\ Armed' = Armed /\ Left' = Left /\ Pend' = Pend
  BY <1>1 DEF Listed, Armed, Left, Pend
<1>3. TypeOK' /\ Pend \in Nat
  BY <1>1, PendFacts DEF TimerInv, TypeOK
<1>4. DueKept'
  <2>1. CASE ticks_new = 0
    BY <1>1, <1>2, <2>1 DEF TimerInv, DueKept
  <2>2. CASE nutTimerList = <<>>
    BY <1>2, <2>2, EmptyFacts DEF DueKept, Armed, Listed
  <2> QED BY <1>1, <2>1, <2>2
<1> QED BY <1>1, <1>2, <1>3, <1>4 DEF TimerInv

LEMMA StepTimerInv ==
    ASSUME TimerInv, TimesFit, NoRestarts, [Next]_vars
    PROVE  TimerInv'
<1>1. CASE NutTimerIntr
  BY <1>1, IntrInv
<1>2. CASE PassStart
  BY <1>2, PassStartInv
<1>3. CASE CountDown
  BY <1>3, CountDownInv
<1>4. CASE PassDone
  BY <1>4, PassDoneInv
<1>5. CASE \E h \in Timer : Elapsed(h)
  BY <1>5, ElapsedInv
<1>6. CASE \E h \in Timer : NutTimerStop(h)
  BY <1>6, StopInv
<1>7. CASE \E h \in Timer, ms \in Ms, callback \in Callback, flags \in Flags :
              NutTimerStart(h, ms, callback, flags)
  BY <1>7, StartInv
<1>8. CASE UNCHANGED vars
  <2>1. Pend' = Pend /\ Listed' = Listed /\ Armed' = Armed /\ Left' = Left
    BY <1>8 DEF vars, clock, list, Pend, Listed, Armed, Left
  <2> QED BY <1>8, <2>1 DEF TimerInv, TypeOK, DueKept, vars, clock, list
<1> QED BY <1>1, <1>2, <1>3, <1>4, <1>5, <1>6, <1>7, <1>8 DEF Next, Kernel

(* The list is sorted, its deltas are ticks that fit in a word, and every   *)
(* timer that is stopped or free has no period: what NutTimerInsert(),      *)
(* NutTimerStop() and NutTimerProcessElapsed() rely on.                     *)
THEOREM TimerInvariant ==
    ASSUME TimesFit, NoRestarts
    PROVE  Spec => []TimerInv
<1>1. Init => TimerInv
  BY InitTimerInv
<1>2. TimerInv /\ [Next]_vars => TimerInv'
  BY StepTimerInv
<1> QED BY <1>1, <1>2, PTL DEF Spec

(* Timers that come and go, a pass that is late and the wrap-around of      *)
(* nut_ticks neither lose nor win a tick of any armed timer.                *)
THEOREM DueIsKept ==
    ASSUME TimesFit, NoRestarts
    PROVE  Spec => []DueKept
<1>1. TimerInv => DueKept
  BY DEF TimerInv
<1> QED BY <1>1, TimerInvariant, PTL

(* NutTimerProcessElapsed() runs no callback before the milliseconds its    *)
(* timer was started with are over.                                         *)
THEOREM CallbacksNotEarly ==
    ASSUME TimesFit, NoRestarts
    PROVE  Spec => NeverEarly
<1>1. ASSUME TimerInv, NEW h \in Armed, Elapsed(h)
      PROVE  due[h] <= 0
  <2>1. h \in Timer /\ due[h] = Left[h] - ticks_new - Pend
    BY <1>1, ListTyped DEF TimerInv, DueKept, Armed
  <2>2. Left[h] \in Nat /\ Left[h] <= ticks_new /\ ticks_new \in Nat
    BY <1>1, <2>1, ReloadStep
  <2>3. Pend \in Nat
    BY <1>1, PendFacts DEF TimerInv
  <2> QED BY <2>1, <2>2, <2>3
<1>2. TimerInv /\ [Next]_vars => [\A h \in Armed : Elapsed(h) => due[h] <= 0]_vars
  BY <1>1
<1> QED BY <1>2, TimerInvariant, PTL DEF Spec, NeverEarly

-----------------------------------------------------------------------------
(* The timers of NutTimers that the delta list stands for.                  *)
Due    == [h \in Timer |-> IF h \in Armed THEN Left[h] - ticks_new - Pend ELSE 0]
Period == [h \in Timer |-> IF h \in Armed THEN tn_ticks[h] ELSE 0]

(* A step of the pass over the list is none of the timers'.                 *)
LEMMA SameTimers ==
    ASSUME TimerInv, Armed' = Armed, tn_ticks' = tn_ticks,
           \A h \in Armed : Left'[h] - ticks_new' - Pend' = Left[h] - ticks_new - Pend
    PROVE  UNCHANGED Timers!vars
<1>1. Due' = Due
  BY DEF Due
<1>2. Period' = Period
  BY DEF Period
<1> QED BY <1>1, <1>2 DEF Timers!vars, Due, Period

LEMMA TimersStart ==
    ASSUME TimerInv, TimesFit, NEW h \in Timer, NEW ms \in Ms, NEW callback \in Callback,
           NEW flags \in Flags, NutTimerStart(h, ms, callback, flags)
    PROVE  Timers!Start(h)
<1> DEFINE n == NutTimerMillisToTicks(ms)
<1>1. n \in Nat
  BY MillisFacts
<1>2. /\ h \notin Listed /\ ticks_new = 0 /\ ticks_new' = 0
      /\ tn_ticks' = [tn_ticks EXCEPT ![h] = IF flags = "TM_ONESHOT" THEN 0 ELSE n]
      /\ tn_callback' = [tn_callback EXCEPT ![h] = callback]
  BY DEF NutTimerStart, Arm, TimerInv
<1>3. /\ Inserted(nutTimerList, tn_ticks_left, h, n + Pend, nutTimerList', tn_ticks_left')
      /\ Pend' = Pend
  BY StartTicks
<1> HIDE DEF n
<1>4. Listed' = Listed \cup {h} /\ Left' = [Left EXCEPT ![h] = n + Pend]
  BY <1>3 DEF Inserted, Listed, Left
<1>5. Left \in [Timer -> Int] /\ Listed \subseteq Timer /\ Pend \in Nat
      /\ tn_callback \in [Timer -> Callback \cup {"none"}] /\ tn_ticks \in [Timer -> 0..(Word - 1)]
  BY ListTyped, PendFacts DEF TimerInv, TypeOK
<1>6. Armed' = Armed \cup {h} /\ h \notin Armed
  <2>1. callback # "none"
    OBVIOUS
  <2> QED BY <1>2, <1>4, <1>5, <2>1 DEF Armed
<1>7. Due' = [Due EXCEPT ![h] = n] /\ Due'[h] = n
  <2>1. Due'[h] = n
    BY <1>1, <1>2, <1>3, <1>4, <1>5, <1>6 DEF Due
  <2>2. \A k \in Timer : k # h => Due'[k] = Due[k]
    BY <1>2, <1>3, <1>4, <1>5, <1>6 DEF Due
  <2>3. Due' = [k \in Timer |-> Due'[k]] /\ Due = [k \in Timer |-> Due[k]]
    BY DEF Due
  <2> QED BY <2>1, <2>2, <2>3
<1>8. Period' = [Period EXCEPT ![h] = Period'[h]] /\ Period'[h] >= 0
  <2>1. Period'[h] = tn_ticks'[h] /\ tn_ticks'[h] >= 0
    BY <1>1, <1>2, <1>5, <1>6 DEF Period
  <2>2. \A k \in Timer : k # h => Period'[k] = Period[k]
    BY <1>2, <1>5, <1>6 DEF Period
  <2>3. Period' = [k \in Timer |-> Period'[k]] /\ Period = [k \in Timer |-> Period[k]]
    BY DEF Period
  <2> QED BY <2>1, <2>2, <2>3
<1>9. Due'[h] >= 0 /\ Due' = [Due EXCEPT ![h] = Due'[h]]
  <2>1. Due' = [Due EXCEPT ![h] = n] /\ Due'[h] = n
    BY <1>7
  <2> HIDE DEF n
  <2>2. Due' = [Due EXCEPT ![h] = Due'[h]]
    BY ONLY <2>1
  <2> QED BY <1>1, <2>1, <2>2
<1> QED BY <1>6, <1>8, <1>9 DEF Timers!Start, Due, Period

(* A timer is no longer armed, the others are as they were.                 *)
LEMMA TimersOff ==
    ASSUME TimerInv, NEW h \in Timer, Armed' = Armed \ {h},
           \A k \in Armed' : /\ tn_ticks'[k] = tn_ticks[k]
                             /\ Left'[k] - ticks_new' - Pend' = Left[k] - ticks_new - Pend
    PROVE  Timers!Off(h) /\ (h \notin Armed => UNCHANGED Timers!vars)
<1>1. Due' = [Due EXCEPT ![h] = 0]
  BY DEF Due
<1>2. Period' = [Period EXCEPT ![h] = 0]
  BY DEF Period
<1>3. ASSUME h \notin Armed PROVE Due' = Due /\ Period' = Period /\ Armed' = Armed
  BY <1>3 DEF Due, Period
<1>4. Timers!Off(h)
  BY <1>1, <1>2 DEF Timers!Off, Due, Period
<1> QED BY <1>3, <1>4 DEF Timers!vars, Due, Period

LEMMA TimersStop ==
    ASSUME TimerInv, NEW h \in Timer, NutTimerStop(h)
    PROVE  Timers!Stop(h)
<1>1. /\ h \in Listed /\ Listed' = Listed /\ Pend' = Pend
      /\ Left' = Left \/ Left' = [Left EXCEPT ![h] = 0]
  BY StopTicks
<1>2. /\ h \in Armed
      /\ tn_ticks' = [tn_ticks EXCEPT ![h] = 0]
      /\ tn_callback' = [tn_callback EXCEPT ![h] = "none"] /\ ticks_new' = ticks_new
  BY DEF NutTimerStop
<1>3. /\ Left \in [Timer -> Int] /\ Listed \subseteq Timer /\ tn_ticks \in [Timer -> 0..(Word - 1)]
      /\ tn_callback \in [Timer -> Callback \cup {"none"}]
  BY ListTyped DEF TimerInv, TypeOK
<1>4. Armed' = Armed \ {h}
  BY <1>1, <1>2, <1>3 DEF Armed
<1>5. \A k \in Armed' : /\ tn_ticks'[k] = tn_ticks[k]
                         /\ Left'[k] - ticks_new' - Pend' = Left[k] - ticks_new - Pend
  BY <1>1, <1>2, <1>3, <1>4 DEF Armed
<1> QED BY <1>2, <1>4, <1>5, TimersOff DEF Timers!Stop

LEMMA TimersTick ==
    ASSUME TimerInv, NutTimerIntr
    PROVE  Timers!Tick
<1>1. Pend' = Pend + 1
  BY IntrInv
<1>2. /\ nutTimerList' = nutTimerList /\ tn_ticks' = tn_ticks
      /\ tn_ticks_left' = tn_ticks_left /\ tn_callback' = tn_callback /\ ticks_new' = ticks_new
  BY DEF NutTimerIntr, list
<1>3. Armed' = Armed /\ Left' = Left
  BY <1>2 DEF Listed, Armed, Left
<1>4. Left \in [Timer -> Int] /\ Pend \in Int /\ ticks_new \in Int
  BY ListTyped, PendFacts DEF TimerInv, TypeOK
<1>5. Due' = [h \in Timer |-> IF h \in Armed THEN Due[h] - 1 ELSE 0]
  <2>1. \A h \in Timer : Due'[h] = IF h \in Armed THEN Due[h] - 1 ELSE 0
    BY <1>1, <1>2, <1>3, <1>4 DEF Due
  <2>2. Due' = [h \in Timer |-> Due'[h]]
    BY DEF Due
  <2> QED BY <2>1, <2>2
<1>6. Period' = Period
  BY <1>2, <1>3 DEF Period
<1> QED BY <1>3, <1>5, <1>6 DEF Timers!Tick, Due, Period

LEMMA TimersElapsed ==
    ASSUME TimerInv, NoRestarts, NEW h \in Timer, Elapsed(h)
    PROVE  IF h \in Armed THEN Timers!Fire(h) ELSE UNCHANGED Timers!vars
<1>1. /\ h \in Listed
      /\ tn_ticks[h] = 0 => Listed' = Listed \ {h}
      /\ tn_ticks[h] # 0 => Listed' = Listed
      /\ Left' = [k \in Timer |-> IF k = h THEN tn_ticks[h]
                                  ELSE IF k \in Listed THEN Left[k] - Left[h] ELSE 0]
      /\ Left[h] \in Nat /\ Left[h] <= ticks_new /\ ticks_new' = ticks_new - Left[h]
      /\ ticks_new \in Nat
      /\ \A k \in Listed : Left[h] <= Left[k]
      /\ Reload(h) /\ Pend' = Pend
  BY ReloadStep
<1>2. /\ tn_ticks' = tn_ticks
      /\ tn_ticks[h] = 0 => tn_callback' = [tn_callback EXCEPT ![h] = "none"]
      /\ tn_ticks[h] # 0 => tn_callback' = tn_callback
  BY <1>1 DEF Reload
<1>3. /\ Left \in [Timer -> Int] /\ Listed \subseteq Timer /\ tn_ticks \in [Timer -> 0..(Word - 1)]
      /\ tn_callback \in [Timer -> Callback \cup {"none"}] /\ Pend \in Nat
  <2>1. TypeOK
    BY DEF TimerInv
  <2> QED BY <2>1, ListTyped, PendFacts DEF TypeOK
<1>4. \A k \in Listed : k # h => Left'[k] - ticks_new' - Pend' = Left[k] - ticks_new - Pend
  BY <1>1, <1>3
<1>5. ASSUME h \in Armed
      PROVE  Due[h] <= 0 /\ \A k \in Armed : Due[h] <= Due[k]
  BY <1>1, <1>3, <1>5 DEF Due, Armed
<1>6. CASE tn_ticks[h] = 0
  <2>1. Armed' = Armed \ {h}
    BY <1>1, <1>2, <1>3, <1>6 DEF Armed
  <2>2. \A k \in Armed' : /\ tn_ticks'[k] = tn_ticks[k]
                           /\ Left'[k] - ticks_new' - Pend' = Left[k] - ticks_new - Pend
    BY <1>2, <1>4, <2>1 DEF Armed
  <2>3. Timers!Off(h) /\ (h \notin Armed => UNCHANGED Timers!vars)
    BY <2>1, <2>2, TimersOff
  <2>4. h \in Armed => Period[h] = 0
    BY <1>6 DEF Period
  <2> QED BY <1>5, <2>3, <2>4 DEF Timers!Fire, Due, Period
<1>7. CASE tn_ticks[h] # 0
  <2>1. h \in Armed
    BY <1>1, <1>7 DEF TimerInv, Armed
  <2>2. Armed' = Armed
    BY <1>1, <1>2, <1>7 DEF Armed
  <2>3. Period' = Period /\ Period[h] = tn_ticks[h] /\ Period[h] > 0
    BY <1>2, <1>3, <1>7, <2>1, <2>2 DEF Period
  <2>4. Due'[h] = Due[h] + tn_ticks[h]
    BY <1>1, <1>3, <2>1, <2>2 DEF Due
  <2>5. \A k \in Timer : k # h => Due'[k] = Due[k]
    BY <1>4, <2>2 DEF Due, Armed
  <2>6. Due' = [Due EXCEPT ![h] = @ + Period[h]]
    <3>1. Due' = [k \in Timer |-> Due'[k]] /\ Due = [k \in Timer |-> Due[k]]
      BY DEF Due
    <3> QED BY <2>3, <2>4, <2>5, <3>1
  <2> QED BY <1>5, <2>1, <2>2, <2>3, <2>6 DEF Timers!Fire, Due, Period
<1> QED BY <1>6, <1>7

LEMMA TimersStep ==
    ASSUME TimerInv, TimesFit, NoRestarts, [Next]_vars
    PROVE  [Timers!Next]_Timers!vars
<1>1. CASE NutTimerIntr
  BY <1>1, TimersTick DEF Timers!Next
<1>2. CASE PassStart
  <2>1. Pend' = 0 /\ ticks_new' = Pend /\ ticks_new = 0 /\ Pend \in Int
        /\ nutTimerList' = nutTimerList /\ tn_ticks' = tn_ticks
        /\ tn_ticks_left' = tn_ticks_left /\ tn_callback' = tn_callback
    BY <1>2, PassStartInv, PendFacts DEF PassStart, list, TimerInv
  <2>2. Armed' = Armed /\ Left' = Left /\ \A h \in Armed : Left[h] \in Int
    BY <2>1, ListTyped DEF Listed, Armed, Left
  <2>3. \A h \in Armed : Left'[h] - ticks_new' - Pend' = Left[h] - ticks_new - Pend
    BY <2>1, <2>2
  <2> QED BY <2>1, <2>2, <2>3, SameTimers
<1>3. CASE CountDown
  <2>1. /\ CountedDown(nutTimerList, tn_ticks_left, ticks_new, tn_ticks_left')
        /\ Pend' = Pend /\ nutTimerList' = nutTimerList /\ Listed' = Listed
        /\ ticks_new \in Nat /\ ticks_new' = 0
    BY <1>3, CountDownStep
  <2>2. Armed' = Armed /\ tn_ticks' = tn_ticks
    BY <1>3, <2>1 DEF CountDown, Armed
  <2>3. \A h \in Armed : h \in Listed /\ h \in Timer /\ Left[h] \in Int /\ Pend \in Int
    BY ListTyped, PendFacts DEF Armed, TimerInv
  <2>4. \A h \in Armed : Left'[h] = Left[h] - ticks_new
    BY <2>1, <2>3 DEF CountedDown, Left, Listed
  <2>5. \A h \in Armed : Left'[h] - ticks_new' - Pend' = Left[h] - ticks_new - Pend
    BY <2>1, <2>3, <2>4
  <2> QED BY <2>2, <2>5, SameTimers
<1>4. CASE PassDone
  <2>1. Pend' = Pend /\ ticks_new' = 0 /\ (nutTimerList = <<>> \/ ticks_new = 0)
        /\ nutTimerList' = nutTimerList /\ tn_ticks' = tn_ticks
        /\ tn_ticks_left' = tn_ticks_left /\ tn_callback' = tn_callback
    BY <1>4, PassDoneInv DEF PassDone, list
  <2>2. Armed' = Armed /\ Left' = Left
    BY <2>1 DEF Listed, Armed, Left
  <2>3. Armed = {} \/ ticks_new = 0
    BY <2>1, EmptyFacts DEF Armed, Listed
  <2> QED BY <2>1, <2>2, <2>3, SameTimers
<1>5. ASSUME NEW h \in Timer, Elapsed(h) PROVE [Timers!Next]_Timers!vars
  BY <1>5, TimersElapsed DEF Timers!Next
<1>6. ASSUME NEW h \in Timer, NutTimerStop(h) PROVE Timers!Next
  BY <1>6, TimersStop DEF Timers!Next
<1>7. ASSUME NEW h \in Timer, NEW ms \in Ms, NEW callback \in Callback, NEW flags \in Flags,
             NutTimerStart(h, ms, callback, flags)
      PROVE  Timers!Next
  BY <1>7, TimersStart DEF Timers!Next
<1>8. CASE UNCHANGED vars
  <2>1. Pend' = Pend /\ Armed' = Armed /\ Left' = Left /\ tn_ticks' = tn_ticks /\ ticks_new' = ticks_new
    BY <1>8 DEF vars, clock, list, Pend, Listed, Armed, Left
  <2> QED BY <2>1, SameTimers
<1> QED BY <1>1, <1>2, <1>3, <1>4, <1>5, <1>6, <1>7, <1>8 DEF Next, Kernel

LEMMA TimersInit == ASSUME Init PROVE Timers!Init
<1>1. Armed = {}
  BY EmptyFacts DEF Init, Armed, Listed
<1> QED BY <1>1 DEF Timers!Init

(* The delta list of os/timer.c implements the timers of NutTimers: every   *)
(* step starts, stops, counts or fires one of them, in the order of their   *)
(* deadlines, or is a stutter.                                              *)
THEOREM ImplementsTimers ==
    ASSUME TimesFit, NoRestarts
    PROVE  Spec => TimersImplemented
<1>1. Init => Timers!Init
  BY TimersInit
<1>2. TimerInv /\ [Next]_vars => [Timers!Next]_Timers!vars
  BY TimersStep
<1> QED BY <1>1, <1>2, TimerInvariant, PTL DEF Spec, TimersImplemented, Timers!Spec

-----------------------------------------------------------------------------
(* A timer's place in the list is the same by its own ticks.                *)
WithTicks(l, left, h, d) == [LeftOf(l, left) EXCEPT ![h] = d]

LEMMA InsertListBy ==
    ASSUME NEW l, NEW left, TickList(l, left), NEW h \in Timer, h \notin ToSet(l),
           NEW d \in Nat, NEW key, key = WithTicks(l, left, h, d)
    PROVE  InsertList(l, left, h, d) = InsertBy(l, h, key)
<1>1. /\ LeftOf(l, left) \in [Timer -> Int] /\ l \in Seq(Timer)
      /\ \A j \in 1..Len(l) : l[j] \in Timer /\ l[j] # h
  <2>1. left \in [Timer -> Int]
    BY DEF TickList
  <2> QED BY <2>1, LeftFacts, ElementOfSeq, ToSetFacts DEF TickList
<1>2. key[h] = d /\ \A j \in 1..Len(l) : key[l[j]] = LeftOf(l, left)[l[j]]
  BY <1>1 DEF WithTicks
<1>3. Len(l) \in Nat
  BY <1>1, LenProperties
<1>4. \A q \in 1..(Len(l) + 1) : IsInsertPos(l, key, d, q) <=> IsInsertPos(l, LeftOf(l, left), d, q)
  BY <1>2, <1>3 DEF IsInsertPos
<1>5. InsertPos(l, key, key[h]) = InsertPos(l, LeftOf(l, left), d)
  BY <1>2, <1>4 DEF InsertPos
<1> QED BY <1>5 DEF InsertBy, InsertList

(* One step of the timers, as the kernel sees it.                           *)
LEMMA KernelViewStep ==
    ASSUME TimerInv, TimesFit, NoRestarts, OneShots, OneShots', [Next]_vars
    PROVE  \/ UNCHANGED <<nutTimerList, Left>> \/ KernelAdvance
           \/ \E h \in Timer : KernelStart(h) \/ KernelStop(h) \/ KernelElapses(h)
<1>0. TickList(nutTimerList, tn_ticks_left) /\ Left \in [Timer -> Int]
  BY ListTyped
<1>1. CASE NutTimerIntr
  BY <1>1 DEF NutTimerIntr, list, Left
<1>2. CASE PassStart
  BY <1>2 DEF PassStart, list, Left
<1>3. CASE CountDown
  BY <1>3, CountDownStep DEF CountedDown, KernelAdvance, Left, Listed
<1>4. CASE PassDone
  BY <1>4 DEF PassDone, list, Left
<1>5. ASSUME NEW h \in Timer, Elapsed(h) PROVE KernelElapses(h)
  <2>1. tn_ticks[h] = 0
    BY DEF OneShots
  <2>2. Left' = [k \in Timer |-> IF k = h THEN 0
                                  ELSE IF k \in Listed THEN Left[k] - Left[h] ELSE 0]
    BY <1>5, <2>1, ReloadStep
  <2>3. Left' = [k \in Timer |-> IF k \in Listed \ {h} THEN Left[k] - Left[h] ELSE 0]
    BY <2>2
  <2> QED BY <1>5, <2>1, <2>3, ReloadStep DEF KernelElapses
<1>6. ASSUME NEW h \in Timer, NutTimerStop(h)
      PROVE  UNCHANGED <<nutTimerList, Left>> \/ KernelStop(h)
  <2> DEFINE l == Unlink(nutTimerList, h)
             left == UnlinkLeft(nutTimerList, tn_ticks_left, h)
  <2>1. CASE /\ Left' = [Left EXCEPT ![h] = 0]
             /\ nutTimerList' = InsertList(l, left, h, 0)
             /\ Unlinked(nutTimerList, tn_ticks_left, h, l, left)
    <3>1. TickList(l, left) /\ h \notin ToSet(l) /\ LeftOf(l, left) = [Left EXCEPT ![h] = 0]
      BY <2>1 DEF Unlinked, Left
    <3>2. Left' = WithTicks(l, left, h, 0)
      BY <1>0, <2>1, <3>1 DEF WithTicks
    <3> HIDE DEF l, left
    <3>3. 0 \in Nat
      OBVIOUS
    <3>4. InsertList(l, left, h, 0) = InsertBy(l, h, Left')
      BY <3>1, <3>2, <3>3, InsertListBy
    <3> QED BY <1>6, <2>1, <3>4, StopTicks DEF KernelStop, l
  <2> QED BY <1>6, <2>1, StopTicks
<1>7. ASSUME NEW h \in Timer, NEW ms \in Ms, NEW callback \in Callback, NEW flags \in Flags,
             NutTimerStart(h, ms, callback, flags)
      PROVE  KernelStart(h)
  <2> DEFINE n == NutTimerMillisToTicks(ms)
  <2>1. n \in Nat /\ Pend \in Nat
    BY MillisFacts, PendFacts DEF TimerInv
  <2>2. /\ h \notin Listed
        /\ Inserted(nutTimerList, tn_ticks_left, h, n + Pend, nutTimerList', tn_ticks_left')
        /\ nutTimerList' = InsertList(nutTimerList, tn_ticks_left, h, n + Pend)
    BY <1>7, StartTicks
  <2> HIDE DEF n
  <2>3. Left' = [Left EXCEPT ![h] = n + Pend] /\ n + Pend \in Nat
    BY <2>1, <2>2 DEF Inserted, Left
  <2>4. nutTimerList' = InsertBy(nutTimerList, h, Left')
    <3>0. PICK d \in Nat : d = n + Pend
      BY <2>3
    <3>1. h \notin ToSet(nutTimerList) /\ Left' = WithTicks(nutTimerList, tn_ticks_left, h, d)
      BY <2>2, <2>3, <3>0 DEF Listed, Left, WithTicks
    <3>2. InsertList(nutTimerList, tn_ticks_left, h, d) = InsertBy(nutTimerList, h, Left')
      BY <1>0, <3>1, InsertListBy
    <3> QED BY <2>2, <3>0, <3>2
  <2>5. Left'[h] = n + Pend
    BY <1>0, <2>3
  <2>6. Left' = [Left EXCEPT ![h] = Left'[h]]
    BY ONLY <2>3, <2>5
  <2>7. Left'[h] >= Pend
    BY <2>1, <2>5
  <2> QED BY <2>2, <2>4, <2>6, <2>7 DEF KernelStart
<1>8. CASE UNCHANGED vars
  BY <1>8 DEF vars, list, Left
<1> QED BY <1>1, <1>2, <1>3, <1>4, <1>5, <1>6, <1>7, <1>8 DEF Next, Kernel

(* Used with one-shot timers only, as os/event.c and NutSleep() do, the     *)
(* delta list does what module NutKernel does with a list sorted by ticks.  *)
THEOREM ViewOfTheKernel ==
    ASSUME TimesFit, NoRestarts
    PROVE  Spec => KernelView
<1>1. TimerInv /\ [Next]_vars =>
        [ OneShots /\ OneShots' =>
        \/ UNCHANGED <<nutTimerList, Left>> \/ KernelAdvance
        \/ \E h \in Timer : KernelStart(h) \/ KernelStop(h) \/ KernelElapses(h) ]_vars
  BY KernelViewStep
<1> QED BY <1>1, TimerInvariant, PTL DEF Spec, KernelView
====
