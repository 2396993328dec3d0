--------------------------- MODULE SidTimerProofs ---------------------------
(***************************************************************************)
(* Proofs about SidTimer.                                                   *)
(***************************************************************************)
EXTENDS SidTimer, SequenceTheorems, WellFoundedInduction, TLAPS

-----------------------------------------------------------------------------
(* The helpers on sequences and sets.                                       *)

\* What inserting e at position i makes of a sequence.
LEMMA InsertAtProperties ==
    ASSUME NEW S, NEW s \in Seq(S), NEW e \in S, NEW i \in 1..(Len(s) + 1)
    PROVE  /\ InsertAt(s, i, e) \in Seq(S)
           /\ Len(InsertAt(s, i, e)) = Len(s) + 1
           /\ \A j \in 1..(Len(s) + 1) :
                InsertAt(s, i, e)[j] = IF j < i THEN s[j] ELSE IF j = i THEN e ELSE s[j - 1]
<1> DEFINE a == SubSeq(s, 1, i - 1)
           b == SubSeq(s, i, Len(s))
<1>1. Len(s) \in Nat
  BY LenProperties
<1>2. /\ a \in Seq(S) /\ Len(a) = i - 1
      /\ \A j \in 1..(i - 1) : a[j] = s[j]
  BY <1>1, SubSeqProperties
<1>3. /\ b \in Seq(S) /\ Len(b) = Len(s) + 1 - i
      /\ \A j \in 1..(Len(s) + 1 - i) : b[j] = s[i + j - 1]
  BY <1>1, SubSeqProperties
<1>4. <<e>> \in Seq(S) /\ Len(<<e>>) = 1 /\ <<e>>[1] = e
  OBVIOUS
<1> DEFINE ae == a \o <<e>>
<1>5. /\ ae \in Seq(S) /\ Len(ae) = i
      /\ \A j \in 1..i : ae[j] = IF j < i THEN s[j] ELSE e
  <2>1. /\ ae \in Seq(S) /\ Len(ae) = Len(a) + 1
        /\ \A j \in 1..(Len(a) + 1) : ae[j] = IF j <= Len(a) THEN a[j] ELSE <<e>>[j - Len(a)]
    BY <1>2, <1>4, ConcatProperties
  <2> HIDE DEF a, ae
  <2> QED
    BY <1>1, <1>2, <1>4, <2>1
<1> HIDE DEF a, b, ae
<1>6. /\ ae \o b \in Seq(S) /\ Len(ae \o b) = Len(ae) + Len(b)
      /\ \A j \in 1..(Len(ae) + Len(b)) :
           (ae \o b)[j] = IF j <= Len(ae) THEN ae[j] ELSE b[j - Len(ae)]
  BY <1>3, <1>5, ConcatProperties
<1>7. InsertAt(s, i, e) = ae \o b
  BY DEF InsertAt, a, b, ae
<1> QED
  BY <1>1, <1>3, <1>5, <1>6, <1>7

\* What removing position i makes of a sequence.
LEMMA RemoveAtProperties ==
    ASSUME NEW S, NEW s \in Seq(S), NEW i \in 1..Len(s)
    PROVE  /\ RemoveAt(s, i) \in Seq(S)
           /\ Len(RemoveAt(s, i)) = Len(s) - 1
           /\ \A j \in 1..(Len(s) - 1) :
                RemoveAt(s, i)[j] = IF j < i THEN s[j] ELSE s[j + 1]
<1> DEFINE a == SubSeq(s, 1, i - 1)
           b == SubSeq(s, i + 1, Len(s))
<1>1. Len(s) \in Nat
  BY LenProperties
<1>2. /\ a \in Seq(S) /\ Len(a) = i - 1
      /\ \A j \in 1..(i - 1) : a[j] = s[j]
  BY <1>1, SubSeqProperties
<1>3. /\ b \in Seq(S) /\ Len(b) = Len(s) - i
      /\ \A j \in 1..(Len(s) - i) : b[j] = s[i + j]
  BY <1>1, SubSeqProperties
<1> HIDE DEF a, b
<1>4. /\ a \o b \in Seq(S) /\ Len(a \o b) = Len(a) + Len(b)
      /\ \A j \in 1..(Len(a) + Len(b)) :
           (a \o b)[j] = IF j <= Len(a) THEN a[j] ELSE b[j - Len(a)]
  BY <1>2, <1>3, ConcatProperties
<1>5. RemoveAt(s, i) = a \o b
  BY DEF RemoveAt, a, b
<1>6. ASSUME NEW j \in 1..(Len(s) - 1)
      PROVE  (a \o b)[j] = IF j < i THEN s[j] ELSE s[j + 1]
  <2>1. CASE j < i
    BY <1>1, <1>2, <1>3, <1>4, <2>1
  <2>2. CASE ~(j < i)
    <3>1. (a \o b)[j] = b[j - (i - 1)]
      BY <1>1, <1>2, <1>3, <1>4, <2>2
    <3>2. b[j - (i - 1)] = s[i + (j - (i - 1))]
      BY <1>1, <1>3, <2>2
    <3> QED
      BY <1>1, <2>2, <3>1, <3>2
  <2> QED
    BY <2>1, <2>2
<1>7. Len(a \o b) = Len(s) - 1
  BY <1>1, <1>2, <1>3, <1>4
<1> QED
  BY <1>4, <1>5, <1>6, <1>7

\* A non-empty set of naturals has a least element, and Min chooses it.
LEMMA MinProperties ==
    ASSUME NEW T, T \subseteq Nat, T # {}
    PROVE  Min(T) \in T /\ \A y \in T : Min(T) <= y
<1>1. PICK x \in T : \A y \in T : ~(<<y, x>> \in OpToRel(<, Nat))
  BY NatLessThanWellFounded, WFMin
<1>2. ASSUME NEW y \in T
      PROVE  x <= y
  <2>1. y < x => <<y, x>> \in OpToRel(<, Nat)
    <3>1. x \in Nat /\ y \in Nat
      OBVIOUS
    <3> QED
      BY <3>1, Zenon DEF OpToRel
  <2>2. ~(y < x)
    BY <1>1, <2>1, Zenon
  <2> QED
    BY <2>2
<1>3. \E z \in T : \A y \in T : z =< y
  BY <1>2
<1> QED
  BY <1>3, Zenon DEF Min
-----------------------------------------------------------------------------
(* The list operations.                                                     *)

\* What TimerAssumption says of the constants, in the form the provers use.
LEMMA Constants ==
    /\ Infinity \in Int /\ Infinity \notin Nat
    /\ Periods \subseteq Int
    /\ \A p \in Periods : p # Infinity => p \in Nat \ {0}
    /\ Classes = {"PRECISE", "LOWPOWER"}
    /\ \A c \in Classes : sid_pal_timer_get_tolerance[c] \in {0, LowPowerTolerance}
    /\ LowPowerTolerance \in Nat /\ MaxTime \in Nat
BY TimerAssumption DEF Infinity, Periods, Classes, sid_pal_timer_get_tolerance

\* Where the insertion position is: after every element that is not later.
LEMMA InsertPosProperties ==
    ASSUME TypeOK, NEW a \in Int
    PROVE  /\ InsertPos(a) \in 1..(Len(list) + 1)
           /\ Later(a) # {} =>
                /\ InsertPos(a) \in 1..Len(list)
                /\ alarm[list[InsertPos(a)]] > a
                /\ \A i \in 1..Len(list) : i < InsertPos(a) => alarm[list[i]] <= a
           /\ Later(a) = {} =>
                /\ InsertPos(a) = Len(list) + 1
                /\ \A i \in 1..Len(list) : alarm[list[i]] <= a
<1>1. list \in Seq(Timers) /\ Len(list) \in Nat /\ DOMAIN list = 1..Len(list)
  BY LenProperties DEF TypeOK
<1>2. \A i \in 1..Len(list) : list[i] \in Timers /\ alarm[list[i]] \in Int
  BY <1>1, ElementOfSeq DEF TypeOK
<1>3. Later(a) \subseteq Nat
  BY <1>1 DEF Later
<1>4. CASE Later(a) = {}
  BY <1>1, <1>2, <1>4 DEF InsertPos, Later
<1>5. CASE Later(a) # {}
  <2>1. Min(Later(a)) \in Later(a) /\ \A y \in Later(a) : Min(Later(a)) <= y
    BY <1>3, <1>5, MinProperties
  <2>2. InsertPos(a) = Min(Later(a))
    BY <1>5 DEF InsertPos
  <2>3. InsertPos(a) \in 1..Len(list) /\ alarm[list[InsertPos(a)]] > a
    BY <1>1, <2>1, <2>2 DEF Later
  <2>4. ASSUME NEW i \in 1..Len(list), i < InsertPos(a)
        PROVE  alarm[list[i]] <= a
    <3>1. i \notin Later(a)
      BY <1>1, <2>1, <2>2, <2>3, <2>4
    <3> QED
      BY <1>1, <1>2, <3>1 DEF Later
  <2> QED
    BY <1>1, <1>5, <2>3, <2>4
<1> QED
  BY <1>4, <1>5

\* Inserting keeps the types.
LEMMA InsertTypes ==
    ASSUME TypeOK, NEW t \in Timers, NEW a \in Int, NEW tol \in Int, ListInsert(t, a, tol)
    PROVE  /\ list' \in Seq(Timers)
           /\ alarm' \in [Timers -> Int]
           /\ hw' \in Int
<1>1. list \in Seq(Timers) /\ Len(list) \in Nat
  BY LenProperties DEF TypeOK
<1>2. InsertPos(a) \in 1..(Len(list) + 1)
  BY InsertPosProperties
<1>3. list' \in Seq(Timers)
  BY <1>1, <1>2, InsertAtProperties DEF ListInsert
<1>4. Coalesced(a, tol) \in Int
  <2>1. CASE Later(a) = {}
    BY <2>1 DEF Coalesced
  <2>2. CASE Later(a) # {}
    <3>1. InsertPos(a) \in 1..Len(list)
      BY <2>2, InsertPosProperties
    <3>2. list[InsertPos(a)] \in Timers
      BY <1>1, <3>1, ElementOfSeq
    <3> QED
      BY <3>2 DEF Coalesced, TypeOK
  <2> QED
    BY <2>1, <2>2
<1> QED
  BY <1>3, <1>4 DEF ListInsert, TypeOK

\* What the list operations keep even of a list that is not sorted: no element occurs
\* twice, and only the timer they are about is linked or unlinked.
LEMMA InsertOnce ==
    ASSUME TypeOK, Once, NEW t \in Timers, NEW a \in Int, NEW tol \in Int,
           ListInsert(t, a, tol)
    PROVE  /\ Once'
           /\ \A u \in Timers : Armed(u)' <=> (Armed(u) \/ u = t)
           /\ \A u \in Timers : u # t => alarm'[u] = alarm[u]
           /\ alarm'[t] = a \/ \E u \in Timers : Armed(u) /\ alarm'[t] = alarm[u]
<1> DEFINE pos == InsertPos(a)
           n == Len(list)
<1>1. list \in Seq(Timers) /\ n \in Nat /\ DOMAIN list = 1..n /\ ~Armed(t)
  BY LenProperties DEF TypeOK, ListInsert
<1>2. \A i \in 1..n : list[i] \in Timers /\ list[i] # t
  BY <1>1, ElementOfSeq DEF Armed
<1>3. pos \in 1..(n + 1) /\ (Later(a) # {} => pos \in 1..n)
  BY InsertPosProperties
<1>4. list' = InsertAt(list, pos, t)
  BY DEF ListInsert
<1>5. /\ list' \in Seq(Timers) /\ Len(list') = n + 1
      /\ \A j \in 1..(n + 1) :
           list'[j] = IF j < pos THEN list[j] ELSE IF j = pos THEN t ELSE list[j - 1]
  <2> HIDE DEF pos
  <2> QED
    BY <1>1, <1>3, <1>4, InsertAtProperties, SMTT(30)
<1>6. DOMAIN list' = 1..(n + 1)
  BY <1>1, <1>5, LenProperties
<1>7. /\ \A u \in Timers : u # t => alarm'[u] = alarm[u]
      /\ alarm'[t] = Coalesced(a, tol)
  BY DEF ListInsert, TypeOK
<1>8. alarm'[t] = a \/ \E u \in Timers : Armed(u) /\ alarm'[t] = alarm[u]
  <2>1. CASE Coalesced(a, tol) = a
    BY <1>7, <2>1
  <2>2. CASE Later(a) # {} /\ Coalesced(a, tol) = alarm[list[pos]]
    BY <1>1, <1>2, <1>3, <1>7, <2>2 DEF Armed
  <2> QED
    BY <2>1, <2>2 DEF Coalesced
<1> HIDE DEF pos, n
<1>9. Once'
  <2> SUFFICES ASSUME NEW i \in 1..(n + 1), NEW j \in 1..(n + 1), i < j
               PROVE  list'[i] # list'[j]
    BY <1>6 DEF Once
  <2>1. \A k, m \in 1..n : k < m => list[k] # list[m]
    BY <1>1 DEF Once
  <2>2. CASE i < pos
    <3>1. i \in 1..n /\ list'[i] = list[i]
      BY <1>1, <1>3, <1>5, <2>2
    <3>2. CASE j < pos
      <4>1. j \in 1..n /\ list'[j] = list[j]
        BY <1>1, <1>3, <1>5, <3>2
      <4> QED
        BY <2>1, <3>1, <4>1
    <3>3. CASE j = pos
      BY <1>2, <1>3, <1>5, <3>1, <3>3
    <3>4. CASE j > pos
      <4>1. j - 1 \in 1..n /\ list'[j] = list[j - 1] /\ i < j - 1
        BY <1>1, <1>3, <1>5, <2>2, <3>4
      <4> QED
        BY <2>1, <3>1, <4>1
    <3> QED
      BY <1>1, <1>3, <3>2, <3>3, <3>4
  <2>3. CASE ~(i < pos)
    <3>1. j - 1 \in 1..n /\ list'[j] = list[j - 1] /\ j > pos
      BY <1>1, <1>3, <1>5, <2>3
    <3>2. CASE i = pos
      BY <1>2, <1>3, <1>5, <3>1, <3>2
    <3>3. CASE i > pos
      <4>1. i - 1 \in 1..n /\ list'[i] = list[i - 1] /\ i - 1 < j - 1
        BY <1>1, <1>3, <1>5, <3>3
      <4> QED
        BY <2>1, <3>1, <4>1
    <3> QED
      BY <1>1, <1>3, <2>3, <3>2, <3>3
  <2> QED
    BY <2>2, <2>3
<1>10. ASSUME NEW u \in Timers
       PROVE  Armed(u)' <=> (Armed(u) \/ u = t)
  <2>1. ASSUME NEW j \in 1..(n + 1), list'[j] = u
        PROVE  Armed(u) \/ u = t
    <3>1. CASE j < pos
      <4>1. j \in 1..n /\ list'[j] = list[j]
        BY <1>1, <1>3, <1>5, <3>1
      <4> QED
        BY <1>1, <2>1, <4>1 DEF Armed
    <3>2. CASE j = pos
      BY <1>1, <1>3, <1>5, <2>1, <3>2
    <3>3. CASE j > pos
      <4>1. j - 1 \in 1..n
        BY <1>1, <1>3, <3>3
      <4>2. list'[j] = list[j - 1]
        BY <1>1, <1>3, <1>5, <3>3
      <4> QED
        BY <1>1, <2>1, <4>1, <4>2 DEF Armed
    <3> QED
      BY <1>1, <1>3, <3>1, <3>2, <3>3
  <2>2. ASSUME NEW i \in 1..n, list[i] = u
        PROVE  \E j \in 1..(n + 1) : list'[j] = u
    <3>1. CASE i < pos
      BY <1>1, <1>3, <1>5, <2>2, <3>1
    <3>2. CASE ~(i < pos)
      <4>1. i + 1 \in 1..(n + 1) /\ list'[i + 1] = list[i]
        BY <1>1, <1>3, <1>5, <3>2
      <4> QED
        BY <2>2, <4>1
    <3> QED
      BY <3>1, <3>2
  <2>3. list'[pos] = t
    BY <1>1, <1>3, <1>5
  <2> QED
    BY <1>1, <1>3, <1>6, <2>1, <2>2, <2>3 DEF Armed
<1> QED
  BY <1>7, <1>8, <1>9, <1>10

LEMMA DeleteOnce ==
    ASSUME TypeOK, Once, NEW t \in Timers, ListDelete(t)
    PROVE  Once' /\ \A u \in Timers : Armed(u)' => Armed(u) /\ u # t
<1> DEFINE n == Len(list)
<1>1. list \in Seq(Timers) /\ n \in Nat /\ DOMAIN list = 1..n
  BY LenProperties DEF TypeOK
<1>2. CASE ~Armed(t)
  BY <1>2 DEF ListDelete, Once, Armed
<1>3. CASE Armed(t)
  <2> DEFINE k == CHOOSE i \in DOMAIN list : list[i] = t
  <2>1. k \in 1..n /\ list[k] = t /\ list' = RemoveAt(list, k)
    BY <1>1, <1>3 DEF ListDelete, Armed
  <2> HIDE DEF k
  <2>2. /\ list' \in Seq(Timers) /\ Len(list') = n - 1
        /\ \A j \in 1..(n - 1) : list'[j] = IF j < k THEN list[j] ELSE list[j + 1]
    BY <1>1, <2>1, RemoveAtProperties
  <2>3. DOMAIN list' = 1..(n - 1)
    BY <1>1, <2>2, LenProperties
  <2> HIDE DEF n
  <2>4. \A i, j \in 1..n : i # j => list[i] # list[j]
    BY <1>1 DEF Once
  <2> DEFINE old(j) == IF j < k THEN j ELSE j + 1
  <2>5. \A j \in 1..(n - 1) : old(j) \in 1..n /\ old(j) # k /\ list'[j] = list[old(j)]
    BY <1>1, <2>1, <2>2
  <2>6. \A i, j \in 1..(n - 1) : i < j => old(i) # old(j)
    BY <1>1, <2>1
  <2> HIDE DEF old
  <2>7. Once'
    BY <2>3, <2>4, <2>5, <2>6 DEF Once
  <2>8. \A u \in Timers : Armed(u)' => Armed(u) /\ u # t
    BY <1>1, <2>1, <2>3, <2>4, <2>5 DEF Armed
  <2> QED
    BY <2>7, <2>8
<1> QED
  BY <1>2, <1>3

LEMMA TailOnce ==
    ASSUME TypeOK, Once, list # <<>>, list' = Tail(list)
    PROVE  Once' /\ \A u \in Timers : Armed(u)' => u # Head(list)
<1> DEFINE n == Len(list)
<1>1. list \in Seq(Timers) /\ n \in Nat /\ DOMAIN list = 1..n
  BY LenProperties DEF TypeOK
<1>2. n # 0 /\ Head(list) = list[1]
  BY <1>1
<1>3. /\ list' \in Seq(Timers) /\ Len(list') = n - 1
      /\ \A i \in 1..(n - 1) : list'[i] = list[i + 1]
  BY <1>1, HeadTailProperties
<1>4. DOMAIN list' = 1..(n - 1)
  BY <1>1, <1>2, <1>3, LenProperties
<1> HIDE DEF n
<1>5. \A i, j \in 1..n : i < j => list[i] # list[j]
  BY <1>1 DEF Once
<1>6. ASSUME NEW i \in 1..(n - 1), NEW j \in 1..(n - 1), i < j
      PROVE  list'[i] # list'[j]
  <2>1. i + 1 \in 1..n /\ j + 1 \in 1..n /\ i + 1 < j + 1
    BY <1>1, <1>6
  <2> QED
    BY <1>3, <1>5, <2>1
<1>7. ASSUME NEW j \in 1..(n - 1)
      PROVE  list'[j] # Head(list)
  <2>1. 1 \in 1..n /\ j + 1 \in 1..n /\ 1 < j + 1
    BY <1>1
  <2> QED
    BY <1>2, <1>3, <1>5, <2>1
<1> QED
  BY <1>4, <1>6, <1>7 DEF Once, Armed

\* Inserting an unarmed timer keeps the list sorted, arms that timer only, at a
\* time within its tolerance, and reprograms the kernel timer unless the first
\* alarm stays what it was.
LEMMA InsertProperties ==
    ASSUME TypeOK, Sorted, NEW t \in Timers, ~Armed(t),
           NEW a \in Nat, NEW tol \in Nat, ListInsert(t, a, tol)
    PROVE  /\ list' # <<>>
           /\ Sorted'
           /\ \A u \in Timers : Armed(u)' <=> (Armed(u) \/ u = t)
           /\ \A u \in Timers : u # t => alarm'[u] = alarm[u]
           /\ a <= alarm'[t] /\ alarm'[t] <= a + tol
           /\ \/ hw' = a /\ alarm'[Head(list')] = a
              \/ hw' = hw /\ list # <<>> /\ alarm'[Head(list')] = alarm[Head(list)]
<1> DEFINE pos == InsertPos(a)
           n == Len(list)
<1>1. list \in Seq(Timers) /\ n \in Nat /\ DOMAIN list = 1..n
  BY LenProperties DEF TypeOK
<1>2. \A i \in 1..n : list[i] \in Timers /\ alarm[list[i]] \in Int
  BY <1>1, ElementOfSeq DEF TypeOK
<1>a. a \in Int
  OBVIOUS
<1>b. /\ pos \in 1..(n + 1)
      /\ Later(a) # {} =>
           /\ pos \in 1..n
           /\ alarm[list[pos]] > a
           /\ \A i \in 1..n : i < pos => alarm[list[i]] <= a
      /\ Later(a) = {} =>
           /\ pos = n + 1
           /\ \A i \in 1..n : alarm[list[i]] <= a
  BY <1>a, InsertPosProperties
<1>3. pos \in 1..(n + 1)
  BY <1>b
<1>c. list' = InsertAt(list, pos, t)
  BY DEF ListInsert
<1>d. /\ InsertAt(list, pos, t) \in Seq(Timers)
      /\ Len(InsertAt(list, pos, t)) = n + 1
      /\ \A j \in 1..(n + 1) : InsertAt(list, pos, t)[j] =
           IF j < pos THEN list[j] ELSE IF j = pos THEN t ELSE list[j - 1]
  <2> HIDE DEF pos
  <2> QED
    BY <1>1, <1>3, InsertAtProperties, SMTT(30)
<1>4. /\ list' \in Seq(Timers) /\ Len(list') = n + 1
      /\ \A j \in 1..(n + 1) :
           list'[j] = IF j < pos THEN list[j] ELSE IF j = pos THEN t ELSE list[j - 1]
  BY <1>c, <1>d
<1>5. DOMAIN list' = 1..(n + 1)
  BY <1>1, <1>4, LenProperties
<1>6. \A i \in 1..n : list[i] # t
  BY <1>1 DEF Armed
<1>7. /\ alarm' = [alarm EXCEPT ![t] = Coalesced(a, tol)]
      /\ hw' = IF Reschedule(a, tol) THEN a ELSE hw
  BY DEF ListInsert
<1>8. /\ \A u \in Timers : u # t => alarm'[u] = alarm[u]
      /\ alarm'[t] = Coalesced(a, tol)
  BY <1>7 DEF TypeOK
<1>9. \A i \in 1..n : i < pos => alarm[list[i]] <= a
  <2>1. CASE Later(a) = {}
    BY <1>b, <2>1
  <2>2. CASE Later(a) # {}
    BY <1>b, <2>2
  <2> QED
    BY <2>1, <2>2
<1>10. \A i \in 1..n : i >= pos => Coalesced(a, tol) <= alarm[list[i]]
  <2> SUFFICES ASSUME NEW i \in 1..n, i >= pos
               PROVE  Coalesced(a, tol) <= alarm[list[i]]
    OBVIOUS
  <2>1. pos \in 1..n /\ alarm[list[pos]] > a
    <3>1. pos # n + 1
      BY <1>1, <1>3
    <3>2. Later(a) # {}
      BY <1>b, <3>1
    <3> QED
      BY <1>b, <3>2
  <2>2. alarm[list[pos]] <= alarm[list[i]]
    BY <1>1, <1>2, <1>3, <2>1 DEF Sorted
  <2>3. Coalesced(a, tol) = a \/ Coalesced(a, tol) = alarm[list[pos]]
    BY DEF Coalesced
  <2> QED
    BY <1>2, <2>1, <2>2, <2>3
<1>11. a <= Coalesced(a, tol) /\ Coalesced(a, tol) <= a + tol
  <2>1. CASE Coalesced(a, tol) = a
    BY <2>1
  <2>2. CASE /\ Later(a) # {} /\ alarm[list[pos]] - a <= tol
             /\ Coalesced(a, tol) = alarm[list[pos]]
    <3>1. pos \in 1..n /\ alarm[list[pos]] > a
      BY <1>b, <2>2
    <3> QED
      BY <1>2, <2>2, <3>1
  <2> QED
    BY <2>1, <2>2 DEF Coalesced
<1>12. Coalesced(a, tol) \in Int
  BY <1>8, InsertTypes
<1> HIDE DEF pos, n
<1>13. Sorted'
  <2> SUFFICES ASSUME NEW i \in 1..(n + 1), NEW j \in 1..(n + 1), i < j
               PROVE  list'[i] # list'[j] /\ alarm'[list'[i]] <= alarm'[list'[j]]
    BY <1>5 DEF Sorted
  <2>1. \A k, m \in 1..n : k < m =>
          list[k] # list[m] /\ alarm[list[k]] <= alarm[list[m]]
    BY <1>1 DEF Sorted
  <2>2. \A k \in 1..n : alarm'[list[k]] = alarm[list[k]]
    BY <1>2, <1>6, <1>8
  <2>3. CASE j < pos
    BY <1>1, <1>3, <1>4, <2>1, <2>2, <2>3
  <2>4. CASE j = pos
    <3>1. list'[j] = t /\ list'[i] = list[i] /\ i \in 1..n
      BY <1>1, <1>3, <1>4, <2>4
    <3> QED
      BY <1>2, <1>6, <1>8, <1>9, <1>11, <1>12, <2>2, <2>4, <3>1
  <2>5. CASE j > pos /\ i < pos
    <3>1. list'[j] = list[j - 1] /\ list'[i] = list[i] /\ i \in 1..n /\ j - 1 \in 1..n
          /\ i < j - 1
      BY <1>1, <1>3, <1>4, <2>5
    <3> QED
      BY <2>1, <2>2, <3>1
  <2>6. CASE i = pos
    <3>1. list'[i] = t /\ list'[j] = list[j - 1] /\ j - 1 \in 1..n /\ j - 1 >= pos
      BY <1>1, <1>3, <1>4, <2>6
    <3> QED
      BY <1>6, <1>8, <1>10, <2>2, <3>1
  <2>7. CASE i > pos
    <3>1. list'[i] = list[i - 1] /\ list'[j] = list[j - 1]
          /\ i - 1 \in 1..n /\ j - 1 \in 1..n /\ i - 1 < j - 1
      BY <1>1, <1>3, <1>4, <2>7
    <3> QED
      BY <2>1, <2>2, <3>1
  <2> QED
    BY <1>1, <1>3, <2>3, <2>4, <2>5, <2>6, <2>7
<1>14. \A u \in Timers : Armed(u)' <=> (Armed(u) \/ u = t)
  <2>1. Once /\ a \in Int /\ tol \in Int
    BY DEF Sorted, Once
  <2> QED
    BY <2>1, InsertOnce
<1>15. list' # <<>> /\ Head(list') = list'[1]
  BY <1>1, <1>4
<1> DEFINE Rescheduled == hw' = a /\ alarm'[Head(list')] = a
           FirstStays == hw' = hw /\ list # <<>> /\ alarm'[Head(list')] = alarm[Head(list)]
<1>16. ASSUME pos = 1
       PROVE  Rescheduled \/ FirstStays
  <2>1. Head(list') = t
    BY <1>1, <1>3, <1>4, <1>15, <1>16
  <2>2. CASE Coalesced(a, tol) = a
    BY <1>7, <1>8, <1>16, <2>1, <2>2 DEF Reschedule, pos
  <2>3. CASE Coalesced(a, tol) # a
    <3>1. Later(a) # {} /\ Coalesced(a, tol) = alarm[list[1]]
      BY <1>16, <2>3 DEF Coalesced, pos
    <3>2. list # <<>> /\ Head(list) = list[1]
      BY <1>1, <3>1 DEF Later
    <3> QED
      BY <1>7, <1>8, <1>16, <2>1, <2>3, <3>1, <3>2 DEF Reschedule, pos
  <2> QED
    BY <2>2, <2>3
<1>17. ASSUME pos # 1
       PROVE  FirstStays
  <2>1. list # <<>> /\ Head(list) = list[1] /\ Head(list') = list[1] /\ 1 \in 1..n
    BY <1>1, <1>3, <1>4, <1>15, <1>17 DEF n
  <2>2. hw' = hw
    BY <1>7, <1>17 DEF Reschedule, pos
  <2>3. alarm'[list[1]] = alarm[list[1]]
    BY <1>2, <1>6, <1>8, <2>1
  <2> QED
    BY <2>1, <2>2, <2>3
<1> QED
  BY <1>8, <1>11, <1>13, <1>14, <1>15, <1>16, <1>17

\* Deleting a timer keeps the order of the others, and the first alarm does not
\* become earlier.
LEMMA DeleteProperties ==
    ASSUME TypeOK, NEW t \in Timers, ListDelete(t)
    PROVE  /\ list' \in Seq(Timers)
           /\ Sorted =>
                /\ \A i, j \in DOMAIN list' :
                     i < j => list'[i] # list'[j] /\ alarm[list'[i]] <= alarm[list'[j]]
                /\ \A u \in Timers : Armed(u)' => Armed(u) /\ u # t
                /\ list' # <<>> => list # <<>> /\ alarm[Head(list)] <= alarm[Head(list')]
<1> DEFINE n == Len(list)
<1>1. list \in Seq(Timers) /\ n \in Nat /\ DOMAIN list = 1..n
  BY LenProperties DEF TypeOK
<1>2. \A i \in 1..n : list[i] \in Timers /\ alarm[list[i]] \in Int
  BY <1>1, ElementOfSeq DEF TypeOK
<1>3. CASE ~Armed(t)
  <2>1. list' = list
    BY <1>3 DEF ListDelete
  <2>2. ASSUME list # <<>>
        PROVE  Head(list) = list[1] /\ 1 \in 1..n
    BY <1>1, <2>2
  <2> QED
    BY <1>1, <1>2, <1>3, <2>1, <2>2 DEF Sorted, Armed
<1>4. CASE Armed(t)
  <2> DEFINE k == CHOOSE i \in DOMAIN list : list[i] = t
  <2>1. k \in 1..n /\ list[k] = t
    BY <1>1, <1>4 DEF Armed
  <2>2. list' = RemoveAt(list, k)
    BY <1>4 DEF ListDelete
  <2> HIDE DEF k
  <2>3. /\ list' \in Seq(Timers) /\ Len(list') = n - 1
        /\ \A j \in 1..(n - 1) : list'[j] = IF j < k THEN list[j] ELSE list[j + 1]
    BY <1>1, <2>1, <2>2, RemoveAtProperties
  <2>4. DOMAIN list' = 1..(n - 1)
    BY <1>1, <2>3, LenProperties
  <2> HIDE DEF n
  <2> SUFFICES ASSUME Sorted
               PROVE  /\ \A i, j \in DOMAIN list' :
                           i < j => list'[i] # list'[j] /\ alarm[list'[i]] <= alarm[list'[j]]
                      /\ \A u \in Timers : Armed(u)' => Armed(u) /\ u # t
                      /\ list' # <<>> =>
                           list # <<>> /\ alarm[Head(list)] <= alarm[Head(list')]
    BY <2>3
  <2>5. \A i, j \in 1..n : i < j => list[i] # list[j] /\ alarm[list[i]] <= alarm[list[j]]
    BY <1>1 DEF Sorted
  <2>6. ASSUME NEW i \in 1..(n - 1), NEW j \in 1..(n - 1), i < j
        PROVE  list'[i] # list'[j] /\ alarm[list'[i]] <= alarm[list'[j]]
    <3>1. CASE j < k
      BY <1>1, <2>1, <2>3, <2>5, <2>6, <3>1
    <3>2. CASE ~(j < k) /\ i < k
      <4>1. list'[i] = list[i] /\ list'[j] = list[j + 1] /\ i < j + 1
        BY <1>1, <2>1, <2>3, <2>6, <3>2
      <4> QED
        BY <1>1, <2>5, <4>1
    <3>3. CASE ~(i < k)
      <4>1. list'[i] = list[i + 1] /\ list'[j] = list[j + 1] /\ i + 1 < j + 1
        BY <1>1, <2>1, <2>3, <2>6, <3>3
      <4> QED
        BY <1>1, <2>5, <4>1
    <3> QED
      BY <3>1, <3>2, <3>3
  <2>7. ASSUME NEW u \in Timers, NEW j \in 1..(n - 1), list'[j] = u
        PROVE  Armed(u) /\ u # t
    <3>1. CASE j < k
      BY <1>1, <2>1, <2>3, <2>5, <2>7, <3>1 DEF Armed
    <3>2. CASE ~(j < k)
      <4>1. j + 1 \in 1..n /\ list'[j] = list[j + 1] /\ k < j + 1
        BY <1>1, <2>1, <2>3, <3>2
      <4> QED
        BY <1>1, <2>1, <2>5, <2>7, <4>1 DEF Armed
    <3> QED
      BY <3>1, <3>2
  <2>8. ASSUME list' # <<>>
        PROVE  list # <<>> /\ alarm[Head(list)] <= alarm[Head(list')]
    <3>1. 1 \in 1..(n - 1) /\ Head(list') = list'[1]
      BY <1>1, <2>3, <2>8
    <3>2. list # <<>> /\ Head(list) = list[1] /\ 1 \in 1..n /\ 2 \in 1..n
      BY <1>1, <3>1 DEF n
    <3>3. list'[1] = list[1] \/ list'[1] = list[2]
      BY <2>1, <2>3, <3>1
    <3> QED
      BY <1>2, <2>5, <3>1, <3>2, <3>3
  <2> QED
    BY <2>4, <2>6, <2>7, <2>8 DEF Armed
<1> QED
  BY <1>3, <1>4

\* Taking the head off a sorted list.
LEMMA FetchProperties ==
    ASSUME TypeOK, list # <<>>, list' = Tail(list)
    PROVE  /\ list' \in Seq(Timers) /\ Head(list) \in Timers /\ Armed(Head(list))
           /\ \A u \in Timers : Armed(u)' => Armed(u)
           /\ Sorted =>
                /\ \A i, j \in DOMAIN list' :
                     i < j => list'[i] # list'[j] /\ alarm[list'[i]] <= alarm[list'[j]]
                /\ \A j \in DOMAIN list' : list'[j] # Head(list)
<1> DEFINE n == Len(list)
<1>1. list \in Seq(Timers) /\ n \in Nat /\ DOMAIN list = 1..n
  BY LenProperties DEF TypeOK
<1>2. \A i \in 1..n : list[i] \in Timers
  BY <1>1, ElementOfSeq
<1>3. n # 0 /\ Head(list) = list[1]
  BY <1>1
<1>4. /\ list' \in Seq(Timers) /\ Len(list') = n - 1
      /\ \A i \in 1..(n - 1) : list'[i] = list[i + 1]
  BY <1>1, HeadTailProperties
<1>5. DOMAIN list' = 1..(n - 1)
  BY <1>1, <1>3, <1>4, LenProperties
<1> HIDE DEF n
<1>6. ASSUME NEW u \in Timers, Armed(u)'
      PROVE  Armed(u)
  <2>1. PICK j \in 1..(n - 1) : list'[j] = u
    BY <1>5, <1>6 DEF Armed
  <2>2. j + 1 \in 1..n /\ list[j + 1] = u
    BY <1>1, <1>4, <2>1
  <2> QED
    BY <1>1, <2>2 DEF Armed
<1>7. ASSUME Sorted, NEW i \in 1..(n - 1), NEW j \in 1..(n - 1), i < j
      PROVE  list'[i] # list'[j] /\ alarm[list'[i]] <= alarm[list'[j]]
  <2>1. i + 1 \in 1..n /\ j + 1 \in 1..n /\ i + 1 < j + 1
    BY <1>1, <1>7
  <2> QED
    BY <1>1, <1>4, <1>7, <2>1 DEF Sorted
<1>8. ASSUME Sorted, NEW j \in 1..(n - 1)
      PROVE  list'[j] # Head(list)
  <2>1. 1 \in 1..n /\ j + 1 \in 1..n /\ 1 < j + 1
    BY <1>1
  <2> QED
    BY <1>1, <1>3, <1>4, <1>8, <2>1 DEF Sorted
<1>9. Head(list) \in Timers /\ Armed(Head(list))
  BY <1>1, <1>2, <1>3 DEF Armed
<1> QED
  BY <1>4, <1>5, <1>6, <1>7, <1>8, <1>9

-----------------------------------------------------------------------------
(* Type correctness, for every use of the interface.                        *)

\* Initially no timer is linked and the variables have their types.
LEMMA TypeOKInit == Init => TypeOK
<1> SUFFICES ASSUME Init PROVE TypeOK
  OBVIOUS
<1>1. <<>> \in Seq(Timers)
  OBVIOUS
<1>2. Infinity \in Periods /\ "PRECISE" \in Classes
  BY Constants DEF Periods
<1>3. ClientIdle \in [pc : {"idle"}, timer : {NoTimer}, when : Int, period : Periods,
                      class : Classes]
  BY <1>2 DEF ClientIdle
<1>4. HandlerIdle \in [pc : {"idle"}, timer : {NoTimer}, time : Int, next : Int]
  BY Constants DEF HandlerIdle
<1>5. /\ alarm \in [Timers -> Int] /\ period \in [Timers -> Periods]
      /\ tolerance \in [Timers -> {0, LowPowerTolerance}]
      /\ callback \in [Timers -> BOOLEAN] /\ nominal \in [Timers -> Int]
  BY <1>2, Constants DEF Init
<1>6. hw \in Int /\ now \in 0..MaxTime
  BY Constants DEF Init
<1>7. trigger \in BOOLEAN /\ crossed \in BOOLEAN
  BY Zenon DEF Init
<1> QED
  BY <1>1, <1>3, <1>4, <1>5, <1>6, <1>7 DEF Init, TypeOK

\* Every step preserves the types, with and without preemption.
LEMMA TypeOKNext == TypeOK /\ [Next]_vars => TypeOK'
<1> SUFFICES ASSUME TypeOK, [Next]_vars PROVE TypeOK'
  OBVIOUS
<1> USE Constants
<1>0. list \in Seq(Timers)
  BY DEF TypeOK
<1>1. ASSUME NEW t \in Timers, ClientInit(t)
      PROVE  TypeOK'
  BY <1>1 DEF ClientInit, InitTimer, TypeOK, fields, history, Periods
<1>2. ASSUME NEW t \in Timers, ClientCancel(t)
      PROVE  TypeOK'
  <2>1. list' \in Seq(Timers)
    BY <1>2, DeleteProperties DEF ClientCancel, Cancel
  <2> QED
    BY <1>2, <2>1 DEF ClientCancel, Cancel, TypeOK, fields, history
<1>3. ASSUME NEW t \in Timers, ClientDeinit(t)
      PROVE  TypeOK'
  <2>1. list' \in Seq(Timers)
    BY <1>3, DeleteProperties DEF ClientDeinit, Deinit
  <2> QED
    BY <1>3, <2>1 DEF ClientDeinit, Deinit, TypeOK
<1>4. ASSUME NEW t \in Timers, CallbackCancel(t)
      PROVE  TypeOK'
  <2>1. list' \in Seq(Timers)
    BY <1>4, DeleteProperties DEF CallbackCancel, Cancel
  <2> QED
    BY <1>4, <2>1 DEF CallbackCancel, Cancel, TypeOK, fields, history
<1>5. ASSUME NEW r \in ClientRequests, NEW w \in now..MaxTime, ClientArm(r, w)
      PROVE  TypeOK'
  <2>1. r.timer \in Timers /\ r.period \in Periods /\ r.class \in Classes /\ w \in Int
    BY TimerAssumption, SMTT(30) DEF TypeOK, Requests, Periods
  <2>2. client' \in [pc : {"idle", "store", "insert"}, timer : Timers \cup {NoTimer},
                     when : Int, period : Periods, class : Classes]
        /\ client'.timer \in Timers
    BY <1>5, <2>1 DEF ClientArm
  <2> QED
    BY <1>5, <2>2 DEF ClientArm, TypeOK, fields, history
<1>6. ASSUME NEW r \in CallbackRequests, NEW w \in (now + 1)..MaxTime, CallbackArm(r, w)
      PROVE  TypeOK'
  <2>1. r.timer \in Timers /\ r.period \in Periods /\ r.class \in Classes /\ w \in Int
    BY TimerAssumption, SMTT(30) DEF TypeOK, Requests, Periods
  <2>2. sid_pal_timer_get_tolerance[r.class] \in {0, LowPowerTolerance}
    BY <2>1
  <2>3. list' \in Seq(Timers) /\ alarm' \in [Timers -> Int] /\ hw' \in Int
    <3>1. ListInsert(r.timer, w, sid_pal_timer_get_tolerance[r.class])
      BY <1>6, Zenon DEF CallbackArm
    <3>2. sid_pal_timer_get_tolerance[r.class] \in Int
      BY <2>2
    <3> QED
      BY <2>1, <3>1, <3>2, InsertTypes
  <2>4. crossed' \in BOOLEAN
    BY <1>6, Zenon DEF CallbackArm
  <2> QED
    BY <1>6, <2>1, <2>2, <2>3, <2>4 DEF CallbackArm, TypeOK
<1>7. CASE ClientStore
  <2>1. client.timer \in Timers
    BY <1>7 DEF ClientStore, TypeOK
  <2> QED
    BY <1>7, <2>1 DEF ClientStore, TypeOK, history
<1>8. CASE ClientInsert
  <2>1. client.timer \in Timers /\ alarm[client.timer] \in Int /\ tolerance[client.timer] \in Int
    BY <1>8 DEF ClientInsert, TypeOK
  <2>2. list' \in Seq(Timers) /\ alarm' \in [Timers -> Int] /\ hw' \in Int
    BY <1>8, <2>1, InsertTypes DEF ClientInsert
  <2>3. Infinity \in Periods
    BY DEF Periods
  <2> QED
    <3>1. nominal' \in [Timers -> Int]
      BY <1>8, <2>1 DEF ClientInsert, TypeOK
    <3>2. client' \in [pc : {"idle"}, timer : {NoTimer}, when : Int, period : Periods,
                       class : Classes]
      BY <1>8, <2>3 DEF ClientInsert, ClientIdle
    <3> QED
      BY <1>8, <2>2, <3>1, <3>2 DEF ClientInsert, TypeOK
<1>9. CASE Tick
  BY <1>9 DEF Tick, TypeOK, fields, history
<1>10. CASE Expire
  BY <1>10 DEF Expire, TypeOK, fields, history
<1>11. CASE HandlerBegin
  <2>1. now \in Int
    BY DEF TypeOK
  <2>2. handler' \in [pc : {"fetch"}, timer : Timers \cup {NoTimer}, time : Int, next : Int]
    BY <1>11, <2>1 DEF HandlerBegin, TypeOK
  <2> QED
    BY <1>11, <2>2 DEF HandlerBegin, TypeOK, fields, history
<1>12. CASE HandlerFetch
  <2>1. list # <<>>
    BY <1>12 DEF HandlerFetch, HeadDue
  <2>2. list' \in Seq(Timers) /\ Head(list) \in Timers
    BY <1>12, <2>1, FetchProperties DEF HandlerFetch
  <2> QED
    BY <1>12, <2>2 DEF HandlerFetch, AfterInsert, TypeOK, fields, history
<1>13. CASE HandlerReinsert
  <2>1. handler.timer \in Timers
    BY <1>13 DEF HandlerReinsert, TypeOK
  <2>2. /\ alarm[handler.timer] + period[handler.timer] \in Int
        /\ tolerance[handler.timer] \in Int
    <3>1. alarm[handler.timer] \in Int /\ period[handler.timer] \in Periods
      BY <2>1 DEF TypeOK
    <3>2. tolerance[handler.timer] \in {0, LowPowerTolerance}
      BY <2>1 DEF TypeOK
    <3>3. period[handler.timer] \in Int
      BY <3>1
    <3> QED
      BY <3>1, <3>2, <3>3
  <2>3. list' \in Seq(Timers) /\ alarm' \in [Timers -> Int] /\ hw' \in Int
    BY <1>13, <2>1, <2>2, InsertTypes DEF HandlerReinsert
  <2> QED
    <3>1. nominal' \in [Timers -> Int]
      <4>1. nominal[handler.timer] \in Int /\ period[handler.timer] \in Periods
        BY <2>1 DEF TypeOK
      <4>2. period[handler.timer] \in Int
        BY <4>1
      <4>3. nominal[handler.timer] + period[handler.timer] \in Int
        BY <4>1, <4>2
      <4> QED
        BY <1>13, <2>1, <4>3 DEF HandlerReinsert, TypeOK
    <3>2. /\ handler' \in [pc : {"fetch", "callback"}, timer : Timers \cup {NoTimer},
                           time : Int, next : Int]
          /\ handler'.pc = "callback" => handler'.timer \in Timers
      BY <1>13, <2>1 DEF HandlerReinsert, AfterInsert, TypeOK
    <3> QED
      BY <1>13, <2>1, <2>3, <3>1, <3>2 DEF HandlerReinsert, TypeOK
<1>14. CASE CallbackReturn
  BY <1>14 DEF CallbackReturn, TypeOK, fields, history
<1>15. CASE HandlerGetNextSchedule
  <2>1. NextSchedule \in Int
    <3>1. list # <<>> => Head(list) \in Timers
      BY <1>0
    <3> QED
      BY <3>1 DEF NextSchedule, TypeOK
  <2> QED
    BY <1>15, <2>1 DEF HandlerGetNextSchedule, TypeOK, fields, history
<1>16. CASE HandlerStart
  BY <1>16 DEF HandlerStart, HandlerIdle, TypeOK, fields, history
<1>17. CASE UNCHANGED vars
  BY <1>17 DEF vars, fields, history, TypeOK
<1> QED
  BY <1>1, <1>2, <1>3, <1>4, <1>5, <1>6, <1>7, <1>8, <1>9, <1>10, <1>11, <1>12,
     <1>13, <1>14, <1>15, <1>16, <1>17 DEF Next

\* The types hold, and no NULL timer pointer is used, whatever the clients do and
\* even when they interrupt the expiry handler.
THEOREM TypeCorrect == Spec => []TypeOK
<1>1. Init => TypeOK
  BY TypeOKInit
<1>2. TypeOK /\ [Next]_vars => TypeOK'
  BY TypeOKNext
<1> QED
  BY <1>1, <1>2, PTL DEF Spec

-----------------------------------------------------------------------------
(* What holds even after a crossing.                                        *)

\* Initially the list is empty and no context holds a timer.
LEMMA HeldInit == Init => Held
BY DEF Init, ClientIdle, HandlerIdle, Held, Once, Armed

\* A step that leaves the list, the alarms and the requests alone.
LEMMA HeldQuiet ==
    ASSUME Held, UNCHANGED <<list, alarm, period, nominal>>,
           client'.pc # "idle" => client'.when \in Nat,
           client'.pc = "insert" => UNCHANGED client,
           handler'.pc = "reinsert" => UNCHANGED handler
    PROVE  Held'
  BY DEF Held, Once, Armed

\* Cancelling or deinitialising a timer.
LEMMA HeldDelete ==
    ASSUME TypeOK, Held, NEW t \in Timers, ListDelete(t),
           UNCHANGED <<alarm, client, handler>>, handler.pc # "reinsert",
           nominal' = [nominal EXCEPT ![t] = Infinity]
    PROVE  Held'
<1>1. Once' /\ \A u \in Timers : Armed(u)' => Armed(u) /\ u # t
  BY DeleteOnce DEF Held
<1> QED
  BY <1>1 DEF Held, TypeOK

\* Linking a timer at a requested time.
LEMMA HeldInsert ==
    ASSUME TypeOK, Held, NEW t \in Timers, NEW a \in Nat, NEW tol \in {0, LowPowerTolerance},
           ListInsert(t, a, tol), handler'.pc # "reinsert",
           nominal'[t] \in Nat, \A u \in Timers : u # t => nominal'[u] = nominal[u],
           client'.pc = "idle" \/ UNCHANGED client
    PROVE  Held'
<1>1. a \in Int /\ tol \in Int
  BY Constants
<1>2. /\ Once'
      /\ \A u \in Timers : Armed(u)' <=> (Armed(u) \/ u = t)
      /\ \A u \in Timers : u # t => alarm'[u] = alarm[u]
      /\ alarm'[t] = a \/ \E u \in Timers : Armed(u) /\ alarm'[t] = alarm[u]
  BY <1>1, InsertOnce DEF Held
<1>3. alarm'[t] \in Nat
  BY <1>2 DEF Held
<1>4. client'.pc # "idle" => client.pc # "idle" /\ client' = client /\ client.timer \in Timers
  BY DEF TypeOK
<1> QED
  BY <1>2, <1>3, <1>4 DEF Held

\* Every step preserves it.
LEMMA HeldNext == ASSUME Serialised PROVE TypeOK /\ Held /\ [Next]_vars => Held'
<1> SUFFICES ASSUME TypeOK, Held, [Next]_vars PROVE Held'
  OBVIOUS
<1>1. ASSUME NEW t \in Timers, ClientInit(t)
      PROVE  Held'
  <2>1. ~Armed(t) /\ handler.pc = "idle" /\ client.pc = "idle"
    BY <1>1 DEF ClientInit, InitTimer, ClientRuns, Serialised
  <2>2. /\ UNCHANGED <<list, client, handler, nominal>>
        /\ \A u \in Timers : u # t => alarm'[u] = alarm[u]
    BY <1>1 DEF ClientInit, InitTimer, TypeOK, history
  <2>3. Once' /\ \A u \in Timers : Armed(u)' <=> Armed(u)
    BY <2>2 DEF Held, Once, Armed
  <2> QED
    BY <2>1, <2>2, <2>3 DEF Held
<1>2. ASSUME NEW t \in Timers, ClientCancel(t) \/ ClientDeinit(t) \/ CallbackCancel(t)
      PROVE  Held'
  <2>1. handler.pc # "reinsert" /\ ListDelete(t) /\ UNCHANGED <<alarm, client, handler>>
        /\ nominal' = [nominal EXCEPT ![t] = Infinity]
    BY <1>2 DEF ClientCancel, ClientDeinit, CallbackCancel, Cancel, Deinit, ClientRuns,
                Serialised, fields
  <2> QED
    BY <2>1, HeldDelete
<1>3. ASSUME NEW r \in ClientRequests, NEW w \in now..MaxTime, ClientArm(r, w)
      PROVE  Held'
  <2>1. /\ UNCHANGED <<list, alarm, period, nominal, handler>>
        /\ client'.pc = "store" /\ client'.when = w
    BY <1>3 DEF ClientArm, fields, history
  <2>2. w \in Nat
    BY Constants DEF TypeOK
  <2> QED
    BY <2>1, <2>2, HeldQuiet
<1>4. ASSUME NEW r \in CallbackRequests, NEW w \in (now + 1)..MaxTime, CallbackArm(r, w)
      PROVE  Held'
  <2> DEFINE t == r.timer
             tol == sid_pal_timer_get_tolerance[r.class]
  <2>1. t \in Timers /\ tol \in {0, LowPowerTolerance} /\ w \in Nat
    <3>1. r.timer \in Timers /\ r.class \in Classes
      BY TimerAssumption DEF Requests
    <3>2. w \in Nat
      BY Constants DEF TypeOK
    <3> QED
      BY <3>1, <3>2, Constants
  <2>2. /\ handler'.pc = "callback" /\ ListInsert(t, w, tol)
        /\ nominal' = [nominal EXCEPT ![t] = w] /\ UNCHANGED client
    BY <1>4 DEF CallbackArm
  <2> HIDE DEF t, tol
  <2>3. nominal'[t] \in Nat /\ \A u \in Timers : u # t => nominal'[u] = nominal[u]
    BY <2>1, <2>2 DEF TypeOK
  <2> QED
    BY <2>1, <2>2, <2>3, HeldInsert
<1>5. CASE ClientStore
  <2>1. /\ handler.pc = "idle" /\ UNCHANGED <<list, nominal, handler>>
        /\ client.pc = "store" /\ client'.timer = client.timer /\ client'.when = client.when
        /\ client.timer \in Timers
    BY <1>5 DEF ClientStore, ClientRuns, Serialised, history, TypeOK
  <2>2. /\ alarm'[client.timer] = client.when
        /\ \A u \in Timers : u # client.timer => alarm'[u] = alarm[u]
    BY <1>5, <2>1 DEF ClientStore, TypeOK
  <2>3. Once' /\ \A u \in Timers : Armed(u)' <=> Armed(u)
    BY <2>1 DEF Held, Once, Armed
  <2> QED
    BY <2>1, <2>2, <2>3 DEF Held
<1>6. CASE ClientInsert
  <2> DEFINE t == client.timer
  <2>1. /\ handler'.pc = "idle" /\ client.pc = "insert" /\ client'.pc = "idle"
        /\ ListInsert(t, alarm[t], tolerance[t])
        /\ nominal' = [nominal EXCEPT ![t] = alarm[t]]
    BY <1>6 DEF ClientInsert, ClientRuns, Serialised, ClientIdle
  <2>2. t \in Timers /\ alarm[t] \in Nat /\ tolerance[t] \in {0, LowPowerTolerance}
    BY <2>1 DEF Held, TypeOK
  <2> HIDE DEF t
  <2>3. nominal'[t] \in Nat /\ \A u \in Timers : u # t => nominal'[u] = nominal[u]
    BY <2>1, <2>2 DEF TypeOK
  <2> QED
    BY <2>1, <2>2, <2>3, HeldInsert
<1>7. CASE Tick \/ Expire
  BY <1>7, HeldQuiet DEF Held, Tick, Expire, fields, history
<1>8. CASE HandlerBegin \/ CallbackReturn \/ HandlerGetNextSchedule \/ HandlerStart
  <2>1. UNCHANGED <<list, alarm, period, nominal, client>>
    BY <1>8 DEF HandlerBegin, CallbackReturn, HandlerGetNextSchedule, HandlerStart, fields,
                history
  <2>2. handler'.pc # "reinsert"
    <3>1. CASE HandlerBegin
      BY <3>1 DEF HandlerBegin, TypeOK
    <3>2. CASE CallbackReturn
      BY <3>2 DEF CallbackReturn, TypeOK
    <3>3. CASE HandlerGetNextSchedule
      BY <3>3 DEF HandlerGetNextSchedule, TypeOK
    <3>4. CASE HandlerStart
      BY <3>4 DEF HandlerStart, HandlerIdle
    <3> QED
      BY <1>8, <3>1, <3>2, <3>3, <3>4
  <2> QED
    BY <2>1, <2>2, HeldQuiet DEF Held
<1>9. CASE HandlerFetch
  <2> DEFINE t == Head(list)
  <2>1. list # <<>> /\ list' = Tail(list) /\ UNCHANGED <<alarm, period, client>>
    BY <1>9 DEF HandlerFetch, HeadDue, fields
  <2>2. t \in Timers /\ Armed(t) /\ \A u \in Timers : Armed(u)' => Armed(u)
    BY <2>1, FetchProperties
  <2>3. Once' /\ \A u \in Timers : Armed(u)' => u # t
    BY <2>1, TailOnce DEF Held
  <2>4. handler'.pc = "reinsert" => handler'.timer = t /\ period[t] # Infinity
    BY <1>9 DEF HandlerFetch, AfterInsert, TypeOK
  <2>5. nominal' = [nominal EXCEPT ![t] = IF period[t] = Infinity THEN Infinity ELSE @]
    BY <1>9 DEF HandlerFetch
  <2> HIDE DEF t
  <2>6. \A u \in Timers : u # t \/ period[t] # Infinity => nominal'[u] = nominal[u]
    BY <2>2, <2>5 DEF TypeOK
  <2> QED
    BY <2>1, <2>2, <2>3, <2>4, <2>6 DEF Held
<1>10. CASE HandlerReinsert
  <2> DEFINE t == handler.timer
             a == alarm[t] + period[t]
  <2>1. /\ handler.pc = "reinsert" /\ UNCHANGED client
        /\ ListInsert(t, a, tolerance[t])
        /\ nominal' = [nominal EXCEPT ![t] = IF @ = Infinity THEN @ ELSE @ + period[t]]
    BY <1>10 DEF HandlerReinsert
  <2>2. handler'.pc # "reinsert"
    BY <1>10 DEF HandlerReinsert, AfterInsert, TypeOK
  <2>3. /\ t \in Timers /\ alarm[t] \in Nat /\ nominal[t] \in Nat
        /\ period[t] \in Periods /\ period[t] # Infinity
        /\ tolerance[t] \in {0, LowPowerTolerance}
    BY <2>1 DEF Held, TypeOK
  <2>4. period[t] \in Nat
    BY <2>3, Constants
  <2>5. a \in Nat /\ nominal[t] + period[t] \in Nat /\ nominal[t] # Infinity
    BY <2>3, <2>4, Constants
  <2> HIDE DEF t, a
  <2>6. nominal'[t] \in Nat /\ \A u \in Timers : u # t => nominal'[u] = nominal[u]
    BY <2>1, <2>3, <2>5 DEF TypeOK
  <2> QED
    BY <2>1, <2>2, <2>3, <2>5, <2>6, HeldInsert
<1>11. CASE UNCHANGED vars
  BY <1>11 DEF vars, fields, history, Held, Once, Armed
<1> QED
  BY <1>1, <1>2, <1>3, <1>4, <1>5, <1>6, <1>7, <1>8, <1>9, <1>10, <1>11 DEF Next

-----------------------------------------------------------------------------
(* Safety, for clients that do not interrupt the handler, until a crossing. *)

Core == TypeOK /\ Held /\ Sorted /\ Covered /\ AllTimely /\ HandOff

\* Initially the list is empty and no context holds a timer.
LEMMA CoreInit == Init => Core
<1> SUFFICES ASSUME Init PROVE Core
  OBVIOUS
<1>1. TypeOK /\ Held
  BY TypeOKInit, HeldInit
<1>2. list = <<>> /\ client.pc = "idle" /\ handler.pc = "idle" /\ \A t \in Timers : ~Armed(t)
  BY DEF Init, ClientIdle, HandlerIdle, Armed
<1> QED
  BY <1>1, <1>2 DEF Core, Sorted, Covered, AllTimely, HandOff, ClientsTimerFree

\* A step that leaves the list and the fields of the timers alone keeps what is
\* said of the list and the armed timers.
LEMMA QuietStep ==
    ASSUME Core, UNCHANGED <<list, alarm, period, tolerance, nominal>>
    PROVE  /\ Sorted' /\ AllTimely'
           /\ \A t \in Timers : Armed(t)' <=> Armed(t)
           /\ \A t \in Timers : Armed(t)' => nominal'[t] \in Nat
           /\ \A t \in Timers : Timely(t)' <=> Timely(t)
<1>1. \A t \in Timers : Armed(t)' <=> Armed(t)
  BY DEF Armed
<1>2. \A t \in Timers : Timely(t)' <=> Timely(t)
  BY DEF Timely
<1>3. Sorted'
  BY DEF Core, Sorted
<1> QED
  BY <1>1, <1>2, <1>3 DEF Core, AllTimely, HandOff, ClientsTimerFree, Held

\* Cancelling or deinitialising a timer.
LEMMA DeleteStep ==
    ASSUME Core, NEW t \in Timers, ListDelete(t),
           UNCHANGED <<alarm, period, tolerance, hw, trigger, client, handler>>,
           handler.pc \in {"idle", "callback"},
           nominal' = [nominal EXCEPT ![t] = Infinity]
    PROVE  Sorted' /\ Covered' /\ AllTimely' /\ HandOff'
<1>1. TypeOK /\ Sorted
  BY DEF Core
<1>2. /\ list' \in Seq(Timers)
      /\ \A i, j \in DOMAIN list' :
           i < j => list'[i] # list'[j] /\ alarm[list'[i]] <= alarm[list'[j]]
      /\ \A u \in Timers : Armed(u)' => Armed(u) /\ u # t
      /\ list' # <<>> => list # <<>> /\ alarm[Head(list)] <= alarm[Head(list')]
  BY <1>1, DeleteProperties
<1>3. Sorted'
  BY <1>2 DEF Sorted
<1>4. ClientsTimerFree'
  BY <1>1, <1>2 DEF Core, ClientsTimerFree, TypeOK, HandOff, Held
<1>5. Covered'
  <2> SUFFICES ASSUME list' # <<>>, ~trigger, handler.pc = "idle"
               PROVE  hw # Infinity /\ hw <= alarm[Head(list')]
    BY DEF Covered
  <2>1. hw # Infinity /\ hw <= alarm[Head(list)]
    BY <1>2 DEF Core, Covered
  <2>2. alarm[Head(list)] \in Int /\ alarm[Head(list')] \in Int /\ hw \in Int
    BY <1>1, <1>2, SMTT(30) DEF TypeOK
  <2> QED
    BY <1>2, <2>1, <2>2
<1>6. \A u \in Timers : u # t => nominal'[u] = nominal[u]
  BY <1>1 DEF TypeOK
<1>7. AllTimely'
  BY <1>2, <1>6 DEF Core, AllTimely, Timely
<1>8. HandOff'
  BY <1>1, <1>4 DEF Core, HandOff, TypeOK
<1> QED
  BY <1>3, <1>5, <1>7, <1>8

\* Linking a timer that asks for time a, its event being requested for time r.
LEMMA InsertStep ==
    ASSUME Core, NEW t \in Timers, ~Armed(t),
           NEW a \in Nat, NEW tol \in Nat, ListInsert(t, a, tol),
           NEW r \in Nat, r <= a,
           nominal' = [nominal EXCEPT ![t] = r],
           tolerance'[t] = tol,
           period'[t] = Infinity \/ tol = 0 => r = a,
           \A u \in Timers : u # t => period'[u] = period[u] /\ tolerance'[u] = tolerance[u],
           trigger' = trigger,
           \/ handler'.pc \in {"fetch", "callback"}
           \/ handler.pc = "idle" /\ handler'.pc = "idle"
    PROVE  /\ Sorted' /\ Covered' /\ AllTimely'
           /\ \A u \in Timers : Armed(u)' <=> (Armed(u) \/ u = t)
           /\ \A u \in Timers : Armed(u)' => nominal'[u] \in Nat
           /\ \A u \in Timers : u # t => alarm'[u] = alarm[u]
<1>1. TypeOK /\ Sorted
  BY DEF Core
<1>2. /\ list' # <<>>
      /\ Sorted'
      /\ \A u \in Timers : Armed(u)' <=> (Armed(u) \/ u = t)
      /\ \A u \in Timers : u # t => alarm'[u] = alarm[u]
      /\ a <= alarm'[t] /\ alarm'[t] <= a + tol
      /\ \/ hw' = a /\ alarm'[Head(list')] = a
         \/ hw' = hw /\ list # <<>> /\ alarm'[Head(list')] = alarm[Head(list)]
  BY <1>1, InsertProperties
<1>3. alarm' \in [Timers -> Int]
  <2>1. a \in Int /\ tol \in Int
    OBVIOUS
  <2> QED
    BY <1>1, <2>1, InsertTypes
<1>4. nominal'[t] = r /\ \A u \in Timers : u # t => nominal'[u] = nominal[u]
  BY <1>1 DEF TypeOK
<1>5. Covered'
  <2> SUFFICES ASSUME ~trigger, handler.pc = "idle", handler'.pc = "idle"
               PROVE  hw' # Infinity /\ hw' <= alarm'[Head(list')]
    BY DEF Covered
  <2>1. CASE hw' = a /\ alarm'[Head(list')] = a
    BY <2>1, Constants
  <2>2. CASE hw' = hw /\ list # <<>> /\ alarm'[Head(list')] = alarm[Head(list)]
    BY <2>2 DEF Core, Covered
  <2> QED
    BY <1>2, <2>1, <2>2
<1>6. Timely(t)'
  <2>1. nominal'[t] <= alarm'[t]
    BY <1>2, <1>3, <1>4
  <2>2. ASSUME period'[t] = Infinity \/ tolerance'[t] = 0
        PROVE  alarm'[t] <= nominal'[t] + tolerance'[t]
    BY <1>2, <1>4, <2>2
  <2> QED
    BY <2>1, <2>2 DEF Timely
<1>7. AllTimely'
  <2> SUFFICES ASSUME NEW u \in Timers, Armed(u)'
               PROVE  Timely(u)'
    BY DEF AllTimely
  <2>1. CASE u = t
    BY <1>6, <2>1
  <2>2. CASE u # t
    <3>1. Timely(u)
      BY <1>2, <2>2 DEF Core, AllTimely
    <3> QED
      BY <1>2, <1>4, <2>2, <3>1 DEF Timely
  <2> QED
    BY <2>1, <2>2
<1>8. \A u \in Timers : Armed(u)' => nominal'[u] \in Nat
  BY <1>2, <1>4 DEF Core, HandOff, ClientsTimerFree, Held
<1> QED
  BY <1>2, <1>5, <1>7, <1>8

\* Every step preserves the invariant when the calls are serialised.
LEMMA CoreNext == ASSUME Serialised PROVE Core /\ [Next]_vars /\ ~crossed' => Core'
<1> SUFFICES ASSUME Core, [Next]_vars, ~crossed' PROVE Core'
  OBVIOUS
<1> DEFINE Rest == Sorted /\ Covered /\ AllTimely /\ HandOff
<1>h. TypeOK' /\ Held'
  BY TypeOKNext, HeldNext DEF Core
<1> SUFFICES Rest'
  BY <1>h DEF Core
<1>0. TypeOK /\ Held /\ Sorted /\ Covered /\ AllTimely /\ HandOff
  BY DEF Core
<1>1. ASSUME NEW t \in Timers, ClientInit(t)
      PROVE  Rest'
  <2>1. ~Armed(t) /\ handler.pc = "idle" /\ client.pc = "idle"
    BY <1>1 DEF ClientInit, InitTimer, ClientRuns, Serialised
  <2>2. /\ UNCHANGED <<list, tolerance, hw, trigger, client, handler, nominal>>
        /\ \A u \in Timers : u # t => alarm'[u] = alarm[u] /\ period'[u] = period[u]
    BY <1>0, <1>1 DEF ClientInit, InitTimer, TypeOK, history
  <2>3. \A u \in Timers : Armed(u)' <=> Armed(u)
    BY <2>2 DEF Armed
  <2>4. \A i \in DOMAIN list : list[i] \in Timers /\ list[i] # t
    BY <1>0, <2>1, ElementOfSeq, LenProperties DEF Armed, TypeOK
  <2>5. Sorted'
    BY <1>0, <2>2, <2>4 DEF Sorted
  <2>6. Covered'
    <3> SUFFICES ASSUME list # <<>> PROVE Covered'
      BY <2>2 DEF Covered
    <3>1. Head(list) = list[1] /\ 1 \in DOMAIN list
      BY <1>0 DEF TypeOK
    <3>2. alarm'[Head(list)] = alarm[Head(list)]
      BY <2>2, <2>4, <3>1
    <3> QED
      BY <1>0, <2>2, <3>2 DEF Covered
  <2>7. AllTimely'
    BY <1>0, <2>1, <2>2, <2>3 DEF AllTimely, Timely
  <2> QED
    BY <1>0, <2>1, <2>2, <2>3, <2>5, <2>6, <2>7 DEF ClientsTimerFree, HandOff, Held
<1>2. ASSUME NEW t \in Timers, ClientCancel(t)
      PROVE  Rest'
  <2>1. handler.pc = "idle"
    BY <1>2 DEF ClientCancel, ClientRuns, Serialised
  <2> QED
    BY <1>2, <2>1, DeleteStep DEF ClientCancel, Cancel, fields, history
<1>3. ASSUME NEW t \in Timers, ClientDeinit(t)
      PROVE  Rest'
  <2>1. handler.pc = "idle"
    BY <1>3 DEF ClientDeinit, ClientRuns, Serialised
  <2> QED
    BY <1>3, <2>1, DeleteStep DEF ClientDeinit, Deinit
<1>4. ASSUME NEW t \in Timers, CallbackCancel(t)
      PROVE  Rest'
  BY <1>4, DeleteStep DEF CallbackCancel, Cancel, fields, history
<1>5. ASSUME NEW r \in ClientRequests, NEW w \in now..MaxTime, ClientArm(r, w)
      PROVE  Rest'
  <2>1. /\ handler.pc = "idle" /\ ~Armed(r.timer)
        /\ UNCHANGED <<list, alarm, period, tolerance, nominal, hw, trigger, handler>>
        /\ client'.pc = "store" /\ client'.timer = r.timer /\ client'.when = w
    BY <1>5 DEF ClientArm, ClientRuns, Serialised, fields, history
  <2>2. w \in Nat
    BY <1>0, Constants DEF TypeOK
  <2>3. r.timer \in Timers
    BY TimerAssumption DEF Requests
  <2> QED
    BY <1>0, <2>1, <2>2, <2>3, QuietStep DEF ClientsTimerFree, Covered, HandOff, Held
<1>6. ASSUME NEW r \in CallbackRequests, NEW w \in (now + 1)..MaxTime, CallbackArm(r, w)
      PROVE  Rest'
  <2> DEFINE t == r.timer
             tol == sid_pal_timer_get_tolerance[r.class]
  <2>1. t \in Timers /\ tol \in Nat /\ w \in Nat
    <3>1. r.timer \in Timers /\ r.class \in Classes
      BY TimerAssumption DEF Requests
    <3>2. tol \in {0, LowPowerTolerance}
      BY <3>1, Constants
    <3>3. w \in Nat
      BY <1>0, Constants DEF TypeOK
    <3> QED
      BY <3>1, <3>2, <3>3, Constants
  <2>2. /\ handler.pc = "callback" /\ ~Armed(t) /\ ListInsert(t, w, tol)
        /\ nominal' = [nominal EXCEPT ![t] = w]
        /\ UNCHANGED <<trigger, client, handler>>
    BY <1>6 DEF CallbackArm
  <2>3. /\ tolerance'[t] = tol
        /\ \A u \in Timers : u # t => period'[u] = period[u] /\ tolerance'[u] = tolerance[u]
    BY <1>0, <1>6, <2>1 DEF CallbackArm, TypeOK
  <2>a. w <= w /\ (period'[t] = Infinity \/ tol = 0 => w = w) /\ handler'.pc = "callback"
    BY <2>1, <2>2
  <2> HIDE DEF t, tol
  <2>4. /\ Sorted' /\ Covered' /\ AllTimely'
        /\ \A u \in Timers : Armed(u)' <=> (Armed(u) \/ u = t)
        /\ \A u \in Timers : Armed(u)' => nominal'[u] \in Nat
        /\ \A u \in Timers : u # t => alarm'[u] = alarm[u]
    BY <2>1, <2>2, <2>3, <2>a, InsertStep
  <2>5. client.pc # "idle" => client.timer # t /\ client.timer \in Timers
    <3>1. ~(client.pc # "idle" /\ client.timer = r.timer)
      BY <1>6, Zenon DEF CallbackArm
    <3> QED
      BY <1>0, <3>1 DEF TypeOK, t
  <2>6. ClientsTimerFree'
    BY <1>0, <2>2, <2>4, <2>5 DEF ClientsTimerFree, HandOff, Held
  <2>7. HandOff'
    BY <1>0, <2>2, <2>4, <2>5 DEF HandOff, ClientsTimerFree, Held
  <2> QED
    BY <2>4, <2>6, <2>7
<1>7. CASE ClientStore
  <2> DEFINE t == client.timer
  <2>1. /\ handler.pc = "idle" /\ client.pc = "store"
        /\ UNCHANGED <<list, hw, trigger, handler, nominal>>
        /\ client'.pc = "insert" /\ client'.timer = t /\ client'.when = client.when
    BY <1>0, <1>7 DEF ClientStore, ClientRuns, Serialised, TypeOK, history
  <2>2. t \in Timers /\ ~Armed(t) /\ client.when \in Nat
    BY <1>0, <2>1 DEF ClientsTimerFree, TypeOK, HandOff, Held
  <2>3. /\ alarm'[t] = client.when
        /\ \A u \in Timers : u # t =>
             alarm'[u] = alarm[u] /\ period'[u] = period[u] /\ tolerance'[u] = tolerance[u]
    BY <1>0, <1>7, <2>2 DEF ClientStore, TypeOK
  <2> HIDE DEF t
  <2>4. \A u \in Timers : Armed(u)' <=> Armed(u)
    BY <2>1 DEF Armed
  <2>5. \A i \in DOMAIN list : list[i] \in Timers /\ list[i] # t
    BY <1>0, <2>2, ElementOfSeq, LenProperties DEF Armed, TypeOK
  <2>6. Sorted'
    BY <1>0, <2>1, <2>3, <2>5 DEF Sorted
  <2>7. Covered'
    <3> SUFFICES ASSUME list # <<>> PROVE Covered'
      BY <2>1 DEF Covered
    <3>1. Head(list) = list[1] /\ 1 \in DOMAIN list
      BY <1>0 DEF TypeOK
    <3>2. alarm'[Head(list)] = alarm[Head(list)]
      BY <2>3, <2>5, <3>1
    <3> QED
      BY <1>0, <2>1, <3>2 DEF Covered
  <2>8. AllTimely'
    BY <1>0, <2>1, <2>2, <2>3, <2>4 DEF AllTimely, Timely
  <2>9. ClientsTimerFree'
    BY <1>0, <2>1, <2>2, <2>4 DEF ClientsTimerFree, HandOff, Held
  <2>10. HandOff'
    BY <1>0, <2>1, <2>2, <2>3, <2>4 DEF HandOff, t, ClientsTimerFree, Held
  <2> QED
    BY <2>6, <2>7, <2>8, <2>9, <2>10
<1>8. CASE ClientInsert
  <2> DEFINE t == client.timer
  <2>1. /\ handler.pc = "idle" /\ client.pc = "insert"
        /\ ListInsert(t, alarm[t], tolerance[t])
        /\ nominal' = [nominal EXCEPT ![t] = alarm[t]]
        /\ UNCHANGED <<period, tolerance, trigger, handler>>
        /\ client'.pc = "idle"
    BY <1>8 DEF ClientInsert, ClientRuns, Serialised, ClientIdle
  <2>2. t \in Timers /\ ~Armed(t) /\ alarm[t] \in Nat
    BY <1>0, <2>1 DEF ClientsTimerFree, TypeOK, HandOff, Held
  <2>3. tolerance[t] \in Nat
    <3>1. tolerance[t] \in {0, LowPowerTolerance}
      BY <1>0, <2>2 DEF TypeOK
    <3> QED
      BY <3>1, Constants
  <2> HIDE DEF t
  <2>4. /\ Sorted' /\ Covered' /\ AllTimely'
        /\ \A u \in Timers : Armed(u)' => nominal'[u] \in Nat
    <3>1. alarm[t] <= alarm[t] /\ handler'.pc = "idle" /\ tolerance'[t] = tolerance[t]
      BY <2>1, <2>2
    <3>2. period'[t] = Infinity \/ tolerance[t] = 0 => alarm[t] = alarm[t]
      OBVIOUS
    <3>3. \A u \in Timers : u # t => period'[u] = period[u] /\ tolerance'[u] = tolerance[u]
      BY <2>1
    <3> QED
      BY <2>1, <2>2, <2>3, <3>1, <3>2, <3>3, InsertStep
  <2> QED
    BY <2>1, <2>4 DEF ClientsTimerFree, HandOff, Held
<1>9. CASE Tick
  <2>1. UNCHANGED <<list, alarm, period, tolerance, nominal, hw, trigger, client, handler>>
    BY <1>9 DEF Tick, fields, history
  <2> QED
    BY <1>0, <2>1, QuietStep DEF ClientsTimerFree, Covered, HandOff, TypeOK, Held
<1>10. CASE Expire
  <2>1. UNCHANGED <<list, alarm, period, tolerance, nominal, client, handler>> /\ trigger'
    BY <1>10 DEF Expire, fields, history
  <2> QED
    BY <1>0, <2>1, QuietStep DEF ClientsTimerFree, Covered, HandOff, TypeOK, Held
<1>11. CASE HandlerBegin
  <2>1. /\ UNCHANGED <<list, alarm, period, tolerance, nominal, client>>
        /\ handler'.pc = "fetch"
    BY <1>0, <1>11 DEF HandlerBegin, fields, history, TypeOK
  <2> QED
    BY <1>0, <2>1, QuietStep DEF ClientsTimerFree, Covered, HandOff, TypeOK, Held
<1>12. CASE HandlerFetch
  <2> DEFINE t == Head(list)
  <2>1. list # <<>> /\ list' = Tail(list)
    BY <1>12 DEF HandlerFetch, HeadDue
  <2>2. /\ t \in Timers /\ Armed(t)
        /\ \A u \in Timers : Armed(u)' => Armed(u)
        /\ \A i, j \in DOMAIN list' :
             i < j => list'[i] # list'[j] /\ alarm[list'[i]] <= alarm[list'[j]]
        /\ \A j \in DOMAIN list' : list'[j] # t
    BY <1>0, <2>1, FetchProperties
  <2>3. /\ UNCHANGED <<alarm, period, tolerance, hw, trigger, client>>
        /\ nominal' = [nominal EXCEPT ![t] = IF period[t] = Infinity THEN Infinity ELSE @]
    BY <1>12 DEF HandlerFetch, fields, history
  <2>4. /\ handler'.pc \in {"fetch", "reinsert", "callback"}
        /\ handler'.pc = "reinsert" => handler'.timer = t /\ period[t] # Infinity
    BY <1>0, <1>12 DEF HandlerFetch, AfterInsert, TypeOK
  <2> HIDE DEF t
  <2>5. Sorted'
    BY <2>2, <2>3 DEF Sorted
  <2>6. \A u \in Timers : Armed(u)' => u # t
    BY <2>2 DEF Armed
  <2>7. \A u \in Timers : u # t \/ period[t] # Infinity => nominal'[u] = nominal[u]
    BY <1>0, <2>2, <2>3 DEF TypeOK
  <2>8. AllTimely'
    BY <1>0, <2>2, <2>3, <2>6, <2>7 DEF AllTimely, Timely
  <2>9. client.pc # "idle" => client.timer # t
    BY <1>0, <2>2 DEF ClientsTimerFree, TypeOK, HandOff, Held
  <2>10. ClientsTimerFree'
    BY <1>0, <2>2, <2>3, <2>4, <2>6 DEF ClientsTimerFree, TypeOK, HandOff, Held
  <2>11. HandOff'
    <3>2. period[t] # Infinity => nominal'[t] \in Nat /\ Timely(t) /\ nominal'[t] = nominal[t]
      BY <1>0, <2>2, <2>7 DEF HandOff, AllTimely, ClientsTimerFree, Held
    <3>3. handler'.pc = "reinsert" =>
            /\ period'[handler'.timer] # Infinity
            /\ nominal'[handler'.timer] \in Nat
            /\ Timely(handler.timer)'
            /\ client'.pc = "idle" \/ client'.timer # handler'.timer
      BY <2>3, <2>4, <2>9, <3>2 DEF Timely
    <3> QED
      BY <2>10, <3>3 DEF HandOff
  <2>12. Covered'
    BY <2>4 DEF Covered
  <2> QED
    BY <2>5, <2>8, <2>10, <2>11, <2>12
<1>13. CASE HandlerReinsert
  <2> DEFINE t == handler.timer
  <2>1. /\ handler.pc = "reinsert"
        /\ ListInsert(t, alarm[t] + period[t], tolerance[t])
        /\ UNCHANGED <<period, tolerance, trigger, client>>
    BY <1>13 DEF HandlerReinsert
  <2>2. t \in Timers /\ ~Armed(t) /\ period[t] # Infinity /\ nominal[t] \in Nat /\ Timely(t)
    BY <1>0, <2>1 DEF ClientsTimerFree, TypeOK, HandOff, Held
  <2>3. period[t] \in Nat /\ tolerance[t] \in Nat
    <3>1. period[t] \in Periods /\ tolerance[t] \in {0, LowPowerTolerance}
      BY <1>0, <2>2 DEF TypeOK
    <3>2. period[t] \in Nat
      BY <2>2, <3>1, Constants
    <3>3. tolerance[t] \in Nat
      BY <3>1, Constants
    <3> QED
      BY <3>2, <3>3
  <2>4. handler'.pc \in {"fetch", "callback"}
    BY <1>0, <1>13 DEF HandlerReinsert, AfterInsert, TypeOK
  <2>5. nominal' = [nominal EXCEPT ![t] = nominal[t] + period[t]]
    BY <1>13, <2>2, Constants DEF HandlerReinsert
  <2>6. alarm[t] \in Int
    BY <1>0, <2>2 DEF TypeOK
  <2> HIDE DEF t
  <2>7. /\ nominal[t] <= alarm[t]
        /\ tolerance[t] = 0 => alarm[t] <= nominal[t] + tolerance[t]
    BY <2>2 DEF Timely
  <2>8. /\ alarm[t] + period[t] \in Nat
        /\ nominal[t] + period[t] \in Nat
        /\ nominal[t] + period[t] <= alarm[t] + period[t]
        /\ tolerance[t] = 0 => nominal[t] + period[t] = alarm[t] + period[t]
    BY <2>2, <2>3, <2>6, <2>7
  <2>9. /\ Sorted' /\ Covered' /\ AllTimely'
        /\ \A u \in Timers : Armed(u)' <=> (Armed(u) \/ u = t)
        /\ \A u \in Timers : Armed(u)' => nominal'[u] \in Nat
        /\ \A u \in Timers : u # t => alarm'[u] = alarm[u]
    BY <2>1, <2>2, <2>3, <2>4, <2>5, <2>8, InsertStep
  <2>10. client.pc # "idle" => client.timer # t /\ client.timer \in Timers
    BY <1>0, <2>1 DEF HandOff, TypeOK, t, ClientsTimerFree, Held
  <2>11. ClientsTimerFree'
    BY <1>0, <2>1, <2>4, <2>9, <2>10 DEF ClientsTimerFree, HandOff, Held
  <2>12. HandOff'
    BY <1>0, <2>1, <2>4, <2>9, <2>10 DEF HandOff, ClientsTimerFree, Held
  <2> QED
    BY <2>9, <2>11, <2>12
<1>14. CASE CallbackReturn
  <2>1. /\ UNCHANGED <<list, alarm, period, tolerance, nominal, client>>
        /\ handler'.pc = "fetch"
    BY <1>0, <1>14 DEF CallbackReturn, fields, history, TypeOK
  <2> QED
    BY <1>0, <2>1, QuietStep DEF ClientsTimerFree, Covered, HandOff, TypeOK, Held
<1>15. CASE HandlerGetNextSchedule
  <2>1. /\ UNCHANGED <<list, alarm, period, tolerance, nominal, client>>
        /\ handler'.pc = "start" /\ handler'.next = NextSchedule
    BY <1>0, <1>15 DEF HandlerGetNextSchedule, fields, history, TypeOK
  <2>2. ASSUME list # <<>>
        PROVE  NextSchedule = alarm[Head(list)] /\ NextSchedule \in Nat
    <3>1. Head(list) = list[1] /\ 1 \in DOMAIN list /\ Head(list) \in Timers
      BY <1>0, <2>2 DEF TypeOK
    <3>2. Armed(Head(list))
      BY <3>1 DEF Armed
    <3>3. nominal[Head(list)] \in Nat /\ nominal[Head(list)] <= alarm[Head(list)]
      BY <1>0, <3>1, <3>2 DEF HandOff, AllTimely, Timely, ClientsTimerFree, Held
    <3>4. alarm[Head(list)] \in Int
      BY <1>0, <3>1 DEF TypeOK
    <3> QED
      BY <2>2, <3>3, <3>4 DEF NextSchedule
  <2>3. Covered'
    BY <2>1, <2>2, Constants DEF Covered
  <2> QED
    BY <1>0, <2>1, <2>3, QuietStep DEF ClientsTimerFree, HandOff, TypeOK, Held
<1>16. CASE HandlerStart
  <2>1. /\ UNCHANGED <<list, alarm, period, tolerance, nominal, client, trigger>>
        /\ handler.pc = "start" /\ handler'.pc = "idle" /\ hw' = handler.next
    BY <1>0, <1>16 DEF HandlerStart, HandlerIdle, fields, history
  <2> QED
    BY <1>0, <2>1, QuietStep DEF ClientsTimerFree, Covered, HandOff, TypeOK, Held
<1>17. CASE UNCHANGED vars
  <2>1. UNCHANGED <<list, alarm, period, tolerance, nominal, hw, trigger, client, handler>>
    BY <1>17 DEF vars, fields, history
  <2> QED
    BY <1>0, <2>1, QuietStep DEF ClientsTimerFree, Covered, HandOff, TypeOK, Held
<1> QED
  BY <1>1, <1>2, <1>3, <1>4, <1>5, <1>6, <1>7, <1>8, <1>9, <1>10, <1>11, <1>12,
     <1>13, <1>14, <1>15, <1>16, <1>17 DEF Next

\* Only a callback that arms the client's timer makes a crossing, and none is undone.
LEMMA CrossedStays == [Next]_vars => (crossed => crossed')
BY DEF Next, vars, history, ClientInit, InitTimer, ClientCancel, ClientDeinit, CallbackCancel,
       Cancel, Deinit, ClientArm, CallbackArm, ClientStore, ClientInsert, Tick, Expire,
       HandlerBegin, HandlerFetch, HandlerReinsert, CallbackReturn, HandlerGetNextSchedule,
       HandlerStart, Zenon

\* IInv is inductive.
LEMMA IInvNext == ASSUME Serialised PROVE IInv /\ [Next]_vars => IInv'
<1> SUFFICES ASSUME IInv, [Next]_vars PROVE IInv'
  OBVIOUS
<1>1. TypeOK' /\ Held'
  BY TypeOKNext, HeldNext DEF IInv
<1>2. ASSUME ~crossed'
      PROVE  (Sorted /\ Covered /\ AllTimely /\ HandOff)'
  <2>1. Core
    BY <1>2, CrossedStays DEF IInv, Core
  <2> QED
    BY <1>2, <2>1, CoreNext DEF Core
<1> QED
  BY <1>1, <1>2 DEF IInv

\* With clients that do not interrupt the handler, the list of armed timers has no
\* element twice, the handler never finds its timer linked and a disarmed timer stays
\* disarmed; and until a callback arms a timer that the client is arming at that moment,
\* the list is sorted, the client does not find its timer linked, the kernel timer covers
\* the first alarm and coalescing keeps within the tolerance.  For any number of timers,
\* any requests, of the same timers too, and any tolerance.
THEOREM TimerSafety ==
    ASSUME Serialised
    PROVE  Spec => [](/\ ListSorted /\ NoDoubleLink /\ HeadCovered
                      /\ DisarmedStaysDisarmed /\ WithinTolerance)
<1>1. Init => IInv
  BY CoreInit DEF IInv, Core
<1>2. IInv /\ [Next]_vars => IInv'
  BY IInvNext
<1>3. IInv => /\ ListSorted /\ NoDoubleLink /\ HeadCovered
              /\ DisarmedStaysDisarmed /\ WithinTolerance
  BY Constants DEF IInv, Held, HandOff, DisarmedStaysDisarmed, ListSorted, NoDoubleLink,
                   HeadCovered, WithinTolerance
<1> QED
  BY <1>1, <1>2, <1>3, PTL DEF Spec

\* The list of armed timers has no element twice, and is sorted by alarm whatever clients
\* and callbacks arm, cancel and coalesce, until a callback crosses a client's arm:
\* sid_pal_timer_list_insert keeps the order.
THEOREM TimerListSorted ==
    ASSUME Serialised
    PROVE  Spec => []ListSorted
  BY TimerSafety, PTL

\* The window of sid_pal_timer_arm between its look at the list and its insertion: its
\* timer is found linked only if a callback has armed that very timer in it; the handler
\* never finds the timer it re-inserts linked.
THEOREM TimerNoDoubleLink ==
    ASSUME Serialised
    PROVE  Spec => []NoDoubleLink
  BY TimerSafety, PTL

\* A timer that was cancelled, or never armed, is not on the list:
\* sid_pal_timer_cancel holds against the handler's re-insertion.
THEOREM TimerDisarmedStaysDisarmed ==
    ASSUME Serialised
    PROVE  Spec => []DisarmedStaysDisarmed
  BY TimerSafety, PTL

\* No alarm is earlier than asked for, nor later than its class's tolerance allows, until
\* a crossing: coalescing in sid_pal_timer_list_insert.
THEOREM TimerWithinTolerance ==
    ASSUME Serialised
    PROVE  Spec => []WithinTolerance
  BY TimerSafety, PTL

-----------------------------------------------------------------------------
(* The refinement of TimerService.                                          *)

\* Deleting a timer disarms no other.
LEMMA DeleteKeepsOthers ==
    ASSUME TypeOK, NEW t \in Timers, ListDelete(t)
    PROVE  \A u \in Timers : Armed(u) /\ u # t => Armed(u)'
<1>1. list \in Seq(Timers) /\ Len(list) \in Nat /\ DOMAIN list = 1..Len(list)
  BY LenProperties DEF TypeOK
<1>2. CASE ~Armed(t)
  BY <1>2 DEF ListDelete, Armed
<1>3. CASE Armed(t)
  <2> DEFINE k == CHOOSE i \in DOMAIN list : list[i] = t
  <2>1. k \in 1..Len(list) /\ list[k] = t /\ list' = RemoveAt(list, k)
    BY <1>1, <1>3 DEF ListDelete, Armed
  <2> HIDE DEF k
  <2>2. /\ list' \in Seq(Timers) /\ Len(list') = Len(list) - 1
        /\ \A j \in 1..(Len(list) - 1) : list'[j] = IF j < k THEN list[j] ELSE list[j + 1]
    BY <1>1, <2>1, RemoveAtProperties
  <2>3. DOMAIN list' = 1..(Len(list) - 1)
    BY <2>2, LenProperties
  <2> SUFFICES ASSUME NEW u \in Timers, Armed(u), u # t PROVE Armed(u)'
    OBVIOUS
  <2>4. PICK i \in 1..Len(list) : list[i] = u
    BY <1>1 DEF Armed
  <2>5. i # k
    BY <2>1, <2>4
  <2>6. CASE i < k
    <3>1. i \in 1..(Len(list) - 1) /\ list'[i] = u
      BY <1>1, <2>1, <2>2, <2>4, <2>6
    <3> QED
      BY <2>3, <3>1 DEF Armed
  <2>7. CASE ~(i < k)
    <3>1. i - 1 \in 1..(Len(list) - 1) /\ ~(i - 1 < k) /\ (i - 1) + 1 = i
      BY <1>1, <2>1, <2>4, <2>5, <2>7
    <3>2. list'[i - 1] = u
      BY <2>2, <2>4, <3>1
    <3> QED
      BY <2>3, <3>1, <3>2 DEF Armed
  <2> QED
    BY <2>6, <2>7
<1> QED
  BY <1>2, <1>3

\* Nor does taking the head, which is the first to expire.
LEMMA FetchKeepsOthers ==
    ASSUME TypeOK, Sorted, list # <<>>, list' = Tail(list)
    PROVE  /\ \A u \in Timers : Armed(u) /\ u # Head(list) => Armed(u)'
           /\ \A u \in Timers : Armed(u) => alarm[Head(list)] <= alarm[u]
<1>1. list \in Seq(Timers) /\ Len(list) \in Nat /\ DOMAIN list = 1..Len(list) /\ Len(list) >= 1
  BY LenProperties, EmptySeq DEF TypeOK
<1>2. /\ list' \in Seq(Timers) /\ Head(list) = list[1] /\ Len(list') = Len(list) - 1
      /\ Head(list) \in Timers
      /\ \A i \in 1..Len(list') : list'[i] = list[i + 1]
  BY <1>1, HeadTailProperties
<1>3. DOMAIN list' = 1..Len(list')
  BY <1>2, LenProperties
<1>4. ASSUME NEW u \in Timers, Armed(u), u # Head(list) PROVE Armed(u)'
  <2>1. PICK i \in 1..Len(list) : list[i] = u
    BY <1>1, <1>4 DEF Armed
  <2>2. i - 1 \in 1..Len(list') /\ (i - 1) + 1 = i
    BY <1>1, <1>2, <1>4, <2>1
  <2>3. list'[i - 1] = u
    BY <1>2, <2>1, <2>2
  <2> QED
    BY <1>3, <2>2, <2>3 DEF Armed
<1>5. ASSUME NEW u \in Timers, Armed(u) PROVE alarm[Head(list)] <= alarm[u]
  <2>1. PICK i \in 1..Len(list) : list[i] = u
    BY <1>1, <1>5 DEF Armed
  <2>2. CASE i = 1
    <3>1. u = Head(list) /\ alarm[u] \in Int
      BY <1>2, <2>1, <2>2 DEF TypeOK
    <3> QED
      BY <3>1
  <2>3. CASE i # 1
    <3>1. 1 \in DOMAIN list /\ i \in DOMAIN list /\ 1 < i
      BY <1>1, <2>1, <2>3
    <3> QED
      BY <1>2, <2>1, <3>1 DEF Sorted
  <2> QED
    BY <2>2, <2>3
<1> QED
  BY <1>4, <1>5

\* Nothing the service sees changes.
LEMMA EventsKept ==
    ASSUME Pending' = Pending,
           \A u \in Pending : alarm'[u] = alarm[u] /\ period'[u] = period[u]
    PROVE  Events' = Events
  BY DEF Events

\* A timer is no longer pending.
LEMMA EventsWithout ==
    ASSUME NEW t, Pending' = Pending \ {t},
           \A u \in Pending \ {t} : alarm'[u] = alarm[u] /\ period'[u] = period[u]
    PROVE  Events' = Service!Without(t)
  BY DEF Events, Service!Without, Service!Armed

\* A timer is pending, at a new time.
LEMMA EventsWith ==
    ASSUME NEW t, Pending' = Pending \cup {t},
           \A u \in Pending \ {t} : alarm'[u] = alarm[u] /\ period'[u] = period[u]
    PROVE  Events' = Service!With(t, alarm'[t], period'[t])
  BY DEF Events, Service!With, Service!Armed

\* The client's and the handler's own state is what InOrder is about.
LEMMA InOrderKept ==
    ASSUME InOrder, UNCHANGED <<client, alarm, list, now>>,
           \/ UNCHANGED handler
           \/ handler'.pc \in {"fetch", "start"} /\ handler.pc # "idle"
              /\ handler'.time = handler.time
           \/ handler'.pc = "idle"
    PROVE  InOrder'
<1>1. \A t : Armed(t)' <=> Armed(t)
  BY DEF Armed
<1> QED
  BY <1>1 DEF InOrder

\* Every step keeps the order.
LEMMA InOrderNext ==
    ASSUME Serialised, Core, InOrder, [Next]_vars, ~crossed'
    PROVE  InOrder'
<1>0. TypeOK /\ Held /\ Sorted /\ ClientsTimerFree /\ HandOff
  BY DEF Core, HandOff, ClientsTimerFree, Held
<1>1. ASSUME NEW t \in Timers, ClientInit(t) PROVE InOrder'
  BY <1>1 DEF ClientInit, ClientRuns, Serialised, InOrder
<1>2. ASSUME NEW t \in Timers, ClientCancel(t) PROVE InOrder'
  BY <1>2 DEF ClientCancel, ClientRuns, Serialised, InOrder
<1>3. ASSUME NEW t \in Timers, ClientDeinit(t) PROVE InOrder'
  BY <1>3 DEF ClientDeinit, ClientRuns, Serialised, InOrder
<1>4. ASSUME NEW t \in Timers, CallbackCancel(t) PROVE InOrder'
  BY <1>4 DEF CallbackCancel, Cancel, fields, history, InOrder
<1>5. ASSUME NEW r \in ClientRequests, NEW w \in now..MaxTime, ClientArm(r, w) PROVE InOrder'
  <2>1. /\ handler.pc = "idle" /\ UNCHANGED handler
        /\ client'.pc = "store" /\ client'.when = w
    BY <1>5 DEF ClientArm, ClientRuns, Serialised
  <2>2. w <= MaxTime
    BY <1>0, Constants DEF TypeOK
  <2> QED
    BY <2>1, <2>2 DEF InOrder
<1>6. ASSUME NEW r \in CallbackRequests, NEW w \in (now + 1)..MaxTime, CallbackArm(r, w)
      PROVE  InOrder'
  <2>1. handler.pc = "callback" /\ UNCHANGED <<handler, client, now>>
    BY <1>6 DEF CallbackArm
  <2>2. client.pc # "idle" => client.timer # r.timer /\ client.timer \in Timers
    <3>1. ~(client.pc # "idle" /\ client.timer = r.timer)
      BY <1>6, Zenon DEF CallbackArm
    <3> QED
      BY <1>0, <3>1 DEF TypeOK
  <2>3. client.pc # "idle" => alarm'[client.timer] = alarm[client.timer]
    BY <1>0, <1>6, <2>2 DEF CallbackArm, ListInsert, TypeOK
  <2> QED
    BY <2>1, <2>3 DEF InOrder
<1>7. CASE ClientStore
  <2>1. /\ handler.pc = "idle" /\ UNCHANGED handler
        /\ client.pc = "store" /\ client.timer \in Timers
    BY <1>0, <1>7 DEF ClientStore, ClientRuns, Serialised, TypeOK, history
  <2>2. /\ client'.when = client.when /\ client'.timer = client.timer
        /\ alarm'[client.timer] = client.when
    BY <1>0, <1>7, <2>1 DEF ClientStore, TypeOK
  <2> QED
    BY <2>1, <2>2 DEF InOrder
<1>8. CASE ClientInsert
  BY <1>8 DEF ClientInsert, ClientIdle, ClientRuns, Serialised, InOrder
<1>9. CASE Tick
  <2>1. now' = now + 1 /\ UNCHANGED <<list, alarm, client, handler>>
    BY <1>9 DEF Tick, fields, history
  <2>2. \A t : Armed(t)' <=> Armed(t)
    BY <2>1 DEF Armed
  <2>3. /\ handler.time \in Int /\ now \in Int
        /\ handler.pc = "reinsert" => alarm[handler.timer] \in Int
    BY <1>0, Constants DEF TypeOK
  <2>4. \A x \in Int : x <= now => x <= now'
    BY <2>1, <2>3
  <2> QED
    BY <2>1, <2>2, <2>3, <2>4 DEF InOrder
<1>10. CASE Expire
  BY <1>10, InOrderKept DEF Expire, fields, history
<1>11. CASE HandlerBegin
  <2>1. handler'.pc = "fetch" /\ handler'.time = now /\ UNCHANGED <<client, alarm, now>>
    BY <1>0, <1>11 DEF HandlerBegin, fields, history, TypeOK
  <2>2. now <= now
    BY <1>0, Constants DEF TypeOK
  <2> QED
    BY <2>1, <2>2 DEF InOrder
<1>12. CASE HandlerFetch
  <2> DEFINE t == Head(list)
  <2>1. /\ list # <<>> /\ list' = Tail(list) /\ alarm[t] <= handler.time
        /\ UNCHANGED <<client, alarm, now>> /\ handler.pc = "fetch"
    BY <1>12 DEF HandlerFetch, HeadDue, fields, history
  <2>2. /\ handler'.pc = "reinsert" => handler'.timer = t
        /\ handler'.time = handler.time
    BY <1>0, <1>12 DEF HandlerFetch, AfterInsert, TypeOK
  <2>3. /\ t \in Timers /\ \A u \in Timers : Armed(u)' => Armed(u)
        /\ \A u \in Timers : Armed(u) => alarm[t] <= alarm[u]
    BY <1>0, <2>1, FetchProperties, FetchKeepsOthers
  <2>4. alarm[t] \in Int /\ handler.time \in Int /\ now \in Int
    BY <1>0, <2>3, Constants DEF TypeOK
  <2> HIDE DEF t
  <2>5. handler.time <= now /\ alarm[t] <= now
    BY <2>1, <2>4 DEF InOrder
  <2> QED
    BY <2>1, <2>2, <2>3, <2>5 DEF InOrder
<1>13. CASE HandlerReinsert
  <2> DEFINE t == handler.timer
  <2>1. /\ handler.pc = "reinsert" /\ UNCHANGED <<client, now>>
        /\ handler'.pc # "reinsert" /\ handler'.time = handler.time
    BY <1>0, <1>13 DEF HandlerReinsert, AfterInsert, TypeOK
  <2>2. client.pc # "idle" => client.timer # t /\ client.timer \in Timers
    BY <1>0, <2>1 DEF HandOff, TypeOK, ClientsTimerFree, Held
  <2>3. client.pc # "idle" => alarm'[client.timer] = alarm[client.timer]
    BY <1>0, <1>13, <2>2 DEF HandlerReinsert, ListInsert, TypeOK
  <2> QED
    BY <2>1, <2>3 DEF InOrder
<1>14. CASE CallbackReturn
  BY <1>0, <1>14, InOrderKept DEF CallbackReturn, fields, history, TypeOK
<1>15. CASE HandlerGetNextSchedule
  BY <1>0, <1>15, InOrderKept DEF HandlerGetNextSchedule, fields, history, TypeOK
<1>16. CASE HandlerStart
  BY <1>16, InOrderKept DEF HandlerStart, HandlerIdle, fields, history
<1>17. CASE UNCHANGED vars
  BY <1>17, InOrderKept DEF vars, fields, history
<1> QED
  BY <1>1, <1>2, <1>3, <1>4, <1>5, <1>6, <1>7, <1>8, <1>9, <1>10, <1>11, <1>12,
     <1>13, <1>14, <1>15, <1>16, <1>17 DEF Next

\* A step that leaves the list and what is stored of the pending timers alone is
\* none of the service's.
LEMMA QuietService ==
    ASSUME UNCHANGED <<list, now>>, handler.pc # "reinsert", handler'.pc # "reinsert",
           \A u \in Timers : Armed(u) => alarm'[u] = alarm[u] /\ period'[u] = period[u]
    PROVE  UNCHANGED Service!vars
<1>1. \A u : Armed(u)' <=> Armed(u)
  BY DEF Armed
<1>2. Pending' = Pending /\ \A u \in Pending : Armed(u) /\ u \in Timers
  BY <1>1 DEF Pending
<1> QED
  BY <1>2, EventsKept DEF Service!vars

\* Deleting a timer cancels its event, if it has one.
LEMMA DeleteService ==
    ASSUME TypeOK, Sorted, NEW t \in Timers, ListDelete(t), handler.pc # "reinsert",
           UNCHANGED <<alarm, period, handler, now>>
    PROVE  Service!Cancel(t) \/ UNCHANGED Service!vars
<1>1. \A u \in Timers : Armed(u)' <=> Armed(u) /\ u # t
  BY DeleteProperties, DeleteKeepsOthers
<1>2. Pending' = Pending \ {t}
  BY <1>1 DEF Pending
<1>3. CASE Armed(t)
  <2>1. t \in Service!Armed
    BY <1>3 DEF Service!Armed, Events, Pending
  <2>2. Events' = Service!Without(t)
    BY <1>2, EventsWithout
  <2> QED
    BY <2>1, <2>2 DEF Service!Cancel
<1>4. CASE ~Armed(t)
  <2>1. Pending' = Pending
    BY <1>2, <1>4 DEF Pending
  <2> QED
    BY <2>1, EventsKept DEF Service!vars
<1> QED
  BY <1>3, <1>4

\* Linking an unarmed timer is arming it, within the tolerance of its class.
LEMMA InsertService ==
    ASSUME TypeOK, Sorted, NEW t \in Timers, ~Armed(t), NEW a \in 0..MaxTime,
           NEW tol \in {0, LowPowerTolerance}, ListInsert(t, a, tol),
           handler.pc # "reinsert", UNCHANGED <<handler, now>>,
           period'[t] \in Periods,
           \A u \in Timers : u # t => period'[u] = period[u]
    PROVE  Service!Arm(t)
<1>1. a \in Nat /\ tol \in Nat
  BY Constants
<1>2. /\ \A u \in Timers : Armed(u)' <=> (Armed(u) \/ u = t)
      /\ \A u \in Timers : u # t => alarm'[u] = alarm[u]
      /\ a <= alarm'[t] /\ alarm'[t] <= a + tol
  BY <1>1, InsertProperties
<1>3. alarm'[t] \in Int
  BY <1>1, InsertTypes
<1>4. alarm'[t] \in a..(a + tol)
  BY <1>1, <1>2, <1>3
<1>5. Pending' = Pending \cup {t} /\ t \notin Pending /\ Pending \subseteq Timers
  BY <1>2 DEF Pending
<1>6. Events' = Service!With(t, alarm'[t], period'[t])
  BY <1>2, <1>5, EventsWith
<1>7. t \notin Service!Armed /\ Service!Armed' = Service!Armed \cup {t}
  BY <1>5 DEF Service!Armed, Events
<1> QED
  BY <1>4, <1>6, <1>7 DEF Service!Arm

\* Taking a single-shot timer off the list is its event.
LEMMA FetchOnce ==
    ASSUME Core, InOrder, HandlerFetch, period[Head(list)] = Infinity
    PROVE  Service!Happen(Head(list))
<1> DEFINE t == Head(list)
<1>0. TypeOK /\ Sorted
  BY DEF Core
<1>1. /\ list # <<>> /\ list' = Tail(list) /\ alarm[t] <= handler.time
      /\ UNCHANGED <<alarm, period, now>> /\ handler.pc = "fetch"
  BY DEF HandlerFetch, HeadDue, fields, history
<1>2. handler'.pc # "reinsert"
  BY <1>0 DEF HandlerFetch, AfterInsert, TypeOK
<1>3. /\ t \in Timers /\ Armed(t)
      /\ \A u \in Timers : Armed(u)' <=> Armed(u) /\ u # t
      /\ \A u \in Timers : Armed(u) => alarm[t] <= alarm[u]
  <2>1. \A u \in Timers : Armed(u)' => Armed(u) /\ u # t
    BY <1>0, <1>1, FetchProperties DEF Armed
  <2> QED
    BY <1>0, <1>1, <2>1, FetchProperties, FetchKeepsOthers
<1>4. alarm[t] <= now
  <2>1. alarm[t] \in Int /\ handler.time \in Int /\ now \in Int
    BY <1>0, <1>3, Constants DEF TypeOK
  <2> QED
    BY <1>1, <2>1 DEF InOrder
<1>5. period[t] = Service!Infinity
  BY DEF Infinity, Service!Infinity
<1> HIDE DEF t
<1>6. Pending' = Pending \ {t} /\ t \in Pending /\ \A u \in Pending : u \in Timers /\ Armed(u)
  BY <1>1, <1>2, <1>3 DEF Pending
<1>7. Events' = Service!Without(t)
  BY <1>1, <1>6, EventsWithout
<1>8. /\ Service!Armed = Pending
      /\ \A u \in Pending : Events[u].at = alarm[u] /\ Events[u].period = period[u]
  BY DEF Service!Armed, Events
<1>9. Service!Happen(t)
  BY <1>1, <1>3, <1>4, <1>5, <1>6, <1>7, <1>8 DEF Service!Happen
<1> QED
  BY <1>9 DEF t

\* Taking a periodic one is none: it is still pending.
LEMMA FetchPeriodic ==
    ASSUME Core, HandlerFetch, period[Head(list)] # Infinity
    PROVE  UNCHANGED Service!vars
<1> DEFINE t == Head(list)
<1>0. TypeOK /\ Sorted
  BY DEF Core
<1>1. /\ list # <<>> /\ list' = Tail(list)
      /\ UNCHANGED <<alarm, period, now>> /\ handler.pc = "fetch"
  BY DEF HandlerFetch, HeadDue, fields, history
<1>2. handler'.pc = "reinsert" /\ handler'.timer = t
  BY <1>0 DEF HandlerFetch, TypeOK
<1>3. /\ t \in Timers /\ Armed(t)
      /\ \A u \in Timers : Armed(u)' => Armed(u)
      /\ \A u \in Timers : Armed(u) /\ u # t => Armed(u)'
  BY <1>0, <1>1, FetchProperties, FetchKeepsOthers
<1> HIDE DEF t
<1>4. Pending' = Pending
  BY <1>1, <1>2, <1>3 DEF Pending
<1> QED
  BY <1>1, <1>4, EventsKept DEF Service!vars

\* The re-insertion of a periodic timer is its event, and makes the next one pending.
LEMMA ReinsertService ==
    ASSUME Core, InOrder, HandlerReinsert
    PROVE  Service!Happen(handler.timer)
<1> DEFINE t == handler.timer
           a == alarm[t] + period[t]
<1>0. TypeOK /\ Held /\ Sorted /\ ClientsTimerFree /\ HandOff
  BY DEF Core, HandOff, ClientsTimerFree, Held
<1>1. /\ handler.pc = "reinsert" /\ ListInsert(t, a, tolerance[t])
      /\ UNCHANGED <<period, now>>
  BY DEF HandlerReinsert
<1>2. handler'.pc # "reinsert"
  BY <1>0 DEF HandlerReinsert, AfterInsert, TypeOK
<1>3. t \in Timers /\ ~Armed(t) /\ period[t] # Infinity /\ nominal[t] \in Nat /\ Timely(t)
  BY <1>0, <1>1 DEF ClientsTimerFree, HandOff, TypeOK, Held
<1>4. /\ period[t] \in Nat /\ tolerance[t] \in Nat /\ tolerance[t] <= LowPowerTolerance
      /\ alarm[t] \in Nat /\ a \in Nat
  <2>1. /\ period[t] \in Periods /\ tolerance[t] \in {0, LowPowerTolerance}
        /\ alarm[t] \in Int
    BY <1>0, <1>3 DEF TypeOK
  <2>2. period[t] \in Nat
    BY <1>3, <2>1, Constants
  <2>3. tolerance[t] \in Nat /\ tolerance[t] <= LowPowerTolerance
    BY <2>1, Constants
  <2>4. nominal[t] <= alarm[t]
    BY <1>3 DEF Timely
  <2> QED
    BY <1>3, <2>1, <2>2, <2>3, <2>4
<1>5. /\ \A u \in Timers : Armed(u)' <=> (Armed(u) \/ u = t)
      /\ \A u \in Timers : u # t => alarm'[u] = alarm[u]
      /\ a <= alarm'[t] /\ alarm'[t] <= a + tolerance[t]
  BY <1>0, <1>1, <1>3, <1>4, InsertProperties
<1>6. alarm'[t] \in Int
  <2>1. a \in Int /\ tolerance[t] \in Int
    BY <1>4
  <2> QED
    BY <1>0, <1>1, <1>3, <2>1, InsertTypes
<1>7. alarm'[t] \in a..(a + LowPowerTolerance)
  BY <1>4, <1>5, <1>6, Constants
<1>8. alarm[t] <= now /\ \A u \in Timers : Armed(u) => alarm[t] <= alarm[u]
  BY <1>1 DEF InOrder
<1>9. period[t] # Service!Infinity /\ alarm[t] <= alarm[t]
  BY <1>3, <1>4 DEF Infinity, Service!Infinity
<1>10. /\ Pending' = Pending \cup {t} /\ t \in Pending
       /\ \A u \in Pending : u \in Timers /\ (Armed(u) \/ u = t)
  BY <1>1, <1>2, <1>3, <1>5 DEF Pending
<1>11. Events' = Service!With(t, alarm'[t], period[t])
  BY <1>1, <1>5, <1>10, EventsWith
<1>12. /\ Service!Armed = Pending
       /\ \A u \in Pending : Events[u].at = alarm[u] /\ Events[u].period = period[u]
  BY DEF Service!Armed, Events
<1>13. \A u \in Pending : alarm[t] <= alarm[u]
  BY <1>8, <1>9, <1>10
<1>14. \E at \in (alarm[t] + period[t])..(alarm[t] + period[t] + LowPowerTolerance) :
         Events' = Service!With(t, at, period[t])
  BY <1>7, <1>11
<1> HIDE DEF t, a
<1>15. Service!Happen(t)
  BY <1>1, <1>8, <1>9, <1>10, <1>12, <1>13, <1>14 DEF Service!Happen
<1> QED
  BY <1>15 DEF t

\* Every step is one of the service's, or none.
LEMMA ServiceStep ==
    ASSUME Serialised, Core, InOrder, [Next]_vars
    PROVE  [Service!Next]_(Service!vars)
<1>0. TypeOK /\ Held /\ Sorted /\ ClientsTimerFree /\ HandOff
  BY DEF Core, HandOff, ClientsTimerFree, Held
<1>1. ASSUME NEW t \in Timers, ClientInit(t) PROVE UNCHANGED Service!vars
  <2>1. /\ ~Armed(t) /\ handler.pc = "idle" /\ UNCHANGED <<list, now, handler>>
        /\ \A u \in Timers : u # t => alarm'[u] = alarm[u] /\ period'[u] = period[u]
    BY <1>0, <1>1 DEF ClientInit, InitTimer, ClientRuns, Serialised, TypeOK
  <2> QED
    BY <2>1, QuietService
<1>2. ASSUME NEW t \in Timers, ClientCancel(t) \/ ClientDeinit(t) \/ CallbackCancel(t)
      PROVE  Service!Cancel(t) \/ UNCHANGED Service!vars
  <2>1. ListDelete(t) /\ handler.pc # "reinsert" /\ UNCHANGED <<alarm, period, handler, now>>
    BY <1>2 DEF ClientCancel, ClientDeinit, CallbackCancel, Cancel, Deinit, ClientRuns,
                Serialised, fields, history
  <2> QED
    BY <1>0, <2>1, DeleteService
<1>3. ASSUME NEW r \in ClientRequests, NEW w \in now..MaxTime, ClientArm(r, w)
      PROVE  UNCHANGED Service!vars
  BY <1>3, QuietService DEF ClientArm, ClientRuns, Serialised, fields, history
<1>4. ASSUME NEW r \in CallbackRequests, NEW w \in (now + 1)..MaxTime, CallbackArm(r, w)
      PROVE  r.timer \in Timers /\ Service!Arm(r.timer)
  <2> DEFINE t == r.timer
             tol == sid_pal_timer_get_tolerance[r.class]
  <2>1. /\ t \in Timers /\ tol \in {0, LowPowerTolerance} /\ r.period \in Periods
        /\ w \in 0..MaxTime
    <3>1. r.timer \in Timers /\ r.class \in Classes /\ r.period \in Periods
      BY TimerAssumption DEF Requests, Periods
    <3>2. w \in 0..MaxTime
      BY <1>0, Constants DEF TypeOK
    <3> QED
      BY <3>1, <3>2, Constants
  <2>2. /\ handler.pc = "callback" /\ ~Armed(t) /\ ListInsert(t, w, tol)
        /\ UNCHANGED <<handler, now>>
    BY <1>4 DEF CallbackArm
  <2>3. /\ period'[t] \in Periods
        /\ \A u \in Timers : u # t => period'[u] = period[u]
    BY <1>0, <1>4, <2>1 DEF CallbackArm, TypeOK
  <2> HIDE DEF t, tol
  <2>4. t \in Timers /\ Service!Arm(t)
    BY <1>0, <2>1, <2>2, <2>3, InsertService
  <2> QED
    BY <2>4 DEF t
<1>5. CASE ClientStore
  <2> DEFINE t == client.timer
  <2>1. /\ handler.pc = "idle" /\ UNCHANGED <<list, handler, now>>
        /\ t \in Timers /\ ~Armed(t)
    BY <1>0, <1>5 DEF ClientStore, ClientRuns, Serialised, TypeOK, ClientsTimerFree, HandOff, Held
  <2>2. \A u \in Timers : u # t => alarm'[u] = alarm[u] /\ period'[u] = period[u]
    BY <1>0, <1>5 DEF ClientStore, TypeOK
  <2> QED
    BY <2>1, <2>2, QuietService
<1>6. ASSUME ClientInsert PROVE client.timer \in Timers /\ Service!Arm(client.timer)
  <2> DEFINE t == client.timer
  <2>1. /\ handler.pc = "idle" /\ client.pc = "insert" /\ UNCHANGED <<handler, now, period>>
        /\ ListInsert(t, alarm[t], tolerance[t])
    BY <1>6 DEF ClientInsert, ClientRuns, Serialised
  <2>2. t \in Timers /\ ~Armed(t) /\ alarm[t] \in Nat /\ alarm[t] <= MaxTime
    BY <1>0, <2>1 DEF TypeOK, ClientsTimerFree, HandOff, InOrder, Held
  <2>3. alarm[t] \in 0..MaxTime
    BY <2>2, Constants
  <2>4. tolerance[t] \in {0, LowPowerTolerance} /\ period'[t] \in Periods
    BY <1>0, <2>1, <2>2 DEF TypeOK
  <2>5. handler.pc # "reinsert" /\ \A u \in Timers : u # t => period'[u] = period[u]
    BY <2>1
  <2> HIDE DEF t
  <2>6. Service!Arm(t)
    BY <1>0, <2>1, <2>2, <2>3, <2>4, <2>5, InsertService
  <2> QED
    BY <2>2, <2>6 DEF t
<1>7. CASE Tick
  <2>1. now < MaxTime /\ now' = now + 1 /\ UNCHANGED <<list, alarm, period, handler>>
    BY <1>7 DEF Tick, fields, history
  <2>2. Pending' = Pending
    BY <2>1 DEF Pending, Armed
  <2>3. Events' = Events
    BY <2>1, <2>2, EventsKept
  <2> QED
    BY <2>1, <2>3 DEF Service!Tick, Service!Next
<1>8. CASE Expire \/ CallbackReturn \/ HandlerBegin \/ HandlerGetNextSchedule \/ HandlerStart
  <2>1. UNCHANGED <<list, now, alarm, period>>
    BY <1>8 DEF Expire, CallbackReturn, HandlerBegin, HandlerGetNextSchedule, HandlerStart,
                fields, history
  <2>2. \/ UNCHANGED handler
        \/ handler.pc # "reinsert" /\ handler'.pc # "reinsert"
    <3>1. CASE Expire
      BY <3>1 DEF Expire
    <3>2. CASE CallbackReturn
      BY <1>0, <3>2 DEF CallbackReturn, TypeOK
    <3>3. CASE HandlerBegin
      BY <1>0, <3>3 DEF HandlerBegin, TypeOK
    <3>4. CASE HandlerGetNextSchedule
      BY <1>0, <3>4 DEF HandlerGetNextSchedule, TypeOK
    <3>5. CASE HandlerStart
      BY <3>5 DEF HandlerStart, HandlerIdle
    <3> QED
      BY <1>8, <3>1, <3>2, <3>3, <3>4, <3>5
  <2>3. Pending' = Pending
    BY <2>1, <2>2 DEF Pending, Armed
  <2> QED
    BY <2>1, <2>3, EventsKept DEF Service!vars
<1>9. CASE HandlerFetch
  <2>1. Head(list) \in Timers
    BY <1>0, <1>9 DEF HandlerFetch, HeadDue, TypeOK
  <2> QED
    BY <1>9, <2>1, FetchOnce, FetchPeriodic DEF Service!Next
<1>10. CASE HandlerReinsert
  <2>1. handler.timer \in Timers
    BY <1>0, <1>10 DEF HandlerReinsert, TypeOK
  <2> QED
    BY <1>10, <2>1, ReinsertService DEF Service!Next
<1>11. CASE UNCHANGED vars
  <2>1. UNCHANGED <<list, now, alarm, period, handler>>
    BY <1>11 DEF vars, fields, history
  <2>2. Pending' = Pending
    BY <2>1 DEF Pending, Armed
  <2> QED
    BY <2>1, <2>2, EventsKept DEF Service!vars
<1> QED
  BY <1>1, <1>2, <1>3, <1>4, <1>5, <1>6, <1>7, <1>8, <1>9, <1>10, <1>11
     DEF Next, Service!Next

\* sid_timer.c implements what sid_pal_timer_ifc.h promises: until a callback arms a timer
\* the client is arming, the steps of the client, the kernel timer and the handler are
\* those of a set of pending events that happen in order and not before their time, delayed
\* by no more than the tolerance.
THEOREM TimerImplementsService ==
    ASSUME Serialised
    PROVE  Spec => ImplementsService
<1> DEFINE Inv == IInv /\ (crossed \/ InOrder)
<1>1. Init => Inv /\ Service!Init
  <2> SUFFICES ASSUME Init PROVE IInv /\ InOrder /\ Service!Init
    OBVIOUS
  <2>1. IInv
    BY CoreInit DEF IInv, Core
  <2>2. InOrder
    BY DEF Init, ClientIdle, HandlerIdle, InOrder
  <2>3. Pending = {}
    BY DEF Init, HandlerIdle, Pending, Armed
  <2>4. Service!Init
    BY <2>3 DEF Init, Service!Init, Events
  <2> QED
    BY <2>1, <2>2, <2>4
<1>2. Inv /\ [Next]_vars => (~crossed' => Core /\ InOrder)
  BY CrossedStays DEF IInv, Core
<1>3. Inv /\ [Next]_vars => Inv'
  BY <1>2, IInvNext, InOrderNext
<1>4. Inv /\ [Next]_vars => [Service!Next \/ crossed']_(Service!vars)
  BY <1>2, ServiceStep
<1> HIDE DEF Inv
<1> QED
  BY <1>1, <1>3, <1>4, PTL DEF Spec, ImplementsService
=============================================================================
