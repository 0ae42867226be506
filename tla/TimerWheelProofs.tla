-------------------------- MODULE TimerWheelProofs --------------------------
(***************************************************************************)
(* Proofs about TimerWheel, for every size of the wheel, every number of   *)
(* levels, every interval and any number of timers.                        *)
(*                                                                         *)
(*   1. TypeOK, CascadesDown and NotEarly hold of every wheel, whatever    *)
(*      timeouts are asked for.  They follow from WheelInv, whose heart is *)
(*      Timely: a node's deadline is bounded, level by level, by how far   *)
(*      the hands still have to go before they reach its slot.             *)
(*   2. MapAgrees and AlwaysDefined hold as long as every timeout fits on  *)
(*      level 0, as the server's 60000 ms on 1000 slots of 1000 ms do:     *)
(*      a node that meets a cascade takes the map and the list along       *)
(*      (CascadeDue, CascadeAhead).                                        *)
(***************************************************************************)
EXTENDS TimerWheel, Induction

-----------------------------------------------------------------------------
(* Arithmetic. *)

(* A quotient and its remainder. *)
LEMMA DivFacts ==
    ASSUME NEW a \in Nat, NEW n \in Nat \ {0}
    PROVE  /\ a \div n \in Nat
           /\ (a \div n) * n <= a
           /\ a < (a \div n + 1) * n
<1> DEFINE q == a \div n
<1> DEFINE r == a % n
<1>1. q \in Int /\ r \in 0..n - 1 /\ a = n * q + r
  OBVIOUS
<1>2. q \in Nat
  OBVIOUS
<1> HIDE DEF q, r
<1>3. q * n <= a /\ a < (q + 1) * n
  BY <1>1, <1>2
<1> QED
  BY <1>2, <1>3 DEF q

(* The hand moves on by less than a turn. *)
LEMMA ModFacts ==
    ASSUME NEW n \in Nat \ {0}, NEW a \in 0..n - 1, NEW b \in 0..n
    PROVE  /\ (a + b) % n \in 0..n - 1
           /\ a + b < n => (a + b) % n = a + b
           /\ a + b >= n /\ b < n => (a + b) % n = a + b - n
<1>1. (a + b) % n \in 0..n - 1
  OBVIOUS
<1>2. a + b < n => (a + b) % n = a + b
  OBVIOUS
<1>3. a + b >= n /\ b < n => (a + b) % n = a + b - n
  OBVIOUS
<1> QED
  BY <1>1, <1>2, <1>3

(* A product with a larger factor is larger. *)
LEMMA TimesFacts ==
    ASSUME NEW n \in Nat, NEW i \in Int, NEW j \in Int
    PROVE  /\ i <= j => i * n <= j * n
           /\ (i - j) * n = i * n - j * n
           /\ i * n \in Int
<1>1. i <= j => i * n <= j * n
  <2> SUFFICES ASSUME i <= j PROVE i * n <= j * n
    OBVIOUS
  <2> DEFINE d == j - i
  <2>1. d \in Nat /\ j = i + d
    OBVIOUS
  <2> HIDE DEF d
  <2>2. d * n \in Nat
    BY <2>1
  <2>3. j * n = i * n + d * n
    BY <2>1
  <2> QED
    BY <2>2, <2>3
<1> QED
  BY <1>1

-----------------------------------------------------------------------------
(* Slots. *)

(* Every node once. *)
NoDup(q) == \A i, j \in DOMAIN q : q[i] = q[j] => i = j

(* Erasing a node leaves the other ones, each once. *)
LEMMA DropFacts ==
    ASSUME NEW S, NEW q \in Seq(S), NEW e
    PROVE  /\ Drop(q, e) \in Seq(S)
           /\ Members(Drop(q, e)) \subseteq Members(q)
           /\ Members(q) \ {e} \subseteq Members(Drop(q, e))
           /\ NoDup(q) => NoDup(Drop(q, e)) /\ e \notin Members(Drop(q, e))
<1>1. CASE e \in Members(q)
  <2> DEFINE i == CHOOSE i \in DOMAIN q : q[i] = e
  <2>1. i \in 1..Len(q) /\ q[i] = e
    BY <1>1 DEF Members
  <2>2. Drop(q, e) = [j \in 1..Len(q) - 1 |-> IF j < i THEN q[j] ELSE q[j + 1]]
    BY <1>1 DEF Drop
  <2>3. Len(q) - 1 \in Nat /\ DOMAIN q = 1..Len(q)
    BY <2>1
  <2> HIDE DEF i
  <2>4. \A j \in 1..Len(q) - 1 : Drop(q, e)[j] \in S
    BY <2>1, <2>2
  <2>5. Drop(q, e) \in Seq(S)
    BY <2>2, <2>3, <2>4
  <2>6. Members(Drop(q, e)) \subseteq Members(q)
    BY <2>1, <2>2, <2>3 DEF Members
  <2>7. ASSUME NEW x \in Members(q) \ {e} PROVE x \in Members(Drop(q, e))
    <3>1. PICK k \in 1..Len(q) : q[k] = x /\ k # i
      BY <2>1, <2>3, <2>7 DEF Members
    <3>2. CASE k < i
      <4>1. k \in 1..Len(q) - 1 /\ Drop(q, e)[k] = x
        BY <2>1, <2>2, <3>1, <3>2
      <4> QED
        BY <2>2, <4>1 DEF Members
    <3>3. CASE ~(k < i)
      <4>1. k - 1 \in 1..Len(q) - 1 /\ Drop(q, e)[k - 1] = x
        BY <2>1, <2>2, <3>1, <3>3
      <4> QED
        BY <2>2, <4>1 DEF Members
    <3> QED
      BY <3>2, <3>3
  <2>8. ASSUME NoDup(q) PROVE NoDup(Drop(q, e)) /\ e \notin Members(Drop(q, e))
    <3>1. PICK f : f = Drop(q, e)
      OBVIOUS
    <3>2. DOMAIN f = 1..Len(q) - 1
      BY <2>2, <3>1
    <3>3. \A j \in 1..Len(q) - 1 : \E k \in DOMAIN q \ {i} :
              f[j] = q[k] /\ k = IF j < i THEN j ELSE j + 1
      BY <2>1, <2>2, <2>3, <3>1
    <3>4. \A j \in 1..Len(q) - 1 : f[j] # e
      BY <2>1, <2>3, <2>8, <3>3 DEF NoDup
    <3>5. \A j, k \in 1..Len(q) - 1 : f[j] = f[k] => j = k
      BY <2>1, <2>3, <2>8, <3>3 DEF NoDup
    <3> QED
      BY <3>1, <3>2, <3>4, <3>5 DEF NoDup, Members
  <2> QED
    BY <2>5, <2>6, <2>7, <2>8
<1>2. CASE e \notin Members(q)
  BY <1>2 DEF Drop
<1> QED
  BY <1>1, <1>2

(* A node at the end of a slot. *)
LEMMA PushFacts ==
    ASSUME NEW S, NEW q \in Seq(S), NEW e \in S
    PROVE  /\ Append(q, e) \in Seq(S)
           /\ Members(Append(q, e)) = Members(q) \cup {e}
           /\ NoDup(q) /\ e \notin Members(q) => NoDup(Append(q, e))
<1>1. /\ Append(q, e) \in Seq(S)
      /\ DOMAIN Append(q, e) = DOMAIN q \cup {Len(q) + 1}
      /\ Len(q) + 1 \notin DOMAIN q
      /\ \A i \in DOMAIN q : Append(q, e)[i] = q[i]
      /\ Append(q, e)[Len(q) + 1] = e
  OBVIOUS
<1> QED
  BY <1>1 DEF Members, NoDup

(* A product is smaller only if its factor is. *)
LEMMA LessTimes ==
    ASSUME NEW n \in Nat \ {0}, NEW i \in Int, NEW j \in Int, i * n < j * n
    PROVE  i < j
<1> SUFFICES ASSUME j <= i PROVE FALSE
  OBVIOUS
<1>1. j * n <= i * n /\ i * n \in Int /\ j * n \in Int
  BY TimesFacts
<1> QED
  BY <1>1

(* What every step of the proof needs of the constants. *)
LEMMA Sizes ==
    /\ Slots \in Nat \ {0} /\ Interval \in Nat \ {0} /\ Levels \in Nat \ {0}
    /\ 0 \in Level /\ 0 \in Slot
    /\ Level = 0..Levels - 1 /\ Level \subseteq Nat /\ Slot \subseteq Nat
    /\ MaxTimers \in Nat /\ MaxResets \in Nat /\ MaxGap \in Nat /\ MaxLate \in Nat
    /\ Usages \subseteq SUBSET Nat /\ Ids \subseteq Nat
BY TimerConstants DEF Level, Slot, Ids

(* The distances of add_timer exist, one for each level. *)
LEMMA AwayFacts ==
    ASSUME TypeOK, NEW t \in Nat
    PROVE  /\ Away(t) \in [0..Levels -> Nat]
           /\ Away(t)[0] = t
           /\ \A k \in 0..Levels - 1 : Away(t)[k + 1] = (Away(t)[k] + curSlot[k]) \div Slots
<1> DEFINE Next1(f, k) == (f[k] + curSlot[k]) \div Slots
<1> DEFINE Body(f) == [l \in 0..Levels |-> IF l = 0 THEN t ELSE Next1(f, l - 1)]
<1> DEFINE F == [0..Levels -> Nat]
<1> DEFINE K == {n \in Nat : n <= Levels =>
                    \E f \in F : f[0] = t /\ \A k \in 0..n - 1 : f[k + 1] = Next1(f, k)}
<1>1. \A k \in 0..Levels - 1 : \A x \in Nat : (x + curSlot[k]) \div Slots \in Nat
  <2> TAKE k \in 0..Levels - 1
  <2> TAKE x \in Nat
  <2>1. curSlot[k] \in Nat
    BY Sizes DEF TypeOK
  <2>2. x + curSlot[k] \in Nat
    BY <2>1
  <2> QED
    BY <2>2, Sizes, DivFacts
<1>2. 0 \in K
  <2>1. PICK f : f = [l \in 0..Levels |-> t]
    OBVIOUS
  <2>2. f \in F /\ f[0] = t /\ \A k \in 0..0 - 1 : f[k + 1] = Next1(f, k)
    BY <2>1, Sizes
  <2> QED
    BY <2>2
<1>3. ASSUME NEW n \in Nat, n \in K PROVE n + 1 \in K
  <2> DEFINE Good(n1) == \E f \in F : f[0] = t /\ \A k \in 0..n1 - 1 : f[k + 1] = Next1(f, k)
  <2>0. n + 1 \in Nat /\ K = {n1 \in Nat : n1 <= Levels => Good(n1)}
    OBVIOUS
  <2> HIDE DEF Good
  <2> SUFFICES ASSUME n + 1 <= Levels PROVE Good(n + 1)
    BY <2>0
  <2> USE DEF Good
  <2>1. PICK f \in F : f[0] = t /\ \A k \in 0..n - 1 : f[k + 1] = Next1(f, k)
    BY <1>3, Sizes
  <2>2. n \in 0..Levels - 1 /\ n \in 0..Levels /\ n + 1 \in 0..Levels
    BY Sizes
  <2>3. f[n] \in Nat
    BY <2>1, <2>2
  <2>4. PICK v \in Nat : v = Next1(f, n)
    BY <1>1, <2>2, <2>3
  <2>5. PICK g : g = [f EXCEPT ![n + 1] = v]
    OBVIOUS
  <2>6. g \in F /\ \A x \in 0..Levels : g[x] = IF x = n + 1 THEN v ELSE f[x]
    BY <2>1, <2>2, <2>4, <2>5
  <2>7. g[0] = t
    BY <2>1, <2>6, Sizes
  <2>8. ASSUME NEW k \in 0..(n + 1) - 1 PROVE g[k + 1] = Next1(g, k)
    <3>1. k \in 0..Levels /\ k + 1 \in 0..Levels /\ k # n + 1
      BY <2>2, Sizes
    <3>4. g[k] = f[k]
      BY <2>6, <3>1
    <3>2. CASE k = n
      BY <2>4, <2>6, <3>1, <3>2, <3>4
    <3>3. CASE k # n
      <4>1. k \in 0..n - 1
        BY <3>3
      <4>2. f[k + 1] = Next1(f, k) /\ g[k + 1] = f[k + 1]
        BY <2>1, <2>6, <3>1, <3>3, <4>1
      <4> QED
        BY <3>4, <4>2
    <3> QED
      BY <3>2, <3>3
  <2> QED
    BY <2>6, <2>7, <2>8
<1> HIDE DEF K
<1>4. Levels \in K
  BY <1>2, <1>3, NatInd, Sizes
<1> USE DEF K
<1>5. \E f : f = Body(f)
  <2> HIDE DEF Next1, F
  <2>0. Levels <= Levels
    BY Sizes
  <2>1. PICK f \in F : f[0] = t /\ \A k \in 0..Levels - 1 : f[k + 1] = Next1(f, k)
    BY <1>4, <2>0
  <2> USE DEF Next1, F
  <2>2. \A l \in 0..Levels : f[l] = IF l = 0 THEN t ELSE Next1(f, l - 1)
    <3> TAKE l \in 0..Levels
    <3>1. l # 0 => l - 1 \in 0..Levels - 1 /\ (l - 1) + 1 = l
      BY Sizes
    <3> QED
      BY <2>1, <3>1
  <2>3. f = [l \in 0..Levels |-> f[l]]
    BY <2>1
  <2> QED
    BY <2>2, <2>3
<1> DEFINE g == CHOOSE f : f = Body(f)
<1>6. g = Body(g)
  BY <1>5
<1>7. Away(t) = g
  BY DEF Away
<1> HIDE DEF g
<1>8. /\ DOMAIN g = 0..Levels /\ g[0] = t
      /\ \A k \in 0..Levels - 1 : g[k + 1] = Next1(g, k)
  <2>1. 0 \in 0..Levels /\ \A k \in 0..Levels - 1 : k + 1 \in 0..Levels /\ k + 1 # 0 /\ (k + 1) - 1 = k
    BY Sizes
  <2>2. DOMAIN g = 0..Levels
    BY <1>6
  <2>3. \A l \in 0..Levels : g[l] = IF l = 0 THEN t ELSE Next1(g, l - 1)
    BY <1>6
  <2> QED
    BY <2>1, <2>2, <2>3
<1>9. \A n \in Nat : n <= Levels => g[n] \in Nat
  <2> DEFINE J == {n \in Nat : n <= Levels => g[n] \in Nat}
  <2>1. 0 \in J
    BY <1>8
  <2>2. ASSUME NEW n \in Nat, n \in J PROVE n + 1 \in J
    <3> SUFFICES ASSUME n + 1 <= Levels PROVE g[n + 1] \in Nat
      OBVIOUS
    <3>1. n \in 0..Levels - 1 /\ g[n] \in Nat
      BY <2>2, Sizes
    <3> QED
      BY <1>1, <1>8, <3>1
  <2> HIDE DEF J
  <2>3. Nat \subseteq J
    BY <2>1, <2>2, NatInd
  <2> QED
    BY <2>3 DEF J
<1>10. \A k \in 0..Levels : g[k] \in Nat
  BY <1>9, Sizes
<1>11. g = [k \in 0..Levels |-> g[k]]
  BY <1>6
<1>12. g \in [0..Levels -> Nat]
  BY <1>10, <1>11
<1> HIDE DEF K
<1> QED
  BY <1>7, <1>8, <1>12

(* Where its loop ends. *)
LEMMA LevelFacts ==
    ASSUME TypeOK, NEW t \in Nat
    PROVE  /\ LevelFor(t) \in 0..Levels
           /\ LevelFor(t) = Levels \/ Away(t)[LevelFor(t)] < Slots
           /\ \A k \in 0..LevelFor(t) - 1 : Away(t)[k] >= Slots
<1> DEFINE T == {l \in 0..Levels : l = Levels \/ Away(t)[l] < Slots}
<1>1. Levels \in T
  BY Sizes
<1>2. PICK l \in T : \A m \in T : l <= m
  <2>1. T \subseteq Nat /\ T # {}
    BY <1>1
  <2> HIDE DEF T
  <2> QED
    BY <2>1, Least
<1>3. ASSUME NEW k \in 0..l - 1 PROVE Away(t)[k] >= Slots
  <2>1. k \in 0..Levels /\ k \notin T
    BY <1>2, Sizes
  <2>2. Away(t)[k] \in Nat
    BY <2>1, AwayFacts
  <2> QED
    BY <2>1, <2>2, Sizes
<1>4. \E x \in 0..Levels : /\ x = Levels \/ Away(t)[x] < Slots
                           /\ \A k \in 0..x - 1 : Away(t)[k] >= Slots
  BY <1>2, <1>3
<1> QED
  BY <1>4 DEF LevelFor

(* How far a deadline a beyond m_cur_time can be, of a node in slot s of level
   l: with the hands at c and n turns still to be made, q[k] bounds the slots
   of level k that are left, and the hand of its level comes to the slot in d
   steps.  Level j has come round and the level above has not moved yet;
   e says whether the hand of level l is at a slot that is being served. *)
Due(c, n, j, e, l, s, a) ==
    a > 0 =>
        \E q \in [0..l -> Int], d \in e..e + Slots - 1 :
            /\ a < (q[0] - n + 1) * Interval
            /\ \A k \in 0..l - 1 :
                   q[k] + c[k] < (q[k + 1] + (IF k = j THEN 0 ELSE 1)) * Slots
            /\ q[l] <= d
            /\ c[l] + d = s \/ c[l] + d = s + Slots

(* The two ranges of d. *)
LEMMA Ranges == /\ 0..0 + Slots - 1 = 0..Slots - 1
                /\ 1..1 + Slots - 1 = 1..Slots
BY Sizes

(* Where a timer is put. *)
LEMMA PlaceFacts ==
    ASSUME TypeOK, NEW t \in Nat, Fits(t)
    PROVE  \E l \in Level, s \in Slot, k \in 0..Slots - 1 :
               /\ l = LevelFor(t) /\ k = Away(t)[l] /\ s = (curSlot[l] + k) % Slots
               /\ Place(t) = [level |-> l, slot |-> s]
               /\ l # 0 => k # 0
<1>1. PICK l : l = LevelFor(t)
  OBVIOUS
<1>2. l \in Level /\ l \in 0..Levels
  BY <1>1, LevelFacts, Sizes DEF Fits
<1>3. PICK k \in Nat : k = Away(t)[l]
  BY <1>2, AwayFacts
<1>4. k \in 0..Slots - 1
  <2>1. l # Levels /\ (l = Levels \/ Away(t)[l] < Slots)
    <3>1. l # Levels
      BY <1>2, Sizes
    <3>2. l = Levels \/ Away(t)[l] < Slots
      BY <1>1, LevelFacts
    <3> QED
      BY <3>1, <3>2
  <2> QED
    BY <1>3, <2>1, Sizes
<1>5. curSlot[l] \in 0..Slots - 1
  BY <1>2, Sizes DEF TypeOK, Slot
<1>6. (curSlot[l] + k) % Slots \in Slot
  <2>1. k \in 0..Slots
    BY <1>4, Sizes
  <2> QED
    BY <1>5, <2>1, Sizes, ModFacts DEF Slot
<1>7. ASSUME l # 0 PROVE k # 0
  <2>1. l - 1 \in 0..l - 1 /\ l - 1 \in 0..Levels - 1 /\ (l - 1) + 1 = l
    BY <1>2, <1>7, Sizes
  <2>2. PICK x \in Nat : x = Away(t)[l - 1] /\ x >= Slots
    <3>1. Away(t)[l - 1] >= Slots
      BY <1>1, <2>1, LevelFacts
    <3>2. l - 1 \in 0..Levels
      BY <2>1, Sizes
    <3>3. Away(t)[l - 1] \in Nat
      BY <3>2, AwayFacts
    <3> QED
      BY <3>1, <3>3
  <2>h. PICK h \in Nat : h = curSlot[l - 1]
    <3>1. l - 1 \in Level
      BY <2>1, Sizes
    <3> QED
      BY <3>1, Sizes DEF TypeOK
  <2>3. PICK y \in Nat : y = x + h
    OBVIOUS
  <2>4. y >= Slots
    BY <2>2, <2>3, Sizes
  <2>5. k = y \div Slots
    BY <1>3, <2>1, <2>2, <2>h, <2>3, AwayFacts
  <2>6. y < (k + 1) * Slots
    BY <2>5, Sizes, DivFacts
  <2>7. (0 + 1) * Slots = Slots
    BY Sizes
  <2> QED
    BY <2>4, <2>6, <2>7, Sizes
<1>8. Place(t) = [level |-> l, slot |-> (curSlot[l] + k) % Slots]
  BY <1>1, <1>3 DEF Place
<1> QED
  BY <1>1, <1>2, <1>3, <1>4, <1>6, <1>7, <1>8

(* A timer just placed. *)
LEMMA DueNew ==
    ASSUME TypeOK, NEW t \in Nat, NEW l \in Level, l = LevelFor(t \div Interval),
           NEW k \in 0..Slots - 1, k = Away(t \div Interval)[l], l # 0 => k # 0,
           NEW s, s = (curSlot[l] + k) % Slots
    PROVE  Due(curSlot, 0, Levels, 1, l, s, t)
<1>1. PICK u \in Nat : u = t \div Interval /\ t < (u + 1) * Interval
  BY Sizes, DivFacts
<1>2. l \in 0..Levels - 1 /\ 0..l \subseteq 0..Levels
  BY Sizes
<1>3. PICK q : q = [i \in 0..l |-> Away(u)[i]]
  OBVIOUS
<1>4. \A i \in 0..l : q[i] = Away(u)[i] /\ q[i] \in Nat
  BY <1>2, <1>3, AwayFacts
<1>5. q \in [0..l -> Int]
  BY <1>3, <1>4
<1>6. ASSUME NEW i \in 0..l - 1
      PROVE  q[i] + curSlot[i] < (q[i + 1] + (IF i = Levels THEN 0 ELSE 1)) * Slots
  <2>1. i \in 0..Levels - 1 /\ i \in 0..l /\ i + 1 \in 0..l /\ i # Levels /\ i \in Level
    BY <1>2, Sizes
  <2>5. curSlot[i] \in Nat /\ q[i] \in Nat
    BY <1>4, <2>1, Sizes DEF TypeOK
  <2>2. PICK y \in Nat : y = q[i] + curSlot[i]
    BY <2>5
  <2>3. q[i + 1] = y \div Slots
    BY <1>4, <2>1, <2>2, AwayFacts
  <2>4. y < (q[i + 1] + 1) * Slots
    BY <2>3, Sizes, DivFacts
  <2> QED
    BY <2>1, <2>2, <2>4
<1>7. 0 \in 0..l /\ l \in 0..l
  BY <1>2
<1>8. q[0] = u /\ q[l] = k
  BY <1>1, <1>4, <1>7, AwayFacts
<1>9. t < (q[0] - 0 + 1) * Interval
  BY <1>1, <1>8
<1>h. PICK h \in Slot : h = curSlot[l]
  BY Sizes DEF TypeOK
<1>10. h \in 0..Slots - 1 /\ k \in 0..Slots /\ k < Slots
  BY Sizes DEF Slot
<1>11. (h + k < Slots => s = h + k) /\ (h + k >= Slots => s = h + k - Slots)
  <2>1. /\ h + k < Slots => (h + k) % Slots = h + k
        /\ h + k >= Slots => (h + k) % Slots = h + k - Slots
    BY <1>10, Sizes, ModFacts
  <2> QED
    BY <1>h, <2>1
<1>12. PICK d \in 1..Slots : k <= d /\ (h + d = s \/ h + d = s + Slots)
  <2>1. CASE k = 0
    <3>1. Slots \in 1..Slots /\ k <= Slots /\ h + Slots = s + Slots
      BY <1>10, <1>11, <2>1, Sizes
    <3> QED
      BY <3>1
  <2>2. CASE k # 0
    <3>1. k \in 1..Slots /\ k <= k /\ (h + k = s \/ h + k = s + Slots)
      BY <1>10, <1>11, <2>2, Sizes
    <3> QED
      BY <3>1
  <2> QED
    BY <2>1, <2>2
<1>13. d \in 1..1 + Slots - 1 /\ q[l] <= d /\ (curSlot[l] + d = s \/ curSlot[l] + d = s + Slots)
  BY <1>8, <1>h, <1>12, Ranges
<1> QED
  BY <1>5, <1>6, <1>9, <1>13 DEF Due

(* The time since the last tick() becomes turns. *)
LEMMA DueTick ==
    ASSUME NEW c, NEW j, NEW e \in {0, 1}, NEW l \in Level, NEW s, NEW a \in Int, NEW x \in Nat,
           Due(c, 0, j, e, l, s, a)
    PROVE  Due(c, x \div Interval, j, e, l, s, Late(a - x))
<1> SUFFICES ASSUME Late(a - x) > 0 PROVE Due(c, x \div Interval, j, e, l, s, Late(a - x))
  BY DEF Due
<1>1. Late(a - x) = a - x /\ a > 0
  BY Sizes DEF Late
<1>2. PICK n \in Nat : n = x \div Interval /\ n * Interval <= x
  BY Sizes, DivFacts
<1>3. PICK q \in [0..l -> Int], d \in e..e + Slots - 1 :
          /\ a < (q[0] - 0 + 1) * Interval
          /\ \A k \in 0..l - 1 :
                 q[k] + c[k] < (q[k + 1] + (IF k = j THEN 0 ELSE 1)) * Slots
          /\ q[l] <= d
          /\ c[l] + d = s \/ c[l] + d = s + Slots
  BY <1>1 DEF Due
<1>4. a - x < (q[0] - n + 1) * Interval
  <2>1. PICK y \in Int : y = q[0] + 1
    BY Sizes
  <2>2. q[0] - 0 + 1 = y /\ q[0] - n + 1 = y - n
    BY <2>1, Sizes
  <2>3. (y - n) * Interval = y * Interval - n * Interval /\ y * Interval \in Int
        /\ n * Interval \in Int
    BY Sizes, TimesFacts
  <2>4. a < y * Interval
    BY <1>3, <2>2
  <2>5. a - x < y * Interval - n * Interval
    BY <1>2, <2>3, <2>4
  <2> QED
    BY <2>2, <2>3, <2>5
<1> QED
  BY <1>1, <1>2, <1>3, <1>4 DEF Due

(* The slot under the hand is done with. *)
LEMMA DuePassed ==
    ASSUME NEW c, NEW n, NEW j, NEW l, NEW s \in Slot, NEW a, c[l] \in Slot, c[l] # s,
           Due(c, n, j, 0, l, s, a)
    PROVE  Due(c, n, j, 1, l, s, a)
<1> SUFFICES ASSUME a > 0 PROVE Due(c, n, j, 1, l, s, a)
  BY DEF Due
<1>1. PICK q \in [0..l -> Int], d \in 0..0 + Slots - 1 :
          /\ a < (q[0] - n + 1) * Interval
          /\ \A k \in 0..l - 1 :
                 q[k] + c[k] < (q[k + 1] + (IF k = j THEN 0 ELSE 1)) * Slots
          /\ q[l] <= d
          /\ c[l] + d = s \/ c[l] + d = s + Slots
  BY DEF Due
<1>2. d \in 1..1 + Slots - 1
  <2>1. PICK h \in 0..Slots - 1, u \in 0..Slots - 1 : h = c[l] /\ u = s /\ h # u
    BY DEF Slot
  <2>2. h + d = u \/ h + d = u + Slots
    BY <1>1, <2>1
  <2>3. d \in 0..Slots - 1
    BY <1>1, Ranges
  <2>4. d \in 1..Slots
    BY <2>1, <2>2, <2>3, Sizes
  <2> QED
    BY <2>4, Ranges
<1> QED
  BY <1>1, <1>2 DEF Due

(* A carry out of the last level, or none, is of no account. *)
LEMMA DueCarry ==
    ASSUME NEW c, NEW n, NEW j \in Nat, NEW i \in Nat, NEW e \in {0, 1}, NEW l \in Level, NEW s, NEW a,
           j >= l, i >= l, Due(c, n, j, e, l, s, a)
    PROVE  Due(c, n, i, e, l, s, a)
<1> SUFFICES ASSUME a > 0 PROVE Due(c, n, i, e, l, s, a)
  BY DEF Due
<1>1. PICK q \in [0..l -> Int], d \in e..e + Slots - 1 :
          /\ a < (q[0] - n + 1) * Interval
          /\ \A k \in 0..l - 1 :
                 q[k] + c[k] < (q[k + 1] + (IF k = j THEN 0 ELSE 1)) * Slots
          /\ q[l] <= d
          /\ c[l] + d = s \/ c[l] + d = s + Slots
  BY DEF Due
<1>2. \A k \in 0..l - 1 : k # j /\ k # i
  BY Sizes
<1>3. \A k \in 0..l - 1 :
          q[k] + c[k] < (q[k + 1] + (IF k = i THEN 0 ELSE 1)) * Slots
  BY <1>1, <1>2
<1> QED
  BY <1>1, <1>3 DEF Due

(* The hand of level m moves on, as a turn is made or as the level below came
   round: c becomes g, n turns become n1; its own carry is now to be made if it
   came round itself; and it may stand on the slot of a node of level l. *)
Moves(c, g, m, n, n1, j, j1, e, e1, l) ==
    /\ c \in [Level -> Slot] /\ m \in Level /\ l \in Level
    /\ n \in Int /\ n1 \in Int /\ j \in Nat /\ e \in {0, 1}
    /\ g = [c EXCEPT ![m] = (c[m] + 1) % Slots]
    /\ IF m = 0 THEN n1 = n - 1 /\ j = Levels ELSE n1 = n /\ j = m - 1
    /\ j1 = IF (c[m] + 1) % Slots = 0 THEN m ELSE Levels
    /\ IF l = m THEN e = 1 /\ e1 = 0 ELSE e1 = e

(* What the deadlines of its nodes then are. *)
LEMMA DueMove ==
    ASSUME NEW c, NEW g, NEW m, NEW n, NEW n1, NEW j, NEW j1, NEW e, NEW e1, NEW l,
           NEW s, NEW a, s \in Slot, a \in Int,
           Moves(c, g, m, n, n1, j, j1, e, e1, l), Due(c, n, j, e, l, s, a)
    PROVE  Due(g, n1, j1, e1, l, s, a)
<1>m. /\ c \in [Level -> Slot] /\ m \in Level /\ l \in Level
      /\ n \in Int /\ n1 \in Int /\ j \in Nat /\ e \in {0, 1}
  BY DEF Moves
<1>h. PICK h : /\ h = (c[m] + 1) % Slots /\ g = [c EXCEPT ![m] = h]
               /\ (h = 0 => j1 = m) /\ (h # 0 => j1 = Levels)
  BY DEF Moves
<1>j. /\ (m = 0 => n1 = n - 1 /\ j = Levels) /\ (m # 0 => n1 = n /\ j = m - 1)
      /\ (l = m => e = 1 /\ e1 = 0) /\ (l # m => e1 = e)
  BY DEF Moves
<1>c. PICK x \in 0..Slots - 1 : x = c[m] /\ h = (x + 1) % Slots
  BY <1>m, <1>h DEF Slot
<1>6. (x + 1 < Slots => h = x + 1) /\ (x + 1 = Slots => h = 0)
  <2>1. PICK r : r = (x + 1) % Slots
    OBVIOUS
  <2>2. x + 1 < Slots => r = x + 1
    <3>1. 1 \in 0..Slots
      BY Sizes
    <3> QED
      BY <2>1, <3>1, Sizes, ModFacts
  <2>3. x + 1 = Slots => r = 0
    BY <2>1, Sizes
  <2>4. h = r
    BY <1>c, <2>1
  <2> QED
    BY <2>2, <2>3, <2>4
<1> USE <1>m, <1>h, <1>j
<1> SUFFICES ASSUME a > 0 PROVE Due(g, n1, j1, e1, l, s, a)
  BY DEF Due
<1>1. PICK q \in [0..l -> Int], d \in e..e + Slots - 1 :
          /\ a < (q[0] - n + 1) * Interval
          /\ \A k \in 0..l - 1 :
                 q[k] + c[k] < (q[k + 1] + (IF k = j THEN 0 ELSE 1)) * Slots
          /\ q[l] <= d
          /\ c[l] + d = s \/ c[l] + d = s + Slots
  BY DEF Due
<1>3. \A k \in Level : g[k] = IF k = m THEN h ELSE c[k]
  OBVIOUS
<1>4. \A k \in 0..l - 1 : k \in Level /\ k \in Nat /\ k + 1 \in 0..l /\ k \in 0..l /\ k < Levels
  BY Sizes
<1>5. l \in Nat /\ m \in Nat /\ m < Levels /\ l < Levels /\ 0 \in 0..l /\ l \in 0..l
  <2>1. l \in 0..Levels - 1 /\ m \in 0..Levels - 1 /\ Levels \in Nat
    BY Sizes
  <2> QED
    BY <2>1
<1>2. \A k \in 0..l - 1 : k # m => k # j1
  <2>1. \A k \in 0..l - 1 : k # Levels
    BY <1>4, Sizes
  <2>2. j1 = m \/ j1 = Levels
    OBVIOUS
  <2> QED
    BY <2>1, <2>2
<1>7. CASE l < m
  <2>1. n1 = n /\ \A k \in 0..l - 1 : k # j /\ k # j1 /\ k # m
    BY <1>4, <1>5, <1>7
  <2>2. g[l] = c[l] /\ \A k \in 0..l - 1 : g[k] = c[k]
    BY <1>3, <1>4, <1>5, <1>7, <2>1
  <2>3. \A k \in 0..l - 1 : q[k] + g[k] < (q[k + 1] + (IF k = j1 THEN 0 ELSE 1)) * Slots
    BY <1>1, <2>1, <2>2
  <2>5. Due(g, n1, j1, e1, l, s, a)
    <3>1. d \in e1..e1 + Slots - 1
      BY <1>1, <1>5, <1>7
    <3>2. a < (q[0] - n1 + 1) * Interval /\ q[l] <= d /\ (g[l] + d = s \/ g[l] + d = s + Slots)
      BY <1>1, <2>1, <2>2
    <3> QED
      BY <2>3, <3>1, <3>2 DEF Due
  <2> QED
    BY <2>5
<1>8. CASE m <= l
  <2>1. m \in 0..l
    BY <1>5, <1>8
  <2>2. PICK p \in [0..l -> Int] : \A k \in 0..l : p[k] = IF k = m THEN q[k] - 1 ELSE q[k]
    <3>1. \A k \in 0..l : (IF k = m THEN q[k] - 1 ELSE q[k]) \in Int
      OBVIOUS
    <3>2. [k \in 0..l |-> IF k = m THEN q[k] - 1 ELSE q[k]] \in [0..l -> Int]
      BY <3>1
    <3> QED
      BY <3>2
  <2>4. a < (p[0] - n1 + 1) * Interval
    <3>0. q[0] \in Int /\ p[0] = IF 0 = m THEN q[0] - 1 ELSE q[0]
      <4>1. 0 \in 0..l
        BY <1>5
      <4>2. q[0] \in Int
        BY <4>1
      <4> QED
        BY <2>2, <4>1, <4>2
    <3>1. p[0] - n1 + 1 = q[0] - n + 1
      BY <3>0
    <3> QED
      BY <1>1, <3>1
  <2>5. ASSUME NEW k \in 0..l - 1
        PROVE  p[k] + g[k] < (p[k + 1] + (IF k = j1 THEN 0 ELSE 1)) * Slots
    <3>1. PICK w \in Int, y \in Int, z \in Slot : w = q[k] /\ y = q[k + 1] /\ z = c[k]
      BY <1>4
    <3>2. w + z < (y + (IF k = j THEN 0 ELSE 1)) * Slots
      BY <1>1, <3>1
    <3>3. CASE k = m
      <4>1. p[k] = w - 1 /\ p[k + 1] = y /\ g[k] = h /\ k # j
        <5>1. k + 1 # m /\ k # j /\ k \in 0..l /\ k + 1 \in 0..l /\ k \in Level
          BY <1>4, <1>5, <3>3
        <5> QED
          BY <1>3, <2>2, <3>1, <3>3, <5>1
      <4>2. w + z < (y + 1) * Slots
        BY <3>2, <4>1
      <4>3. CASE z + 1 < Slots
        <5>1. h = z + 1 /\ z \in Nat
          BY <1>c, <1>6, <3>1, <3>3, <4>3, Sizes
        <5>2. j1 = Levels /\ k # j1
          <6>1. h # 0
            BY <5>1
          <6>2. j1 = Levels
            BY <6>1, <1>h
          <6>3. k # Levels
            BY <1>4, Sizes
          <6> QED
            BY <6>2, <6>3
        <5>3. (w - 1) + h = w + z
          BY <5>1
        <5> QED
          BY <4>1, <4>2, <5>2, <5>3
      <4>4. CASE z + 1 >= Slots
        <5>1. h = 0 /\ z = Slots - 1
          <6>1. z = x
            BY <1>c, <3>1, <3>3
          <6>2. x + 1 = Slots /\ x \in Int /\ Slots \in Int
            BY <4>4, <6>1, Sizes
          <6> QED
            BY <1>6, <6>1, <6>2
        <5>2. k = j1
          BY <3>3, <5>1
        <5>3. (y + 1) * Slots = y * Slots + Slots /\ y * Slots \in Int
          <6>1. ((y + 1) - 1) * Slots = (y + 1) * Slots - 1 * Slots
                /\ (y + 1) * Slots \in Int
            BY Sizes, TimesFacts
          <6>2. (y + 1) - 1 = y /\ 1 * Slots = Slots
            BY Sizes
          <6> QED
            BY <6>1, <6>2, Sizes
        <5>4. (w - 1) + h < (y + 0) * Slots
          <6>1. y + 0 = y
            OBVIOUS
          <6> QED
            BY <4>2, <5>1, <5>3, <6>1, Sizes
        <5> QED
          BY <4>1, <5>2, <5>4
      <4> QED
        <5>1. z \in Nat
          BY Sizes
        <5> QED
          BY <4>3, <4>4, <5>1, Sizes
    <3>4. CASE k + 1 = m
      <4>1. p[k] = w /\ p[k + 1] = y - 1 /\ g[k] = z /\ k = j /\ k # j1
        <5>1. k # m /\ k \in Level /\ k \in 0..l /\ k + 1 \in 0..l /\ k = j
          <6>1. m # 0 /\ k = m - 1 /\ k \in Nat /\ k # m
            BY <1>4, <1>5, <3>4
          <6> QED
            BY <1>4, <6>1
        <5>2. k # j1
          BY <1>2, <5>1
        <5> QED
          BY <1>3, <2>2, <3>1, <3>4, <5>1, <5>2
      <4>2. y + 0 = (y - 1) + 1
        OBVIOUS
      <4> QED
        BY <3>2, <4>1, <4>2
    <3>5. CASE k # m /\ k + 1 # m
      <4>1. p[k] = w /\ p[k + 1] = y /\ g[k] = z /\ k # j /\ k # j1
        <5>1. k # j /\ k \in Level /\ k \in 0..l /\ k + 1 \in 0..l
          BY <1>4, <1>5, <3>5
        <5>2. k # j1
          BY <1>2, <3>5
        <5> QED
          BY <1>3, <2>2, <3>1, <3>5, <5>1, <5>2
      <4> QED
        BY <3>2, <4>1
    <3> QED
      BY <3>3, <3>4, <3>5
  <2>6. CASE l = m
    <3>1. e = 1 /\ d - 1 \in 0..Slots - 1 /\ p[l] <= d - 1
      BY <1>1, <1>5, <2>2, <2>6, Ranges, Sizes
    <3>2. g[l] + (d - 1) = s \/ g[l] + (d - 1) = s + Slots
      <4>1. g[l] = h /\ (x + d = s \/ x + d = s + Slots)
        BY <1>1, <1>c, <1>3, <2>6
      <4>2. PICK w \in 1..Slots, u \in 0..Slots - 1 : w = d /\ u = s
        BY <1>1, <2>6, Ranges DEF Slot
      <4>3. x + w = u \/ x + w = u + Slots
        BY <4>1, <4>2
      <4>4. h + (w - 1) = u \/ h + (w - 1) = u + Slots
        <5>1. CASE x + 1 < Slots
          <6>1. h = x + 1
            BY <1>6, <5>1
          <6>2. h + (w - 1) = x + w
            BY <6>1
          <6> QED
            BY <4>3, <6>2
        <5>2. CASE x + 1 >= Slots
          <6>1. x + 1 = Slots
            BY <5>2, Sizes
          <6>2. h = 0
            BY <1>6, <6>1
          <6>3. w - 1 = u \/ w - 1 = u + Slots
            BY <4>3, <6>1, Sizes
          <6>4. h + (w - 1) = w - 1
            BY <6>2
          <6> QED
            BY <6>3, <6>4
        <5> QED
          BY <5>1, <5>2, Sizes
      <4> QED
        BY <4>1, <4>2, <4>4
    <3>3. d - 1 \in e1..e1 + Slots - 1
      <4>1. e1 = 0
        BY <2>6
      <4> QED
        BY <3>1, <4>1, Ranges
    <3>4. Due(g, n1, j1, e1, l, s, a)
      BY <2>4, <2>5, <3>1, <3>2, <3>3 DEF Due
    <3> QED
      BY <3>4
  <2>7. CASE l # m
    <3>1. p[l] <= d /\ g[l] = c[l]
      BY <1>1, <1>3, <1>5, <2>2, <2>7
    <3>2. d \in e1..e1 + Slots - 1
      BY <1>1, <2>7
    <3>3. g[l] + d = s \/ g[l] + d = s + Slots
      BY <1>1, <3>1
    <3>4. Due(g, n1, j1, e1, l, s, a)
      BY <2>4, <2>5, <3>1, <3>2, <3>3 DEF Due
    <3> QED
      BY <3>4
  <2> QED
    BY <2>6, <2>7
<1> QED
  BY <1>5, <1>7, <1>8

(* A node of level 0 under the hand is due within a slot. *)
LEMMA DueHere ==
    ASSUME NEW c, c[0] \in Slot, NEW n \in Nat, NEW j, NEW a \in Int,
           Due(c, n, j, 0, 0, c[0], a)
    PROVE  a < Interval
<1> SUFFICES ASSUME a > 0 PROVE a < Interval
  BY Sizes
<1>1. PICK q \in [0..0 -> Int], d \in 0..0 + Slots - 1 :
          /\ a < (q[0] - n + 1) * Interval
          /\ q[0] <= d
          /\ c[0] + d = c[0] \/ c[0] + d = c[0] + Slots
  BY DEF Due
<1>2. d = 0
  <2>1. d \in 0..Slots - 1
    BY Ranges
  <2> QED
    BY <1>1, <2>1, Sizes DEF Slot
<1>3. (q[0] - n + 1) * Interval <= 1 * Interval
  <2>1. q[0] \in Int
    OBVIOUS
  <2>2. q[0] - n + 1 \in Int /\ q[0] - n + 1 <= 1
    BY <1>1, <1>2, <2>1
  <2> QED
    BY <2>2, Sizes, TimesFacts
<1>4. (q[0] - n + 1) * Interval \in Int /\ 1 * Interval = Interval
  BY <1>2, Sizes, TimesFacts
<1> QED
  BY <1>1, <1>3, <1>4, Sizes

(* A node of an upper level under the hand that is not due yet belongs on a
   lower one. *)
LEMMA DueBelow ==
    ASSUME TypeOK, NEW n \in Nat, NEW l \in Level, l # 0, NEW j \in Nat, j >= l,
           NEW a \in Int, a > 0, Due(curSlot, n, j, 0, l, curSlot[l], a)
    PROVE  LevelFor(a \div Interval) < l
<1>1. PICK q \in [0..l -> Int], d \in 0..0 + Slots - 1 :
          /\ a < (q[0] - n + 1) * Interval
          /\ \A k \in 0..l - 1 :
                 q[k] + curSlot[k] < (q[k + 1] + (IF k = j THEN 0 ELSE 1)) * Slots
          /\ q[l] <= d
          /\ curSlot[l] + d = curSlot[l] \/ curSlot[l] + d = curSlot[l] + Slots
  BY DEF Due
<1>2. l \in Nat /\ l < Levels /\ Levels \in Nat
  BY Sizes
<1>3. q[l] <= 0
  <2>1. PICK h \in Slot : h = curSlot[l]
    BY DEF TypeOK
  <2>2. d = 0
    <3>1. h + d = h \/ h + d = h + Slots
      BY <1>1, <2>1
    <3> QED
      BY <3>1, Ranges, Sizes DEF Slot
  <2>3. q[l] <= d
    BY <1>1
  <2> QED
    BY <2>2, <2>3
<1>4. PICK t \in Nat : t = a \div Interval /\ t * Interval <= a
  <2>1. a \in Nat
    OBVIOUS
  <2> QED
    BY <2>1, Sizes, DivFacts
<1>5. \A k \in 0..l : k \in 0..Levels /\ Away(t)[k] \in Nat
  <2>1. \A k \in 0..l : k \in 0..Levels
    BY <1>2
  <2>2. \A k \in 0..Levels : Away(t)[k] \in Nat
    BY AwayFacts
  <2> QED
    BY <2>1, <2>2
<1> DEFINE K == {k \in Nat : k <= l => Away(t)[k] <= q[k]}
<1>6. 0 \in K
  <2>1. q[0] \in Int
    BY <1>2
  <2>2. PICK x \in Int : x = q[0] - n + 1
    BY <2>1
  <2>3. t * Interval < x * Interval
    <3>1. t * Interval \in Int /\ x * Interval \in Int
      BY Sizes, TimesFacts
    <3> QED
      BY <1>1, <1>4, <2>2, <3>1
  <2>4. t < x
    BY <2>3, Sizes, LessTimes
  <2>5. Away(t)[0] = t
    BY AwayFacts
  <2> QED
    BY <2>1, <2>2, <2>4, <2>5
<1>7. ASSUME NEW k \in Nat, k \in K PROVE k + 1 \in K
  <2> SUFFICES ASSUME k + 1 <= l PROVE Away(t)[k + 1] <= q[k + 1]
    OBVIOUS
  <2>1. k \in 0..l - 1 /\ k \in 0..l /\ k + 1 \in 0..l /\ k \in 0..Levels - 1 /\ k \in Level
        /\ k # j
    BY <1>2, Sizes
  <2>2. PICK x \in Nat, y \in Nat, z \in Nat, u \in Int, v \in Int :
            x = Away(t)[k] /\ y = Away(t)[k + 1] /\ z = curSlot[k] /\ u = q[k] /\ v = q[k + 1]
    <3>1. curSlot[k] \in Nat
      BY <2>1, Sizes DEF TypeOK
    <3> QED
      BY <1>5, <2>1, <3>1
  <2>3. x <= u
    BY <1>7, <2>1, <2>2
  <2>4. u + z < (v + 1) * Slots
    BY <1>1, <2>1, <2>2
  <2>5. PICK w \in Nat : w = x + z
    OBVIOUS
  <2>6. y = w \div Slots
    BY <2>1, <2>2, <2>5, AwayFacts
  <2>7. y * Slots <= w
    BY <2>6, Sizes, DivFacts
  <2>8. y * Slots < (v + 1) * Slots
    <3>1. y * Slots \in Int /\ (v + 1) * Slots \in Int
      BY Sizes, TimesFacts
    <3> QED
      BY <2>3, <2>4, <2>5, <2>7, <3>1
  <2>9. y < v + 1
    BY <2>8, Sizes, LessTimes
  <2> QED
    BY <2>2, <2>9
<1> HIDE DEF K
<1>8. l - 1 \in K
  <2>1. l - 1 \in Nat
    BY <1>2
  <2>2. Nat \subseteq K
    BY <1>6, <1>7, NatInd
  <2> QED
    BY <2>1, <2>2
<1>9. Away(t)[l - 1] < Slots
  <2>1. l - 1 \in 0..l - 1 /\ l - 1 \in 0..l /\ l - 1 \in Level /\ (l - 1) + 1 = l /\ l - 1 # j
        /\ l \in 0..l
    BY <1>2, Sizes
  <2>2. PICK x \in Nat, z \in Nat, u \in Int, v \in Int :
            x = Away(t)[l - 1] /\ z = curSlot[l - 1] /\ u = q[l - 1] /\ v = q[l]
    <3>1. curSlot[l - 1] \in Nat
      BY <2>1, Sizes DEF TypeOK
    <3> QED
      BY <1>5, <2>1, <3>1
  <2>3. x <= u
    BY <1>8, <2>1, <2>2 DEF K
  <2>4. u + z < (v + 1) * Slots
    BY <1>1, <2>1, <2>2
  <2>5. PICK r \in Int : r = (v + 1) * Slots /\ r <= Slots
    <3>1. v + 1 \in Int /\ v + 1 <= 1
      BY <1>3, <2>2
    <3>2. (v + 1) * Slots <= 1 * Slots /\ (v + 1) * Slots \in Int
      BY <3>1, Sizes, TimesFacts
    <3>3. 1 * Slots = Slots
      BY Sizes
    <3> QED
      BY <3>2, <3>3
  <2>6. u + z < r
    BY <2>4, <2>5
  <2>7. x < Slots
    BY <2>3, <2>5, <2>6, Sizes
  <2> QED
    BY <2>2, <2>7
<1>10. LevelFor(t) \in 0..Levels /\ \A k \in 0..LevelFor(t) - 1 : Away(t)[k] >= Slots
  BY LevelFacts
<1>11. LevelFor(t) <= l - 1
  <2>1. Away(t)[l - 1] \in Nat
    BY <1>2, <1>5
  <2> QED
    BY <1>2, <1>9, <1>10, <2>1, Sizes
<1> QED
  BY <1>2, <1>4, <1>10, <1>11

(* A slot, and the wheel with another list in it. *)
At(l, s)        == [level |-> l, slot |-> s]
Put(w, l, s, q) == [w EXCEPT ![l][s] = q]

(* Slots are positions, and different ones. *)
LEMMA AtFacts ==
    /\ \A l, s : At(l, s).level = l /\ At(l, s).slot = s
    /\ \A l \in Level, s \in Slot : At(l, s) \in Position /\ At(l, s) # Nowhere
    /\ \A l, s, k, u : At(l, s) = At(k, u) => l = k /\ s = u
<1>1. \A l, s : At(l, s).level = l /\ At(l, s).slot = s
  BY DEF At
<1>2. \A l \in Level, s \in Slot : At(l, s) \in Position /\ At(l, s) \in [level : Nat, slot : Nat]
  BY Sizes DEF At, Position
<1> QED
  BY <1>1, <1>2, TimerConstants

-----------------------------------------------------------------------------
(* The invariant of the wheel. *)

(* A slot holds a node once, and the map never points elsewhere. *)
Slotted ==
    \A l \in Level, s \in Slot :
        /\ NoDup(wheel[l][s])
        /\ \A id \in Members(wheel[l][s]) : id < nextId /\ pos[id] \in {Nowhere, At(l, s)}

(* Only timers that were added have an entry. *)
Mapped == \A id \in Ids : pos[id] # Nowhere => id < nextId

(* No turn is left between two calls of tick(), and the slot under the hand of
   an upper level is empty once it has cascaded. *)
Hands ==
    /\ pc = "idle" => turns = 0
    /\ pc = "cascade" => level # 0
    /\ \A l \in Level : l # 0 =>
           wheel[l][curSlot[l]] = <<>> \/ (pc = "cascade" /\ level = l)

(* The level whose carry is still to be made. *)
Carry == IF pc = "cascade" /\ curSlot[level] = 0 THEN level ELSE Levels

(* Between a turn and its callbacks the hand of level 0 may stand on the slot of
   a node; in a cascade that of the level may. *)
Ahead(l) ==
    IF l = 0 THEN (IF pc \in {"cascade", "fire"} THEN 0 ELSE 1)
             ELSE (IF pc = "cascade" /\ level = l THEN 0 ELSE 1)

(* Every node's deadline is bounded by the way the hands still have to go. *)
Timely ==
    \A l \in Level, s \in Slot : \A id \in Members(wheel[l][s]) :
        Due(curSlot, turns, Carry, Ahead(l), l, s, ahead[id])

WheelInv == TypeOK /\ Slotted /\ Mapped /\ Hands /\ Timely

(* Every slot is a list of timers. *)
LEMMA SlotTyped ==
    ASSUME TypeOK, NEW l \in Level, NEW s \in Slot
    PROVE  wheel[l][s] \in Seq(Ids) /\ Members(wheel[l][s]) \subseteq Ids
<1>1. wheel[l][s] \in Seq(Ids)
  BY DEF TypeOK
<1> QED
  BY <1>1 DEF Members

(* The hand stays on its level. *)
LEMMA SuccSlot == TypeOK => \A l \in Level : Succ(l) \in Slot
<1> SUFFICES ASSUME TypeOK, NEW l \in Level PROVE Succ(l) \in Slot
  OBVIOUS
<1>1. curSlot[l] \in 0..Slots - 1 /\ 1 \in 0..Slots
  BY Sizes DEF TypeOK, Slot
<1> QED
  BY <1>1, Sizes, ModFacts DEF Succ, Slot

(* The empty wheel. *)
LEMMA WheelInit == Init => WheelInv
<1> SUFFICES ASSUME Init PROVE WheelInv
  OBVIOUS
<1>1. TypeOK
  <2>1. <<>> \in Seq(Ids)
    OBVIOUS
  <2> QED
    BY <2>1, Sizes DEF Init, TypeOK
<1>2. \A l \in Level, s \in Slot : wheel[l][s] = <<>> /\ Members(wheel[l][s]) = {}
  BY DEF Init, Members
<1>3. NoDup(<<>>)
  BY DEF NoDup
<1>4. \A l \in Level : curSlot[l] \in Slot
  BY Sizes DEF Init
<1> QED
  BY <1>1, <1>2, <1>3, <1>4 DEF Init, WheelInv, Slotted, Mapped, Hands, Timely

(* A node just placed is due when its hand comes, and not under it. *)
LEMMA Placed ==
    ASSUME TypeOK, NEW t \in Nat, Fits(t \div Interval)
    PROVE  \E l \in Level, s \in Slot :
               /\ Place(t \div Interval) = At(l, s)
               /\ Due(curSlot, 0, Levels, 1, l, s, t)
               /\ l # 0 => curSlot[l] # s
<1>1. PICK u \in Nat : u = t \div Interval
  BY Sizes, DivFacts
<1>2. PICK l \in Level, s \in Slot, k \in 0..Slots - 1 :
          /\ l = LevelFor(u) /\ k = Away(u)[l] /\ s = (curSlot[l] + k) % Slots
          /\ Place(u) = [level |-> l, slot |-> s]
          /\ l # 0 => k # 0
  BY <1>1, PlaceFacts
<1>3. Due(curSlot, 0, Levels, 1, l, s, t)
  BY <1>1, <1>2, DueNew
<1>4. ASSUME k # 0 PROVE curSlot[l] # s
  <2>1. PICK h \in 0..Slots - 1 : h = curSlot[l]
    BY DEF TypeOK, Slot
  <2>2. k \in 0..Slots /\ k < Slots /\ k > 0
    BY <1>4, Sizes
  <2>3. PICK r : r = (h + k) % Slots
    OBVIOUS
  <2>4. (h + k < Slots => r = h + k) /\ (h + k >= Slots => r = h + k - Slots)
    BY <2>1, <2>2, <2>3, Sizes, ModFacts
  <2>5. r # h
    <3>1. CASE h + k < Slots
      BY <2>2, <2>4, <3>1
    <3>2. CASE h + k >= Slots
      BY <2>2, <2>4, <3>2, Sizes
    <3> QED
      BY <3>1, <3>2, Sizes
  <2> QED
    BY <1>2, <2>1, <2>3, <2>5
<1> QED
  BY <1>1, <1>2, <1>3, <1>4 DEF At

-----------------------------------------------------------------------------
(* The calls. *)

(* add_timer. *)
LEMMA WheelAdd ==
    ASSUME WheelInv, NEW t \in timeouts, AddTimer(t)
    PROVE  WheelInv'
<1> USE DEF WheelInv
<1>1. t \in Nat /\ Fits(t \div Interval)
  BY Sizes DEF AddTimer, TypeOK
<1>2. PICK l \in Level, s \in Slot :
          /\ Place(t \div Interval) = At(l, s)
          /\ Due(curSlot, 0, Levels, 1, l, s, t)
          /\ l # 0 => curSlot[l] # s
  BY <1>1, Placed
<1>3. nextId \in Ids /\ wheel[l][s] \in Seq(Ids)
  BY SlotTyped, Sizes DEF AddTimer, TypeOK, Ids
<1>4. PICK q : q = Append(wheel[l][s], nextId)
  OBVIOUS
<1>5. /\ q \in Seq(Ids) /\ Members(q) = Members(wheel[l][s]) \cup {nextId}
      /\ NoDup(wheel[l][s]) /\ nextId \notin Members(wheel[l][s]) => NoDup(q)
  BY <1>3, <1>4, PushFacts
<1>6. wheel' = Put(wheel, l, s, q) /\ pos' = [pos EXCEPT ![nextId] = At(l, s)]
  <2>1. PICK p : p = Place(t \div Interval)
    OBVIOUS
  <2>2. /\ wheel' = [wheel EXCEPT ![p.level][p.slot] = Append(@, nextId)]
        /\ pos' = [pos EXCEPT ![nextId] = p]
    BY <2>1 DEF AddTimer
  <2>3. p = At(l, s) /\ p.level = l /\ p.slot = s
    BY <1>2, <2>1, AtFacts
  <2> QED
    BY <1>4, <2>2, <2>3 DEF Put
<1>7. /\ wheel' \in [Level -> [Slot -> Seq(Ids)]]
      /\ \A k \in Level, u \in Slot :
             wheel'[k][u] = IF k = l /\ u = s THEN q ELSE wheel[k][u]
  <2>1. wheel \in [Level -> [Slot -> Seq(Ids)]] /\ q \in Seq(Ids)
    BY <1>5 DEF TypeOK
  <2> QED
    BY <1>6, <2>1 DEF Put
<1>8. /\ UNCHANGED <<timeouts, pc, curSlot, elapsed, turns, level, resets, released,
                     defined>>
      /\ ahead' = [ahead EXCEPT ![nextId] = t] /\ nextId' = nextId + 1 /\ pc = "idle"
  BY DEF AddTimer, Calling
<1>9. TypeOK'
  <2>1. pos' \in [Ids -> Position \cup {Nowhere}]
    BY <1>3, <1>6, AtFacts DEF TypeOK
  <2>2. ahead' \in [Ids -> Int] /\ nextId' \in 0..MaxTimers
    BY <1>1, <1>3, <1>8, Sizes DEF TypeOK, Ids
  <2> QED
    BY <1>7, <1>8, <2>1, <2>2 DEF TypeOK
<1>10. \A n \in Ids : /\ pos'[n] = IF n = nextId THEN At(l, s) ELSE pos[n]
                      /\ ahead'[n] = IF n = nextId THEN t ELSE ahead[n]
  BY <1>6, <1>8 DEF TypeOK
<1>11. \A k \in Level, u \in Slot : nextId \notin Members(wheel[k][u])
  <2>1. nextId \in Nat
    BY Sizes DEF TypeOK
  <2>2. ~(nextId < nextId)
    BY <2>1
  <2> QED
    BY <2>2 DEF Slotted
<1>12. \A k \in Level, u \in Slot :
           Members(wheel'[k][u]) \subseteq Members(wheel[k][u]) \cup {nextId}
  BY <1>5, <1>7
<1>13. nextId \in Nat
  BY Sizes DEF TypeOK
<1>14. Slotted'
  <2> SUFFICES ASSUME NEW k \in Level, NEW u \in Slot
               PROVE  /\ NoDup(wheel'[k][u])
                      /\ \A id \in Members(wheel'[k][u]) :
                             id < nextId' /\ pos'[id] \in {Nowhere, At(k, u)}
    BY DEF Slotted
  <2>1. NoDup(wheel'[k][u])
    BY <1>5, <1>7, <1>11 DEF Slotted
  <2>2. ASSUME NEW id \in Members(wheel'[k][u])
        PROVE  id < nextId' /\ pos'[id] \in {Nowhere, At(k, u)}
    <3>1. CASE id = nextId
      <4>1. k = l /\ u = s
        BY <1>7, <1>11, <3>1
      <4> QED
        BY <1>3, <1>8, <1>10, <1>13, <3>1, <4>1
    <3>2. CASE id # nextId
      <4>1. id \in Members(wheel[k][u]) /\ id \in Ids
        BY <1>12, <3>2, SlotTyped
      <4>2. id < nextId /\ pos[id] \in {Nowhere, At(k, u)}
        BY <4>1 DEF Slotted
      <4> QED
        BY <1>8, <1>10, <1>13, <3>2, <4>1, <4>2, Sizes
    <3> QED
      BY <3>1, <3>2
  <2> QED
    BY <2>1, <2>2
<1>15. Mapped'
  BY <1>3, <1>8, <1>10, <1>13, Sizes DEF Mapped
<1>16. Hands'
  <2>1. \A k \in Level : curSlot[k] \in Slot
    BY DEF TypeOK
  <2>2. ASSUME NEW k \in Level, k # 0 PROVE wheel'[k][curSlot[k]] = <<>>
    <3>1. PICK u \in Slot : u = curSlot[k]
      BY <2>1
    <3>2. wheel[k][u] = <<>>
      BY <1>8, <2>2, <3>1 DEF Hands
    <3>3. ~(k = l /\ u = s)
      BY <1>2, <2>2, <3>1
    <3> QED
      BY <1>7, <3>1, <3>2, <3>3
  <2> QED
    BY <1>8, <2>2 DEF Hands
<1>17. Timely'
  <2>1. Carry = Levels /\ Carry' = Levels /\ \A k : Ahead(k) = 1 /\ Ahead(k)' = 1
    BY <1>8 DEF Carry, Ahead
  <2>2. turns = 0 /\ turns' = 0
    BY <1>8 DEF Hands
  <2> SUFFICES ASSUME NEW k \in Level, NEW u \in Slot, NEW id \in Members(wheel'[k][u])
               PROVE  Due(curSlot, 0, Levels, 1, k, u, ahead'[id])
    BY <1>8, <2>1, <2>2 DEF Timely
  <2>3. CASE id = nextId
    <3>1. k = l /\ u = s
      BY <1>7, <1>11, <2>3
    <3> QED
      BY <1>2, <1>3, <1>10, <2>3, <3>1
  <2>4. CASE id # nextId
    <3>1. id \in Members(wheel[k][u]) /\ id \in Ids
      BY <1>12, <2>4, SlotTyped
    <3> QED
      BY <1>10, <2>1, <2>2, <2>4, <3>1 DEF Timely
  <2> QED
    BY <2>3, <2>4
<1> QED
  BY <1>9, <1>14, <1>15, <1>16, <1>17

(* del_timer. *)
LEMMA WheelDel ==
    ASSUME WheelInv, NEW id \in Ids, DelTimer(id)
    PROVE  WheelInv'
<1> USE DEF WheelInv
<1>1. /\ UNCHANGED <<timeouts, pc, curSlot, pos, nextId, elapsed, turns, level, resets>>
      /\ released' = released \cup {id}
  BY DEF DelTimer
<1>2. Carry' = Carry /\ \A k : Ahead(k)' = Ahead(k)
  BY <1>1 DEF Carry, Ahead
<1>3. CASE pos[id] = Nowhere
  <2>1. UNCHANGED <<wheel, ahead, defined>>
    BY <1>3 DEF DelTimer
  <2>2. TypeOK'
    BY <1>1, <2>1 DEF TypeOK
  <2>3. Slotted' /\ Mapped' /\ Hands'
    BY <1>1, <2>1 DEF Slotted, Mapped, Hands
  <2>4. Timely'
    BY <1>1, <1>2, <2>1 DEF Timely
  <2> QED
    BY <2>2, <2>3, <2>4
<1>4. CASE pos[id] # Nowhere
  <2>1. PICK l \in Level, s \in Slot : pos[id] = At(l, s)
    BY <1>4 DEF TypeOK, Position, At
  <2>2. PICK q : q = Drop(wheel[l][s], id)
    OBVIOUS
  <2>3. /\ wheel' = Put(wheel, l, s, q) /\ ahead' = [ahead EXCEPT ![id] = 0]
        /\ defined' \in BOOLEAN
    <3>1. PICK p : p = pos[id]
      OBVIOUS
    <3>2. /\ wheel' = [wheel EXCEPT ![p.level][p.slot] = Drop(@, id)]
          /\ ahead' = [ahead EXCEPT ![id] = 0] /\ defined' = HasNode(id)
      BY <1>4, <3>1 DEF DelTimer
    <3>3. p.level = l /\ p.slot = s
      BY <2>1, <3>1, AtFacts
    <3>4. HasNode(id) \in BOOLEAN
      BY DEF HasNode
    <3> QED
      BY <2>2, <3>2, <3>3, <3>4 DEF Put
  <2>4. wheel[l][s] \in Seq(Ids)
    BY SlotTyped
  <2>5. /\ q \in Seq(Ids) /\ Members(q) \subseteq Members(wheel[l][s])
        /\ NoDup(wheel[l][s]) => NoDup(q)
    BY <2>2, <2>4, DropFacts
  <2>6. /\ wheel' \in [Level -> [Slot -> Seq(Ids)]]
        /\ \A k \in Level, u \in Slot :
               wheel'[k][u] = IF k = l /\ u = s THEN q ELSE wheel[k][u]
    <3>1. wheel \in [Level -> [Slot -> Seq(Ids)]] /\ q \in Seq(Ids)
      BY <2>5 DEF TypeOK
    <3> QED
      BY <2>3, <3>1 DEF Put
  <2>7. \A k \in Level, u \in Slot : /\ Members(wheel'[k][u]) \subseteq Members(wheel[k][u])
                                     /\ NoDup(wheel'[k][u])
    BY <2>5, <2>6 DEF Slotted
  <2>8. TypeOK'
    <3>1. ahead' \in [Ids -> Int] /\ released' \in SUBSET Ids
      BY <1>1, <2>3 DEF TypeOK
    <3> QED
      BY <1>1, <2>3, <2>6, <3>1 DEF TypeOK
  <2>9. Slotted' /\ Mapped'
    BY <1>1, <2>7 DEF Slotted, Mapped
  <2>10. Hands'
    <3>1. wheel[l][s] = <<>> => q = <<>>
      BY <2>2 DEF Drop, Members
    <3>2. \A k \in Level : curSlot[k] \in Slot
      BY DEF TypeOK
    <3>3. \A k \in Level : wheel[k][curSlot[k]] = <<>> => wheel'[k][curSlot[k]] = <<>>
      BY <2>6, <3>1, <3>2
    <3> QED
      BY <1>1, <3>3 DEF Hands
  <2>11. Timely'
    <3> SUFFICES ASSUME NEW k \in Level, NEW u \in Slot, NEW n \in Members(wheel'[k][u])
                 PROVE  Due(curSlot, turns, Carry, Ahead(k), k, u, ahead'[n])
      BY <1>1, <1>2 DEF Timely
    <3>1. n \in Members(wheel[k][u]) /\ n \in Ids
      BY <2>7, SlotTyped
    <3>2. ahead'[n] = IF n = id THEN 0 ELSE ahead[n]
      BY <2>3, <3>1 DEF TypeOK
    <3>3. Due(curSlot, turns, Carry, Ahead(k), k, u, ahead[n])
      BY <3>1 DEF Timely
    <3>4. Due(curSlot, turns, Carry, Ahead(k), k, u, 0)
      BY DEF Due
    <3> QED
      BY <3>2, <3>3, <3>4
  <2> QED
    BY <2>8, <2>9, <2>10, <2>11
<1> QED
  BY <1>3, <1>4

(* reset_timer. *)
LEMMA WheelReset ==
    ASSUME WheelInv, NEW id \in Ids, NEW t \in timeouts, ResetTimer(id, t)
    PROVE  WheelInv'
<1> USE DEF WheelInv
<1>1. t \in Nat /\ Fits(t \div Interval) /\ pos[id] # Nowhere /\ id < nextId
  BY Sizes DEF ResetTimer, Mapped, TypeOK
<1>2. PICK l \in Level, s \in Slot :
          /\ Place(t \div Interval) = At(l, s)
          /\ Due(curSlot, 0, Levels, 1, l, s, t)
          /\ l # 0 => curSlot[l] # s
  BY <1>1, Placed
<1>3. PICK m \in Level, o \in Slot : pos[id] = At(m, o)
  BY <1>1 DEF TypeOK, Position, At
<1>4. PICK d : d = Drop(wheel[m][o], id)
  OBVIOUS
<1>5. PICK out : /\ out = Put(wheel, m, o, d)
                 /\ wheel' = Put(out, l, s, Append(out[l][s], id))
                 /\ pos' = [pos EXCEPT ![id] = At(l, s)]
                 /\ ahead' = [ahead EXCEPT ![id] = t]
                 /\ resets' = [resets EXCEPT ![id] = @ + 1] /\ resets[id] < MaxResets
                 /\ defined' = HasNode(id)
  <2>1. PICK p, r : p = Place(t \div Interval) /\ r = pos[id]
    OBVIOUS
  <2>2. PICK out : /\ out = [wheel EXCEPT ![r.level][r.slot] = Drop(@, id)]
                   /\ wheel' = [out EXCEPT ![p.level][p.slot] = Append(@, id)]
                   /\ pos' = [pos EXCEPT ![id] = p]
                   /\ ahead' = [ahead EXCEPT ![id] = t]
                   /\ resets' = [resets EXCEPT ![id] = @ + 1] /\ resets[id] < MaxResets
                   /\ defined' = HasNode(id)
    BY <2>1 DEF ResetTimer
  <2>3. p = At(l, s) /\ p.level = l /\ p.slot = s /\ r.level = m /\ r.slot = o
    BY <1>2, <1>3, <2>1, AtFacts
  <2> QED
    BY <1>4, <2>2, <2>3 DEF Put
<1>6. /\ d \in Seq(Ids) /\ Members(d) \subseteq Members(wheel[m][o])
      /\ NoDup(d) /\ id \notin Members(d)
  <2>1. wheel[m][o] \in Seq(Ids) /\ NoDup(wheel[m][o])
    BY SlotTyped DEF Slotted
  <2> QED
    BY <1>4, <2>1, DropFacts
<1>7. /\ out \in [Level -> [Slot -> Seq(Ids)]]
      /\ \A k \in Level, u \in Slot : out[k][u] = IF k = m /\ u = o THEN d ELSE wheel[k][u]
  <2>1. wheel \in [Level -> [Slot -> Seq(Ids)]] /\ d \in Seq(Ids)
    BY <1>6 DEF TypeOK
  <2> QED
    BY <1>5, <2>1 DEF Put
<1>8. PICK q : q = Append(out[l][s], id)
  OBVIOUS
<1>9. \A k \in Level, u \in Slot :
          /\ NoDup(out[k][u]) /\ Members(out[k][u]) \subseteq Members(wheel[k][u])
          /\ id \notin Members(out[k][u])
  <2> SUFFICES ASSUME NEW k \in Level, NEW u \in Slot
               PROVE  /\ NoDup(out[k][u]) /\ Members(out[k][u]) \subseteq Members(wheel[k][u])
                      /\ id \notin Members(out[k][u])
    OBVIOUS
  <2>1. CASE k = m /\ u = o
    BY <1>6, <1>7, <2>1
  <2>2. CASE ~(k = m /\ u = o)
    <3>1. out[k][u] = wheel[k][u] /\ NoDup(wheel[k][u])
      BY <1>7, <2>2 DEF Slotted
    <3>2. id \in Members(wheel[k][u]) => At(m, o) = At(k, u)
      BY <1>1, <1>3 DEF Slotted
    <3> QED
      BY <2>2, <3>1, <3>2, AtFacts
  <2> QED
    BY <2>1, <2>2
<1>10. /\ q \in Seq(Ids) /\ Members(q) = Members(out[l][s]) \cup {id} /\ NoDup(q)
  <2>1. out[l][s] \in Seq(Ids) /\ NoDup(out[l][s]) /\ id \notin Members(out[l][s])
    BY <1>7, <1>9
  <2> QED
    BY <1>8, <2>1, PushFacts
<1>11. /\ wheel' \in [Level -> [Slot -> Seq(Ids)]]
       /\ \A k \in Level, u \in Slot : wheel'[k][u] = IF k = l /\ u = s THEN q ELSE out[k][u]
  <2>1. out \in [Level -> [Slot -> Seq(Ids)]] /\ q \in Seq(Ids)
    BY <1>7, <1>10
  <2> QED
    BY <1>5, <1>8, <2>1 DEF Put
<1>12. \A k \in Level, u \in Slot :
           /\ NoDup(wheel'[k][u])
           /\ Members(wheel'[k][u]) \subseteq Members(wheel[k][u]) \cup {id}
           /\ id \in Members(wheel'[k][u]) => k = l /\ u = s
  <2> SUFFICES ASSUME NEW k \in Level, NEW u \in Slot
               PROVE  /\ NoDup(wheel'[k][u])
                      /\ Members(wheel'[k][u]) \subseteq Members(wheel[k][u]) \cup {id}
                      /\ id \in Members(wheel'[k][u]) => k = l /\ u = s
    OBVIOUS
  <2>1. CASE k = l /\ u = s
    BY <1>9, <1>10, <1>11, <2>1
  <2>2. CASE ~(k = l /\ u = s)
    <3>1. wheel'[k][u] = out[k][u]
      BY <1>11, <2>2
    <3> QED
      BY <1>9, <3>1
  <2> QED
    BY <2>1, <2>2
<1>13. UNCHANGED <<timeouts, pc, curSlot, nextId, elapsed, turns, level, released>> /\ pc = "idle"
  BY DEF ResetTimer, Calling
<1>14. \A n \in Ids : /\ pos'[n] = IF n = id THEN At(l, s) ELSE pos[n]
                      /\ ahead'[n] = IF n = id THEN t ELSE ahead[n]
  BY <1>5 DEF TypeOK
<1>15. TypeOK'
  <2>1. pos' \in [Ids -> Position \cup {Nowhere}]
    BY <1>5, AtFacts DEF TypeOK
  <2>2. ahead' \in [Ids -> Int]
    BY <1>1, <1>5 DEF TypeOK
  <2>3. resets' \in [Ids -> 0..MaxResets]
    <3>1. resets \in [Ids -> 0..MaxResets]
      BY DEF TypeOK
    <3>2. resets[id] + 1 \in 0..MaxResets
      BY <1>5, <3>1, Sizes
    <3> QED
      BY <1>5, <3>1, <3>2
  <2>4. HasNode(id) \in BOOLEAN
    BY DEF HasNode
  <2>5. defined' \in BOOLEAN
    BY <1>5, <2>4
  <2> QED
    BY <1>11, <1>13, <2>1, <2>2, <2>3, <2>5 DEF TypeOK
<1>16. Slotted'
  <2> SUFFICES ASSUME NEW k \in Level, NEW u \in Slot, NEW n \in Members(wheel'[k][u])
               PROVE  n < nextId /\ pos'[n] \in {Nowhere, At(k, u)}
    BY <1>12, <1>13 DEF Slotted
  <2>1. CASE n = id
    BY <1>1, <1>12, <1>14, <2>1
  <2>2. CASE n # id
    <3>1. n \in Members(wheel[k][u]) /\ n \in Ids
      BY <1>12, <2>2, SlotTyped
    <3> QED
      BY <1>14, <2>2, <3>1 DEF Slotted
  <2> QED
    BY <2>1, <2>2
<1>17. Mapped'
  BY <1>1, <1>13, <1>14 DEF Mapped
<1>18. Hands'
  <2>1. \A k \in Level : curSlot[k] \in Slot
    BY DEF TypeOK
  <2>2. wheel[m][o] = <<>> => d = <<>>
    BY <1>4 DEF Drop, Members
  <2>3. \A k \in Level : k # 0 => out[k][curSlot[k]] = <<>>
    BY <1>7, <1>13, <2>1, <2>2 DEF Hands
  <2>4. \A k \in Level : k # 0 => wheel'[k][curSlot[k]] = <<>>
    <3> SUFFICES ASSUME NEW k \in Level, k # 0 PROVE wheel'[k][curSlot[k]] = <<>>
      OBVIOUS
    <3>1. PICK u \in Slot : u = curSlot[k]
      BY <2>1
    <3>2. ~(k = l /\ u = s)
      BY <1>2, <3>1
    <3>3. wheel'[k][u] = out[k][u]
      BY <1>11, <3>2
    <3> QED
      BY <2>3, <3>1, <3>3
  <2> QED
    BY <1>13, <2>4 DEF Hands
<1>19. Timely'
  <2>1. Carry = Levels /\ Carry' = Levels /\ \A k : Ahead(k) = 1 /\ Ahead(k)' = 1
    BY <1>13 DEF Carry, Ahead
  <2>2. turns = 0 /\ turns' = 0
    BY <1>13 DEF Hands
  <2> SUFFICES ASSUME NEW k \in Level, NEW u \in Slot, NEW n \in Members(wheel'[k][u])
               PROVE  Due(curSlot, 0, Levels, 1, k, u, ahead'[n])
    BY <1>13, <2>1, <2>2 DEF Timely
  <2>3. CASE n = id
    BY <1>2, <1>12, <1>14, <2>3
  <2>4. CASE n # id
    <3>1. n \in Members(wheel[k][u]) /\ n \in Ids
      BY <1>12, <2>4, SlotTyped
    <3> QED
      BY <1>14, <2>1, <2>2, <2>4, <3>1 DEF Timely
  <2> QED
    BY <2>3, <2>4
<1> QED
  BY <1>15, <1>16, <1>17, <1>18, <1>19

-----------------------------------------------------------------------------
(* tick(). *)

(* The time since the last tick() becomes turns, and the turns end. *)
LEMMA WheelTick ==
    ASSUME WheelInv, Tick \/ TickDone
    PROVE  WheelInv'
<1> USE DEF WheelInv
<1>1. CASE Tick
  <2>1. /\ pc = "idle" /\ pc' = "turn" /\ elapsed' = 0
        /\ UNCHANGED <<timeouts, wheel, curSlot, pos, nextId, level, resets, released,
                       defined>>
        /\ turns' = elapsed \div Interval
        /\ ahead' = [id \in Ids |-> IF HasNode(id) THEN Late(ahead[id] - elapsed) ELSE 0]
    BY <1>1 DEF Tick, Calling
  <2>2. Carry = Levels /\ Carry' = Levels /\ \A k : Ahead(k) = 1 /\ Ahead(k)' = 1
    BY <2>1 DEF Carry, Ahead
  <2>3. elapsed \in Nat /\ turns' \in Nat /\ turns = 0
    <3>1. elapsed \in Nat
      BY Sizes DEF TypeOK
    <3> QED
      BY <2>1, <3>1, Sizes, DivFacts DEF Hands
  <2>4. \A x \in Int : Late(x) \in Int
    BY Sizes DEF Late
  <2>5. \A id \in Ids : ahead[id] \in Int /\ ahead[id] - elapsed \in Int
    BY <2>3 DEF TypeOK
  <2>6. TypeOK'
    <3>1. ahead' \in [Ids -> Int]
      BY <2>1, <2>4, <2>5
    <3>2. 0 \in 0..MaxGap
      BY Sizes
    <3> QED
      BY <2>1, <2>3, <3>1, <3>2 DEF TypeOK
  <2>7. Slotted' /\ Mapped' /\ Hands'
    BY <2>1 DEF Slotted, Mapped, Hands
  <2>8. Timely'
    <3> SUFFICES ASSUME NEW k \in Level, NEW u \in Slot, NEW n \in Members(wheel[k][u])
                 PROVE  Due(curSlot, elapsed \div Interval, Levels, 1, k, u, ahead'[n])
      BY <2>1, <2>2 DEF Timely
    <3>1. n \in Ids /\ HasNode(n)
      BY SlotTyped DEF HasNode, In
    <3>2. ahead'[n] = Late(ahead[n] - elapsed)
      BY <2>1, <3>1
    <3>3. Due(curSlot, 0, Levels, 1, k, u, ahead[n])
      BY <2>2, <2>3 DEF Timely
    <3>4. ahead[n] \in Int
      BY <2>5, <3>1
    <3>5. Due(curSlot, elapsed \div Interval, Levels, 1, k, u, Late(ahead[n] - elapsed))
      BY <2>3, <3>3, <3>4, DueTick
    <3> QED
      BY <3>2, <3>5
  <2> QED
    BY <2>6, <2>7, <2>8
<1>2. CASE TickDone
  <2>1. /\ pc = "turn" /\ pc' = "idle" /\ turns = 0
        /\ UNCHANGED <<timeouts, wheel, curSlot, pos, nextId, ahead, elapsed, turns, level,
                       resets, released, defined>>
    BY <1>2 DEF TickDone
  <2>2. Carry' = Carry /\ \A k : Ahead(k)' = Ahead(k)
    BY <2>1 DEF Carry, Ahead
  <2>3. TypeOK'
    BY <2>1 DEF TypeOK
  <2>4. Slotted' /\ Mapped' /\ Hands'
    BY <2>1 DEF Slotted, Mapped, Hands
  <2>5. Timely'
    BY <2>1, <2>2 DEF Timely
  <2> QED
    BY <2>3, <2>4, <2>5
<1> QED
  BY <1>1, <1>2

(* The loop's head, with the hands at c after level m has been served: level m
   is 0 after a turn, or the level whose cascade has ended. *)
LEMMA WheelClimb ==
    ASSUME TypeOK, NEW m \in Level, NEW c \in [Level -> Slot],
           \A l \in Level : l # m => c[l] = curSlot[l],
           \A l \in Level : l # 0 => wheel[l][c[l]] = <<>>,
           NEW n \in Nat,
           \A l \in Level, s \in Slot : \A id \in Members(wheel[l][s]) :
               Due(c, n, IF c[m] = 0 THEN m ELSE Levels, IF l = 0 \/ l = m THEN 0 ELSE 1,
                   l, s, ahead[id]),
           Climb(m, c[m], c), UNCHANGED <<wheel, ahead>>, turns' = n
    PROVE  /\ Hands' /\ Timely'
           /\ curSlot' \in [Level -> Slot] /\ level' \in Level /\ pc' \in {"cascade", "fire"}
<1>1. \A l \in Level, s \in Slot : \A id \in Members(wheel[l][s]) :
          Due(c, n, IF c[m] = 0 THEN m ELSE Levels, IF l = 0 THEN 0 ELSE 1, l, s, ahead[id])
  <2> SUFFICES ASSUME NEW l \in Level, NEW s \in Slot, NEW id \in Members(wheel[l][s])
               PROVE  Due(c, n, IF c[m] = 0 THEN m ELSE Levels, IF l = 0 THEN 0 ELSE 1,
                          l, s, ahead[id])
    OBVIOUS
  <2>1. PICK j : j = IF c[m] = 0 THEN m ELSE Levels
    OBVIOUS
  <2>2. Due(c, n, j, IF l = 0 \/ l = m THEN 0 ELSE 1, l, s, ahead[id])
    BY <2>1
  <2>3. CASE l # 0 /\ l = m
    <3>1. Due(c, n, j, 0, l, s, ahead[id])
      BY <2>2, <2>3
    <3>2. c[l] # s /\ c[l] \in Slot
      BY <2>3 DEF Members
    <3>3. Due(c, n, j, 1, l, s, ahead[id])
      BY <3>1, <3>2, DuePassed
    <3> QED
      BY <2>1, <2>3, <3>3
  <2>4. CASE ~(l # 0 /\ l = m)
    BY <2>1, <2>2, <2>4
  <2> QED
    BY <2>3, <2>4
<1>2. CASE c[m] = 0 /\ m < Levels - 1
  <2>1. PICK i : i = m + 1
    OBVIOUS
  <2>2. i \in Level /\ i # 0 /\ i # m /\ i - 1 = m
    BY <1>2, <2>1, Sizes
  <2>3. PICK h : h = (c[i] + 1) % Slots
    OBVIOUS
  <2>4. h \in Slot /\ Succ(i) = h
    BY <2>2, <2>3, SuccSlot DEF Succ
  <2>5. level' = i /\ curSlot' = [c EXCEPT ![i] = h] /\ pc' = "cascade"
    BY <1>2, <2>1, <2>4 DEF Climb
  <2>6. curSlot' \in [Level -> Slot]
    BY <2>2, <2>4, <2>5
  <2>7. \A l \in Level : curSlot'[l] = IF l = i THEN h ELSE c[l]
    BY <2>5
  <2>8. Hands'
    BY <2>2, <2>5, <2>7 DEF Hands
  <2>9. Carry' = IF h = 0 THEN i ELSE Levels
    BY <2>2, <2>5, <2>7 DEF Carry
  <2>10. Timely'
    <3> SUFFICES ASSUME NEW l \in Level, NEW s \in Slot, NEW id \in Members(wheel[l][s])
                 PROVE  Due(curSlot', n, Carry', Ahead(l)', l, s, ahead[id])
      BY DEF Timely
    <3>1. PICK e \in {0, 1} : e = IF l = 0 THEN 0 ELSE 1
      OBVIOUS
    <3>2. PICK a \in Int : a = ahead[id]
      BY SlotTyped DEF TypeOK
    <3>3. Due(c, n, m, e, l, s, a)
      BY <1>1, <1>2, <3>1, <3>2
    <3>4. PICK g, j, f : g = curSlot' /\ j = Carry' /\ f = Ahead(l)'
      OBVIOUS
    <3>5. /\ l = i => f = 0
          /\ l # i => f = e
      BY <2>2, <2>5, <3>1, <3>4 DEF Ahead
    <3>6. /\ g = [c EXCEPT ![i] = h]
          /\ h = 0 => j = i
          /\ h # 0 => j = Levels
      BY <2>5, <2>9, <3>4
    <3>7. l = i => e = 1
      BY <2>2, <3>1
    <3>8. n \in Int /\ m \in Nat /\ i # 0 /\ m = i - 1
      BY <2>2, Sizes
    <3>9. Moves(c, g, i, n, n, m, j, e, f, l)
      BY <2>2, <2>3, <3>5, <3>6, <3>7, <3>8 DEF Moves
    <3>10. Due(g, n, j, f, l, s, a)
      BY <2>2, <3>3, <3>8, <3>9, DueMove
    <3> QED
      BY <3>2, <3>4, <3>10
  <2> QED
    BY <2>2, <2>5, <2>6, <2>8, <2>10
<1>3. CASE ~(c[m] = 0 /\ m < Levels - 1)
  <2>1. level' = 0 /\ curSlot' = c /\ pc' = "fire"
    BY <1>3 DEF Climb
  <2>2. Hands'
    BY <2>1 DEF Hands
  <2>3. Carry' = Levels
    BY <2>1 DEF Carry
  <2>4. Timely'
    <3> SUFFICES ASSUME NEW l \in Level, NEW s \in Slot, NEW id \in Members(wheel[l][s])
                 PROVE  Due(c, n, Levels, Ahead(l)', l, s, ahead[id])
      BY <2>1, <2>3 DEF Timely
    <3>1. PICK e \in {0, 1} : e = IF l = 0 THEN 0 ELSE 1
      OBVIOUS
    <3>2. Ahead(l)' = e
      BY <2>1, <3>1 DEF Ahead
    <3>3. PICK j \in Nat : j = (IF c[m] = 0 THEN m ELSE Levels) /\ j >= l
      BY <1>3, Sizes
    <3>4. Due(c, n, j, e, l, s, ahead[id])
      BY <1>1, <3>1, <3>3
    <3>5. Levels \in Nat /\ Levels >= l
      BY Sizes
    <3>6. Due(c, n, Levels, e, l, s, ahead[id])
      BY <3>3, <3>4, <3>5, DueCarry
    <3> QED
      BY <3>2, <3>6
  <2> QED
    BY <2>1, <2>2, <2>4, Sizes
<1> QED
  BY <1>2, <1>3

(* A turn of the wheel. *)
LEMMA WheelTurn ==
    ASSUME WheelInv, Turn
    PROVE  WheelInv'
<1> USE DEF WheelInv
<1>1. PICK c : c = [curSlot EXCEPT ![0] = Succ(0)]
  OBVIOUS
<1>2. Succ(0) \in Slot /\ 0 \in Level
  BY SuccSlot, Sizes
<1>3. /\ c \in [Level -> Slot] /\ c[0] = Succ(0)
      /\ \A l \in Level : l # 0 => c[l] = curSlot[l]
  BY <1>1, <1>2 DEF TypeOK
<1>4. /\ pc = "turn" /\ turns \in Nat /\ turns > 0 /\ turns' = turns - 1
      /\ Climb(0, c[0], c)
      /\ UNCHANGED <<timeouts, wheel, pos, nextId, ahead, elapsed, resets, released,
                     defined>>
  BY <1>1, <1>3 DEF Turn, TypeOK
<1>5. \A l \in Level : l # 0 => wheel[l][c[l]] = <<>>
  BY <1>3, <1>4 DEF Hands
<1>6. PICK n \in Nat : n = turns - 1
  BY <1>4
<1>7. ASSUME NEW l \in Level, NEW s \in Slot, NEW id \in Members(wheel[l][s])
      PROVE  Due(c, n, IF c[0] = 0 THEN 0 ELSE Levels, IF l = 0 \/ l = 0 THEN 0 ELSE 1,
                 l, s, ahead[id])
  <2>1. Carry = Levels /\ Ahead(l) = 1
    BY <1>4 DEF Carry, Ahead
  <2>2. Due(curSlot, turns, Levels, 1, l, s, ahead[id])
    BY <2>1 DEF Timely
  <2>3. PICK h : h = (curSlot[0] + 1) % Slots
    OBVIOUS
  <2>4. c[0] = h /\ c = [curSlot EXCEPT ![0] = h]
    BY <1>1, <1>3, <2>3 DEF Succ
  <2>5. turns \in Int /\ n \in Int /\ n = turns - 1 /\ Levels \in Nat
    BY <1>4, <1>6, Sizes
  <2>6. ahead[id] \in Int /\ curSlot \in [Level -> Slot]
    BY SlotTyped DEF TypeOK
  <2>7. PICK j, f : j = (IF c[0] = 0 THEN 0 ELSE Levels) /\ f = IF l = 0 \/ l = 0 THEN 0 ELSE 1
    OBVIOUS
  <2>8. /\ h = 0 => j = 0
        /\ h # 0 => j = Levels
        /\ l = 0 => f = 0
        /\ l # 0 => f = 1
    BY <2>4, <2>7
  <2>9. 1 \in {0, 1}
    OBVIOUS
  <2>10. Moves(curSlot, c, 0, turns, n, Levels, j, 1, f, l)
    BY <1>2, <2>3, <2>4, <2>5, <2>6, <2>8 DEF Moves
  <2>11. PICK u \in Int, a \in Int : u = turns /\ a = ahead[id]
    BY <2>5, <2>6
  <2>12. Due(c, n, j, f, l, s, a)
    BY <1>2, <2>2, <2>5, <2>6, <2>9, <2>10, <2>11, DueMove
  <2> QED
    BY <2>7, <2>11, <2>12
<1>8. /\ Hands' /\ Timely'
      /\ curSlot' \in [Level -> Slot] /\ level' \in Level /\ pc' \in {"cascade", "fire"}
  BY <1>2, <1>3, <1>4, <1>5, <1>6, <1>7, WheelClimb
<1>9. TypeOK'
  BY <1>4, <1>6, <1>8 DEF TypeOK
<1>10. Slotted' /\ Mapped'
  BY <1>4 DEF Slotted, Mapped
<1> QED
  BY <1>8, <1>9, <1>10

(* The end of a cascade. *)
LEMMA WheelCascaded ==
    ASSUME WheelInv, CascadeDone
    PROVE  WheelInv'
<1> USE DEF WheelInv
<1>1. /\ pc = "cascade" /\ Cascading = <<>> /\ level \in Level /\ level # 0
      /\ Climb(level, curSlot[level], curSlot)
      /\ UNCHANGED <<timeouts, wheel, pos, nextId, ahead, elapsed, turns, resets, released,
                     defined>>
      /\ curSlot \in [Level -> Slot] /\ turns \in Nat
  BY DEF CascadeDone, TypeOK, Hands
<1>2. \A l \in Level : l # 0 => wheel[l][curSlot[l]] = <<>>
  BY <1>1 DEF Hands, Cascading
<1>3. ASSUME NEW l \in Level, NEW s \in Slot, NEW id \in Members(wheel[l][s])
      PROVE  Due(curSlot, turns, IF curSlot[level] = 0 THEN level ELSE Levels,
                 IF l = 0 \/ l = level THEN 0 ELSE 1, l, s, ahead[id])
  <2>1. /\ Carry = IF curSlot[level] = 0 THEN level ELSE Levels
        /\ Ahead(l) = IF l = 0 \/ l = level THEN 0 ELSE 1
    BY <1>1 DEF Carry, Ahead
  <2> QED
    BY <2>1 DEF Timely
<1>4. PICK m \in Level, c \in [Level -> Slot], n \in Nat : m = level /\ c = curSlot /\ n = turns
  BY <1>1
<1>5. /\ Hands' /\ Timely'
      /\ curSlot' \in [Level -> Slot] /\ level' \in Level /\ pc' \in {"cascade", "fire"}
  <2>1. /\ \A l \in Level : l # m => c[l] = curSlot[l]
        /\ \A l \in Level : l # 0 => wheel[l][c[l]] = <<>>
        /\ Climb(m, c[m], c) /\ UNCHANGED <<wheel, ahead>> /\ turns' = n
    BY <1>1, <1>2, <1>4
  <2>2. \A l \in Level, s \in Slot : \A id \in Members(wheel[l][s]) :
            Due(c, n, IF c[m] = 0 THEN m ELSE Levels, IF l = 0 \/ l = m THEN 0 ELSE 1,
                l, s, ahead[id])
    BY <1>3, <1>4
  <2> QED
    BY <2>1, <2>2, WheelClimb
<1>6. TypeOK'
  BY <1>1, <1>5 DEF TypeOK
<1>7. Slotted' /\ Mapped'
  BY <1>1 DEF Slotted, Mapped
<1> QED
  BY <1>5, <1>6, <1>7

(* The head of a list leaves it. *)
LEMMA TailFacts ==
    ASSUME NEW X, NEW q \in Seq(X), q # <<>>
    PROVE  /\ Head(q) \in X /\ Head(q) \in Members(q)
           /\ Tail(q) \in Seq(X) /\ Members(Tail(q)) \subseteq Members(q)
           /\ Members(q) \subseteq Members(Tail(q)) \cup {Head(q)}
           /\ NoDup(q) => NoDup(Tail(q))
<1>1. Len(q) \in Nat /\ Len(q) > 0 /\ DOMAIN q = 1..Len(q) /\ Head(q) = q[1] /\ Tail(q) \in Seq(X)
  OBVIOUS
<1>2. /\ DOMAIN Tail(q) = 1..Len(q) - 1
      /\ \A i \in 1..Len(q) - 1 : Tail(q)[i] = q[i + 1] /\ i + 1 \in 1..Len(q)
  BY <1>1
<1>3. 1 \in 1..Len(q) /\ Head(q) \in X
  BY <1>1
<1>4. ASSUME NEW x \in Members(q), x # Head(q) PROVE x \in Members(Tail(q))
  <2>1. PICK i \in 1..Len(q) : x = q[i]
    BY <1>1 DEF Members
  <2>2. i - 1 \in 1..Len(q) - 1 /\ (i - 1) + 1 = i
    BY <1>1, <1>4, <2>1
  <2>3. x = Tail(q)[i - 1]
    BY <1>2, <2>1, <2>2
  <2> QED
    BY <1>2, <2>2, <2>3 DEF Members
<1>5. Members(Tail(q)) \subseteq Members(q)
  BY <1>1, <1>2 DEF Members
<1>6. NoDup(q) => NoDup(Tail(q))
  BY <1>1, <1>2 DEF NoDup
<1> QED
  BY <1>1, <1>3, <1>4, <1>5, <1>6 DEF Members

(* A callback in a cascade takes the head of the slot; the walk off its end
   changes nothing that is known. *)
LEMMA WheelCascade ==
    ASSUME WheelInv, CascadeDue \/ CascadeAhead
    PROVE  WheelInv'
<1> USE DEF WheelInv
<1>1. CASE CascadeAhead
  <2>1. /\ UNCHANGED <<timeouts, pc, wheel, curSlot, pos, nextId, ahead, elapsed, turns,
                       level, resets, released>>
        /\ defined' \in BOOLEAN
    BY <1>1 DEF CascadeAhead
  <2>2. Carry' = Carry /\ \A k : Ahead(k)' = Ahead(k)
    BY <2>1 DEF Carry, Ahead
  <2>3. TypeOK'
    BY <2>1 DEF TypeOK
  <2>4. Slotted' /\ Mapped' /\ Hands'
    BY <2>1 DEF Slotted, Mapped, Hands
  <2>5. Timely'
    BY <2>1, <2>2 DEF Timely
  <2> QED
    BY <2>3, <2>4, <2>5
<1>2. CASE CascadeDue
  <2>1. PICK l \in Level, s \in Slot : l = level /\ s = curSlot[level]
    BY DEF TypeOK
  <2>2. PICK q : q = wheel[l][s]
    OBVIOUS
  <2>3. q \in Seq(Ids) /\ q # <<>> /\ NoDup(q)
    BY <1>2, <2>1, <2>2, SlotTyped DEF CascadeDue, Cascading, Slotted
  <2>4. Tail(q) \in Seq(Ids) /\ Members(Tail(q)) \subseteq Members(q) /\ NoDup(Tail(q))
    BY <2>3, TailFacts
  <2>5. PICK m : pos' = [pos EXCEPT ![m] = Nowhere]
    BY <1>2 DEF CascadeDue
  <2>6. /\ wheel' = [wheel EXCEPT ![l][s] = Tail(@)]
        /\ UNCHANGED <<timeouts, pc, curSlot, nextId, ahead, elapsed, turns, level, resets,
                       released, defined>>
        /\ pc = "cascade"
    BY <1>2, <2>1 DEF CascadeDue
  <2>7. /\ wheel' \in [Level -> [Slot -> Seq(Ids)]]
        /\ \A k \in Level, u \in Slot :
               wheel'[k][u] = IF k = l /\ u = s THEN Tail(q) ELSE wheel[k][u]
    <3>1. wheel \in [Level -> [Slot -> Seq(Ids)]]
      BY DEF TypeOK
    <3> QED
      BY <2>2, <2>4, <2>6, <3>1
  <2>8. pos' \in [Ids -> Position \cup {Nowhere}] /\ \A n \in Ids : pos'[n] \in {pos[n], Nowhere}
    BY <2>5 DEF TypeOK
  <2>9. \A k \in Level, u \in Slot : /\ Members(wheel'[k][u]) \subseteq Members(wheel[k][u])
                                     /\ NoDup(wheel'[k][u])
    BY <2>2, <2>4, <2>7 DEF Slotted
  <2>10. TypeOK'
    BY <2>6, <2>7, <2>8 DEF TypeOK
  <2>11. Slotted'
    <3> SUFFICES ASSUME NEW k \in Level, NEW u \in Slot, NEW n \in Members(wheel'[k][u])
                 PROVE  n < nextId' /\ pos'[n] \in {Nowhere, At(k, u)}
      BY <2>9 DEF Slotted
    <3>1. n \in Members(wheel[k][u]) /\ n \in Ids
      BY <2>9, SlotTyped
    <3> QED
      BY <2>6, <2>8, <3>1 DEF Slotted
  <2>12. Mapped'
    BY <2>6, <2>8 DEF Mapped
  <2>13. Hands'
    <3>1. \A k \in Level : k # 0 => wheel[k][curSlot[k]] = <<>> \/ k = l
      BY <2>1 DEF Hands
    <3>2. \A k \in Level : k # l => wheel'[k][curSlot[k]] = wheel[k][curSlot[k]]
      BY <2>7 DEF TypeOK
    <3> QED
      BY <2>1, <2>6, <3>1, <3>2 DEF Hands
  <2>14. Timely'
    <3>1. Carry' = Carry /\ \A k : Ahead(k)' = Ahead(k)
      BY <2>6 DEF Carry, Ahead
    <3> QED
      BY <2>6, <2>9, <3>1 DEF Timely
  <2> QED
    BY <2>10, <2>11, <2>12, <2>13, <2>14
<1> QED
  BY <1>1, <1>2

(* Every callback under the hand of level 0 runs. *)
LEMMA WheelFire ==
    ASSUME WheelInv, Fire
    PROVE  WheelInv'
<1> USE DEF WheelInv
<1>1. PICK h \in Slot : h = curSlot[0]
  BY Sizes DEF TypeOK
<1>2. /\ pc = "fire" /\ pc' = "turn"
      /\ pos' = [id \in Ids |-> IF id \in Members(wheel[0][h]) THEN Nowhere ELSE pos[id]]
      /\ wheel' = [wheel EXCEPT ![0][h] = <<>>]
      /\ UNCHANGED <<timeouts, curSlot, nextId, ahead, elapsed, turns, level, resets,
                     released, defined>>
  BY <1>1 DEF Fire
<1>3. /\ wheel' \in [Level -> [Slot -> Seq(Ids)]]
      /\ \A k \in Level, u \in Slot :
             wheel'[k][u] = IF k = 0 /\ u = h THEN <<>> ELSE wheel[k][u]
  <2>1. wheel \in [Level -> [Slot -> Seq(Ids)]] /\ <<>> \in Seq(Ids)
    BY DEF TypeOK
  <2> QED
    BY <1>2, <2>1
<1>4. NoDup(<<>>) /\ Members(<<>>) = {}
  BY DEF NoDup, Members
<1>5. \A k \in Level, u \in Slot : /\ Members(wheel'[k][u]) \subseteq Members(wheel[k][u])
                                   /\ NoDup(wheel'[k][u])
  BY <1>3, <1>4 DEF Slotted
<1>6. pos' \in [Ids -> Position \cup {Nowhere}] /\ \A n \in Ids : pos'[n] \in {pos[n], Nowhere}
  BY <1>2 DEF TypeOK
<1>7. TypeOK'
  BY <1>2, <1>3, <1>6 DEF TypeOK
<1>8. Slotted'
  <2> SUFFICES ASSUME NEW k \in Level, NEW u \in Slot, NEW n \in Members(wheel'[k][u])
               PROVE  n < nextId' /\ pos'[n] \in {Nowhere, At(k, u)}
    BY <1>5 DEF Slotted
  <2>1. n \in Members(wheel[k][u]) /\ n \in Ids
    BY <1>5, SlotTyped
  <2> QED
    BY <1>2, <1>6, <2>1 DEF Slotted
<1>9. Mapped'
  BY <1>2, <1>6 DEF Mapped
<1>10. Hands'
  <2>1. \A k \in Level : k # 0 => wheel'[k][curSlot[k]] = wheel[k][curSlot[k]]
    BY <1>3 DEF TypeOK
  <2> QED
    BY <1>2, <2>1 DEF Hands
<1>11. Timely'
  <2>1. Carry = Levels /\ Carry' = Levels
    BY <1>2 DEF Carry
  <2> SUFFICES ASSUME NEW k \in Level, NEW u \in Slot, NEW n \in Members(wheel'[k][u])
               PROVE  Due(curSlot, turns, Levels, Ahead(k)', k, u, ahead[n])
    BY <1>2, <2>1 DEF Timely
  <2>2. n \in Members(wheel[k][u]) /\ n \in Ids /\ (k = 0 => u # h)
    BY <1>3, <1>4, <1>5, SlotTyped
  <2>3. Ahead(k)' = 1 /\ Ahead(k) = IF k = 0 THEN 0 ELSE 1
    BY <1>2 DEF Ahead
  <2>4. Due(curSlot, turns, Levels, Ahead(k), k, u, ahead[n])
    BY <2>1, <2>2 DEF Timely
  <2>5. CASE k = 0
    <3>1. Due(curSlot, turns, Levels, 0, k, u, ahead[n]) /\ curSlot[k] \in Slot /\ curSlot[k] # u
      BY <1>1, <2>2, <2>3, <2>4, <2>5
    <3> QED
      BY <2>3, <3>1, DuePassed
  <2>6. CASE k # 0
    BY <2>3, <2>4, <2>6
  <2> QED
    BY <2>5, <2>6
<1> QED
  BY <1>7, <1>8, <1>9, <1>10, <1>11

(* Time that passes, and steps that change nothing. *)
LEMMA WheelSleep ==
    ASSUME WheelInv, (\E gap \in 1..MaxGap : Sleep(gap)) \/ UNCHANGED vars
    PROVE  WheelInv'
<1> USE DEF WheelInv
<1>1. /\ UNCHANGED <<timeouts, pc, wheel, curSlot, pos, nextId, ahead, turns, level, resets,
                     released, defined>>
      /\ elapsed' \in 0..MaxGap
  <2>1. CASE UNCHANGED vars
    BY <2>1 DEF vars, TypeOK
  <2>2. CASE \E gap \in 1..MaxGap : Sleep(gap)
    <3>1. PICK gap \in 1..MaxGap : Sleep(gap)
      BY <2>2
    <3>2. elapsed \in 0..MaxGap /\ elapsed' = elapsed + gap /\ elapsed + gap <= MaxGap
      BY <3>1 DEF Sleep, TypeOK
    <3>3. elapsed' \in 0..MaxGap
      BY <3>2, Sizes
    <3> QED
      BY <3>1, <3>3 DEF Sleep
  <2> QED
    BY <2>1, <2>2
<1>2. Carry' = Carry /\ \A k : Ahead(k)' = Ahead(k)
  BY <1>1 DEF Carry, Ahead
<1>3. TypeOK'
  BY <1>1 DEF TypeOK
<1>4. Slotted' /\ Mapped' /\ Hands'
  BY <1>1 DEF Slotted, Mapped, Hands
<1>5. Timely'
  BY <1>1, <1>2 DEF Timely
<1> QED
  BY <1>3, <1>4, <1>5

(* Every step. *)
LEMMA WheelNext == WheelInv /\ [Next]_vars => WheelInv'
<1> SUFFICES ASSUME WheelInv, [Next]_vars PROVE WheelInv'
  OBVIOUS
<1>1. ASSUME NEW timeout \in timeouts, AddTimer(timeout) PROVE WheelInv'
  BY <1>1, WheelAdd
<1>2. ASSUME NEW id \in Ids, DelTimer(id) PROVE WheelInv'
  BY <1>2, WheelDel
<1>3. ASSUME NEW id \in Ids, NEW timeout \in timeouts, ResetTimer(id, timeout) PROVE WheelInv'
  BY <1>3, WheelReset
<1>4. CASE Tick \/ TickDone
  BY <1>4, WheelTick
<1>5. CASE Turn
  BY <1>5, WheelTurn
<1>6. CASE CascadeDue \/ CascadeAhead
  BY <1>6, WheelCascade
<1>7. CASE CascadeDone
  BY <1>7, WheelCascaded
<1>8. CASE Fire
  BY <1>8, WheelFire
<1>9. CASE (\E gap \in 1..MaxGap : Sleep(gap)) \/ UNCHANGED vars
  BY <1>9, WheelSleep
<1> QED
  BY <1>1, <1>2, <1>3, <1>4, <1>5, <1>6, <1>7, <1>8, <1>9 DEF Next, CallNext, TickNext

-----------------------------------------------------------------------------
(* What follows for every wheel. *)

(* The invariant holds in every state of the timer. *)
THEOREM WheelHolds == Spec => []WheelInv
<1>1. Init => WheelInv
  BY WheelInit
<1>2. WheelInv /\ [Next]_vars => WheelInv'
  BY WheelNext
<1> QED
  BY <1>1, <1>2, PTL DEF Spec

(* Every variable of the timer stays in its set. *)
THEOREM TypeCorrect == Spec => []TypeOK
<1>1. WheelInv => TypeOK
  BY DEF WheelInv
<1> QED
  BY <1>1, WheelHolds, PTL

(* A node under the hand of an upper level is due or belongs on a lower level:
   no timer goes round a level twice, on a wheel of any number of levels. *)
THEOREM CascadesDownHolds == Spec => []CascadesDown
<1>1. WheelInv => CascadesDown
  <2> SUFFICES ASSUME WheelInv, pc = "cascade", NEW id \in Members(Cascading), ahead[id] > 0
               PROVE  LevelFor(ahead[id] \div Interval) < level
    BY DEF CascadesDown
  <2> USE DEF WheelInv
  <2>1. PICK l \in Level, s \in Slot : l = level /\ s = curSlot[level] /\ l # 0
    BY DEF TypeOK, Hands
  <2>2. id \in Members(wheel[l][s]) /\ id \in Ids
    BY <2>1, SlotTyped DEF Cascading
  <2>3. PICK a \in Int, n \in Nat : a = ahead[id] /\ n = turns
    BY <2>2 DEF TypeOK
  <2>4. PICK j \in Nat : j = Carry /\ j >= l
    BY <2>1, Sizes DEF Carry
  <2>5. Ahead(l) = 0
    BY <2>1 DEF Ahead
  <2>6. Due(curSlot, n, j, 0, l, curSlot[l], a)
    BY <2>1, <2>2, <2>3, <2>4, <2>5 DEF Timely
  <2>7. LevelFor(a \div Interval) < l
    BY <2>1, <2>3, <2>4, <2>6, DueBelow
  <2> QED
    BY <2>1, <2>3, <2>7
<1> QED
  BY <1>1, WheelHolds, PTL

(* Only a cascade and the hand of level 0 run callbacks, and only due ones. *)
LEMMA RanInTime ==
    ASSUME WheelInv, [Next]_vars, NEW id \in Ids, Ran(id)
    PROVE  ahead[id] < Interval
<1> USE DEF WheelInv
<1>1. pc # "idle" /\ HasNode(id) /\ ~HasNode(id)'
  BY DEF Ran
<1>2. wheel' # wheel
  BY <1>1 DEF HasNode, In
<1>3. CascadeDue \/ Fire
  BY <1>1, <1>2 DEF Next, CallNext, TickNext, AddTimer, DelTimer, ResetTimer, Sleep,
     Calling, Tick, TickDone, Turn, CascadeAhead, CascadeDone, vars
<1>4. PICK l \in Level, s \in Slot : id \in Members(wheel[l][s])
  BY <1>1 DEF HasNode, In
<1>5. id \notin Members(wheel'[l][s])
  BY <1>1 DEF HasNode, In
<1>6. wheel \in [Level -> [Slot -> Seq(Ids)]]
  BY DEF TypeOK
<1>7. CASE CascadeDue
  <2>1. PICK k \in Level, u \in Slot : k = level /\ u = curSlot[level]
    BY DEF TypeOK
  <2>2. /\ wheel' = [wheel EXCEPT ![k][u] = Tail(@)]
        /\ wheel[k][u] # <<>> /\ ahead[Head(wheel[k][u])] <= 0
    BY <1>7, <2>1 DEF CascadeDue, Cascading
  <2>3. l = k /\ s = u
    BY <1>4, <1>5, <1>6, <2>2
  <2>4. wheel'[l][s] = Tail(wheel[l][s])
    BY <1>6, <2>2, <2>3
  <2>5. wheel[l][s] \in Seq(Ids)
    BY <1>6
  <2>6. Members(wheel[l][s]) \subseteq Members(Tail(wheel[l][s])) \cup {Head(wheel[l][s])}
    BY <2>2, <2>3, <2>5, TailFacts
  <2>7. id = Head(wheel[l][s])
    BY <1>4, <1>5, <2>4, <2>6
  <2> QED
    BY <2>2, <2>3, <2>7, Sizes DEF TypeOK
<1>8. CASE Fire
  <2>1. PICK h \in Slot : h = curSlot[0] /\ 0 \in Level
    BY Sizes DEF TypeOK
  <2>2. wheel' = [wheel EXCEPT ![0][h] = <<>>] /\ pc = "fire"
    BY <1>8, <2>1 DEF Fire
  <2>3. l = 0 /\ s = h
    BY <1>4, <1>5, <1>6, <2>1, <2>2
  <2>4. Ahead(0) = 0 /\ Carry = Levels
    BY <2>2 DEF Ahead, Carry
  <2>5. Due(curSlot, turns, Levels, 0, 0, curSlot[0], ahead[id])
    BY <1>4, <2>1, <2>3, <2>4 DEF Timely
  <2>6. turns \in Nat /\ ahead[id] \in Int /\ curSlot[0] \in Slot
    BY <2>1 DEF TypeOK
  <2> QED
    BY <2>5, <2>6, DueHere
<1> QED
  BY <1>3, <1>7, <1>8

(* No callback runs a whole slot before its deadline, however the calls of
   tick() are spaced and whatever level its node was put on. *)
THEOREM NotEarlyHolds == Spec => NotEarly
<1>1. WheelInv /\ [Next]_vars => [\A id \in Ids : Ran(id) => ahead[id] < Interval]_vars
  BY RanInTime
<1> QED
  BY <1>1, WheelHolds, PTL DEF Spec, NotEarly

-----------------------------------------------------------------------------
(* The flat wheel. *)

(* Nothing is on the upper levels. *)
Low == \A l \in Level, s \in Slot : l # 0 => Members(wheel[l][s]) = {}

(* A node has an entry, and an entry has a node unless its owner deleted it. *)
Kept ==
    \A id \in Ids : /\ HasNode(id) => pos[id] # Nowhere
                    /\ pos[id] # Nowhere => id \in released \/ HasNode(id)

FlatInv == WheelInv /\ Low /\ Kept /\ defined

(* On a flat wheel every timer goes to level 0. *)
LEMMA PlaceFlat ==
    ASSUME Flat, TypeOK, NEW t \in timeouts
    PROVE  \E s \in Slot : Place(t \div Interval) = At(0, s)
<1>1. PICK k \in Nat : k = t \div Interval /\ k < Slots
  BY Sizes, DivFacts DEF Flat, TypeOK
<1>2. LevelFor(k) = 0
  <2>1. LevelFor(k) \in Nat /\ \A i \in 0..LevelFor(k) - 1 : Away(k)[i] >= Slots
    BY LevelFacts
  <2>2. Away(k)[0] = k
    BY AwayFacts
  <2>3. LevelFor(k) # 0 => 0 \in 0..LevelFor(k) - 1
    BY <2>1
  <2> QED
    BY <1>1, <2>1, <2>2, <2>3, Sizes
<1>3. Fits(k)
  BY <1>2, Sizes DEF Fits
<1>4. PICK l \in Level, s \in Slot : l = LevelFor(k) /\ Place(k) = [level |-> l, slot |-> s]
  BY <1>1, <1>3, PlaceFacts
<1> QED
  BY <1>1, <1>2, <1>4 DEF At

(* The empty wheel. *)
LEMMA FlatInit == Init => FlatInv
<1> SUFFICES ASSUME Init PROVE FlatInv
  OBVIOUS
<1>1. \A l \in Level, s \in Slot : Members(wheel[l][s]) = {}
  BY DEF Init, Members
<1> QED
  BY <1>1, WheelInit DEF Init, FlatInv, Low, Kept, HasNode, In

(* add_timer appends a node that is nowhere yet. *)
LEMMA FlatAdd ==
    ASSUME Flat, FlatInv, NEW t \in timeouts, AddTimer(t)
    PROVE  Low' /\ Kept' /\ defined'
<1> USE DEF FlatInv
<1>1. PICK s \in Slot : Place(t \div Interval) = At(0, s)
  BY PlaceFlat DEF WheelInv
<1>2. PICK p : p = Place(t \div Interval)
  OBVIOUS
<1>3. /\ wheel' = [wheel EXCEPT ![p.level][p.slot] = Append(@, nextId)]
      /\ pos' = [pos EXCEPT ![nextId] = p] /\ UNCHANGED <<released, defined>>
  BY <1>2 DEF AddTimer
<1>4. p = At(0, s) /\ p.level = 0 /\ p.slot = s /\ p # Nowhere
  BY <1>1, <1>2, AtFacts, Sizes
<1>5. nextId \in Ids /\ wheel[0][s] \in Seq(Ids)
  BY SlotTyped, Sizes DEF AddTimer, WheelInv, TypeOK, Ids
<1>6. PICK q : q = Append(wheel[0][s], nextId) /\ Members(q) = Members(wheel[0][s]) \cup {nextId}
  <2>1. Members(Append(wheel[0][s], nextId)) = Members(wheel[0][s]) \cup {nextId}
    BY <1>5, PushFacts
  <2> QED
    BY <2>1
<1>7. \A l \in Level, u \in Slot : wheel'[l][u] = IF l = 0 /\ u = s THEN q ELSE wheel[l][u]
  BY <1>3, <1>4, <1>6 DEF WheelInv, TypeOK
<1>8. Low'
  BY <1>7 DEF Low
<1>9. \A n \in Ids : HasNode(n)' <=> HasNode(n) \/ n = nextId
  <2>1. \A n \in Ids, l \in Level, u \in Slot :
            n \in Members(wheel'[l][u]) <=> n \in Members(wheel[l][u]) \/ (l = 0 /\ u = s /\ n = nextId)
    BY <1>6, <1>7
  <2> QED
    BY <2>1, Sizes DEF HasNode, In
<1>10. \A n \in Ids : pos'[n] = IF n = nextId THEN p ELSE pos[n]
  BY <1>3 DEF WheelInv, TypeOK
<1> QED
  BY <1>3, <1>4, <1>8, <1>9, <1>10 DEF Kept

(* del_timer erases the node that the map points at. *)
LEMMA FlatDel ==
    ASSUME FlatInv, NEW id \in Ids, DelTimer(id)
    PROVE  Low' /\ Kept' /\ defined'
<1> USE DEF FlatInv
<1>1. released' = released \cup {id} /\ id \notin released /\ pos' = pos
  BY DEF DelTimer
<1>2. CASE pos[id] = Nowhere
  <2>1. UNCHANGED <<wheel, defined>>
    BY <1>2 DEF DelTimer
  <2> QED
    BY <1>1, <2>1 DEF Low, Kept, HasNode, In
<1>3. CASE pos[id] # Nowhere
  <2>1. PICK m \in Level, o \in Slot : pos[id] = At(m, o)
    BY <1>3 DEF WheelInv, TypeOK, Position, At
  <2>2. HasNode(id)
    BY <1>1, <1>3 DEF Kept
  <2>3. PICK p : p = pos[id] /\ p.level = m /\ p.slot = o
    BY <2>1, AtFacts
  <2>4. wheel' = [wheel EXCEPT ![p.level][p.slot] = Drop(@, id)] /\ defined' = HasNode(id)
    BY <1>3, <2>3 DEF DelTimer
  <2>5. wheel[m][o] \in Seq(Ids)
    BY SlotTyped DEF WheelInv
  <2>6. PICK q : /\ q = Drop(wheel[m][o], id) /\ Members(q) \subseteq Members(wheel[m][o])
                 /\ Members(wheel[m][o]) \ {id} \subseteq Members(q)
    BY <2>5, DropFacts
  <2>7. \A l \in Level, u \in Slot : wheel'[l][u] = IF l = m /\ u = o THEN q ELSE wheel[l][u]
    BY <2>3, <2>4, <2>6 DEF WheelInv, TypeOK
  <2>8. Low'
    BY <2>6, <2>7 DEF Low
  <2>9. \A n \in Ids : (HasNode(n)' => HasNode(n)) /\ (n # id /\ HasNode(n) => HasNode(n)')
    <3>1. \A n \in Ids, l \in Level, u \in Slot :
              /\ n \in Members(wheel'[l][u]) => n \in Members(wheel[l][u])
              /\ n # id /\ n \in Members(wheel[l][u]) => n \in Members(wheel'[l][u])
      BY <2>6, <2>7
    <3> QED
      BY <3>1 DEF HasNode, In
  <2> QED
    BY <1>1, <2>2, <2>4, <2>8, <2>9 DEF Kept
<1> QED
  BY <1>2, <1>3

(* reset_timer moves the node that the map points at. *)
LEMMA FlatReset ==
    ASSUME Flat, FlatInv, NEW id \in Ids, NEW t \in timeouts, ResetTimer(id, t)
    PROVE  Low' /\ Kept' /\ defined'
<1> USE DEF FlatInv
<1>1. PICK s \in Slot : Place(t \div Interval) = At(0, s)
  BY PlaceFlat DEF WheelInv
<1>2. pos[id] # Nowhere /\ id \notin released /\ released' = released
  BY DEF ResetTimer
<1>3. PICK m \in Level, o \in Slot : pos[id] = At(m, o)
  BY <1>2 DEF WheelInv, TypeOK, Position, At
<1>4. HasNode(id)
  BY <1>2 DEF Kept
<1>5. PICK p, r : /\ p = Place(t \div Interval) /\ r = pos[id]
                  /\ p.level = 0 /\ p.slot = s /\ r.level = m /\ r.slot = o /\ p # Nowhere
  BY <1>1, <1>3, AtFacts, Sizes
<1>6. PICK out : /\ out = [wheel EXCEPT ![r.level][r.slot] = Drop(@, id)]
                 /\ wheel' = [out EXCEPT ![p.level][p.slot] = Append(@, id)]
                 /\ pos' = [pos EXCEPT ![id] = p]
                 /\ defined' = HasNode(id)
  BY <1>5 DEF ResetTimer
<1>7. wheel[m][o] \in Seq(Ids) /\ wheel \in [Level -> [Slot -> Seq(Ids)]]
  BY SlotTyped DEF WheelInv, TypeOK
<1>8. PICK d : /\ d = Drop(wheel[m][o], id) /\ d \in Seq(Ids)
               /\ Members(d) \subseteq Members(wheel[m][o])
               /\ Members(wheel[m][o]) \ {id} \subseteq Members(d)
  BY <1>7, DropFacts
<1>9. /\ out \in [Level -> [Slot -> Seq(Ids)]]
      /\ \A l \in Level, u \in Slot : out[l][u] = IF l = m /\ u = o THEN d ELSE wheel[l][u]
  BY <1>5, <1>6, <1>7, <1>8
<1>10. PICK q : q = Append(out[0][s], id) /\ Members(q) = Members(out[0][s]) \cup {id}
  <2>1. out[0][s] \in Seq(Ids)
    BY <1>9, Sizes
  <2>2. Members(Append(out[0][s], id)) = Members(out[0][s]) \cup {id}
    BY <2>1, PushFacts
  <2> QED
    BY <2>2
<1>11. \A l \in Level, u \in Slot : wheel'[l][u] = IF l = 0 /\ u = s THEN q ELSE out[l][u]
  BY <1>5, <1>6, <1>9, <1>10
<1>12. \A l \in Level, u \in Slot : Members(out[l][u]) \subseteq Members(wheel[l][u])
  BY <1>8, <1>9
<1>13. Low'
  BY <1>11, <1>12 DEF Low
<1>14. \A n \in Ids : n # id => (HasNode(n)' <=> HasNode(n))
  <2>1. \A n \in Ids, l \in Level, u \in Slot :
            n # id => (n \in Members(wheel'[l][u]) <=> n \in Members(wheel[l][u]))
    <3> SUFFICES ASSUME NEW n \in Ids, NEW l \in Level, NEW u \in Slot, n # id
                 PROVE  n \in Members(wheel'[l][u]) <=> n \in Members(wheel[l][u])
      OBVIOUS
    <3>1. n \in Members(wheel'[l][u]) <=> n \in Members(out[l][u])
      BY <1>10, <1>11
    <3>2. n \in Members(out[l][u]) <=> n \in Members(wheel[l][u])
      BY <1>8, <1>9
    <3> QED
      BY <3>1, <3>2
  <2> QED
    BY <2>1 DEF HasNode, In
<1>15. HasNode(id)'
  <2>1. id \in Members(wheel'[0][s]) /\ 0 \in Level
    BY <1>10, <1>11, Sizes
  <2> QED
    BY <2>1 DEF HasNode, In
<1>16. \A n \in Ids : pos'[n] = IF n = id THEN p ELSE pos[n]
  BY <1>6 DEF WheelInv, TypeOK
<1> QED
  BY <1>2, <1>4, <1>5, <1>6, <1>13, <1>14, <1>15, <1>16 DEF Kept

(* The callbacks run, and their nodes and entries go. *)
LEMMA FlatFire ==
    ASSUME FlatInv, Fire
    PROVE  Low' /\ Kept' /\ defined'
<1> USE DEF FlatInv
<1>1. PICK h \in Slot : h = curSlot[0] /\ 0 \in Level
  BY Sizes DEF WheelInv, TypeOK
<1>2. PICK due : /\ due = Members(wheel[0][h])
                 /\ pos' = [id \in Ids |-> IF id \in due THEN Nowhere ELSE pos[id]]
                 /\ wheel' = [wheel EXCEPT ![0][h] = <<>>]
                 /\ UNCHANGED <<released, defined>>
  BY <1>1 DEF Fire
<1>3. \A l \in Level, u \in Slot :
          Members(wheel'[l][u]) = IF l = 0 /\ u = h THEN {} ELSE Members(wheel[l][u])
  <2>1. Members(<<>>) = {}
    BY DEF Members
  <2>2. \A l \in Level, u \in Slot :
            wheel'[l][u] = IF l = 0 /\ u = h THEN <<>> ELSE wheel[l][u]
    BY <1>2 DEF WheelInv, TypeOK
  <2> QED
    BY <2>1, <2>2
<1>4. Low'
  BY <1>3 DEF Low
<1>5. ASSUME NEW n \in Ids PROVE HasNode(n)' <=> HasNode(n) /\ n \notin due
  <2>1. ASSUME n \in due, NEW l \in Level, NEW u \in Slot, n \in Members(wheel[l][u])
        PROVE  l = 0 /\ u = h
    <3>1. HasNode(n)
      BY <2>1 DEF HasNode, In
    <3>2. pos[n] # Nowhere
      BY <3>1 DEF Kept
    <3>3. pos[n] = At(0, h) /\ pos[n] = At(l, u)
      BY <1>1, <1>2, <2>1, <3>2 DEF WheelInv, Slotted
    <3> QED
      BY <3>3, AtFacts
  <2>2. \A l \in Level, u \in Slot :
            n \in Members(wheel'[l][u]) <=> n \in Members(wheel[l][u]) /\ n \notin due
    BY <1>2, <1>3, <2>1
  <2> QED
    BY <2>2 DEF HasNode, In
<1>6. \A n \in Ids : pos'[n] = IF n \in due THEN Nowhere ELSE pos[n]
  BY <1>2
<1> QED
  BY <1>2, <1>4, <1>5, <1>6 DEF Kept

(* Every step. *)
LEMMA FlatNext == Flat /\ FlatInv /\ [Next]_vars => FlatInv'
<1> SUFFICES ASSUME Flat, FlatInv, [Next]_vars PROVE Low' /\ Kept' /\ defined'
  BY WheelNext DEF FlatInv
<1>1. CASE CallNext
  BY <1>1, FlatAdd, FlatDel, FlatReset DEF CallNext
<1>2. CASE Fire
  BY <1>2, FlatFire
<1>3. CASE CascadeDue \/ CascadeAhead
  <2>1. level \in Level /\ curSlot[level] \in Slot /\ level # 0
    BY <1>3 DEF CascadeDue, CascadeAhead, FlatInv, WheelInv, TypeOK, Hands
  <2>2. Members(Cascading) = {} /\ Cascading \in Seq(Ids)
    BY <2>1, SlotTyped DEF FlatInv, WheelInv, Low, Cascading
  <2>3. Cascading = <<>>
    BY <2>2, TailFacts
  <2> QED
    BY <1>3, <2>3 DEF CascadeDue, CascadeAhead
<1>4. CASE UNCHANGED <<wheel, pos, released, defined>>
  BY <1>4 DEF FlatInv, Low, Kept, HasNode, In
<1> QED
  BY <1>1, <1>2, <1>3, <1>4
     DEF Next, TickNext, Tick, TickDone, Turn, CascadeDone, Sleep, vars

(* What the callers ask for does not change. *)
LEMMA FlatStays == [Next]_vars => (Flat' <=> Flat)
<1> SUFFICES ASSUME [Next]_vars PROVE timeouts' = timeouts
  BY DEF Flat
<1> QED
  BY DEF Next, CallNext, AddTimer, DelTimer, ResetTimer, TickNext, Tick, TickDone, Turn,
         CascadeDue, CascadeAhead, CascadeDone, Fire, Sleep, vars

(* On a flat wheel the invariant holds in every state. *)
LEMMA FlatHolds == Spec => [](Flat => FlatInv)
<1>1. Init => (Flat => FlatInv)
  BY FlatInit
<1>2. (Flat => FlatInv) /\ [Next]_vars => (Flat => FlatInv)'
  BY FlatNext, FlatStays
<1> QED
  BY <1>1, <1>2, PTL DEF Spec

(* On a flat wheel m_timer_map agrees with the slots after any calls of
   add_timer, del_timer, reset_timer and tick(). *)
THEOREM MapAgreesHolds == Spec => []MapAgrees
<1>1. (Flat => FlatInv) => MapAgrees
  <2> SUFFICES ASSUME FlatInv, NEW id \in Ids, NEW l \in Level, NEW s \in Slot, In(id, l, s)
               PROVE  pos[id] = At(l, s)
    BY DEF MapAgrees, At
  <2>1. HasNode(id)
    BY DEF HasNode
  <2> QED
    BY <2>1 DEF FlatInv, Kept, WheelInv, Slotted, In
<1> QED
  BY <1>1, FlatHolds, PTL

(* On a flat wheel no cascade walks off its list, and del_timer and
   reset_timer never use a dangling entry. *)
THEOREM AlwaysDefinedHolds == Spec => []AlwaysDefined
<1>1. (Flat => FlatInv) => AlwaysDefined
  BY DEF FlatInv, AlwaysDefined
<1> QED
  BY <1>1, FlatHolds, PTL

=============================================================================
