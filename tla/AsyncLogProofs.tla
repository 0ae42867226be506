--------------------------- MODULE AsyncLogProofs ---------------------------
(***************************************************************************)
(* Theorems about AsyncLog, for any number of threads, size of the queue   *)
(* and length of a file: the types, that notify_one is enough, that the    *)
(* log is a channel that keeps the lines and their order (LineChannel),    *)
(* and the bound on what a file can hold too much.                         *)
(***************************************************************************)
EXTENDS AsyncLog, FiniteSetTheorems, SequenceTheorems, TLAPS

(* Division of natural numbers. *)
LEMMA DivRange ==
    ASSUME NEW c \in Nat, NEW s \in Nat \ {0}
    PROVE  /\ c \div s \in Nat /\ (c % s) \in 0..s - 1
           /\ c = (s * (c \div s)) + (c % s)
  OBVIOUS

(* Sequences that begin with one element, or are moved to such a beginning. *)
LEMMA OnlyElement ==
    ASSUME NEW S, NEW s \in Seq(S), Len(s) = 1
    PROVE  s[1] \in S
  BY ElementOfSeq, 1 \in 1..Len(s)

LEMMA FirstMoves ==
    ASSUME NEW S, NEW q \in Seq(S), q # <<>>
    PROVE  <<Head(q)>> \o Tail(q) = q
<1> PICK x \in S : x = Head(q)
  BY HeadTailProperties
<1>0. <<x>> \in Seq(S)
  OBVIOUS
<1> PICK h \in Seq(S) : h = <<x>>
  BY <1>0
<1> PICK t \in Seq(S) : t = Tail(q)
  BY HeadTailProperties
<1>1. Len(t) = Len(q) - 1 /\ \A i \in 1..Len(t) : t[i] = q[i + 1]
  BY HeadTailProperties
<1>2. Len(q) \in Nat \ {0} /\ q[1] = x
  BY EmptySeq, LenProperties
<1>3. Len(h) = 1 /\ h[1] = x
  OBVIOUS
<1>4. /\ h \o t \in Seq(S) /\ Len(h \o t) = Len(q)
      /\ \A i \in 1..Len(q) : (h \o t)[i] = IF i <= 1 THEN h[i] ELSE t[i - 1]
  BY <1>1, <1>2, <1>3, ConcatProperties
<1>5. ASSUME NEW i \in 1..Len(q) PROVE (h \o t)[i] = q[i]
  <2>1. CASE i = 1
    BY <1>2, <1>3, <1>4, <2>1
  <2>2. CASE i # 1
    <3>1. i - 1 \in 1..Len(t) /\ ~(i <= 1)
      BY <1>1, <1>2, <2>2
    <3>2. t[i - 1] = q[(i - 1) + 1]
      BY <1>1, <3>1
    <3>3. (i - 1) + 1 = i
      BY <1>2
    <3> QED
      BY <1>4, <3>1, <3>2, <3>3
  <2> QED
    BY <2>1, <2>2
<1>6. h \o t = q
  BY <1>4, <1>5, SeqEqual
<1> QED
  BY <1>6

LEMMA FirstLeaves ==
    ASSUME NEW S, NEW h \in Seq(S), NEW q \in Seq(S), Len(h) = 1
    PROVE  h \o q # <<>> /\ Head(h \o q) = h[1] /\ Tail(h \o q) = q
<1> PICK c \in Seq(S) : c = h \o q
  BY ConcatProperties
<1>1. /\ Len(c) = 1 + Len(q) /\ Len(q) \in Nat
      /\ \A i \in 1..1 + Len(q) : c[i] = IF i <= 1 THEN h[i] ELSE q[i - 1]
  <2>1. /\ Len(c) = Len(h) + Len(q)
        /\ \A i \in 1..Len(h) + Len(q) :
               c[i] = IF i <= Len(h) THEN h[i] ELSE q[i - Len(h)]
    BY ConcatProperties
  <2> QED
    BY <2>1, LenProperties
<1>2. c # <<>>
  BY <1>1, EmptySeq
<1>3. Head(c) = h[1]
  <2>1. 1 \in 1..1 + Len(q)
    BY <1>1
  <2>2. c[1] = h[1]
    BY <1>1, <2>1
  <2> QED
    BY <1>2, <2>2
<1> PICK t \in Seq(S) : t = Tail(c)
  BY <1>2, HeadTailProperties
<1>4. Len(t) = Len(c) - 1 /\ \A i \in 1..Len(t) : t[i] = c[i + 1]
  BY <1>2, HeadTailProperties
<1>5. ASSUME NEW i \in 1..Len(t) PROVE t[i] = q[i]
  <2>1. i + 1 \in 1..1 + Len(q) /\ ~(i + 1 <= 1) /\ (i + 1) - 1 = i
    BY <1>1, <1>4
  <2>2. c[i + 1] = q[(i + 1) - 1]
    BY <1>1, <2>1
  <2> QED
    BY <1>4, <2>1, <2>2
<1>6. t = q
  BY <1>1, <1>4, <1>5, SeqEqual
<1> QED
  BY <1>2, <1>3, <1>6

LEMMA LastJoins ==
    ASSUME NEW S, NEW h \in Seq(S), NEW q \in Seq(S), NEW x \in S
    PROVE  h \o Append(q, x) = Append(h \o q, x)
<1>0. <<x>> \in Seq(S)
  OBVIOUS
<1> PICK one \in Seq(S) : one = <<x>>
  BY <1>0
<1>1. Append(q, x) = q \o one
  OBVIOUS
<1>2. h \o q \in Seq(S)
  BY ConcatProperties
<1>3. Append(h \o q, x) = (h \o q) \o one
  BY <1>2
<1>4. (h \o q) \o one = h \o (q \o one)
  BY ConcatAssociative
<1> QED
  BY <1>1, <1>3, <1>4

(* What each step does to TypeOK. *)
LEMMA TypeStep == TypeOK /\ [Next]_vars => TypeOK'
<1> SUFFICES ASSUME TypeOK, [Next]_vars PROVE TypeOK'
  OBVIOUS
<1> USE LogConstants DEF TypeOK, Stage, vars, queueVars, fileVars, outVars
<1>1. ASSUME NEW w \in Writers, Call(w) PROVE TypeOK'
  BY <1>1 DEF Call
<1>2. ASSUME NEW w \in Writers, Count(w) PROVE TypeOK'
  <2>1. isOpen' \in BOOLEAN /\ now[w] \in Nat
    BY <1>2 DEF Count
  <2>2. count' \in Nat /\ logDay' \in Nat /\ fill' \in Nat
    BY <1>2, <2>1 DEF Count
  <2>3. (count + 1) \div SplitLines \in Nat
    <3>1. count + 1 \in Nat /\ SplitLines \in Nat \ {0}
      OBVIOUS
    <3> QED
      BY <3>1, DivRange
  <2>4. file' \in File
    <3>1. [day |-> now[w], part |-> 0] \in File
      BY <2>1 DEF File
    <3>2. [day |-> logDay, part |-> (count + 1) \div SplitLines] \in File
      BY <2>3 DEF File
    <3> QED
      BY <1>2, <3>1, <3>2 DEF Count
  <2>5. wpc' \in [Writers -> Stage]
    BY <1>2 DEF Count
  <2> QED
    BY <1>2, <2>1, <2>2, <2>4, <2>5 DEF Count
<1>3. ASSUME NEW w \in Writers, Push(w) PROVE TypeOK'
  <2>1. [by |-> w, no |-> calls[w]] \in Line
    BY DEF Line
  <2>2. queue' \in Seq(Line)
    BY <1>3, <2>1 DEF Push
  <2> QED
    BY <1>3, <2>2 DEF Push, AtQueue, NotifyFull
<1>4. ASSUME NEW w \in Writers, Block(w) PROVE TypeOK'
  BY <1>4 DEF Block
<1>5. ASSUME NEW w \in Writers, PutSync(w) PROVE TypeOK'
  <2>1. [by |-> w, no |-> calls[w]] \in Line
    BY DEF Line
  <2>2. last' \in Seq(Line) /\ fill' \in Nat
    BY <1>5, <2>1 DEF PutSync, Put
  <2> QED
    BY <1>5, <2>2 DEF PutSync, Put
<1>6. CASE Loop
  BY <1>6 DEF Loop
<1>7. CASE TestClosed
  BY <1>7 DEF TestClosed, AtTest
<1>8. CASE TestEmpty
  BY <1>8 DEF TestEmpty, AtTest
<1>9. CASE Sleep
  BY <1>9 DEF Sleep
<1>10. CASE Pop
  <2>1. wpc' \in [Writers -> Stage]
    BY <1>10 DEF Pop, NotifyEmpty, Waiting
  <2>2. Head(queue) \in Line /\ queue' \in Seq(Line)
    BY <1>10 DEF Pop
  <2>3. hand' \in Seq(Line) /\ Len(hand') = 1
    BY <1>10, <2>2 DEF Pop
  <2> QED
    BY <1>10, <2>1, <2>2, <2>3 DEF Pop, AtTest
<1>11. CASE WriteLine
  <2>1. hand[1] \in Line
    <3>1. hand \in Seq(Line) /\ Len(hand) = 1
      BY <1>11 DEF WriteLine
    <3> QED
      BY <3>1, OnlyElement
  <2>2. last' \in Seq(Line) /\ fill' \in Nat
    <3> PICK l \in Line : l = hand[1]
      BY <2>1
    <3>1. last' = (IF isOpen THEN <<l>> ELSE last)
      BY <1>11 DEF WriteLine, Put
    <3>2. last' = <<l>> \/ last' = last
      BY <3>1
    <3>3. last' \in Seq(Line)
      <4>1. <<l>> \in Seq(Line) /\ last \in Seq(Line)
        OBVIOUS
      <4> QED
        BY <3>2, <4>1, Zenon
    <3>4. fill' = IF isOpen THEN fill + 1 ELSE fill
      BY <1>11 DEF WriteLine, Put
    <3> QED
      BY <3>3, <3>4
  <2> QED
    BY <1>11, <2>2 DEF WriteLine, Put
<1>12. CASE Close
  BY <1>12 DEF Close
<1>13. CASE Notify
  BY <1>13 DEF Notify, NotifyFull
<1>14. CASE Join
  BY <1>14 DEF Join
<1>15. CASE Midnight
  BY <1>15 DEF Midnight
<1>16. CASE UNCHANGED vars
  BY <1>16
<1> QED
  BY <1>1, <1>2, <1>3, <1>4, <1>5, <1>6, <1>7, <1>8, <1>9, <1>10, <1>11, <1>12,
     <1>13, <1>14, <1>15, <1>16 DEF Next, Write, LogThread, Destructor

(* Every variable keeps its type: the log's thread never starts on an empty
   queue, and holds one line when it writes. *)
THEOREM TypeCorrect == Spec => []TypeOK
<1>1. Init => TypeOK
  <2> SUFFICES ASSUME Init PROVE TypeOK
    OBVIOUS
  <2>1. queue \in Seq(Line) /\ last \in Seq(Line) /\ hand \in Seq(Line) /\ Len(hand) = 0
    BY DEF Init
  <2>2. file \in File
    BY DEF Init, File
  <2>3. lpc \in {"none", "loop"} /\ ((lpc = "none") <=> (method = "SYNC"))
    BY DEF Init
  <2>4. (lpc = "write") = FALSE
    BY <2>3
  <2>5. /\ wpc \in [Writers -> Stage]
        /\ calls \in [Writers -> Nat] /\ now \in [Writers -> Nat]
    BY DEF Init, Stage
  <2>6. /\ method \in {"ASYNC", "SYNC"} /\ dpc = "none" /\ today \in Nat
        /\ closed \in BOOLEAN /\ isOpen \in BOOLEAN
        /\ count \in Nat /\ logDay \in Nat /\ fill \in Nat
    BY DEF Init
  <2> QED
    BY <2>1, <2>2, <2>3, <2>4, <2>5, <2>6 DEF TypeOK
<1> QED
  BY <1>1, TypeStep, PTL DEF Spec

-----------------------------------------------------------------------------
(* There is a number of threads that have been woken. *)
LEMMA WokenFinite == IsFiniteSet(Woken) /\ Cardinality(Woken) \in Nat
  BY LogConstants, FS_Subset, FS_CardinalityType DEF Woken

(* The log's thread, once it has seen the queue empty, keeps it empty until it
   sleeps, because it holds the mutex; from then on a push wakes it. *)
WakeInv ==
    /\ QueueBounded
    /\ NoLostWakeup
    /\ lpc = "tested" => queue = <<>>

LEMMA WakeStep == TypeOK /\ WakeInv /\ [Next]_vars => WakeInv'
<1> SUFFICES ASSUME TypeOK, WakeInv, [Next]_vars PROVE WakeInv'
  OBVIOUS
<1> USE DEF WakeInv, QueueBounded, NoLostWakeup
<1>1. QueueSize \in Nat \ {0} /\ Len(queue) \in Nat /\ queue \in Seq(Line)
  BY LogConstants DEF TypeOK
<1>2. ASSUME Waiting' = Waiting, Woken' = Woken, queue' = queue, lpc' = lpc
      PROVE  WakeInv'
  BY <1>2
<1>3. ASSUME NEW w \in Writers, Call(w) \/ Count(w) \/ PutSync(w) PROVE WakeInv'
  <2>1. /\ wpc[w] \notin {"asleep", "woken"} /\ queue' = queue /\ lpc' = lpc
        /\ \A v \in Writers : v # w => wpc'[v] = wpc[v]
        /\ wpc'[w] \notin {"asleep", "woken"}
    BY <1>3 DEF Call, Count, PutSync, TypeOK
  <2>2. Waiting' = Waiting /\ Woken' = Woken
    BY <2>1 DEF Waiting, Woken
  <2> QED
    BY <1>2, <2>1, <2>2
<1>4. ASSUME NEW w \in Writers, Push(w) PROVE WakeInv'
  <2>1. Len(queue') = Len(queue) + 1 /\ Len(queue) < QueueSize
    BY <1>1, <1>4 DEF Push
  <2>2. lpc' \notin {"tested", "asleep"}
    BY <1>4 DEF Push, AtQueue, QueueMutexFree, NotifyFull
  <2>3. Waiting' = Waiting /\ Woken' = Woken \ {w}
    <3>1. /\ wpc[w] \in {"counted", "woken"} /\ wpc'[w] = "idle"
          /\ \A v \in Writers : v # w => wpc'[v] = wpc[v]
      BY <1>4 DEF Push, AtQueue, TypeOK
    <3> QED
      BY <3>1 DEF Waiting, Woken
  <2>4. Cardinality(Woken') >= Cardinality(Woken) - 1 /\ Cardinality(Woken') \in Nat
    <3>1. CASE w \in Woken
      <4>1. Cardinality(Woken \ {w}) = Cardinality(Woken) - 1
        BY <3>1, WokenFinite, FS_RemoveElement
      <4>2. Cardinality(Woken \ {w}) \in Nat
        BY WokenFinite, FS_RemoveElement, FS_CardinalityType
      <4> QED
        BY <2>3, <4>1, <4>2, WokenFinite
    <3>2. CASE w \notin Woken
      <4>1. Woken' = Woken
        BY <2>3, <3>2
      <4> QED
        BY <4>1, WokenFinite
    <3> QED
      BY <3>1, <3>2
  <2>5. Waiting # {} => Len(queue) + Cardinality(Woken) >= QueueSize
    OBVIOUS
  <2>6. Waiting' # {} => Len(queue') + Cardinality(Woken') >= QueueSize
    BY <1>1, <2>1, <2>3, <2>4, <2>5, WokenFinite
  <2> QED
    BY <1>1, <2>1, <2>2, <2>6
<1>5. ASSUME NEW w \in Writers, Block(w) PROVE WakeInv'
  <2>1. Len(queue) >= QueueSize /\ queue' = queue /\ lpc' = lpc
    BY <1>5 DEF Block
  <2>2. Cardinality(Woken') \in Nat
    <3>1. Woken' \subseteq Writers
      BY DEF Woken
    <3> QED
      BY <3>1, LogConstants, FS_Subset, FS_CardinalityType
  <2> QED
    BY <1>1, <2>1, <2>2
<1>6. CASE Pop
  <2>1. Len(queue') = Len(queue) - 1 /\ lpc' = "write"
    BY <1>1, <1>6 DEF Pop
  <2>2. Waiting' # {} => Cardinality(Woken') = Cardinality(Woken) + 1
    <3>1. CASE Waiting = {}
      <4>1. wpc' = wpc
        BY <1>6, <3>1 DEF Pop, NotifyEmpty
      <4> QED
        BY <4>1, <3>1 DEF Waiting
    <3>2. CASE Waiting # {}
      <4>1. PICK w \in Waiting : wpc' = [wpc EXCEPT ![w] = "woken"]
        BY <1>6, <3>2 DEF Pop, NotifyEmpty
      <4>2. w \notin Woken /\ Woken' = Woken \cup {w}
        BY <4>1 DEF Waiting, Woken, TypeOK
      <4> QED
        BY <4>2, WokenFinite, FS_AddElement
    <3> QED
      BY <3>1, <3>2
  <2>3. Waiting' # {} => Waiting # {}
    <3>1. CASE Waiting = {}
      <4>1. wpc' = wpc
        BY <1>6, <3>1 DEF Pop, NotifyEmpty
      <4> QED
        BY <4>1, <3>1 DEF Waiting
    <3> QED
      BY <3>1
  <2> QED
    BY <1>1, <2>1, <2>2, <2>3, WokenFinite
<1>7. ASSUME wpc' = wpc, queue' = queue,
             lpc' \in {"tested", "asleep"} => lpc \in {"tested", "asleep"} \/ queue = <<>>
      PROVE  WakeInv'
  <2>1. Waiting' = Waiting /\ Woken' = Woken
    BY <1>7 DEF Waiting, Woken
  <2> QED
    BY <1>7, <2>1
<1>8. CASE Loop \/ TestClosed \/ TestEmpty \/ Sleep \/ WriteLine
  BY <1>7, <1>8 DEF Loop, TestClosed, TestEmpty, Sleep, WriteLine
<1>9. CASE Destructor
  BY <1>7, <1>9 DEF Destructor, Close, Notify, NotifyFull, Join
<1>10. CASE Midnight \/ UNCHANGED vars
  BY <1>7, <1>10 DEF Midnight, vars, queueVars
<1> QED
  BY <1>3, <1>4, <1>5, <1>6, <1>8, <1>9, <1>10 DEF Next, Write, LogThread

LEMMA WakeHolds == Spec => [](TypeOK /\ WakeInv)
<1>1. Init => WakeInv
  <2> SUFFICES ASSUME Init PROVE WakeInv
    OBVIOUS
  <2>1. queue = <<>> /\ Waiting = {}
    BY DEF Init, Waiting
  <2> QED
    BY <2>1, LogConstants DEF WakeInv, QueueBounded, NoLostWakeup
<1>2. Spec => []TypeOK
  BY TypeCorrect
<1> QED
  BY <1>1, <1>2, WakeStep, PTL DEF Spec

(* The queue never holds more than m_queue_size lines. *)
THEOREM QueueBoundedHolds == Spec => []QueueBounded
<1>1. TypeOK /\ WakeInv => QueueBounded
  BY DEF WakeInv
<1> QED
  BY <1>1, WakeHolds, PTL

(* notify_one never tells too few: neither the log's thread nor a thread that
   waits for room sleeps on while there is something for it to do. *)
THEOREM NoLostWakeupHolds == Spec => []NoLostWakeup
<1>1. TypeOK /\ WakeInv => NoLostWakeup
  BY DEF WakeInv
<1> QED
  BY <1>1, WakeHolds, PTL

-----------------------------------------------------------------------------
(* A thread that is in write is in one of its calls; without a queue, none is
   used. *)
NumberInv ==
    /\ \A w \in Writers : wpc[w] # "idle" => calls[w] >= 1
    /\ method = "SYNC" => queue = <<>>

LEMMA NumberStep == TypeOK /\ NumberInv /\ [Next]_vars => NumberInv'
<1> SUFFICES ASSUME TypeOK, NumberInv, [Next]_vars PROVE NumberInv'
  OBVIOUS
<1>1. ASSUME NEW w \in Writers, Call(w) PROVE NumberInv'
  <2>1. /\ calls' = [calls EXCEPT ![w] = @ + 1] /\ UNCHANGED <<method, queue>>
        /\ wpc' = [wpc EXCEPT ![w] = "stamped"]
    BY <1>1 DEF Call
  <2>2. \A v \in Writers : calls'[v] = IF v = w THEN calls[v] + 1 ELSE calls[v]
    BY <2>1 DEF TypeOK
  <2>3. \A v \in Writers : v # w => wpc'[v] = wpc[v]
    BY <2>1 DEF TypeOK
  <2>4. \A v \in Writers : calls[v] \in Nat
    BY DEF TypeOK
  <2> QED
    BY <2>1, <2>2, <2>3, <2>4 DEF NumberInv
<1>2. ASSUME calls' = calls, method' = method, method = "SYNC" => queue' = <<>>,
             \A v \in Writers : wpc'[v] # "idle" => wpc[v] # "idle"
      PROVE  NumberInv'
  BY <1>2 DEF NumberInv
<1>3. ASSUME NEW w \in Writers, Count(w) \/ Block(w) \/ Push(w) \/ PutSync(w)
      PROVE  NumberInv'
  <2>1. calls' = calls /\ method' = method /\ (method = "SYNC" => queue' = queue)
    BY <1>3 DEF Count, Block, AtQueue, Push, PutSync
  <2>2. \A v \in Writers : wpc'[v] # "idle" => wpc[v] # "idle"
    BY <1>3 DEF Count, Block, AtQueue, Push, PutSync, TypeOK
  <2> QED
    BY <1>2, <2>1, <2>2 DEF NumberInv
<1>4. CASE Pop
  <2>1. calls' = calls /\ method' = method /\ queue # <<>>
    BY <1>4 DEF Pop
  <2>2. \A w \in Writers : wpc'[w] # "idle" => wpc[w] # "idle"
    BY <1>4 DEF Pop, NotifyEmpty, Waiting, TypeOK
  <2> QED
    BY <1>2, <2>1, <2>2 DEF NumberInv
<1>5. ASSUME UNCHANGED <<queue, wpc, calls, method>> PROVE NumberInv'
  BY <1>2, <1>5 DEF NumberInv
<1>6. CASE Loop \/ TestClosed \/ TestEmpty \/ Sleep \/ WriteLine
  BY <1>5, <1>6 DEF Loop, TestClosed, TestEmpty, Sleep, WriteLine
<1>7. CASE Destructor
  BY <1>5, <1>7 DEF Destructor, Close, Notify, Join
<1>8. CASE Midnight \/ UNCHANGED vars
  BY <1>5, <1>8 DEF Midnight, vars, queueVars
<1> QED
  BY <1>1, <1>3, <1>4, <1>6, <1>7, <1>8 DEF Next, Write, LogThread

LEMMA NumberHolds == Spec => [](TypeOK /\ NumberInv)
<1>1. Init => NumberInv
  BY DEF Init, NumberInv
<1>2. Spec => []TypeOK
  BY TypeCorrect
<1> QED
  BY <1>1, <1>2, NumberStep, PTL DEF Spec

(* A thread whose call ends has given the line of that call, and only a call
   that ends gives one. *)
LEMMA GivenNow ==
    ASSUME TypeOK, NumberInv, NEW w \in Writers, wpc[w] # "idle",
           wpc' = [wpc EXCEPT ![w] = "idle"], calls' = calls
    PROVE  Channel!Give(w) /\ Channel!Given(w) = [by |-> w, no |-> calls[w]]
<1>1. /\ calls[w] \in Nat /\ calls[w] >= 1
      /\ \A v \in Writers : wpc'[v] = IF v = w THEN "idle" ELSE wpc[v]
  BY DEF TypeOK, NumberInv
<1>2. /\ LinesGiven[w] = calls[w] - 1 /\ LinesGiven'[w] = calls[w]
      /\ \A v \in Writers : v # w => LinesGiven'[v] = LinesGiven[v]
  BY <1>1 DEF LinesGiven
<1>3. LinesGiven[w] + 1 = calls[w]
  BY <1>1, <1>2
<1>4. LinesGiven' = [LinesGiven EXCEPT ![w] = @ + 1]
  <2> DEFINE E == [LinesGiven EXCEPT ![w] = @ + 1]
  <2>1. E = [v \in Writers |-> IF v = w THEN LinesGiven[w] + 1 ELSE LinesGiven[v]]
    BY DEF LinesGiven
  <2>2. LinesGiven' = [v \in Writers |-> LinesGiven'[v]]
    BY DEF LinesGiven
  <2> HIDE DEF E
  <2>3. \A v \in Writers : LinesGiven'[v] = IF v = w THEN LinesGiven[w] + 1 ELSE LinesGiven[v]
    BY <1>2, <1>3
  <2>4. LinesGiven' = E
    BY <2>1, <2>2, <2>3, Zenon
  <2> QED
    BY <2>4 DEF E
<1> QED
  BY <1>3, <1>4 DEF Channel!Give, Channel!Given

LEMMA GivenKept ==
    ASSUME calls' = calls, \A w \in Writers : wpc'[w] = "idle" <=> wpc[w] = "idle"
    PROVE  LinesGiven' = LinesGiven
  BY DEF LinesGiven

LEMMA ChannelStep ==
    ASSUME TypeOK, NumberInv, [Next]_vars
    PROVE  [Channel!Next]_<<hand \o queue, last, isOpen, LinesGiven>>
<1>1. last \in Seq(Line) /\ hand \in Seq(Line) /\ queue \in Seq(Line)
  BY DEF TypeOK
<1>2. ASSUME NEW w \in Writers, Push(w) PROVE Channel!Accept(w)
  <2> PICK line \in Line : line = [by |-> w, no |-> calls[w]]
    BY DEF TypeOK, Line
  <2>1. /\ queue' = Append(queue, line) /\ hand' = hand /\ last' = last /\ isOpen' = isOpen
        /\ wpc[w] # "idle" /\ wpc' = [wpc EXCEPT ![w] = "idle"] /\ calls' = calls
    BY <1>2 DEF Push, AtQueue, outVars, fileVars
  <2>2. Channel!Give(w) /\ Channel!Given(w) = line
    BY <2>1, GivenNow
  <2>3. hand \o Append(queue, line) = Append(hand \o queue, line)
    BY <1>1, LastJoins
  <2> QED
    BY <2>1, <2>2, <2>3 DEF Channel!Accept
<1>3. ASSUME NEW w \in Writers, PutSync(w) PROVE Channel!PassThrough(w)
  <2> PICK line \in Line : line = [by |-> w, no |-> calls[w]]
    BY DEF TypeOK, Line
  <2>1. /\ last' = (IF isOpen THEN <<line>> ELSE last) /\ hand' = hand /\ queue' = queue
        /\ isOpen' = isOpen /\ wpc[w] # "idle" /\ method = "SYNC"
        /\ wpc' = [wpc EXCEPT ![w] = "idle"] /\ calls' = calls
    BY <1>3 DEF PutSync, Put, fileVars
  <2>2. Channel!Give(w) /\ Channel!Given(w) = line
    BY <2>1, GivenNow
  <2>3. hand = <<>> /\ queue = <<>>
    <3>1. lpc = "none" /\ Len(hand) = 0
      BY <2>1 DEF TypeOK
    <3> QED
      BY <1>1, <2>1, <3>1, EmptySeq DEF NumberInv
  <2>4. hand \o queue = <<>> /\ (hand \o queue)' = hand \o queue
    BY <2>1, <2>3, ConcatEmptySeq, EmptySeq
  <2> QED
    BY <2>1, <2>2, <2>4 DEF Channel!PassThrough
<1>4. ASSUME UNCHANGED <<hand, queue, last, LinesGiven>>, isOpen' \in BOOLEAN
      PROVE  Channel!Switch
  BY <1>4 DEF Channel!Switch
<1>5. ASSUME NEW w \in Writers, Count(w) PROVE Channel!Refuse(w) \/ Channel!Switch
  <2>1. /\ UNCHANGED <<hand, queue, last, calls>> /\ isOpen' \in BOOLEAN
        /\ wpc[w] = "stamped"
        /\ wpc' = [wpc EXCEPT ![w] = IF isOpen' THEN "counted" ELSE "idle"]
    BY <1>5 DEF Count, TypeOK
  <2>2. CASE isOpen' = TRUE
    <3>1. \A v \in Writers : wpc'[v] = "idle" <=> wpc[v] = "idle"
      BY <2>1, <2>2 DEF TypeOK
    <3>2. LinesGiven' = LinesGiven
      BY <2>1, <3>1, GivenKept
    <3> QED
      BY <1>4, <2>1, <3>2
  <2>3. CASE isOpen' = FALSE
    <3>1. wpc' = [wpc EXCEPT ![w] = "idle"]
      BY <2>1, <2>3
    <3>2. Channel!Give(w)
      BY <2>1, <3>1, GivenNow
    <3> QED
      BY <2>1, <2>3, <3>2 DEF Channel!Refuse
  <2> QED
    BY <2>1, <2>2, <2>3
<1>6. CASE Pop
  <2>1. /\ lpc # "write" /\ queue # <<>> /\ hand' = <<Head(queue)>>
        /\ queue' = Tail(queue) /\ last' = last /\ isOpen' = isOpen /\ calls' = calls
    BY <1>6 DEF Pop, AtTest, outVars, fileVars
  <2>2. hand = <<>>
    BY <1>1, <2>1, EmptySeq DEF TypeOK
  <2>3. hand \o queue = queue
    BY <1>1, <2>2, ConcatEmptySeq
  <2>4. (hand \o queue)' = queue
    BY <1>1, <2>1, FirstMoves
  <2>5. \A w \in Writers : wpc'[w] = "idle" <=> wpc[w] = "idle"
    BY <1>6 DEF Pop, NotifyEmpty, Waiting, TypeOK
  <2>6. LinesGiven' = LinesGiven
    BY <2>1, <2>5, GivenKept
  <2> QED
    BY <2>1, <2>3, <2>4, <2>6
<1>7. CASE WriteLine
  <2>1. /\ Len(hand) = 1 /\ last' = (IF isOpen THEN <<hand[1]>> ELSE last)
        /\ hand' = <<>> /\ queue' = queue /\ UNCHANGED <<wpc, calls, isOpen>>
    BY <1>7 DEF WriteLine, Put, TypeOK, fileVars
  <2>2. /\ hand \o queue # <<>> /\ Head(hand \o queue) = hand[1]
        /\ Tail(hand \o queue) = queue
    BY <1>1, <2>1, FirstLeaves
  <2>3. (hand \o queue)' = queue
    BY <1>1, <2>1, ConcatEmptySeq
  <2>4. LinesGiven' = LinesGiven
    BY <2>1, GivenKept
  <2>5. Channel!PutOut \/ Channel!Lose
    BY <2>1, <2>2, <2>3, <2>4 DEF Channel!PutOut, Channel!Lose
  <2> QED
    BY <2>5 DEF Channel!Next
<1>8. ASSUME UNCHANGED <<hand, queue, last, isOpen, LinesGiven>>
      PROVE  UNCHANGED <<hand \o queue, last, isOpen, LinesGiven>>
  BY <1>8
<1>9. ASSUME NEW w \in Writers, Call(w) \/ Block(w)
      PROVE  UNCHANGED <<hand \o queue, last, isOpen, LinesGiven>>
  <2>1. UNCHANGED <<hand, queue, last, isOpen>>
    BY <1>9 DEF Call, Block, outVars, fileVars
  <2>2. CASE Call(w)
    <3>1. /\ wpc[w] = "idle" /\ wpc' = [wpc EXCEPT ![w] = "stamped"]
          /\ calls' = [calls EXCEPT ![w] = @ + 1] /\ calls[w] \in Nat
      BY <2>2 DEF Call, TypeOK
    <3>2. \A v \in Writers : /\ wpc'[v] = IF v = w THEN "stamped" ELSE wpc[v]
                             /\ calls'[v] = IF v = w THEN calls[w] + 1 ELSE calls[v]
      BY <3>1 DEF TypeOK
    <3>3. LinesGiven' = LinesGiven
      BY <3>1, <3>2 DEF LinesGiven
    <3> QED
      BY <1>8, <2>1, <3>3
  <2>3. CASE Block(w)
    <3>1. /\ wpc[w] # "idle" /\ wpc' = [wpc EXCEPT ![w] = "asleep"] /\ calls' = calls
      BY <2>3 DEF Block, AtQueue
    <3>2. \A v \in Writers : wpc'[v] = "idle" <=> wpc[v] = "idle"
      BY <3>1 DEF TypeOK
    <3> QED
      BY <1>8, <2>1, <3>1, <3>2, GivenKept
  <2> QED
    BY <1>9, <2>2, <2>3
<1>10. CASE Loop \/ TestClosed \/ TestEmpty \/ Sleep
  <2>1. UNCHANGED <<hand, queue, last, isOpen, wpc, calls>>
    BY <1>10 DEF Loop, TestClosed, TestEmpty, Sleep, outVars, fileVars
  <2> QED
    BY <1>8, <2>1, GivenKept
<1>11. CASE Destructor
  <2>1. UNCHANGED <<hand, queue, last, wpc, calls>> /\ isOpen' \in BOOLEAN
    BY <1>11 DEF Destructor, Close, Notify, Join, outVars, fileVars, TypeOK
  <2> QED
    BY <1>4, <2>1, GivenKept DEF Channel!Next
<1>12. CASE Midnight \/ UNCHANGED vars
  <2>1. UNCHANGED <<hand, queue, last, isOpen, wpc, calls>>
    BY <1>12 DEF Midnight, vars, queueVars, outVars, fileVars
  <2> QED
    BY <1>8, <2>1, GivenKept
<1> QED
  BY <1>2, <1>3, <1>5, <1>6, <1>7, <1>9, <1>10, <1>11, <1>12
     DEF Next, Write, LogThread, Channel!Next

(* The log is a channel: a line that write accepts has its turn once, behind all
   that were accepted before it, and is in the file then if one is open. *)
THEOREM InOrderHolds == Spec => InOrder
<1>1. Init => Channel!Init
  <2> SUFFICES ASSUME Init PROVE Channel!Init
    OBVIOUS
  <2>1. hand \o queue = <<>> /\ last = <<>> /\ isOpen = TRUE
    BY ConcatEmptySeq, EmptySeq DEF Init
  <2>2. LinesGiven = [w \in Writers |-> 0]
    BY DEF Init, LinesGiven
  <2> QED
    BY <2>1, <2>2 DEF Channel!Init
<1>2. TypeOK /\ NumberInv /\ [Next]_vars
          => [Channel!Next]_<<hand \o queue, last, isOpen, LinesGiven>>
  BY ChannelStep
<1> QED
  BY <1>1, <1>2, NumberHolds, PTL DEF Spec, InOrder, Channel!Spec

-----------------------------------------------------------------------------
(* Counting on by one: the same part and one line more, or a part that begins. *)
LEMMA DivUnique ==
    \A s \in Nat \ {0}, q, e \in Nat : \A r \in 0..s - 1 :
        e = (s * q) + r => e \div s = q /\ (e % s) = r
<1> TAKE s \in Nat \ {0}, q, e \in Nat
<1> TAKE r \in 0..s - 1
<1> QED
  OBVIOUS

LEMMA CountOn ==
    ASSUME NEW c \in Nat, NEW s \in Nat \ {0}, NEW e \in Nat, e = c + 1
    PROVE  IF e \div s = c \div s THEN (e % s) = (c % s) + 1 ELSE (e % s) = 0
<1>1. PICK q \in Nat : q = c \div s
  BY DivRange
<1>2. PICK r \in 0..s - 1 : r = c % s
  BY DivRange
<1>3. c = (s * q) + r
  BY <1>1, <1>2, DivRange
<1>4. ASSUME NEW p, NEW t, p \in Nat, t \in 0..s - 1, e = (s * p) + t
      PROVE  e \div s = p /\ (e % s) = t
  BY <1>4, DivUnique, Zenon
<1>5. CASE r + 1 < s
  <2>1. r + 1 \in 0..s - 1 /\ e = (s * q) + (r + 1) /\ q \in Nat
    BY <1>1, <1>2, <1>3, <1>5
  <2>2. e \div s = q /\ (e % s) = r + 1
    BY <1>4, <2>1, Zenon
  <2> QED
    BY <1>1, <1>2, <2>2, Zenon
<1>6. CASE r + 1 = s
  <2>1. PICK p \in Nat : p = q + 1
    BY <1>1
  <2>2. e = (s * p) + 0 /\ 0 \in 0..s - 1 /\ p # q
    BY <1>1, <1>2, <1>3, <1>6, <2>1
  <2>3. e \div s = p /\ (e % s) = 0
    BY <1>4, <2>1, <2>2, Zenon
  <2> QED
    BY <1>1, <2>2, <2>3, Zenon
<1> QED
  BY <1>2, <1>5, <1>6

(* The lines that are counted and not written yet, and how many there can be. *)
Counted  == {w \in Writers : wpc[w] \in {"counted", "asleep", "woken"}}
UnderWay == Len(hand) + Len(queue) + Cardinality(Counted)
Most     == Cardinality(Writers) + (IF method = "ASYNC" THEN QueueSize + 1 ELSE 0)

(* On the first day the file is the part that the count is in; it holds what
   has been counted in this part and what was under way when it began. *)
FillInv ==
    today = 0 =>
        /\ logDay = 0 /\ \A w \in Writers : now[w] = 0
        /\ file = [day |-> 0, part |-> count \div SplitLines]
        /\ fill + UnderWay <= Most + (count % SplitLines)

LEMMA CountedFinite ==
    /\ IsFiniteSet(Counted) /\ Cardinality(Counted) \in 0..Cardinality(Writers)
    /\ Cardinality(Writers) \in Nat
<1>1. Counted \subseteq Writers
  BY DEF Counted
<1> QED
  BY <1>1, LogConstants, FS_Subset, FS_CardinalityType

LEMMA SumBelow ==
    \A q, c, n \in Nat : \A a \in 0..1, b \in 0..q :
        c <= n => a + b + c \in Nat /\ n + (q + 1) \in Nat /\ a + b + c <= n + (q + 1)
  OBVIOUS

LEMMA UnderWayMost ==
    ASSUME TypeOK, WakeInv, NumberInv
    PROVE  UnderWay \in Nat /\ Most \in Nat /\ UnderWay <= Most
<1>1. /\ Len(hand) \in 0..1 /\ (method = "SYNC" => Len(hand) = 0)
      /\ Len(queue) \in 0..QueueSize /\ (method = "SYNC" => Len(queue) = 0)
      /\ method \in {"ASYNC", "SYNC"} /\ QueueSize \in Nat
  <2>1. Len(hand) \in 0..1 /\ (method = "SYNC" => Len(hand) = 0)
    BY DEF TypeOK
  <2>2. Len(queue) \in Nat
    BY DEF TypeOK
  <2>3. method = "SYNC" => Len(queue) = 0
    BY EmptySeq DEF NumberInv
  <2> QED
    BY <2>1, <2>2, <2>3, LogConstants DEF TypeOK, WakeInv, QueueBounded
<1> PICK c \in Nat : c = Cardinality(Counted)
  BY CountedFinite
<1> PICK n \in Nat : n = Cardinality(Writers)
  BY CountedFinite
<1>2. c <= n
  BY CountedFinite
<1> PICK a \in 0..1 : a = Len(hand)
  BY <1>1
<1> PICK b \in 0..QueueSize : b = Len(queue)
  BY <1>1
<1>3. UnderWay = a + b + c
  BY DEF UnderWay
<1>5. CASE method = "ASYNC"
  <2>1. Most = n + (QueueSize + 1)
    BY <1>5 DEF Most
  <2>2. /\ a + b + c \in Nat /\ n + (QueueSize + 1) \in Nat
        /\ a + b + c <= n + (QueueSize + 1)
    BY <1>1, <1>2, SumBelow, Zenon
  <2> QED
    BY <1>3, <2>1, <2>2
<1>6. CASE method = "SYNC"
  <2>1. a = 0 /\ b = 0
    BY <1>1, <1>6
  <2>2. Most = n + 0
    BY <1>6 DEF Most
  <2> QED
    BY <1>2, <1>3, <2>1, <2>2
<1> QED
  BY <1>1, <1>5, <1>6

LEMMA UnderWayLater == TypeOK' => UnderWay' \in Nat
<1> SUFFICES ASSUME TypeOK' PROVE UnderWay' \in Nat
  OBVIOUS
<1>1. Counted' \subseteq Writers
  BY DEF Counted
<1>2. PICK c \in Nat : c = Cardinality(Counted')
  BY <1>1, LogConstants, FS_Subset, FS_CardinalityType
<1>3. PICK a \in Nat : a = Len(hand')
  BY DEF TypeOK
<1>4. PICK b \in Nat : b = Len(queue')
  BY DEF TypeOK
<1>5. UnderWay' = a + b + c
  BY <1>2, <1>3, <1>4 DEF UnderWay
<1> QED
  BY <1>5

(* A thread that leaves the call takes its line along; others stay as they are. *)
LEMMA CountedLess ==
    ASSUME TypeOK, NEW w \in Counted, wpc' = [wpc EXCEPT ![w] = "idle"]
    PROVE  Cardinality(Counted') = Cardinality(Counted) - 1
<1>1. Counted' = Counted \ {w}
  BY DEF Counted, TypeOK
<1>2. Cardinality(Counted \ {w}) = Cardinality(Counted) - 1
  BY CountedFinite, FS_RemoveElement
<1> QED
  BY <1>1, <1>2

LEMMA CountedMore ==
    ASSUME TypeOK, NEW w \in Writers,
           \A v \in Writers : v # w => wpc'[v] = wpc[v]
    PROVE  Cardinality(Counted') <= Cardinality(Counted) + 1
<1>1. Counted' \subseteq Counted \cup {w}
  BY DEF Counted
<1> PICK c \in Nat : c = Cardinality(Counted)
  BY CountedFinite
<1>2. IsFiniteSet(Counted \cup {w}) /\ Cardinality(Counted \cup {w}) <= c + 1
  <2>1. IsFiniteSet(Counted)
    BY CountedFinite
  <2>2. /\ IsFiniteSet(Counted \cup {w})
        /\ Cardinality(Counted \cup {w}) = IF w \in Counted THEN c ELSE c + 1
    BY <2>1, FS_AddElement
  <2> QED
    BY <2>2
<1>3. /\ Cardinality(Counted') <= Cardinality(Counted \cup {w})
      /\ Cardinality(Counted') \in Nat /\ Cardinality(Counted \cup {w}) \in Nat
  BY <1>1, <1>2, FS_Subset, FS_CardinalityType
<1> QED
  BY <1>2, <1>3, CountedFinite

(* The sum of FillInv, taken apart into numbers. *)
LEMMA FillFrame ==
    ASSUME TypeOK, WakeInv, NumberInv, FillInv, TypeOK',
           today' = 0 => today = 0, method' = method,
           today' = 0 => UNCHANGED <<logDay, file, count>>,
           \A w \in Writers : now'[w] \in {now[w], today'},
           fill' + UnderWay' <= fill + UnderWay
    PROVE  FillInv'
<1> SUFFICES ASSUME today' = 0 PROVE
        /\ logDay' = 0 /\ \A w \in Writers : now'[w] = 0
        /\ file' = [day |-> 0, part |-> count' \div SplitLines]
        /\ fill' + UnderWay' <= Most' + (count' % SplitLines)
  BY DEF FillInv
<1>1. /\ logDay = 0 /\ \A w \in Writers : now[w] = 0
      /\ file = [day |-> 0, part |-> count \div SplitLines]
      /\ fill + UnderWay <= Most + (count % SplitLines)
  BY DEF FillInv
<1>2. /\ logDay' = logDay /\ file' = file /\ count' = count /\ Most' = Most
      /\ \A w \in Writers : now'[w] = 0
  BY <1>1 DEF Most
<1>3. PICK m \in Nat : m = count % SplitLines
  <2>1. count \in Nat /\ SplitLines \in Nat \ {0}
    BY LogConstants DEF TypeOK
  <2>2. (count % SplitLines) \in 0..SplitLines - 1
    BY <2>1, DivRange
  <2> QED
    BY <2>1, <2>2
<1>4. PICK x \in Nat : x = fill + UnderWay
  BY UnderWayMost DEF TypeOK
<1>5. PICK y \in Nat : y = fill' + UnderWay'
  <2>1. PICK u \in Nat : u = UnderWay'
    BY UnderWayLater
  <2>2. PICK f \in Nat : f = fill'
    BY DEF TypeOK
  <2>3. PICK z \in Nat : z = f + u
    OBVIOUS
  <2> QED
    BY <2>1, <2>2, <2>3, Zenon
<1>6. PICK k \in Nat : k = Most
  BY UnderWayMost
<1>7. y <= k + m
  <2>1. x <= k + m
    BY <1>1, <1>3, <1>4, <1>6
  <2>2. y <= x
    BY <1>4, <1>5
  <2> QED
    BY <2>1, <2>2
<1> QED
  BY <1>1, <1>2, <1>3, <1>5, <1>6, <1>7

LEMMA ZeroSum == \A v, k \in Nat : v <= k => 0 + v <= k + 0
  OBVIOUS

(* The count goes on: the thread's line is under way, if the file is open. *)
LEMMA FillCount ==
    ASSUME TypeOK, WakeInv, NumberInv, FillInv, TypeOK', NEW w \in Writers, Count(w)
    PROVE  FillInv'
<1> SUFFICES ASSUME today' = 0 PROVE
        /\ logDay' = 0 /\ \A v \in Writers : now'[v] = 0
        /\ file' = [day |-> 0, part |-> count' \div SplitLines]
        /\ fill' + UnderWay' <= Most' + (count' % SplitLines)
  BY DEF FillInv
<1>1. /\ today = 0 /\ now' = now /\ logDay' = now[w] /\ hand' = hand /\ queue' = queue
      /\ method' = method /\ fill' = IF file' = file THEN fill ELSE 0
      /\ \A v \in Writers : v # w => wpc'[v] = wpc[v]
  BY DEF Count, TypeOK
<1>2. /\ logDay = 0 /\ (\A v \in Writers : now[v] = 0)
      /\ file = [day |-> 0, part |-> count \div SplitLines]
      /\ fill + UnderWay <= Most + (count % SplitLines)
  BY <1>1 DEF FillInv
<1>3. count' = count + 1 /\ ~NewDay(w)
  BY <1>2 DEF Count, NewDay
<1>4. SplitLines \in Nat \ {0} /\ count \in Nat /\ count' \in Nat
  BY LogConstants, <1>3 DEF TypeOK
<1>5. file' = [day |-> 0, part |-> count' \div SplitLines]
  <2>1. CASE NewPart(w)
    BY <1>2, <1>3, <2>1 DEF Count
  <2>2. CASE ~NewPart(w)
    <3>1. file' = file
      BY <1>3, <2>2 DEF Count
    <3>2. count + 1 < SplitLines
      BY <1>3, <1>4, <2>2 DEF NewPart
    <3>3. count \div SplitLines = 0 /\ count' \div SplitLines = 0
      BY <1>3, <1>4, <3>2
    <3> QED
      BY <1>2, <3>1, <3>3
  <2> QED
    BY <2>1, <2>2
<1>6. IF count' \div SplitLines = count \div SplitLines
      THEN (count' % SplitLines) = (count % SplitLines) + 1
      ELSE (count' % SplitLines) = 0
  BY <1>3, <1>4, CountOn
<1>7. /\ UnderWay' \in Nat /\ UnderWay \in Nat /\ Most \in Nat /\ fill \in Nat
      /\ (count % SplitLines) \in Nat /\ Most' = Most
  <2>1. (count % SplitLines) \in 0..SplitLines - 1
    BY <1>4, DivRange
  <2>2. (count % SplitLines) \in Nat
    BY <1>4, <2>1
  <2> QED
    BY <1>1, <2>2, UnderWayLater, UnderWayMost DEF TypeOK, Most
<1>8. UnderWay' <= UnderWay + 1
  <2>1. PICK a \in Nat : a = Len(hand) /\ a = Len(hand')
    BY <1>1 DEF TypeOK
  <2>2. PICK b \in Nat : b = Len(queue) /\ b = Len(queue')
    BY <1>1 DEF TypeOK
  <2>3. PICK c \in Nat : c = Cardinality(Counted)
    BY CountedFinite
  <2>4. PICK d \in Nat : d = Cardinality(Counted')
    <3>1. Counted' \subseteq Writers
      BY DEF Counted
    <3> QED
      BY <3>1, LogConstants, FS_Subset, FS_CardinalityType
  <2>5. d <= c + 1
    BY <1>1, <2>3, <2>4, CountedMore
  <2>6. UnderWay = a + b + c /\ UnderWay' = a + b + d
    BY <2>1, <2>2, <2>3, <2>4 DEF UnderWay
  <2> QED
    BY <2>5, <2>6
<1>9. UnderWay' <= Most
  <2>1. PICK a \in 0..1 : a = Len(hand')
    BY <1>1 DEF TypeOK
  <2>2. PICK n \in Nat : n = Cardinality(Writers)
    BY CountedFinite
  <2>3. PICK d \in Nat : d = Cardinality(Counted') /\ d <= n
    <3>1. Counted' \subseteq Writers
      BY DEF Counted
    <3> QED
      BY <2>2, <3>1, LogConstants, FS_Subset, FS_CardinalityType
  <2>4. QueueSize \in Nat /\ Len(queue') \in 0..QueueSize
    BY <1>1, LogConstants DEF TypeOK, WakeInv, QueueBounded
  <2>5. PICK b \in 0..QueueSize : b = Len(queue')
    BY <2>4
  <2>6. UnderWay' = a + b + d
    BY <2>1, <2>3, <2>5 DEF UnderWay
  <2>7. CASE method = "ASYNC"
    <3>1. Most = n + (QueueSize + 1)
      BY <2>2, <2>7 DEF Most
    <3>2. a + b + d <= n + (QueueSize + 1)
      BY <2>1, <2>3, <2>4, <2>5, <2>2, SumBelow, Zenon
    <3> QED
      BY <2>6, <3>1, <3>2
  <2>8. CASE method = "SYNC"
    <3>1. a = 0 /\ b = 0
      BY <1>1, <2>1, <2>5, <2>8, EmptySeq DEF TypeOK, NumberInv
    <3>2. Most = n + 0
      BY <2>2, <2>8 DEF Most
    <3> QED
      BY <2>2, <2>3, <2>6, <3>1, <3>2
  <2> QED
    BY <2>7, <2>8 DEF TypeOK
<1>10. fill' + UnderWay' <= Most' + (count' % SplitLines)
  <2> PICK m \in Nat : m = count % SplitLines
    BY <1>7
  <2> PICK u \in Nat : u = UnderWay
    BY <1>7
  <2> PICK v \in Nat : v = UnderWay'
    BY <1>7
  <2> PICK k \in Nat : k = Most
    BY <1>7
  <2> PICK f \in Nat : f = fill
    BY <1>7
  <2>1. f + u <= k + m /\ v <= u + 1 /\ v <= k
    BY <1>2, <1>8, <1>9
  <2>2. CASE count' \div SplitLines = count \div SplitLines
    <3>1. file' = file
      BY <1>2, <1>5, <2>2
    <3>2. fill' = f /\ (count' % SplitLines) = m + 1
      BY <1>1, <1>6, <2>2, <3>1
    <3>3. f + v <= k + (m + 1)
      BY <2>1
    <3> QED
      BY <1>7, <3>2, <3>3
  <2>3. CASE count' \div SplitLines # count \div SplitLines
    <3>1. file'.part # file.part
      BY <1>2, <1>5, <2>3
    <3>2. fill' = 0 /\ (count' % SplitLines) = 0
      BY <1>1, <1>6, <2>3, <3>1
    <3>3. 0 + v <= k + 0
      BY <2>1, ZeroSum, Zenon
    <3>4. fill' + UnderWay' = 0 + v /\ Most' + (count' % SplitLines) = k + 0
      BY <1>7, <3>2, Zenon
    <3> QED
      BY <3>3, <3>4, Zenon
  <2> QED
    BY <2>2, <2>3
<1> QED
  BY <1>1, <1>2, <1>5, <1>10

LEMMA OneAcross ==
    \A f, g, a, b, c, z \in Nat :
        g <= f + 1 /\ z + 1 = c => g + (a + b + z) <= f + (a + b + c)
  OBVIOUS

LEMMA FillStep ==
    ASSUME TypeOK, WakeInv, NumberInv, FillInv, TypeOK', [Next]_vars
    PROVE  FillInv'
<1>1. PICK a \in Nat : a = Len(hand)
  BY DEF TypeOK
<1>2. PICK b \in Nat : b = Len(queue)
  BY DEF TypeOK
<1>3. PICK c \in Nat : c = Cardinality(Counted)
  BY CountedFinite
<1>4. PICK f \in Nat : f = fill
  BY DEF TypeOK
<1>5. fill + UnderWay = f + (a + b + c)
  BY <1>1, <1>2, <1>3, <1>4 DEF UnderWay
<1>6. ASSUME UNCHANGED <<method, today, now, logDay, file, count>>,
             NEW x \in Nat, x = Len(hand'), NEW y \in Nat, y = Len(queue'),
             NEW z \in Nat, z = Cardinality(Counted'), NEW g \in Nat, g = fill',
             g + (x + y + z) <= f + (a + b + c)
      PROVE  FillInv'
  <2>1. fill' + UnderWay' = g + (x + y + z)
    BY <1>6 DEF UnderWay
  <2>2. fill' + UnderWay' <= fill + UnderWay
    BY <1>5, <1>6, <2>1, Zenon
  <2> QED
    BY <1>6, <2>2, FillFrame
<1>7. ASSUME UNCHANGED <<method, hand, queue, fill>>, Counted' = Counted,
             today' = 0 => today = 0,
             today' = 0 => UNCHANGED <<logDay, file, count>>,
             \A w \in Writers : now'[w] \in {now[w], today'}
      PROVE  FillInv'
  <2>1. UnderWay' = UnderWay /\ fill' = fill
    BY <1>7 DEF UnderWay
  <2>2. fill' + UnderWay' <= fill + UnderWay
    BY <1>5, <2>1
  <2> QED
    BY <1>7, <2>2, FillFrame
<1>8. ASSUME NEW w \in Writers, Call(w) \/ Block(w) PROVE FillInv'
  <2>1. /\ UNCHANGED <<method, hand, queue, fill, today, logDay, file, count>>
        /\ \A v \in Writers : now'[v] \in {now[v], today'}
    BY <1>8 DEF Call, Block, AtQueue, outVars, fileVars, TypeOK
  <2>2. Counted' = Counted
    BY <1>8 DEF Call, Block, AtQueue, Counted, TypeOK
  <2> QED
    BY <1>7, <2>1, <2>2
<1>9. ASSUME NEW w \in Writers, Count(w) PROVE FillInv'
  BY <1>9, FillCount
<1>10. ASSUME NEW w \in Writers, Push(w) \/ PutSync(w) PROVE FillInv'
  <2>1. /\ UNCHANGED <<method, today, now, logDay, file, count, hand>>
        /\ w \in Counted /\ wpc' = [wpc EXCEPT ![w] = "idle"]
    BY <1>10 DEF Push, PutSync, AtQueue, Put, outVars, fileVars, Counted
  <2>2. Cardinality(Counted') = c - 1
    BY <1>3, <2>1, CountedLess
  <2>3. PICK z \in Nat : z = Cardinality(Counted') /\ z + 1 = c
    <3>1. Counted' \subseteq Writers
      BY DEF Counted
    <3>2. Cardinality(Counted') \in Nat
      BY <3>1, LogConstants, FS_Subset, FS_CardinalityType
    <3> QED
      BY <1>3, <2>2, <3>2
  <2>4. CASE Push(w)
    <3>1. Len(queue') = b + 1 /\ fill' = f /\ Len(hand') = a
      <4>1. /\ queue \in Seq(Line) /\ fill' = fill /\ hand' = hand
            /\ queue' = Append(queue, [by |-> w, no |-> calls[w]])
        BY <2>4 DEF Push, outVars, TypeOK
      <4>2. Len(queue') = Len(queue) + 1
        BY <4>1
      <4> QED
        BY <1>1, <1>2, <1>4, <4>1, <4>2
    <3>2. PICK y \in Nat : y = b + 1
      BY <1>2
    <3>3. f + (a + y + z) <= f + (a + b + c)
      BY <1>1, <1>2, <1>3, <1>4, <2>3, <3>2
    <3> QED
      BY <1>1, <1>4, <1>6, <2>1, <2>3, <3>1, <3>2, <3>3
  <2>5. CASE PutSync(w)
    <3>1. Len(queue') = b /\ fill' \in {f, f + 1} /\ Len(hand') = a
      BY <1>1, <1>2, <1>4, <2>1, <2>5 DEF PutSync, Put
    <3>2. PICK g \in Nat : g = fill' /\ g <= f + 1
      BY <1>4, <3>1
    <3>3. g + (a + b + z) <= f + (a + b + c)
      BY <1>1, <1>2, <1>3, <1>4, <2>3, <3>2, OneAcross, Zenon
    <3> QED
      BY <1>1, <1>2, <1>6, <2>1, <2>3, <3>1, <3>2, <3>3
  <2> QED
    BY <1>10, <2>4, <2>5
<1>11. CASE Pop
  <2>1. /\ UNCHANGED <<method, today, now, logDay, file, count, fill>>
        /\ lpc # "write" /\ queue # <<>> /\ hand' = <<Head(queue)>> /\ queue' = Tail(queue)
    BY <1>11 DEF Pop, AtTest, outVars, fileVars
  <2>2. a = 0 /\ Len(hand') = 1
    BY <1>1, <2>1 DEF TypeOK
  <2>3. PICK y \in Nat : y = Len(queue') /\ y + 1 = b
    <3>1. queue \in Seq(Line)
      BY DEF TypeOK
    <3>2. Len(queue') = b - 1 /\ b \in Nat \ {0}
      BY <1>2, <2>1, <3>1, EmptySeq, HeadTailProperties
    <3> QED
      BY <3>2
  <2>4. Counted' = Counted
    <3>1. CASE Waiting = {}
      BY <1>11, <3>1 DEF Pop, NotifyEmpty, Counted
    <3>2. CASE Waiting # {}
      <4>1. PICK w \in Waiting : wpc' = [wpc EXCEPT ![w] = "woken"]
        BY <1>11, <3>2 DEF Pop, NotifyEmpty
      <4> QED
        BY <4>1 DEF Waiting, Counted, TypeOK
    <3> QED
      BY <3>1, <3>2
  <2>5. PICK x \in Nat : x = 1
    OBVIOUS
  <2>6. f + (x + y + c) <= f + (a + b + c)
    BY <1>1, <1>2, <1>3, <1>4, <2>2, <2>3, <2>5
  <2> QED
    BY <1>3, <1>4, <1>6, <2>1, <2>2, <2>3, <2>4, <2>5, <2>6
<1>12. CASE WriteLine
  <2>1. /\ UNCHANGED <<method, today, now, logDay, file, count, queue, wpc>>
        /\ lpc = "write" /\ hand' = <<>> /\ fill' \in {fill, fill + 1}
    BY <1>12 DEF WriteLine, Put, fileVars
  <2>2. a = 1 /\ Len(hand') = 0
    BY <1>1, <2>1, EmptySeq DEF TypeOK
  <2>3. PICK g \in Nat : g = fill' /\ g <= f + 1
    BY <1>4, <2>1
  <2>4. Counted' = Counted /\ Len(queue') = b
    BY <1>2, <2>1 DEF Counted
  <2>5. PICK x \in Nat : x = 0
    OBVIOUS
  <2>6. g + (x + b + c) <= f + (a + b + c)
    BY <1>1, <1>2, <1>3, <1>4, <2>2, <2>3, <2>5
  <2> QED
    BY <1>2, <1>3, <1>6, <2>1, <2>2, <2>3, <2>4, <2>5, <2>6
<1>13. ASSUME UNCHANGED <<method, hand, queue, fill, wpc, today, now, logDay, file, count>>
       PROVE  FillInv'
  <2>1. Counted' = Counted
    BY <1>13 DEF Counted
  <2> QED
    BY <1>7, <1>13, <2>1
<1>14. CASE Loop \/ TestClosed \/ TestEmpty \/ Sleep
  BY <1>13, <1>14 DEF Loop, TestClosed, TestEmpty, Sleep, outVars, fileVars
<1>15. CASE Destructor
  BY <1>13, <1>15 DEF Destructor, Close, Notify, Join, outVars, fileVars
<1>16. CASE Midnight
  <2>1. /\ UNCHANGED <<method, hand, queue, fill, now, wpc>>
        /\ today' = today + 1 /\ today \in Nat
    BY <1>16 DEF Midnight, outVars, queueVars, TypeOK
  <2>2. Counted' = Counted /\ today' # 0
    BY <2>1 DEF Counted
  <2> QED
    BY <1>7, <2>1, <2>2
<1>17. CASE UNCHANGED vars
  BY <1>13, <1>17 DEF vars, queueVars, outVars, fileVars
<1> QED
  BY <1>8, <1>9, <1>10, <1>11, <1>12, <1>14, <1>15, <1>16, <1>17
     DEF Next, Write, LogThread

(* log.h:45 calls split_lines the most a file holds, which is not so.  But on the
   first day no file outgrows it by more than what can be under
   way: one line of each thread and, in ASYNC mode, a full queue and the line
   in the hand of the log's thread. *)
THEOREM FileOverrunHolds == Spec => []FileOverrun
<1>1. Init => FillInv
  <2> SUFFICES ASSUME Init PROVE FillInv
    OBVIOUS
  <2>1. Counted = {} /\ hand = <<>> /\ queue = <<>> /\ fill = 0 /\ count = 0
    BY DEF Init, Counted
  <2>2. fill + UnderWay = 0
    BY <2>1, FS_EmptySet DEF UnderWay
  <2>3. count \div SplitLines = 0 /\ (count % SplitLines) = 0
    BY <2>1, LogConstants
  <2>4. Most \in Nat
    <3>1. Cardinality(Writers) \in Nat /\ QueueSize \in Nat
      BY LogConstants, FS_CardinalityType
    <3> QED
      BY <3>1 DEF Most, Init
  <2> QED
    BY <2>2, <2>3, <2>4 DEF FillInv, Init
<1>2. TypeOK /\ WakeInv /\ NumberInv /\ FillInv /\ TypeOK' /\ [Next]_vars => FillInv'
  BY FillStep
<1>3. TypeOK /\ WakeInv /\ NumberInv /\ FillInv => FileOverrun
  <2> SUFFICES ASSUME TypeOK, WakeInv, NumberInv, FillInv, today = 0
               PROVE  fill < SplitLines + Cardinality(Writers)
                               + (IF method = "ASYNC" THEN QueueSize + 1 ELSE 0)
    BY DEF FileOverrun
  <2>1. PICK m \in 0..SplitLines - 1 : m = count % SplitLines
    <3>1. count \in Nat /\ SplitLines \in Nat \ {0}
      BY LogConstants DEF TypeOK
    <3> QED
      BY <3>1, DivRange
  <2>2. PICK u \in Nat : u = UnderWay
    BY UnderWayMost
  <2>3. PICK k \in Nat : k = Most
    BY UnderWayMost
  <2>4. PICK f \in Nat : f = fill
    BY DEF TypeOK
  <2>5. f + u <= k + m
    BY <2>1, <2>2, <2>3, <2>4 DEF FillInv
  <2>6. f < SplitLines + k
    BY <2>1, <2>5, LogConstants
  <2>7. PICK n \in Nat : n = Cardinality(Writers)
    BY CountedFinite
  <2>8. PICK x \in Nat : x = IF method = "ASYNC" THEN QueueSize + 1 ELSE 0
    <3>1. QueueSize + 1 \in Nat
      BY LogConstants
    <3> QED
      BY <3>1
  <2>9. k = n + x
    BY <2>3, <2>7, <2>8, Zenon DEF Most
  <2>10. f < SplitLines + n + x
    BY <2>6, <2>9, LogConstants
  <2> QED
    BY <2>4, <2>7, <2>8, <2>10, Zenon
<1> QED
  BY <1>1, <1>2, <1>3, TypeCorrect, WakeHolds, NumberHolds, PTL DEF Spec

=============================================================================
