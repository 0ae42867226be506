--------------------------- MODULE ReactorProofs ---------------------------
(***************************************************************************)
(* Proofs about Reactor for every number of descriptors, connections and   *)
(* workers and every value of the other constants.                         *)
(*                                                                         *)
(*   1. TypeOK, from FdInv: whoever may be asked for its descriptor has    *)
(*      one.                                                               *)
(*   2. The safety of the ownership protocol, from OwnerInv, when a task   *)
(*      never outlasts m_timeout.                                          *)
(*   3. That nothing is lost on its way between the threads, both from     *)
(*      OwnerInv: a request to close stays in close_queue until it is      *)
(*      executed, and a connection is always with a worker, on its way to  *)
(*      one, or armed in epoll for what it waits for.                      *)
(***************************************************************************)
EXTENDS Reactor, TLAPS

-----------------------------------------------------------------------------
(* Types. *)

(* A connection that has had a descriptor keeps the number for good. *)
Known(c) == phase[c] \in {"open", "closed"} /\ fdOf[c] \in Fds

FdInv ==
    /\ \A fd \in Fds : conns[fd] # None => Known(conns[fd])
    /\ \A c \in timers : Known(c)
    /\ \A i \in DOMAIN tasks : Known(tasks[i].conn)
    /\ \A w \in Workers : wconn[w] # None => Known(wconn[w])

TypeInv == TypeOK /\ FdInv

-----------------------------------------------------------------------------
(* Queues. *)

(* What Append does to the elements of a queue. *)
LEMMA AppendFacts ==
    ASSUME NEW S, NEW q \in Seq(S), NEW e \in S
    PROVE  /\ Append(q, e) \in Seq(S)
           /\ Len(q) + 1 \notin DOMAIN q
           /\ DOMAIN Append(q, e) = DOMAIN q \cup {Len(q) + 1}
           /\ \A i \in DOMAIN q : Append(q, e)[i] = q[i]
           /\ Append(q, e)[Len(q) + 1] = e
OBVIOUS

(* What Head and Tail do to the elements of a queue that is not empty. *)
LEMMA TailFacts ==
    ASSUME NEW S, NEW q \in Seq(S), q # <<>>
    PROVE  /\ Head(q) \in S
           /\ Tail(q) \in Seq(S)
           /\ 1 \in DOMAIN q
           /\ Head(q) = q[1]
           /\ \A i \in DOMAIN Tail(q) :
                 /\ i + 1 \in DOMAIN q
                 /\ i + 1 # 1
                 /\ Tail(q)[i] = q[i + 1]
           /\ \A i, j \in DOMAIN Tail(q) : i # j => i + 1 # j + 1
OBVIOUS

-----------------------------------------------------------------------------
(* Init establishes the types. *)
LEMMA TypeInvInit == Init => TypeInv
<1> SUFFICES ASSUME Init PROVE TypeInv
  OBVIOUS
<1>1. TypeOK
  <2>1. closeq \in Seq(Fds) /\ tasks \in Seq(Task)
    BY DEF Init
  <2>2. 0 \in Nat /\ 0 \in 0..2
    OBVIOUS
  <2> QED
    BY <2>1, <2>2 DEF Init, TypeOK
<1>2. FdInv
  <2>1. DOMAIN tasks = {}
    BY DEF Init
  <2> QED
    BY <2>1 DEF Init, FdInv
<1> QED
  BY <1>1, <1>2 DEF TypeInv

(* FdInv survives a step that forgets no descriptor and holds nothing new
   without one. *)
LEMMA FdInvStable ==
    ASSUME TypeInv,
           \A c \in Conns : Known(c) => Known(c)',
           \A fd \in Fds : conns'[fd] = conns[fd] \/ conns'[fd] = None
                             \/ Known(conns[fd])',
           \A c \in timers' : c \in timers \/ Known(c)',
           tasks' = tasks, wconn' = wconn
    PROVE  FdInv'
<1>1. \A i \in DOMAIN tasks : tasks[i].conn \in Conns
  <2>1. \A i \in DOMAIN tasks : tasks[i] \in Task
    BY DEF TypeInv, TypeOK
  <2> QED
    BY <2>1 DEF Task
<1>2. \A i \in DOMAIN tasks' : Known(tasks[i].conn)'
  BY <1>1 DEF TypeInv, FdInv
<1>3. \A c \in timers' : Known(c)'
  BY DEF TypeInv, TypeOK, FdInv
<1>4. \A w \in Workers : wconn'[w] # None => Known(wconn[w])'
  BY DEF TypeInv, TypeOK, FdInv
<1>5. \A fd \in Fds : conns'[fd] # None => Known(conns[fd])'
  BY DEF TypeInv, TypeOK, FdInv
<1> QED
  BY <1>2, <1>3, <1>4, <1>5 DEF FdInv

(* close_connection keeps the types: it only takes a connection out. *)
LEMMA CloseConnectionTypes ==
    ASSUME TypeInv, NEW fd \in Fds, CloseConnection(fd)
    PROVE  /\ conns' \in [Fds -> Conns \cup {None}]
           /\ phase' \in [Conns -> {"new", "backlog", "open", "closed", "refused"}]
           /\ interest' \in [Conns -> {"absent", "off", "in", "out"}]
           /\ timers' \in SUBSET timers
           /\ fdOf' = fdOf
           /\ \A f \in Fds : conns'[f] = conns[f] \/ conns'[f] = None
           /\ \A c \in Conns : Known(c) => Known(c)'
<1>1. CASE conns[fd] = None
  BY <1>1 DEF TypeInv, TypeOK, CloseConnection, tableVars, Known
<1>2. CASE conns[fd] # None
  <2>1. conns[fd] \in Conns
    BY <1>2 DEF TypeInv, TypeOK
  <2>2. /\ phase' = [phase EXCEPT ![conns[fd]] = "closed"]
        /\ conns' = [conns EXCEPT ![fd] = None]
        /\ interest' = [interest EXCEPT ![conns[fd]] = "absent"]
        /\ fdOf' = fdOf
        /\ timers' \subseteq timers
    BY <1>2 DEF CloseConnection
  <2>3. \A c \in Conns : Known(c) => Known(c)'
    BY <2>2 DEF TypeInv, TypeOK, Known
  <2> QED
    BY <2>1, <2>2, <2>3 DEF TypeInv, TypeOK
<1> QED
  BY <1>1, <1>2

(* A new entry in the table has its descriptor. *)
LEMMA EnterTypes ==
    ASSUME TypeInv, NEW c \in Conns, NEW fd \in Fds, Enter(c, fd)
    PROVE  /\ conns' \in [Fds -> Conns \cup {None}]
           /\ phase' \in [Conns -> {"new", "backlog", "open", "closed", "refused"}]
           /\ fdOf' \in [Conns -> Fds \cup {None}]
           /\ Known(c)'
           /\ \A d \in Conns : Known(d) => Known(d)'
           /\ \A f \in Fds : conns'[f] = conns[f] \/ Known(conns[f])'
BY DEF TypeInv, TypeOK, Enter, Known

(* The types are preserved by every step. *)
LEMMA TypeInvNext == TypeInv /\ [Next]_vars => TypeInv'
<1> SUFFICES ASSUME TypeInv, [Next]_vars PROVE TypeInv'
  OBVIOUS
<1> USE ReactorConstants
<1>1. ASSUME NEW c \in Conns, Connect(c) PROVE TypeInv'
  BY <1>1 DEF TypeInv, TypeOK, FdInv, Known, Connect, timerVars, closeVars,
       workerVars, inputVars, objectVars
<1>2. ASSUME NEW c \in Conns, Send(c) PROVE TypeInv'
  BY <1>2 DEF TypeInv, TypeOK, FdInv, Known, Send, mainVars, tableVars, timerVars,
       closeVars, workerVars, objectVars
<1>3. ASSUME NEW c \in Conns, Shutdown(c) PROVE TypeInv'
  BY <1>3 DEF TypeInv, TypeOK, FdInv, Known, Shutdown, mainVars, tableVars, timerVars,
       closeVars, workerVars, objectVars
<1>4. ASSUME NEW c \in Conns, TickFire(c) PROVE TypeInv'
  <2>1. fdOf[c] \in Fds
    BY <1>4 DEF TypeInv, FdInv, TickFire, Known
  <2>2. closeq' \in Seq(Fds)
    BY <1>4, <2>1, AppendFacts DEF TypeInv, TypeOK, TickFire
  <2> QED
    BY <1>4, <2>2 DEF TypeInv, TypeOK, FdInv, Known, TickFire, mainVars, tableVars,
         workerVars, inputVars, objectVars
<1>5. CASE TickDone
  BY <1>5 DEF TypeInv, TypeOK, FdInv, Known, TickDone, tableVars, timerVars, closeVars,
       workerVars, inputVars, objectVars
<1>6. CASE Drain
  <2>1. Head(closeq) \in Fds /\ closeq' \in Seq(Fds)
    BY <1>6, TailFacts DEF TypeInv, TypeOK, Drain
  <2>2. CloseConnection(Head(closeq))
    BY <1>6 DEF Drain
  <2>3. TypeOK'
    BY <1>6, <2>1, <2>2, CloseConnectionTypes
       DEF TypeInv, TypeOK, Drain, mainVars, workerVars, inputVars, objectVars
  <2>4. FdInv'
    BY <1>6, <2>1, <2>2, CloseConnectionTypes, FdInvStable DEF Drain, workerVars
  <2> QED
    BY <2>3, <2>4 DEF TypeInv
<1>7. CASE DrainDone
  BY <1>7 DEF TypeInv, TypeOK, FdInv, Known, DrainDone, tableVars, timerVars,
       closeVars, workerVars, inputVars, objectVars
<1>8. CASE EpollWait
  <2>1. batch' \in [Fds -> {"none", "hup", "in", "out"}]
    BY <1>8 DEF EpollWait, EventOf
  <2>2. interest' \in [Conns -> {"absent", "off", "in", "out"}]
    BY <1>8 DEF TypeInv, TypeOK, EpollWait
  <2>3. newConn' \in BOOLEAN
    BY <1>8 DEF TypeInv, TypeOK, EpollWait
  <2> QED
    BY <1>8, <2>1, <2>2, <2>3 DEF TypeInv, TypeOK, FdInv, Known, EpollWait, tableVars,
         timerVars, closeVars, workerVars, inputVars, objectVars
<1>9. ASSUME NEW fd \in Fds, HandleEvent(fd) PROVE TypeInv'
  <2>1. CASE batch[fd] = "hup"
    <3>1. CloseConnection(fd) /\ tasks' = tasks
      BY <1>9, <2>1 DEF HandleEvent
    <3>2. TypeOK'
      BY <1>9, <3>1, CloseConnectionTypes
         DEF TypeInv, TypeOK, HandleEvent, closeVars, workerVars, inputVars, objectVars
    <3>3. FdInv'
      BY <1>9, <3>1, CloseConnectionTypes, FdInvStable DEF HandleEvent, workerVars
    <3> QED
      BY <3>2, <3>3 DEF TypeInv
  <2>2. CASE batch[fd] # "hup" /\ conns[fd] = None
    BY <1>9, <2>2 DEF TypeInv, TypeOK, FdInv, Known, HandleEvent, tableVars, closeVars,
         workerVars, inputVars, objectVars
  <2>3. CASE batch[fd] # "hup" /\ conns[fd] # None
    <3> DEFINE task == [kind |-> IF batch[fd] = "out" THEN "write" ELSE "read",
                        conn |-> conns[fd]]
    <3>1. task \in Task /\ Known(task.conn)
      BY <2>3 DEF TypeInv, TypeOK, FdInv, Task
    <3>2. tasks' = Append(tasks, task)
      BY <1>9, <2>3 DEF HandleEvent
    <3> HIDE DEF task
    <3>3. tasks' \in Seq(Task) /\ \A i \in DOMAIN tasks' : Known(tasks'[i].conn)
      BY <3>1, <3>2, AppendFacts DEF TypeInv, TypeOK, FdInv
    <3> QED
      BY <1>9, <2>3, <3>3 DEF TypeInv, TypeOK, FdInv, Known, HandleEvent, tableVars,
           closeVars, workerVars, inputVars, objectVars
  <2> QED
    BY <2>1, <2>2, <2>3
<1>10. CASE EventsDone
  BY <1>10 DEF TypeInv, TypeOK, FdInv, Known, EventsDone, tableVars, timerVars,
       closeVars, workerVars, inputVars, objectVars
<1>11. ASSUME NEW c \in Conns, AcceptOk(c) PROVE TypeInv'
  <2> PICK fd \in Fds : Enter(c, fd)
    BY <1>11 DEF AcceptOk
  <2>1. TypeOK'
    BY <1>11, EnterTypes DEF TypeInv, TypeOK, AcceptOk, NextRound, closeVars, workerVars,
         inputVars, objectVars
  <2>2. FdInv'
    BY <1>11, EnterTypes, FdInvStable DEF AcceptOk, workerVars
  <2> QED
    BY <2>1, <2>2 DEF TypeInv
<1>12. ASSUME NEW c \in Conns, AcceptBroken(c) PROVE TypeInv'
  <2> PICK fd \in Fds : Enter(c, fd) /\ closeq' = Append(closeq, fd)
    BY <1>12 DEF AcceptBroken
  <2>1. closeq' \in Seq(Fds)
    BY AppendFacts DEF TypeInv, TypeOK
  <2>2. TypeOK'
    <3>1. interest' \in [Conns -> {"absent", "off", "in", "out"}]
      BY <1>12 DEF TypeInv, TypeOK, AcceptBroken
    <3>2. mainpc' \in {"tick", "drain", "wait", "events", "accept"}
      BY <1>12 DEF AcceptBroken, NextRound
    <3>3. doomed' \in SUBSET Conns
      BY <1>12 DEF TypeInv, TypeOK, AcceptBroken
    <3> QED
      BY <1>12, <2>1, <3>1, <3>2, <3>3, EnterTypes
         DEF TypeInv, TypeOK, AcceptBroken, timerVars, workerVars, inputVars, objectVars
  <2>3. FdInv'
    BY <1>12, EnterTypes, FdInvStable DEF AcceptBroken, timerVars, workerVars
  <2> QED
    BY <2>2, <2>3 DEF TypeInv
<1>13. ASSUME NEW c \in Conns, AcceptRefuse(c) PROVE TypeInv'
  <2>1. TypeOK'
    BY <1>13 DEF TypeInv, TypeOK, AcceptRefuse, NextRound, timerVars, closeVars, workerVars,
         inputVars, objectVars
  <2>2. \A d \in Conns : Known(d) => Known(d)'
    BY <1>13 DEF TypeInv, TypeOK, AcceptRefuse, Known
  <2>3. FdInv'
    BY <1>13, <2>2, FdInvStable DEF AcceptRefuse, timerVars, workerVars
  <2> QED
    BY <2>1, <2>3 DEF TypeInv
<1>14. CASE AcceptStop
  BY <1>14 DEF TypeInv, TypeOK, FdInv, Known, AcceptStop, tableVars, timerVars, closeVars,
       workerVars, inputVars, objectVars
<1>15. ASSUME NEW w \in Workers, WorkerNext(w) PROVE TypeInv'
  <2> DEFINE c == wconn[w]
  <2>1. CASE Take(w)
    <3>1. /\ Head(tasks) \in Task /\ Known(Head(tasks).conn)
          /\ tasks' \in Seq(Task)
          /\ \A i \in DOMAIN tasks' : Known(tasks'[i].conn)
      BY <2>1, TailFacts DEF TypeInv, TypeOK, FdInv, Take
    <3>2. TypeOK'
      BY <2>1, <3>1 DEF TypeInv, TypeOK, Take, Task, mainVars, tableVars, timerVars,
           closeVars, inputVars, objectVars
    <3>3. FdInv'
      BY <2>1, <3>1 DEF TypeInv, TypeOK, FdInv, Known, Take, tableVars, timerVars
    <3> QED
      BY <3>2, <3>3 DEF TypeInv
  <2>2. wpc[w] # "idle" => c \in Conns /\ fdOf[c] \in Fds
    BY DEF TypeInv, TypeOK, FdInv, Known
  <2>3. CASE Read(w)
    <3>1. Target(w) \in Conns \cup {None}
      BY DEF Target, TypeInv, TypeOK
    <3>2. sock' \in [Conns -> Nat] /\ rbuf' \in [Conns -> Nat]
      <4>1. CASE Target(w) = None
        BY <2>3, <4>1 DEF TypeInv, TypeOK, Read
      <4>2. CASE Target(w) # None
        <5>1. /\ sock' = [sock EXCEPT ![Target(w)] = 0]
              /\ rbuf' = [rbuf EXCEPT ![c] = @ + sock[Target(w)]]
          BY <2>3, <4>2 DEF Read
        <5>2. c \in Conns /\ rbuf[c] + sock[Target(w)] \in Nat
          BY <2>2, <2>3, <3>1, <4>2 DEF TypeInv, TypeOK, Read
        <5> QED
          BY <5>1, <5>2 DEF TypeInv, TypeOK
      <4> QED
        BY <4>1, <4>2
    <3>3. wpc' \in [Workers -> {"idle", "read", "write", "process", "route",
                                "armIn", "armOut", "close"}]
      BY <2>3 DEF TypeInv, TypeOK, Read, Continue
    <3>4. \A v \in Workers : wpc'[v] = "idle" <=> wpc[v] = "idle"
      BY <2>3 DEF TypeInv, TypeOK, Read, Continue
    <3> QED
      BY <2>3, <3>2, <3>3, <3>4 DEF TypeInv, TypeOK, FdInv, Known, Read, Continue, mainVars,
           tableVars, timerVars, closeVars
  <2>4. CASE Parse(w)
    <3>1. c \in Conns
      BY <2>2, <2>4 DEF Parse
    <3>2. CASE rbuf[c] < ReqSegs
      <4>1. Continue(w, "armIn") /\ rbuf' = rbuf /\ ka' = ka
        BY <2>4, <3>2 DEF Parse
      <4> QED
        BY <2>4, <4>1 DEF TypeInv, TypeOK, FdInv, Known, Parse, Continue, mainVars,
             tableVars, timerVars, closeVars, inputVars
    <3>3. CASE ~(rbuf[c] < ReqSegs)
      <4>1. PICK keep \in BOOLEAN : ka' = [ka EXCEPT ![c] = keep]
        BY <2>4, <3>3 DEF Parse
      <4>2. rbuf' = [rbuf EXCEPT ![c] = @ - ReqSegs] /\ Continue(w, "route")
        BY <2>4, <3>3 DEF Parse
      <4>3. rbuf[c] - ReqSegs \in Nat
        BY <3>1, <3>3 DEF TypeInv, TypeOK
      <4>4. rbuf' \in [Conns -> Nat] /\ ka' \in [Conns -> BOOLEAN]
        BY <4>1, <4>2, <4>3 DEF TypeInv, TypeOK
      <4> QED
        BY <2>4, <4>2, <4>4 DEF TypeInv, TypeOK, FdInv, Known, Parse, Continue, mainVars,
             tableVars, timerVars, closeVars, inputVars
    <3> QED
      BY <3>2, <3>3
  <2>5. CASE ParseThrows(w)
    BY <2>5 DEF TypeInv, TypeOK, FdInv, Known, ParseThrows, Finish, mainVars, tableVars,
         timerVars, closeVars, inputVars, objectVars
  <2>6. CASE Route(w)
    <3>1. rem' \in [Conns -> 0..2]
      BY <2>6 DEF TypeInv, TypeOK, Route
    <3> QED
      BY <2>6, <3>1 DEF TypeInv, TypeOK, FdInv, Known, Route, Continue, mainVars, tableVars,
           timerVars, closeVars, inputVars
  <2>7. CASE RouteThrows(w)
    BY <2>7 DEF TypeInv, TypeOK, FdInv, Known, RouteThrows, Finish, mainVars, tableVars,
         timerVars, closeVars, inputVars, objectVars
  <2>8. CASE Rearm(w)
    <3>1. interest' \in [Conns -> {"absent", "off", "in", "out"}]
      BY <2>8 DEF TypeInv, TypeOK, Rearm
    <3> QED
      BY <2>8, <3>1 DEF TypeInv, TypeOK, FdInv, Known, Rearm, Finish, mainVars, tableVars,
           timerVars, closeVars, inputVars, objectVars
  <2>9. CASE Write(w)
    <3>1. c \in Conns /\ rem[c] \in 0..2
      BY <2>2, <2>9 DEF TypeInv, TypeOK, Write
    <3>2. PICK out \in WriteOutcomes(c, Target(w)) :
            rem' = [rem EXCEPT ![c] = out.left] /\ Continue(w, out.step)
      BY <2>9 DEF Write
    <3>3. out.left \in 0..2 /\ out.step \in {"process", "armOut", "close"}
      BY <3>1, <3>2 DEF WriteOutcomes
    <3>4. /\ rem' \in [Conns -> 0..2]
          /\ wpc' \in [Workers -> {"idle", "read", "write", "process", "route",
                                   "armIn", "armOut", "close"}]
          /\ \A v \in Workers : wpc'[v] = "idle" <=> wpc[v] = "idle"
          /\ wconn' = wconn
      BY <2>9, <3>2, <3>3 DEF TypeInv, TypeOK, Write, Continue
    <3> QED
      BY <2>9, <3>4 DEF TypeInv, TypeOK, FdInv, Known, Write, mainVars, tableVars,
           timerVars, closeVars, inputVars
  <2>10. CASE RequestClose(w)
    <3>1. c \in Conns /\ fdOf[c] \in Fds
      BY <2>2, <2>10 DEF RequestClose
    <3>2. closeq' \in Seq(Fds)
      BY <2>10, <3>1, AppendFacts DEF TypeInv, TypeOK, RequestClose
    <3> QED
      BY <2>10, <3>1, <3>2 DEF TypeInv, TypeOK, FdInv, Known, RequestClose, Finish,
           mainVars, tableVars, timerVars, inputVars, objectVars
  <2> QED
    BY <1>15, <2>1, <2>3, <2>4, <2>5, <2>6, <2>7, <2>8, <2>9, <2>10 DEF WorkerNext
<1>16. CASE UNCHANGED vars
  BY <1>16 DEF TypeInv, TypeOK, FdInv, Known, vars, mainVars, tableVars, timerVars,
       closeVars, workerVars, inputVars, objectVars
<1> QED
  BY <1>1, <1>2, <1>3, <1>4, <1>5, <1>6, <1>7, <1>8, <1>9, <1>10, <1>11, <1>12,
     <1>13, <1>14, <1>15, <1>16
     DEF Next, ClientNext, MainNext, AcceptNext

(* Every variable keeps its type in every run, also when handlers outlast
   the timeout and when accept fails half-way. *)
THEOREM TypeCorrect == Spec => []TypeOK
<1>1. TypeInv => TypeOK
  BY DEF TypeInv
<1> QED
  BY TypeInvInit, TypeInvNext, <1>1, PTL DEF Spec

-----------------------------------------------------------------------------
(* Ownership. *)

(* No event for c can be reported. *)
Disarmed(c) == interest[c] \in {"absent", "off"}

(* c is in the table, and epoll, the batch and the close queue leave it to
   the task that has it. *)
Owned(c) ==
    /\ Open(c)
    /\ Disarmed(c)
    /\ batch[fdOf[c]] = "none"
    /\ \A i \in DOMAIN closeq : closeq[i] # fdOf[c]

TableInv ==
    /\ \A fd \in Fds : conns[fd] # None =>
          Open(conns[fd]) /\ fdOf[conns[fd]] = fd
    /\ \A c \in Conns : Open(c) => fdOf[c] \in Fds /\ conns[fdOf[c]] = c

TimerInv ==
    /\ \A c \in timers : Open(c) /\ c \in timerSet
    /\ ~TimeoutOn => timers = {}

TaskInv ==
    /\ \A i \in DOMAIN tasks : Owned(tasks[i].conn)
    /\ \A i, j \in DOMAIN tasks : i # j => tasks[i].conn # tasks[j].conn

WorkerInv ==
    /\ \A w \in Workers : wconn[w] # None => Owned(wconn[w])
    /\ \A v, w \in Workers : v # w /\ wconn[v] # None => wconn[v] # wconn[w]
    /\ \A w \in Workers, i \in DOMAIN tasks : wconn[w] # tasks[i].conn

BatchInv ==
    \A fd \in Fds : batch[fd] # "none" =>
        /\ mainpc = "events"
        /\ conns[fd] # None
        /\ Disarmed(conns[fd])
        /\ batch[fd] = "hup" => shut[conns[fd]]
        /\ \A i \in DOMAIN closeq : closeq[i] # fd

(* What is in the close queue is to be closed, and from the end of the drain
   to the end of the events it is out of epoll's sight. *)
CloseInv ==
    \A i \in DOMAIN closeq : LET fd == closeq[i] IN
        /\ conns[fd] # None => conns[fd] \in doomed
        /\ conns[fd] # None /\ mainpc \in {"wait", "events"} => Disarmed(conns[fd])
        /\ mainpc # "drain" => conns[fd] # None

OwnerInv ==
    TableInv /\ TimerInv /\ TaskInv /\ WorkerInv /\ BatchInv /\ CloseInv

-----------------------------------------------------------------------------
(* A task that ends within m_timeout: the timer that the event reset has not
   expired by then. *)
Timely == TimeoutOn => ~SlowHandlers

(* At the start nobody has any connection. *)
LEMMA OwnerInvInit == Init => OwnerInv
<1> SUFFICES ASSUME Init PROVE OwnerInv
  OBVIOUS
<1>1. DOMAIN tasks = {} /\ DOMAIN closeq = {}
  BY DEF Init
<1>2. TableInv /\ TimerInv
  BY DEF Init, TableInv, TimerInv, Open
<1>3. TaskInv /\ WorkerInv /\ BatchInv /\ CloseInv
  BY <1>1 DEF Init, TaskInv, WorkerInv, BatchInv, CloseInv
<1> QED
  BY <1>2, <1>3 DEF OwnerInv

(* The members of the queues are what they should be. *)
LEMMA QueueTypes ==
    ASSUME TypeInv
    PROVE  /\ \A i \in DOMAIN tasks : tasks[i] \in Task /\ tasks[i].conn \in Conns
           /\ \A i \in DOMAIN closeq : closeq[i] \in Fds
<1>1. \A i \in DOMAIN tasks : tasks[i] \in Task
  BY DEF TypeInv, TypeOK
<1>2. \A i \in DOMAIN closeq : closeq[i] \in Fds
  BY DEF TypeInv, TypeOK
<1> QED
  BY <1>1, <1>2 DEF Task

(* What close_connection does to a descriptor that is in the table. *)
LEMMA CloseConnectionEffect ==
    ASSUME TypeInv, TableInv, TimerInv,
           NEW fd \in Fds, conns[fd] # None, CloseConnection(fd)
    PROVE  /\ conns[fd] \in Conns
           /\ conns' = [conns EXCEPT ![fd] = None]
           /\ phase' = [phase EXCEPT ![conns[fd]] = "closed"]
           /\ interest' = [interest EXCEPT ![conns[fd]] = "absent"]
           /\ fdOf' = fdOf
           /\ timers' \subseteq timers \ {conns[fd]}
<1>1. conns[fd] \in Conns
  BY DEF TypeInv, TypeOK
<1>2. /\ conns' = [conns EXCEPT ![fd] = None]
      /\ phase' = [phase EXCEPT ![conns[fd]] = "closed"]
      /\ interest' = [interest EXCEPT ![conns[fd]] = "absent"]
      /\ fdOf' = fdOf
  BY DEF CloseConnection
<1>3. PICK t \in IF conns[fd] \in timerSet THEN {conns[fd]} ELSE timers \cup {None} :
         timers' = timers \ {t}
  BY DEF CloseConnection
<1>4. timers' \subseteq timers \ {conns[fd]}
  BY <1>3 DEF TimerInv
<1> QED
  BY <1>1, <1>2, <1>4

(* The table after close_connection. *)
LEMMA CloseConnectionTable ==
    ASSUME TypeInv, TableInv, TimerInv,
           NEW fd \in Fds, conns[fd] # None, CloseConnection(fd), timerSet' = timerSet
    PROVE  /\ TableInv'
           /\ TimerInv'
           /\ \A c \in Conns : c # conns[fd] =>
                 /\ Open(c)' = Open(c)
                 /\ Disarmed(c)' = Disarmed(c)
                 /\ fdOf'[c] = fdOf[c]
           /\ \A f \in Fds : f # fd => conns'[f] = conns[f]
           /\ conns'[fd] = None
<1> USE CloseConnectionEffect
<1>0. conns'[fd] = None /\ \A f \in Fds : f # fd => conns'[f] = conns[f]
  BY DEF TypeInv, TypeOK
<1>1. TableInv'
  <2>1. \A f \in Fds : conns'[f] # None => f # fd /\ conns'[f] = conns[f]
    BY DEF TypeInv, TypeOK
  <2>2. \A f \in Fds : f # fd /\ conns[f] # None => conns[f] # conns[fd]
    BY DEF TableInv
  <2>3. \A c \in Conns : Open(c)' => c # conns[fd] /\ Open(c)
    BY DEF TypeInv, TypeOK, Open
  <2>4. \A f \in Fds : conns[f] # None => conns[f] \in Conns
    BY DEF TypeInv, TypeOK
  <2>5. \A c \in Conns : c # conns[fd] => Open(c)' = Open(c)
    BY DEF TypeInv, TypeOK, Open
  <2>6. \A f \in Fds : conns'[f] # None => Open(conns[f])' /\ fdOf'[conns'[f]] = f
    BY <2>1, <2>2, <2>4, <2>5 DEF TableInv, Open
  <2>7. \A c \in Conns : Open(c)' => fdOf'[c] \in Fds /\ conns'[fdOf'[c]] = c
    <3> SUFFICES ASSUME NEW c \in Conns, Open(c)'
                 PROVE  fdOf'[c] \in Fds /\ conns'[fdOf'[c]] = c
      OBVIOUS
    <3>1. fdOf[c] \in Fds /\ conns[fdOf[c]] = c /\ c # conns[fd]
      BY <2>3 DEF TableInv
    <3>2. fdOf' = fdOf /\ fdOf[c] # fd
      BY <3>1
    <3>3. conns'[fdOf[c]] = conns[fdOf[c]]
      BY <1>0, <3>1, <3>2
    <3> QED
      BY <3>1, <3>2, <3>3
  <2> QED
    BY <2>6, <2>7 DEF TableInv
<1>2. TimerInv'
  BY DEF TypeInv, TypeOK, TimerInv, Open
<1>3. \A c \in Conns : c # conns[fd] =>
        Open(c)' = Open(c) /\ Disarmed(c)' = Disarmed(c) /\ fdOf'[c] = fdOf[c]
  BY DEF TypeInv, TypeOK, Open, Disarmed
<1> QED
  BY <1>0, <1>1, <1>2, <1>3

(* What OwnerInv is about. *)
ownerVars == <<mainpc, conns, fdOf, phase, interest, timerVars, closeVars, tasks,
               wconn, batch, shut>>

(* Steps that change none of it. *)
LEMMA OwnerInvFrame == OwnerInv /\ UNCHANGED ownerVars => OwnerInv'
BY DEF OwnerInv, ownerVars, timerVars, closeVars, TableInv, TimerInv, TaskInv,
   WorkerInv, BatchInv, CloseInv, Owned, Open, Disarmed

(* Steps of the main thread from one point of the loop to another, with an
   empty batch and nothing in the close queue that the new point forbids. *)
LEMMA OwnerInvMove ==
    ASSUME OwnerInv,
           UNCHANGED <<tableVars, interest, timerVars, closeVars, tasks, wconn, batch, shut>>,
           mainpc # "drain" \/ closeq = <<>>,
           mainpc' \in {"tick", "drain", "accept"} \/ closeq = <<>>,
           \A fd \in Fds : batch[fd] = "none"
    PROVE  OwnerInv'
<1> USE DEF OwnerInv, tableVars, timerVars, closeVars, Owned, Open, Disarmed
<1>1. TableInv' /\ TimerInv' /\ TaskInv' /\ WorkerInv'
  BY DEF TableInv, TimerInv, TaskInv, WorkerInv
<1>2. BatchInv'
  BY DEF BatchInv
<1>3. CloseInv'
  BY DEF CloseInv
<1> QED
  BY <1>1, <1>2, <1>3

(* A timer expires on a connection that no task holds. *)
LEMMA OwnerInvTickFire ==
    ASSUME Timely, TypeInv, OwnerInv, NEW c \in Conns, TickFire(c)
    PROVE  OwnerInv'
<1> USE DEF TickFire, OwnerInv, mainVars, tableVars, workerVars, inputVars
<1>1. Open(c) /\ fdOf[c] \in Fds /\ conns[fdOf[c]] = c
  BY DEF TimerInv, TableInv
<1>2. ~Held(c)
  BY DEF Timely, TimerInv
<1>3. /\ DOMAIN closeq' = DOMAIN closeq \cup {Len(closeq) + 1}
      /\ \A i \in DOMAIN closeq : closeq'[i] = closeq[i]
      /\ closeq'[Len(closeq) + 1] = fdOf[c]
  BY <1>1, AppendFacts DEF TypeInv, TypeOK
<1>4. \A d \in Conns : Owned(d) /\ d # c => Owned(d)'
  <2> TAKE d \in Conns
  <2> HAVE Owned(d) /\ d # c
  <2>1. fdOf[d] # fdOf[c]
    BY <1>1 DEF Owned, TableInv
  <2> QED
    BY <1>3, <2>1 DEF Owned, Open, Disarmed
<1>5. TableInv' /\ TimerInv'
  BY DEF TableInv, TimerInv, Open
<1>6. TaskInv'
  BY <1>2, <1>4, QueueTypes DEF TaskInv, Held, Queued
<1>7. WorkerInv'
  <2>1. \A w \in Workers : wconn[w] # None => wconn[w] \in Conns /\ wconn[w] # c
    BY <1>2 DEF Held, Busy, TypeInv, TypeOK
  <2> QED
    BY <1>4, <2>1 DEF WorkerInv
<1>8. BatchInv'
  BY DEF BatchInv
<1>9. CloseInv'
  <2>1. c # None
    BY ReactorConstants
  <2> QED
    BY <1>1, <1>3, <2>1 DEF CloseInv, Disarmed
<1> QED
  BY <1>5, <1>6, <1>7, <1>8, <1>9

(* One descriptor of the close queue: what it names, if anything, is asked to
   close, and no task, batch or later entry depends on it. *)
LEMMA OwnerInvDrain ==
    ASSUME TypeInv, OwnerInv, Drain
    PROVE  OwnerInv'
<1> DEFINE fd == Head(closeq)
<1> USE DEF OwnerInv
<1>1. /\ fd \in Fds /\ 1 \in DOMAIN closeq /\ closeq[1] = fd
      /\ \A i \in DOMAIN closeq' : i + 1 \in DOMAIN closeq /\ closeq'[i] = closeq[i + 1]
  BY TailFacts DEF Drain, TypeInv, TypeOK
<1>2. \A f \in Fds : batch[f] = "none"
  BY DEF Drain, BatchInv
<1>3. UNCHANGED <<mainpc, batch, shut, doomed, tasks, wconn, timerSet>>
  BY DEF Drain, mainVars, workerVars, inputVars
<1>4. CASE conns[fd] = None
  <2>1. UNCHANGED <<conns, fdOf, phase, interest, timers>>
    BY <1>4 DEF Drain, CloseConnection, tableVars
  <2>2. \A d \in Conns : Owned(d) => Owned(d)'
    BY <1>1, <1>3, <2>1 DEF Owned, Open, Disarmed
  <2>3. TableInv' /\ TimerInv'
    BY <1>3, <2>1 DEF TableInv, TimerInv, Open
  <2>4. TaskInv'
    BY <1>3, <2>2, QueueTypes DEF TaskInv
  <2>5. WorkerInv'
    BY <1>3, <2>2 DEF WorkerInv, TypeInv, TypeOK
  <2>6. BatchInv'
    BY <1>2, <1>3 DEF BatchInv
  <2>7. CloseInv'
    BY <1>1, <1>3, <2>1 DEF CloseInv, Disarmed, Drain
  <2> QED
    BY <2>3, <2>4, <2>5, <2>6, <2>7
<1>5. CASE conns[fd] # None
  <2>1. CloseConnection(fd)
    BY DEF Drain
  <2>2. /\ TableInv' /\ TimerInv' /\ conns'[fd] = None
        /\ \A f \in Fds : f # fd => conns'[f] = conns[f]
        /\ \A c \in Conns : c # conns[fd] =>
              Open(c)' = Open(c) /\ Disarmed(c)' = Disarmed(c) /\ fdOf'[c] = fdOf[c]
    BY <1>1, <1>3, <1>5, <2>1, CloseConnectionTable
  <2>3. \A d \in Conns : Owned(d) => d # conns[fd]
    BY <1>1, <1>5 DEF Owned, TableInv
  <2>4. \A d \in Conns : Owned(d) => Owned(d)'
    BY <1>1, <1>3, <2>2, <2>3 DEF Owned
  <2>5. TaskInv'
    BY <1>3, <2>4, QueueTypes DEF TaskInv
  <2>6. WorkerInv'
    BY <1>3, <2>4 DEF WorkerInv, TypeInv, TypeOK
  <2>7. BatchInv'
    BY <1>2, <1>3 DEF BatchInv
  <2>8. CloseInv'
    <3>1. mainpc' = "drain"
      BY <1>3 DEF Drain
    <3>2. \A i \in DOMAIN closeq' : closeq'[i] \in Fds
      BY <1>1, QueueTypes
    <3> QED
      BY <1>1, <1>3, <2>2, <3>1, <3>2 DEF CloseInv
  <2> QED
    BY <2>2, <2>5, <2>6, <2>7, <2>8
<1> QED
  BY <1>4, <1>5

(* epoll_wait reports only armed connections, which are nobody's, and disarms
   them. *)
LEMMA OwnerInvEpollWait ==
    ASSUME TypeInv, OwnerInv, EpollWait
    PROVE  OwnerInv'
<1> USE DEF OwnerInv
<1> PICK writable \in SUBSET {fd \in Fds : OutReady(fd)} :
        /\ batch' = [fd \in Fds |-> EventOf(fd, writable)]
        /\ interest' = [c \in Conns |->
                          IF \E fd \in Fds : conns[fd] = c
                                             /\ EventOf(fd, writable) # "none"
                          THEN "off" ELSE interest[c]]
  BY DEF EpollWait
<1>1. /\ UNCHANGED <<conns, fdOf, phase, timers, timerSet, closeq, doomed, tasks, wconn, shut>>
      /\ mainpc = "wait" /\ mainpc' = "events"
  BY DEF EpollWait, tableVars, timerVars, closeVars, workerVars, inputVars
<1>2. \A fd \in Fds : batch'[fd] # "none" =>
         /\ conns[fd] # None
         /\ Armed(conns[fd])
         /\ batch'[fd] = "hup" => shut[conns[fd]]
  BY DEF EventOf, HupReady, InReady, OutReady, Watched
<1>3. \A c \in Conns : Disarmed(c) => Disarmed(c)'
  BY DEF Disarmed
<1>4. \A d \in Conns : Owned(d) => Owned(d)'
  <2> TAKE d \in Conns
  <2> HAVE Owned(d)
  <2>1. fdOf[d] \in Fds /\ conns[fdOf[d]] = d /\ ~Armed(d)
    BY DEF Owned, TableInv, Armed, Disarmed
  <2>2. batch'[fdOf[d]] = "none"
    BY <1>2, <2>1
  <2> QED
    BY <1>1, <1>3, <2>2 DEF Owned, Open
<1>5. TableInv' /\ TimerInv'
  BY <1>1 DEF TableInv, TimerInv, Open
<1>6. TaskInv'
  BY <1>1, <1>4, QueueTypes DEF TaskInv
<1>7. WorkerInv'
  BY <1>1, <1>4 DEF WorkerInv, TypeInv, TypeOK
<1>8. BatchInv'
  <2> SUFFICES ASSUME NEW fd \in Fds, batch'[fd] # "none"
               PROVE  /\ Disarmed(conns[fd])'
                      /\ \A i \in DOMAIN closeq : closeq[i] # fd
    BY <1>1, <1>2 DEF BatchInv
  <2>1. conns[fd] \in Conns /\ Armed(conns[fd]) /\ conns[fd] # None
    BY <1>2 DEF TypeInv, TypeOK
  <2>2. Disarmed(conns[fd])'
    BY <1>1, <2>1 DEF Disarmed
  <2>3. \A i \in DOMAIN closeq : closeq[i] # fd
    BY <1>1, <2>1 DEF CloseInv, Armed, Disarmed
  <2> QED
    BY <2>2, <2>3
<1>9. CloseInv'
  <2>1. \A i \in DOMAIN closeq : conns[closeq[i]] # None => conns[closeq[i]] \in Conns
    BY QueueTypes DEF TypeInv, TypeOK
  <2> QED
    BY <1>1, <1>3, <2>1 DEF CloseInv, Disarmed
<1> QED
  BY <1>5, <1>6, <1>7, <1>8, <1>9

(* An event: a connection that hung up leaves the table, any other one goes to
   the task queue, which becomes its owner. *)
LEMMA OwnerInvHandleEvent ==
    ASSUME TypeInv, OwnerInv, NEW fd \in Fds, HandleEvent(fd)
    PROVE  OwnerInv'
<1> DEFINE c == conns[fd]
<1> USE DEF OwnerInv
<1>1. /\ UNCHANGED <<mainpc, timerSet, closeq, doomed, wconn, shut>>
      /\ mainpc = "events"
      /\ batch' = [batch EXCEPT ![fd] = "none"]
  BY DEF HandleEvent, closeVars, workerVars, inputVars
<1>2. /\ c # None /\ c \in Conns /\ Open(c) /\ fdOf[c] = fd /\ Disarmed(c)
      /\ batch[fd] = "hup" => shut[c]
      /\ \A i \in DOMAIN closeq : closeq[i] # fd
  BY DEF HandleEvent, BatchInv, TableInv, TypeInv, TypeOK
<1>3. \A d \in Conns : Owned(d) => d # c
  BY <1>2 DEF Owned, HandleEvent
<1>4. \A f \in Fds : f # fd => batch'[f] = batch[f]
  BY <1>1 DEF TypeInv, TypeOK
<1>5. batch'[fd] = "none"
  BY <1>1 DEF TypeInv, TypeOK
<1>6. CASE batch[fd] = "hup"
  <2>1. CloseConnection(fd) /\ tasks' = tasks
    BY <1>6 DEF HandleEvent
  <2>2. /\ TableInv' /\ TimerInv' /\ conns'[fd] = None
        /\ \A f \in Fds : f # fd => conns'[f] = conns[f]
        /\ \A d \in Conns : d # c =>
              Open(d)' = Open(d) /\ Disarmed(d)' = Disarmed(d) /\ fdOf'[d] = fdOf[d]
    BY <1>1, <1>2, <2>1, CloseConnectionTable
  <2>3. \A d \in Conns : Owned(d) => Owned(d)'
    BY <1>1, <1>3, <1>4, <2>2 DEF Owned, TableInv
  <2>4. TaskInv'
    BY <2>1, <2>3, QueueTypes DEF TaskInv
  <2>5. WorkerInv'
    BY <1>1, <2>1, <2>3 DEF WorkerInv, TypeInv, TypeOK
  <2>6. BatchInv'
    <3>1. \A f \in Fds : f # fd /\ conns[f] # None => conns[f] \in Conns /\ conns[f] # c
      BY <1>2 DEF TableInv, TypeInv, TypeOK
    <3> QED
      BY <1>1, <1>4, <1>5, <2>2, <3>1 DEF BatchInv
  <2>7. CloseInv'
    <3>1. \A f \in Fds : f # fd /\ conns[f] # None => conns[f] \in Conns /\ conns[f] # c
      BY <1>2 DEF TableInv, TypeInv, TypeOK
    <3> QED
      BY <1>1, <1>2, <2>2, <3>1, QueueTypes DEF CloseInv
  <2> QED
    BY <2>2, <2>4, <2>5, <2>6, <2>7
<1>7. CASE batch[fd] # "hup"
  <2> DEFINE task == [kind |-> IF batch[fd] = "out" THEN "write" ELSE "read",
                      conn |-> c]
  <2>1. /\ tasks' = Append(tasks, task)
        /\ UNCHANGED <<conns, fdOf, phase, interest, timers>>
    BY <1>2, <1>7 DEF HandleEvent, tableVars
  <2>2. task \in Task /\ task.conn = c
    BY <1>2 DEF Task
  <2> HIDE DEF task
  <2>3. /\ DOMAIN tasks' = DOMAIN tasks \cup {Len(tasks) + 1}
        /\ \A i \in DOMAIN tasks : tasks'[i] = tasks[i]
        /\ tasks'[Len(tasks) + 1] = task
    BY <2>1, <2>2, AppendFacts DEF TypeInv, TypeOK
  <2>4. \A d \in Conns : Owned(d) => Owned(d)'
    BY <1>1, <1>4, <1>5, <2>1 DEF Owned, Open, Disarmed, TableInv
  <2>5. Owned(c)'
    BY <1>1, <1>2, <1>5, <2>1 DEF Owned, Open, Disarmed
  <2>6. TableInv' /\ TimerInv'
    BY <1>1, <2>1 DEF TableInv, TimerInv, Open
  <2>7. TaskInv'
    <3>1. \A i \in DOMAIN tasks : tasks[i].conn # c
      BY <1>3, QueueTypes DEF TaskInv
    <3>2. \A i \in DOMAIN tasks' : Owned(tasks[i].conn)'
      <4> TAKE i \in DOMAIN tasks'
      <4>1. CASE i \in DOMAIN tasks
        <5>1. tasks[i].conn \in Conns /\ Owned(tasks[i].conn) /\ tasks'[i] = tasks[i]
          BY <2>3, <4>1, QueueTypes DEF TaskInv
        <5> QED
          BY <2>4, <5>1 DEF Owned, Open, Disarmed
      <4>2. CASE i = Len(tasks) + 1
        <5>1. tasks'[i].conn = c
          BY <2>2, <2>3, <4>2
        <5> QED
          BY <1>1, <2>1, <2>5, <5>1 DEF Owned, Open, Disarmed
      <4> QED
        BY <2>3, <4>1, <4>2
    <3>3. \A i, j \in DOMAIN tasks' : i # j => tasks'[i].conn # tasks'[j].conn
      BY <2>2, <2>3, <3>1 DEF TaskInv
    <3> QED
      BY <3>2, <3>3 DEF TaskInv
  <2>8. WorkerInv'
    <3>1. \A w \in Workers : wconn[w] # None => wconn[w] \in Conns /\ wconn[w] # c
      BY <1>3 DEF WorkerInv, TypeInv, TypeOK
    <3> QED
      BY <1>1, <1>2, <2>2, <2>3, <2>4, <3>1 DEF WorkerInv
  <2>9. BatchInv'
    BY <1>1, <1>4, <1>5, <2>1 DEF BatchInv, Disarmed
  <2>10. CloseInv'
    BY <1>1, <2>1 DEF CloseInv, Disarmed
  <2> QED
    BY <2>6, <2>7, <2>8, <2>9, <2>10
<1> QED
  BY <1>6, <1>7

(* A new entry in the table: its descriptor was free, so that no earlier
   request in the close queue can hit it. *)
LEMMA EnterOwner ==
    ASSUME TypeInv, TableInv, CloseInv, NEW c \in Conns, NEW fd \in Fds,
           mainpc = "accept", phase[c] = "backlog", Enter(c, fd)
    PROVE  /\ TableInv'
           /\ conns' = [conns EXCEPT ![fd] = c]
           /\ ~Open(c) /\ Open(c)' /\ fdOf'[c] = fd /\ conns[fd] = None
           /\ \A d \in Conns : d # c => Open(d)' = Open(d) /\ fdOf'[d] = fdOf[d]
           /\ \A i \in DOMAIN closeq : closeq[i] # fd
<1>1. /\ ~Open(c) /\ Open(c)' /\ fdOf'[c] = fd /\ conns[fd] = None
      /\ \A d \in Conns : d # c => Open(d)' = Open(d) /\ fdOf'[d] = fdOf[d]
      /\ conns' = [conns EXCEPT ![fd] = c]
  BY DEF Enter, Open, TypeInv, TypeOK
<1>2. TableInv'
  <2>1. \A f \in Fds : conns'[f] # None => Open(conns[f])' /\ fdOf'[conns'[f]] = f
    <3> TAKE f \in Fds
    <3> HAVE conns'[f] # None
    <3>1. CASE f = fd
      BY <1>1, <3>1 DEF TypeInv, TypeOK, Open
    <3>2. CASE f # fd
      <4>1. conns'[f] = conns[f] /\ conns[f] \in Conns /\ Open(conns[f])
        BY <1>1, <3>2 DEF TypeInv, TypeOK, TableInv
      <4> QED
        BY <1>1, <4>1 DEF TableInv, Open
    <3> QED
      BY <3>1, <3>2
  <2>2. \A d \in Conns : Open(d)' => fdOf'[d] \in Fds /\ conns'[fdOf'[d]] = d
    <3> TAKE d \in Conns
    <3> HAVE Open(d)'
    <3>1. CASE d = c
      BY <1>1, <3>1 DEF TypeInv, TypeOK
    <3>2. CASE d # c
      <4>1. Open(d) /\ fdOf'[d] = fdOf[d]
        BY <1>1, <3>2
      <4>2. fdOf[d] \in Fds /\ conns[fdOf[d]] = d /\ fdOf[d] # fd
        BY <1>1, <4>1, ReactorConstants DEF TableInv
      <4> QED
        BY <1>1, <4>1, <4>2 DEF TypeInv, TypeOK
    <3> QED
      BY <3>1, <3>2
  <2> QED
    BY <2>1, <2>2 DEF TableInv
<1>3. \A i \in DOMAIN closeq : closeq[i] # fd
  BY <1>1 DEF CloseInv
<1> QED
  BY <1>1, <1>2, <1>3

(* accept succeeds: armed, with its timer, asked of nobody. *)
LEMMA OwnerInvAcceptOk ==
    ASSUME TypeInv, OwnerInv, NEW c \in Conns, AcceptOk(c)
    PROVE  OwnerInv'
<1> USE DEF OwnerInv
<1> PICK fd \in Fds : Enter(c, fd)
  BY DEF AcceptOk
<1>1. /\ UNCHANGED <<batch, closeq, doomed, tasks, wconn, shut>>
      /\ mainpc = "accept" /\ mainpc' \in {"accept", "tick"} /\ phase[c] = "backlog"
      /\ interest' = [interest EXCEPT ![c] = "in"]
      /\ timers' \subseteq timers \cup {c}
      /\ timerSet \subseteq timerSet'
      /\ c \in timers' => c \in timerSet'
      /\ ~TimeoutOn => timers' = timers
  BY DEF AcceptOk, NextRound, closeVars, workerVars, inputVars, TimerInv, Open
<1>2. /\ TableInv'
      /\ conns' = [conns EXCEPT ![fd] = c]
      /\ ~Open(c) /\ Open(c)' /\ fdOf'[c] = fd /\ conns[fd] = None
      /\ \A d \in Conns : d # c => Open(d)' = Open(d) /\ fdOf'[d] = fdOf[d]
      /\ \A i \in DOMAIN closeq : closeq[i] # fd
  BY <1>1, EnterOwner
<1>3. \A d \in Conns : d # c => Disarmed(d)' = Disarmed(d)
  BY <1>1 DEF Disarmed, TypeInv, TypeOK
<1>4. \A d \in Conns : Owned(d) => Owned(d)'
  BY <1>1, <1>2, <1>3 DEF Owned
<1>5. TimerInv'
  BY <1>1, <1>2 DEF TimerInv, TypeInv, TypeOK
<1>6. TaskInv'
  BY <1>1, <1>4, QueueTypes DEF TaskInv
<1>7. WorkerInv'
  BY <1>1, <1>4 DEF WorkerInv, TypeInv, TypeOK
<1>8. BatchInv'
  BY <1>1 DEF BatchInv
<1>9. CloseInv'
  <2>1. \A i \in DOMAIN closeq : conns'[closeq[i]] = conns[closeq[i]]
    BY <1>2, QueueTypes DEF TypeInv, TypeOK
  <2> QED
    BY <1>1, <2>1 DEF CloseInv
<1> QED
  BY <1>2, <1>5, <1>6, <1>7, <1>8, <1>9

(* accept fails half-way: in the close queue, maybe armed, but the queue is
   drained before epoll is asked again. *)
LEMMA OwnerInvAcceptBroken ==
    ASSUME TypeInv, OwnerInv, NEW c \in Conns, AcceptBroken(c)
    PROVE  OwnerInv'
<1> USE DEF OwnerInv
<1> PICK fd \in Fds : Enter(c, fd) /\ closeq' = Append(closeq, fd)
  BY DEF AcceptBroken
<1>1. /\ UNCHANGED <<batch, timers, timerSet, tasks, wconn, shut>>
      /\ mainpc = "accept" /\ mainpc' \in {"accept", "tick"} /\ phase[c] = "backlog"
      /\ doomed' = doomed \cup {c}
  BY DEF AcceptBroken, NextRound, timerVars, workerVars, inputVars
<1>2. /\ TableInv'
      /\ conns' = [conns EXCEPT ![fd] = c]
      /\ ~Open(c) /\ Open(c)' /\ fdOf'[c] = fd /\ conns[fd] = None
      /\ \A d \in Conns : d # c => Open(d)' = Open(d) /\ fdOf'[d] = fdOf[d]
      /\ \A i \in DOMAIN closeq : closeq[i] # fd
  BY <1>1, EnterOwner
<1>3. \A d \in Conns : d # c => Disarmed(d)' = Disarmed(d)
  BY DEF Disarmed, TypeInv, TypeOK, AcceptBroken
<1>4. /\ DOMAIN closeq' = DOMAIN closeq \cup {Len(closeq) + 1}
      /\ \A i \in DOMAIN closeq : closeq'[i] = closeq[i]
      /\ closeq'[Len(closeq) + 1] = fd
  BY AppendFacts DEF TypeInv, TypeOK
<1>5. \A d \in Conns : Owned(d) => Owned(d)'
  <2> TAKE d \in Conns
  <2> HAVE Owned(d)
  <2>1. d # c /\ fdOf[d] # fd
    BY <1>2, ReactorConstants DEF Owned, TableInv
  <2> QED
    BY <1>1, <1>2, <1>3, <1>4, <2>1 DEF Owned
<1>6. TimerInv'
  BY <1>1, <1>2 DEF TimerInv, TypeInv, TypeOK
<1>7. TaskInv'
  BY <1>1, <1>5, QueueTypes DEF TaskInv
<1>8. WorkerInv'
  BY <1>1, <1>5 DEF WorkerInv, TypeInv, TypeOK
<1>9. BatchInv'
  BY <1>1 DEF BatchInv
<1>10. CloseInv'
  <2>1. \A i \in DOMAIN closeq : conns'[closeq[i]] = conns[closeq[i]]
    BY <1>2, QueueTypes DEF TypeInv, TypeOK
  <2>2. conns'[fd] = c /\ c # None
    BY <1>2, ReactorConstants DEF TypeInv, TypeOK
  <2> QED
    BY <1>1, <1>4, <2>1, <2>2 DEF CloseInv
<1> QED
  BY <1>2, <1>6, <1>7, <1>8, <1>9, <1>10

(* A worker takes the first task and with it the connection. *)
LEMMA OwnerInvTake ==
    ASSUME TypeInv, OwnerInv, NEW w \in Workers, Take(w)
    PROVE  OwnerInv'
<1> DEFINE c == Head(tasks).conn
<1> USE DEF OwnerInv
<1>1. /\ UNCHANGED <<mainpc, conns, fdOf, phase, interest, timers, timerSet, closeq,
                     doomed, batch, shut>>
      /\ wconn' = [wconn EXCEPT ![w] = c]
      /\ wconn[w] = None
  BY DEF Take, mainVars, tableVars, timerVars, closeVars, inputVars, TypeInv, TypeOK
<1>2. /\ 1 \in DOMAIN tasks /\ tasks[1].conn = c
      /\ \A i \in DOMAIN tasks' :
            i + 1 \in DOMAIN tasks /\ i + 1 # 1 /\ tasks'[i] = tasks[i + 1]
      /\ \A i, j \in DOMAIN tasks' : i # j => i + 1 # j + 1
  BY TailFacts DEF Take, TypeInv, TypeOK
<1>3. c \in Conns /\ c # None
  BY <1>2, QueueTypes, ReactorConstants
<1>4. \A d \in Conns : Owned(d) => Owned(d)'
  BY <1>1 DEF Owned, Open, Disarmed
<1>5. TableInv' /\ TimerInv' /\ BatchInv' /\ CloseInv'
  BY <1>1 DEF TableInv, TimerInv, BatchInv, CloseInv, Open, Disarmed
<1>6. TaskInv'
  <2>1. \A i \in DOMAIN tasks' : Owned(tasks[i].conn)'
    <3> TAKE i \in DOMAIN tasks'
    <3>1. /\ tasks[i + 1].conn \in Conns /\ Owned(tasks[i + 1].conn)
          /\ tasks'[i] = tasks[i + 1]
      BY <1>2, QueueTypes DEF TaskInv
    <3> QED
      BY <1>1, <3>1 DEF Owned, Open, Disarmed
  <2>2. \A i, j \in DOMAIN tasks' : i # j => tasks'[i].conn # tasks'[j].conn
    BY <1>2 DEF TaskInv
  <2> QED
    BY <2>1, <2>2 DEF TaskInv
<1>7. WorkerInv'
  <2>1. \A v \in Workers : wconn'[v] = IF v = w THEN c ELSE wconn[v]
    BY <1>1 DEF TypeInv, TypeOK
  <2>2. Owned(c)
    BY <1>2 DEF TaskInv
  <2>3. \A v \in Workers : wconn'[v] # None => Owned(wconn[v])'
    <3> TAKE v \in Workers
    <3> HAVE wconn'[v] # None
    <3>1. wconn'[v] \in Conns /\ Owned(wconn'[v])
      BY <1>3, <2>1, <2>2 DEF WorkerInv, TypeInv, TypeOK
    <3> QED
      BY <1>1, <3>1 DEF Owned, Open, Disarmed
  <2>4. \A u, v \in Workers : u # v /\ wconn'[u] # None => wconn'[u] # wconn'[v]
    BY <1>2, <1>3, <2>1 DEF WorkerInv
  <2>5. \A v \in Workers, i \in DOMAIN tasks' : wconn'[v] # tasks'[i].conn
    BY <1>2, <2>1 DEF WorkerInv, TaskInv
  <2> QED
    BY <2>3, <2>4, <2>5 DEF WorkerInv
<1> QED
  BY <1>5, <1>6, <1>7

(* A worker drops its connection without a trace: after an exception. *)
LEMMA OwnerInvFinish ==
    ASSUME TypeInv, OwnerInv, NEW w \in Workers, Finish(w),
           UNCHANGED <<mainpc, conns, fdOf, phase, interest, timerVars, closeVars,
                       tasks, batch, shut>>
    PROVE  OwnerInv'
<1> USE DEF OwnerInv, timerVars, closeVars
<1>1. TableInv' /\ TimerInv' /\ BatchInv' /\ CloseInv' /\ TaskInv'
  BY DEF TableInv, TimerInv, BatchInv, CloseInv, TaskInv, Owned, Open, Disarmed
<1>2. \A v \in Workers : wconn'[v] = IF v = w THEN None ELSE wconn[v]
  BY DEF Finish, TypeInv, TypeOK
<1>3. WorkerInv'
  <2>1. \A v \in Workers : wconn'[v] # None => Owned(wconn[v])'
    BY <1>2 DEF WorkerInv, Owned, Open, Disarmed
  <2>2. \A u, v \in Workers : u # v /\ wconn'[u] # None => wconn'[u] # wconn'[v]
    BY <1>2 DEF WorkerInv
  <2>3. \A v \in Workers, i \in DOMAIN tasks' : wconn'[v] # tasks'[i].conn
    BY <1>2, QueueTypes, ReactorConstants DEF WorkerInv
  <2> QED
    BY <2>1, <2>2, <2>3 DEF WorkerInv
<1> QED
  BY <1>1, <1>3

(* The connection a busy worker holds is nobody else's. *)
LEMMA BusyOwner ==
    ASSUME TypeInv, OwnerInv, NEW w \in Workers, wpc[w] # "idle"
    PROVE  /\ wconn[w] \in Conns /\ Owned(wconn[w])
           /\ fdOf[wconn[w]] \in Fds
           /\ Target(w) = wconn[w]
           /\ \A i \in DOMAIN tasks : tasks[i].conn # wconn[w]
           /\ \A v \in Workers : v # w => wconn[v] # wconn[w]
<1>1. wconn[w] \in Conns /\ wconn[w] # None
  BY DEF TypeInv, TypeOK
<1>2. Owned(wconn[w])
  BY <1>1 DEF OwnerInv, WorkerInv
<1>3. fdOf[wconn[w]] \in Fds /\ conns[fdOf[wconn[w]]] = wconn[w]
  BY <1>1, <1>2 DEF OwnerInv, TableInv, Owned
<1> QED
  BY <1>1, <1>2, <1>3 DEF OwnerInv, WorkerInv, Target

(* Re-arming hands the worker's own connection back to epoll. *)
LEMMA OwnerInvRearm ==
    ASSUME TypeInv, OwnerInv, NEW w \in Workers, Rearm(w)
    PROVE  OwnerInv'
<1> DEFINE c == wconn[w]
<1> USE DEF OwnerInv
<1>1. /\ c \in Conns /\ Owned(c) /\ fdOf[c] \in Fds /\ Target(w) = c
      /\ \A i \in DOMAIN tasks : tasks[i].conn # c
      /\ \A v \in Workers : v # w => wconn[v] # c
  BY BusyOwner DEF Rearm
<1>2. /\ UNCHANGED <<mainpc, conns, fdOf, phase, timers, timerSet, closeq, doomed,
                     tasks, batch, shut>>
      /\ \A d \in Conns : d # c => interest'[d] = interest[d]
  BY <1>1 DEF Rearm, mainVars, tableVars, timerVars, closeVars, inputVars, TypeInv, TypeOK
<1>3. \A v \in Workers : wconn'[v] = IF v = w THEN None ELSE wconn[v]
  BY DEF Rearm, Finish, TypeInv, TypeOK
<1>4. \A d \in Conns : d # c /\ Owned(d) => Owned(d)'
  BY <1>2 DEF Owned, Open, Disarmed
<1>5. TableInv' /\ TimerInv'
  BY <1>2 DEF TableInv, TimerInv, Open
<1>6. TaskInv'
  BY <1>1, <1>2, <1>4, QueueTypes DEF TaskInv
<1>7. WorkerInv'
  <2>1. \A v \in Workers : wconn'[v] # None => Owned(wconn[v])'
    <3> TAKE v \in Workers
    <3> HAVE wconn'[v] # None
    <3>1. wconn'[v] = wconn[v] /\ wconn[v] \in Conns /\ wconn[v] # c /\ Owned(wconn[v])
      BY <1>1, <1>3 DEF WorkerInv, TypeInv, TypeOK
    <3> QED
      BY <1>2, <3>1 DEF Owned, Open, Disarmed
  <2>2. \A u, v \in Workers : u # v /\ wconn'[u] # None => wconn'[u] # wconn'[v]
    BY <1>3 DEF WorkerInv
  <2>3. \A v \in Workers, i \in DOMAIN tasks' : wconn'[v] # tasks'[i].conn
    BY <1>2, <1>3, QueueTypes, ReactorConstants DEF WorkerInv
  <2> QED
    BY <2>1, <2>2, <2>3 DEF WorkerInv
<1>8. \A fd \in Fds : conns[fd] = c => fd = fdOf[c]
  BY <1>1, ReactorConstants DEF TableInv
<1>9. BatchInv'
  <2>1. \A fd \in Fds : batch[fd] # "none" => conns[fd] \in Conns /\ conns[fd] # c
    BY <1>1, <1>8 DEF Owned, BatchInv, TypeInv, TypeOK
  <2> QED
    BY <1>2, <2>1 DEF BatchInv, Disarmed
<1>10. CloseInv'
  <2>1. \A i \in DOMAIN closeq : conns[closeq[i]] # None =>
           conns[closeq[i]] \in Conns /\ conns[closeq[i]] # c
    BY <1>1, <1>8, QueueTypes DEF Owned, TypeInv, TypeOK
  <2> QED
    BY <1>2, <2>1 DEF CloseInv, Disarmed
<1> QED
  BY <1>5, <1>6, <1>7, <1>9, <1>10

(* A worker asks for its own connection to be closed and lets it go. *)
LEMMA OwnerInvRequestClose ==
    ASSUME TypeInv, OwnerInv, NEW w \in Workers, RequestClose(w)
    PROVE  OwnerInv'
<1> DEFINE c == wconn[w]
<1> USE DEF OwnerInv
<1>1. /\ c \in Conns /\ Owned(c) /\ fdOf[c] \in Fds /\ Target(w) = c
      /\ \A i \in DOMAIN tasks : tasks[i].conn # c
      /\ \A v \in Workers : v # w => wconn[v] # c
  BY BusyOwner DEF RequestClose
<1>2. /\ UNCHANGED <<mainpc, conns, fdOf, phase, interest, timers, timerSet, tasks,
                     batch, shut>>
      /\ doomed' = doomed \cup {c}
  BY DEF RequestClose, mainVars, tableVars, timerVars, inputVars
<1>3. \A v \in Workers : wconn'[v] = IF v = w THEN None ELSE wconn[v]
  BY DEF RequestClose, Finish, TypeInv, TypeOK
<1>4. /\ DOMAIN closeq' = DOMAIN closeq \cup {Len(closeq) + 1}
      /\ \A i \in DOMAIN closeq : closeq'[i] = closeq[i]
      /\ closeq'[Len(closeq) + 1] = fdOf[c]
  BY <1>1, AppendFacts DEF RequestClose, TypeInv, TypeOK
<1>5. conns[fdOf[c]] = c /\ c # None
  BY <1>1, ReactorConstants DEF Owned, TableInv
<1>6. \A d \in Conns : d # c /\ Owned(d) => Owned(d)'
  <2> TAKE d \in Conns
  <2> HAVE d # c /\ Owned(d)
  <2>1. fdOf[d] # fdOf[c]
    BY <1>5 DEF Owned, TableInv
  <2> QED
    BY <1>2, <1>4, <2>1 DEF Owned, Open, Disarmed
<1>7. TableInv' /\ TimerInv'
  BY <1>2 DEF TableInv, TimerInv, Open
<1>8. TaskInv'
  BY <1>1, <1>2, <1>6, QueueTypes DEF TaskInv
<1>9. WorkerInv'
  <2>1. \A v \in Workers : wconn'[v] # None => Owned(wconn[v])'
    <3> TAKE v \in Workers
    <3> HAVE wconn'[v] # None
    <3>1. wconn'[v] = wconn[v] /\ wconn[v] \in Conns /\ wconn[v] # c /\ Owned(wconn[v])
      BY <1>1, <1>3 DEF WorkerInv, TypeInv, TypeOK
    <3> QED
      BY <1>6, <3>1 DEF Owned, Open, Disarmed
  <2>2. \A u, v \in Workers : u # v /\ wconn'[u] # None => wconn'[u] # wconn'[v]
    BY <1>3 DEF WorkerInv
  <2>3. \A v \in Workers, i \in DOMAIN tasks' : wconn'[v] # tasks'[i].conn
    BY <1>2, <1>3, QueueTypes, ReactorConstants DEF WorkerInv
  <2> QED
    BY <2>1, <2>2, <2>3 DEF WorkerInv
<1>10. BatchInv'
  BY <1>1, <1>2, <1>4 DEF BatchInv, Owned, Disarmed
<1>11. CloseInv'
  BY <1>1, <1>2, <1>4, <1>5 DEF CloseInv, Owned, Disarmed
<1> QED
  BY <1>7, <1>8, <1>9, <1>10, <1>11

(* The ownership protocol is preserved by every step. *)
LEMMA OwnerInvNext == Timely /\ TypeInv /\ OwnerInv /\ [Next]_vars => OwnerInv'
<1> SUFFICES ASSUME Timely, TypeInv, OwnerInv, [Next]_vars PROVE OwnerInv'
  OBVIOUS
<1>1. ASSUME NEW c \in Conns, Connect(c) PROVE OwnerInv'
  <2>1. \A d \in Conns : Open(d)' = Open(d)
    BY <1>1 DEF Connect, Open, TypeInv, TypeOK
  <2>2. \A fd \in Fds : conns[fd] # None => conns[fd] \in Conns
    BY DEF TypeInv, TypeOK
  <2>3. UNCHANGED <<mainpc, conns, fdOf, interest, timers, timerSet, closeq, doomed,
                    tasks, wconn, batch, shut>>
    BY <1>1 DEF Connect, timerVars, closeVars, workerVars, inputVars
  <2>4. \A d \in Conns : Owned(d)' = Owned(d)
    BY <2>1, <2>3 DEF Owned, Disarmed
  <2>5. TableInv' /\ TimerInv'
    BY <2>1, <2>2, <2>3 DEF OwnerInv, TableInv, TimerInv, TypeInv, TypeOK
  <2>6. TaskInv'
    BY <2>3, <2>4, QueueTypes DEF OwnerInv, TaskInv
  <2>7. WorkerInv'
    BY <2>3, <2>4 DEF OwnerInv, WorkerInv, TypeInv, TypeOK
  <2>8. BatchInv' /\ CloseInv'
    BY <2>3 DEF OwnerInv, BatchInv, CloseInv, Disarmed
  <2> QED
    BY <2>5, <2>6, <2>7, <2>8 DEF OwnerInv
<1>2. ASSUME NEW c \in Conns, Send(c) PROVE OwnerInv'
  BY <1>2, OwnerInvFrame DEF Send, ownerVars, mainVars, tableVars, timerVars, closeVars,
     workerVars, objectVars
<1>3. ASSUME NEW c \in Conns, Shutdown(c) PROVE OwnerInv'
  <2>1. UNCHANGED <<mainpc, conns, fdOf, phase, interest, timers, timerSet, closeq,
                    doomed, tasks, wconn, batch>>
    BY <1>3 DEF Shutdown, mainVars, tableVars, timerVars, closeVars, workerVars
  <2>2. \A d \in Conns : shut[d] => shut'[d]
    BY <1>3 DEF Shutdown, TypeInv, TypeOK
  <2>3. \A fd \in Fds : conns[fd] # None => conns[fd] \in Conns
    BY DEF TypeInv, TypeOK
  <2>4. BatchInv'
    BY <2>1, <2>2, <2>3 DEF OwnerInv, BatchInv, Disarmed
  <2> QED
    BY <2>1, <2>4 DEF OwnerInv, TableInv, TimerInv, TaskInv, WorkerInv, CloseInv, Owned,
       Open, Disarmed
<1>4. ASSUME NEW c \in Conns, TickFire(c) PROVE OwnerInv'
  BY <1>4, OwnerInvTickFire
<1>5. CASE TickDone
  BY <1>5, OwnerInvMove DEF TickDone, OwnerInv, BatchInv, workerVars, inputVars
<1>6. CASE Drain
  BY <1>6, OwnerInvDrain
<1>7. CASE DrainDone
  BY <1>7, OwnerInvMove DEF DrainDone, OwnerInv, BatchInv, workerVars, inputVars
<1>8. CASE EpollWait
  BY <1>8, OwnerInvEpollWait
<1>9. ASSUME NEW fd \in Fds, HandleEvent(fd) PROVE OwnerInv'
  BY <1>9, OwnerInvHandleEvent
<1>10. CASE EventsDone
  BY <1>10, OwnerInvMove DEF EventsDone, workerVars, inputVars
<1>11. ASSUME NEW c \in Conns, AcceptOk(c) PROVE OwnerInv'
  BY <1>11, OwnerInvAcceptOk
<1>12. ASSUME NEW c \in Conns, AcceptBroken(c) PROVE OwnerInv'
  BY <1>12, OwnerInvAcceptBroken
<1>13. ASSUME NEW c \in Conns, AcceptRefuse(c) PROVE OwnerInv'
  <2>1. \A d \in Conns : Open(d)' = Open(d)
    BY <1>13 DEF AcceptRefuse, Open, TypeInv, TypeOK
  <2>2. \A fd \in Fds : conns[fd] # None => conns[fd] \in Conns
    BY DEF TypeInv, TypeOK
  <2>3. /\ UNCHANGED <<conns, fdOf, interest, timers, timerSet, closeq, doomed,
                       tasks, wconn, batch, shut>>
        /\ mainpc = "accept" /\ mainpc' \in {"accept", "tick"}
    BY <1>13 DEF AcceptRefuse, NextRound, timerVars, closeVars, workerVars, inputVars
  <2>4. \A d \in Conns : Owned(d)' = Owned(d)
    BY <2>1, <2>3 DEF Owned, Disarmed
  <2>5. TableInv' /\ TimerInv'
    BY <2>1, <2>2, <2>3 DEF OwnerInv, TableInv, TimerInv, TypeInv, TypeOK
  <2>6. TaskInv'
    BY <2>3, <2>4, QueueTypes DEF OwnerInv, TaskInv
  <2>7. WorkerInv'
    BY <2>3, <2>4 DEF OwnerInv, WorkerInv, TypeInv, TypeOK
  <2>8. BatchInv' /\ CloseInv'
    BY <2>3 DEF OwnerInv, BatchInv, CloseInv, Disarmed
  <2> QED
    BY <2>5, <2>6, <2>7, <2>8 DEF OwnerInv
<1>14. CASE AcceptStop
  BY <1>14, OwnerInvMove DEF AcceptStop, OwnerInv, BatchInv, workerVars, inputVars
<1>15. ASSUME NEW w \in Workers, WorkerNext(w) PROVE OwnerInv'
  <2>1. CASE Take(w)
    BY <2>1, OwnerInvTake
  <2>2. CASE Read(w)
    BY <2>2, OwnerInvFrame DEF Read, Continue, ownerVars, mainVars, tableVars
  <2>3. CASE Parse(w)
    <3>1. wconn' = wconn
      BY <2>3 DEF Parse, Continue
    <3> QED
      BY <2>3, <3>1, OwnerInvFrame DEF Parse, ownerVars, mainVars, tableVars, inputVars
  <2>4. CASE ParseThrows(w)
    BY <2>4, OwnerInvFinish DEF ParseThrows, mainVars, tableVars, inputVars
  <2>5. CASE Route(w)
    BY <2>5, OwnerInvFrame DEF Route, Continue, ownerVars, mainVars, tableVars, inputVars
  <2>6. CASE RouteThrows(w)
    BY <2>6, OwnerInvFinish DEF RouteThrows, mainVars, tableVars, inputVars
  <2>7. CASE Rearm(w)
    BY <2>7, OwnerInvRearm
  <2>8. CASE Write(w)
    BY <2>8, OwnerInvFrame DEF Write, Continue, ownerVars, mainVars, tableVars, inputVars
  <2>9. CASE RequestClose(w)
    BY <2>9, OwnerInvRequestClose
  <2> QED
    BY <1>15, <2>1, <2>2, <2>3, <2>4, <2>5, <2>6, <2>7, <2>8, <2>9 DEF WorkerNext
<1>16. CASE UNCHANGED vars
  BY <1>16, OwnerInvFrame DEF vars, ownerVars, mainVars, tableVars, workerVars, inputVars
<1> QED
  BY <1>1, <1>2, <1>3, <1>4, <1>5, <1>6, <1>7, <1>8, <1>9, <1>10, <1>11, <1>12,
     <1>13, <1>14, <1>15, <1>16
     DEF Next, ClientNext, MainNext, AcceptNext

(* TypeInv and OwnerInv together are inductive. *)
LEMMA OwnershipInvariant ==
    ASSUME Timely PROVE Spec => [](TypeInv /\ OwnerInv)
<1>1. Init => TypeInv /\ OwnerInv
  BY TypeInvInit, OwnerInvInit
<1>2. (TypeInv /\ OwnerInv) /\ [Next]_vars => (TypeInv /\ OwnerInv)'
  BY TypeInvNext, OwnerInvNext
<1> QED
  BY <1>1, <1>2, PTL DEF Spec

(* With handlers faster than the timeout, a queued task and a worker never
   refer to an HTTPConnection that close_connection has freed. *)
THEOREM NoUseAfterFreeHolds ==
    ASSUME Timely PROVE Spec => []NoUseAfterFree
<1>1. TypeInv /\ OwnerInv => NoUseAfterFree
  BY ReactorConstants
     DEF OwnerInv, TaskInv, WorkerInv, NoUseAfterFree, Held, Queued, Busy, Owned
<1> QED
  BY <1>1, OwnershipInvariant, PTL

(* With handlers faster than the timeout, EPOLLONESHOT keeps its promise: one
   owner for a connection, in epoll, in the batch, in the queue or a worker. *)
THEOREM ExclusiveHandlingHolds ==
    ASSUME Timely PROVE Spec => []ExclusiveHandling
<1>1. TypeInv /\ OwnerInv => ExclusiveHandling
  <2> SUFFICES ASSUME TypeInv, OwnerInv PROVE ExclusiveHandling
    OBVIOUS
  <2>1. \A i, j \in DOMAIN tasks : i # j => tasks[i].conn # tasks[j].conn
    BY DEF OwnerInv, TaskInv
  <2>2. \A v, w \in Workers : v # w /\ wconn[v] # None => wconn[v] # wconn[w]
    BY DEF OwnerInv, WorkerInv
  <2>3. ASSUME NEW c \in Conns
        PROVE /\ ~(Queued(c) /\ Busy(c))
              /\ Held(c) => ~InBatch(c) /\ ~Armed(c)
              /\ InBatch(c) => ~Armed(c)
    <3>1. ~(Queued(c) /\ Busy(c))
      BY DEF OwnerInv, WorkerInv, Queued, Busy
    <3>2. Held(c) => Owned(c)
      BY ReactorConstants DEF OwnerInv, TaskInv, WorkerInv, Held, Queued, Busy
    <3>3. Owned(c) => ~Armed(c)
      BY DEF Owned, Disarmed, Armed
    <3>4. Owned(c) => ~InBatch(c)
      BY ReactorConstants DEF OwnerInv, TableInv, Owned, InBatch
    <3>5. InBatch(c) => ~Armed(c)
      BY DEF OwnerInv, BatchInv, InBatch, Disarmed, Armed
    <3> QED
      BY <3>1, <3>2, <3>3, <3>4, <3>5
  <2> QED
    BY <2>1, <2>2, <2>3 DEF ExclusiveHandling
<1> QED
  BY <1>1, OwnershipInvariant, PTL

(* close_connection removes the connection of its descriptor and no other. *)
LEMMA CloseConnectionOnly ==
    ASSUME TypeInv, NEW fd \in Fds, CloseConnection(fd), NEW c \in Conns,
           Open(c), ~Open(c)'
    PROVE  conns[fd] = c
BY DEF TypeInv, TypeOK, CloseConnection, tableVars, Open

(* With handlers faster than the timeout, a connection is closed only for its
   own reasons, however often its descriptor was used before. *)
THEOREM NoWrongfulCloseHolds ==
    ASSUME Timely PROVE Spec => NoWrongfulClose
<1> DEFINE Rightful == \A c \in Conns : Open(c) /\ ~Open(c)' => c \in doomed \/ shut[c]
<1>1. TypeInv /\ OwnerInv /\ [Next]_vars => Rightful
  <2> SUFFICES ASSUME TypeInv, OwnerInv, [Next]_vars,
                      NEW c \in Conns, Open(c), ~Open(c)'
               PROVE  c \in doomed \/ shut[c]
    OBVIOUS
  <2>1. CASE Drain
    <3>1. Head(closeq) \in Fds /\ 1 \in DOMAIN closeq /\ closeq[1] = Head(closeq)
      BY <2>1, TailFacts DEF Drain, TypeInv, TypeOK
    <3>2. conns[Head(closeq)] = c /\ c # None
      BY <2>1, <3>1, CloseConnectionOnly, ReactorConstants DEF Drain
    <3> QED
      BY <3>1, <3>2 DEF OwnerInv, CloseInv
  <2>2. ASSUME NEW fd \in Fds, HandleEvent(fd) PROVE c \in doomed \/ shut[c]
    <3>1. CASE batch[fd] = "hup"
      <4>1. conns[fd] = c
        BY <2>2, <3>1, CloseConnectionOnly DEF HandleEvent
      <4> QED
        BY <3>1, <4>1 DEF OwnerInv, BatchInv
    <3>2. CASE batch[fd] # "hup"
      BY <2>2, <3>2 DEF HandleEvent, tableVars, Open
    <3> QED
      BY <3>1, <3>2
  <2>3. ASSUME NEW d \in Conns,
               Connect(d) \/ AcceptOk(d) \/ AcceptBroken(d) \/ AcceptRefuse(d)
        PROVE  FALSE
    BY <2>3 DEF Connect, AcceptOk, AcceptBroken, AcceptRefuse, Enter, Open, TypeInv, TypeOK
  <2>4. ASSUME phase' = phase PROVE FALSE
    BY <2>4 DEF Open
  <2>5. ASSUME NEW d \in Conns, Send(d) \/ Shutdown(d) \/ TickFire(d) PROVE phase' = phase
    BY <2>5 DEF Send, Shutdown, TickFire, tableVars
  <2>6. ASSUME TickDone \/ DrainDone \/ EpollWait \/ EventsDone \/ AcceptStop
        PROVE  phase' = phase
    BY <2>6 DEF TickDone, DrainDone, EpollWait, EventsDone, AcceptStop, tableVars
  <2>7. ASSUME NEW w \in Workers, WorkerNext(w) PROVE phase' = phase
    BY <2>7 DEF WorkerNext, Take, Read, Parse, ParseThrows, Route, RouteThrows, Rearm,
       Write, RequestClose, tableVars
  <2>8. ASSUME UNCHANGED vars PROVE phase' = phase
    BY <2>8 DEF vars, tableVars
  <2> QED
    BY <2>1, <2>2, <2>3, <2>4, <2>5, <2>6, <2>7, <2>8
       DEF Next, ClientNext, MainNext, AcceptNext
<1>2. TypeInv /\ OwnerInv /\ [Next]_vars => [Rightful]_vars
  BY <1>1
<1> QED
  BY <1>2, OwnershipInvariant, PTL DEF Spec, NoWrongfulClose

(* In ET mode, with handlers faster than the timeout, a worker that gives a
   connection up has written the whole response or has lost its peer. *)
THEOREM ResponseNotCutHolds ==
    ASSUME Timely, ConnET PROVE Spec => []ResponseNotCut
<1>1. Init => ResponseNotCut
  BY DEF Init, ResponseNotCut
<1>2. TypeInv /\ OwnerInv /\ ResponseNotCut /\ [Next]_vars => ResponseNotCut'
  <2> SUFFICES ASSUME TypeInv, OwnerInv, ResponseNotCut, [Next]_vars,
                      NEW v \in Workers, wpc'[v] = "close", rem'[wconn'[v]] > 0
               PROVE  shut'[wconn'[v]]
    BY DEF ResponseNotCut
  <2>1. ASSUME NEW w \in Workers, Read(w) PROVE shut'[wconn'[v]]
    <3>1. CASE v = w
      <4>1. wconn[w] \in Conns /\ Target(w) = wconn[w] /\ wconn[w] # None
        BY <2>1, BusyOwner, ReactorConstants DEF Read
      <4> QED
        BY <2>1, <3>1, <4>1 DEF Read, Continue, TypeInv, TypeOK
    <3>2. CASE v # w
      BY <2>1, <3>2 DEF Read, Continue, ResponseNotCut, TypeInv, TypeOK
    <3> QED
      BY <3>1, <3>2
  <2>2. ASSUME NEW w \in Workers, Write(w) PROVE shut'[wconn'[v]]
    <3>1. wconn[w] \in Conns /\ Target(w) = wconn[w] /\ wconn[w] # None
      BY <2>2, BusyOwner, ReactorConstants DEF Write
    <3>2. PICK out \in WriteOutcomes(wconn[w], Target(w)) :
            rem' = [rem EXCEPT ![wconn[w]] = out.left] /\ Continue(w, out.step)
      BY <2>2 DEF Write
    <3>3. CASE v = w
      <4>1. out.step = "close" /\ out.left > 0
        BY <3>1, <3>2, <3>3 DEF Continue, TypeInv, TypeOK
      <4>2. shut[wconn[w]]
        BY <3>1, <3>2, <4>1 DEF WriteOutcomes
      <4> QED
        BY <2>2, <3>2, <3>3, <4>2 DEF Write, Continue, inputVars
    <3>4. CASE v # w
      <4>1. wpc[v] = "close" /\ wconn'[v] = wconn[v]
        BY <3>2, <3>4 DEF Continue, TypeInv, TypeOK
      <4>2. wconn[v] \in Conns /\ wconn[v] # wconn[w]
        BY <3>1, <3>4, <4>1, BusyOwner
      <4>3. rem'[wconn[v]] = rem[wconn[v]]
        BY <3>1, <3>2, <4>2 DEF TypeInv, TypeOK
      <4> QED
        BY <2>2, <4>1, <4>3 DEF ResponseNotCut, Write, inputVars
    <3> QED
      BY <3>3, <3>4
  <2>3. ASSUME NEW w \in Workers, Route(w) PROVE shut'[wconn'[v]]
    <3>1. v # w /\ wpc[v] = "close" /\ wconn'[v] = wconn[v]
      BY <2>3 DEF Route, Continue, TypeInv, TypeOK
    <3>2. wconn[w] \in Conns /\ wconn[v] \in Conns /\ wconn[v] # wconn[w]
      BY <2>3, <3>1, BusyOwner DEF Route
    <3>3. rem'[wconn[v]] = rem[wconn[v]]
      BY <2>3, <3>2 DEF Route, TypeInv, TypeOK
    <3> QED
      BY <2>3, <3>1, <3>3 DEF ResponseNotCut, Route, inputVars
  <2>4. ASSUME NEW w \in Workers, Parse(w) PROVE shut'[wconn'[v]]
    <3>1. v # w /\ wpc[v] = "close" /\ wconn'[v] = wconn[v]
      BY <2>4 DEF Parse, Continue, TypeInv, TypeOK
    <3> QED
      BY <2>4, <3>1 DEF ResponseNotCut, Parse, inputVars
  <2>5. ASSUME NEW w \in Workers, Take(w) PROVE shut'[wconn'[v]]
    <3>1. Head(tasks) \in Task
      BY <2>5, TailFacts DEF Take, TypeInv, TypeOK
    <3>2. v # w /\ wpc[v] = "close" /\ wconn'[v] = wconn[v]
      BY <2>5, <3>1 DEF Take, Task, TypeInv, TypeOK
    <3> QED
      BY <2>5, <3>2 DEF ResponseNotCut, Take, inputVars, objectVars
  <2>6. ASSUME NEW w \in Workers,
               ParseThrows(w) \/ RouteThrows(w) \/ Rearm(w) \/ RequestClose(w)
        PROVE  shut'[wconn'[v]]
    <3>1. Finish(w) /\ UNCHANGED <<shut, rem>>
      BY <2>6 DEF ParseThrows, RouteThrows, Rearm, RequestClose, inputVars, objectVars
    <3>2. wpc[v] = "close" /\ wconn'[v] = wconn[v]
      BY <3>1 DEF Finish, TypeInv, TypeOK
    <3> QED
      BY <3>1, <3>2 DEF ResponseNotCut
  <2>7. ASSUME UNCHANGED <<wpc, wconn, rem>>, \A c \in Conns : shut[c] => shut'[c]
        PROVE  shut'[wconn'[v]]
    <3>1. wconn[v] \in Conns
      BY <2>7, BusyOwner
    <3> QED
      BY <2>7, <3>1 DEF ResponseNotCut
  <2>8. ASSUME NEW c \in Conns, Shutdown(c) PROVE shut'[wconn'[v]]
    BY <2>7, <2>8 DEF Shutdown, workerVars, objectVars, TypeInv, TypeOK
  <2>9. ASSUME ClientNext \/ MainNext \/ UNCHANGED vars PROVE shut'[wconn'[v]]
    <3>1. (\E c \in Conns : Shutdown(c)) \/ UNCHANGED <<wpc, wconn, rem, shut>>
      BY <2>9 DEF ClientNext, Connect, Send, MainNext, TickFire, TickDone, Drain,
         DrainDone, EpollWait, HandleEvent, EventsDone, AcceptNext, AcceptOk, AcceptBroken,
         AcceptRefuse, AcceptStop, vars, workerVars, objectVars, inputVars
    <3> QED
      BY <2>7, <2>8, <3>1
  <2> QED
    BY <2>1, <2>2, <2>3, <2>4, <2>5, <2>6, <2>9 DEF Next, WorkerNext
<1> QED
  BY <1>1, <1>2, OwnershipInvariant, PTL DEF Spec

(* Who is in the table has a timer_id, and its timer unless asked to close. *)
TimerCover ==
    TimeoutOn => \A c \in Conns :
        Open(c) => c \in timerSet /\ (c \notin doomed => c \in timers)

(* When accept never fails half-way and handlers are faster than the timeout,
   no connection is left without its timer before somebody asks to close it. *)
THEOREM OpenHasTimerHolds ==
    ASSUME Timely, ~AcceptFails PROVE Spec => []OpenHasTimer
<1>1. Init => TimerCover
  BY DEF Init, TimerCover, Open
<1>2. TypeInv /\ OwnerInv /\ TimerCover /\ [Next]_vars => TimerCover'
  <2> SUFFICES ASSUME TypeInv, OwnerInv, TimerCover, [Next]_vars, TimeoutOn,
                      NEW c \in Conns, Open(c)'
               PROVE  c \in timerSet' /\ (c \notin doomed' => c \in timers')
    BY DEF TimerCover
  <2>1. ASSUME NEW fd \in Fds, CloseConnection(fd), timerSet' = timerSet, doomed' = doomed
        PROVE  c \in timerSet' /\ (c \notin doomed' => c \in timers')
    <3>1. CASE conns[fd] = None
      BY <2>1, <3>1 DEF CloseConnection, tableVars, TimerCover, Open
    <3>2. CASE conns[fd] # None
      <4>1. conns[fd] \in Conns /\ conns[fd] \in timerSet
        BY <3>2 DEF OwnerInv, TableInv, TimerCover, TypeInv, TypeOK
      <4>2. timers' = timers \ {conns[fd]} /\ phase' = [phase EXCEPT ![conns[fd]] = "closed"]
        BY <2>1, <3>2, <4>1 DEF CloseConnection
      <4> QED
        BY <2>1, <4>1, <4>2 DEF TimerCover, Open, TypeInv, TypeOK
    <3> QED
      BY <3>1, <3>2
  <2>2. CASE Drain
    <3>1. Head(closeq) \in Fds
      BY <2>2, TailFacts DEF Drain, TypeInv, TypeOK
    <3> QED
      BY <2>1, <2>2, <3>1 DEF Drain
  <2>3. ASSUME UNCHANGED <<timers, timerSet, doomed>>, Open(c)
        PROVE  c \in timerSet' /\ (c \notin doomed' => c \in timers')
    BY <2>3 DEF TimerCover
  <2>4. ASSUME NEW fd \in Fds, HandleEvent(fd)
        PROVE  c \in timerSet' /\ (c \notin doomed' => c \in timers')
    <3>1. CASE batch[fd] = "hup"
      BY <2>1, <2>4, <3>1 DEF HandleEvent, closeVars
    <3>2. CASE batch[fd] # "hup"
      BY <2>3, <2>4, <3>2 DEF HandleEvent, tableVars, closeVars, Open
    <3> QED
      BY <3>1, <3>2
  <2>5. ASSUME NEW d \in Conns, AcceptOk(d)
        PROVE  c \in timerSet' /\ (c \notin doomed' => c \in timers')
    BY <2>5 DEF AcceptOk, Enter, closeVars, TimerCover, Open, TypeInv, TypeOK
  <2>6. ASSUME NEW d \in Conns, AcceptBroken(d) PROVE FALSE
    BY <2>6 DEF AcceptBroken
  <2>7. ASSUME NEW d \in Conns, Connect(d) \/ AcceptRefuse(d)
        PROVE  c \in timerSet' /\ (c \notin doomed' => c \in timers')
    BY <2>3, <2>7 DEF Connect, AcceptRefuse, timerVars, closeVars, Open, TypeInv, TypeOK
  <2>8. ASSUME NEW d \in Conns, TickFire(d)
        PROVE  c \in timerSet' /\ (c \notin doomed' => c \in timers')
    BY <2>8 DEF TickFire, tableVars, TimerCover, Open
  <2>9. ASSUME NEW w \in Workers, RequestClose(w)
        PROVE  c \in timerSet' /\ (c \notin doomed' => c \in timers')
    BY <2>9 DEF RequestClose, tableVars, timerVars, TimerCover, Open
  <2>10. ASSUME UNCHANGED <<phase, timers, timerSet, doomed>>
         PROVE  c \in timerSet' /\ (c \notin doomed' => c \in timers')
    BY <2>3, <2>10 DEF Open
  <2>11. ASSUME NEW d \in Conns, Send(d) \/ Shutdown(d)
         PROVE  UNCHANGED <<phase, timers, timerSet, doomed>>
    BY <2>11 DEF Send, Shutdown, tableVars, timerVars, closeVars
  <2>12. ASSUME TickDone \/ DrainDone \/ EpollWait \/ EventsDone \/ AcceptStop
         PROVE  UNCHANGED <<phase, timers, timerSet, doomed>>
    BY <2>12 DEF TickDone, DrainDone, EpollWait, EventsDone, AcceptStop, tableVars,
       timerVars, closeVars
  <2>13. ASSUME NEW w \in Workers,
                \/ Take(w) \/ Read(w) \/ Parse(w) \/ ParseThrows(w) \/ Route(w)
                \/ RouteThrows(w) \/ Rearm(w) \/ Write(w)
         PROVE  UNCHANGED <<phase, timers, timerSet, doomed>>
    BY <2>13 DEF Take, Read, Parse, ParseThrows, Route, RouteThrows, Rearm, Write,
       tableVars, timerVars, closeVars
  <2>14. ASSUME UNCHANGED vars PROVE UNCHANGED <<phase, timers, timerSet, doomed>>
    BY <2>14 DEF vars, tableVars, timerVars, closeVars
  <2> QED
    BY <2>2, <2>4, <2>5, <2>6, <2>7, <2>8, <2>9, <2>10, <2>11, <2>12, <2>13, <2>14
       DEF Next, ClientNext, MainNext, AcceptNext, WorkerNext
<1>3. TimerCover => OpenHasTimer
  BY DEF TimerCover, OpenHasTimer
<1> QED
  BY <1>1, <1>2, <1>3, OwnershipInvariant, PTL DEF Spec


-----------------------------------------------------------------------------
(* Where the elements of a queue are after its head has left. *)
LEMMA TailKeeps ==
    ASSUME NEW S, NEW q \in Seq(S), q # <<>>, NEW i \in DOMAIN q, i # 1
    PROVE  i - 1 \in DOMAIN Tail(q) /\ Tail(q)[i - 1] = q[i]
OBVIOUS

-----------------------------------------------------------------------------
(* The close queue. *)

(* Only a connection that was in the table is asked to close. *)
DoomedInv ==
    /\ \A c \in doomed : phase[c] \in {"open", "closed"}
    /\ CloseRequestsKept

(* Steps that add no request, and take none but with its connection. *)
LEMMA DoomedInvFrame ==
    ASSUME DoomedInv, TypeInv, closeq' = closeq, doomed' = doomed, fdOf' = fdOf,
           \A c \in Conns :
              \/ phase'[c] = phase[c]
              \/ phase[c] = "open" /\ phase'[c] = "closed"
              \/ phase[c] \in {"new", "backlog"} /\ phase'[c] \in {"backlog", "refused"}
    PROVE  DoomedInv'
<1>1. \A c \in doomed' : c \in Conns /\ c \in doomed
  BY DEF TypeInv, TypeOK
<1> QED
  BY <1>1 DEF DoomedInv, CloseRequestsKept, Open

(* close_fd: one more request, for a connection in the table. *)
LEMMA DoomedInvAsk ==
    ASSUME DoomedInv, TypeInv, NEW c \in Conns, phase'[c] \in {"open", "closed"},
           fdOf'[c] \in Fds, closeq' = Append(closeq, fdOf'[c]),
           doomed' = doomed \cup {c},
           \A d \in doomed : d # c => phase'[d] = phase[d] /\ fdOf'[d] = fdOf[d]
    PROVE  DoomedInv'
<1>1. /\ DOMAIN closeq' = DOMAIN closeq \cup {Len(closeq) + 1}
      /\ \A i \in DOMAIN closeq : closeq'[i] = closeq[i]
      /\ closeq'[Len(closeq) + 1] = fdOf'[c]
  BY AppendFacts DEF TypeInv, TypeOK
<1> QED
  BY <1>1 DEF DoomedInv, CloseRequestsKept, Open

(* The main thread takes a request and closes its connection. *)
LEMMA DoomedInvDrain ==
    ASSUME DoomedInv, TypeInv, OwnerInv, Drain
    PROVE  DoomedInv'
<1> DEFINE fd == Head(closeq)
<1>1. fd \in Fds /\ closeq \in Seq(Fds) /\ closeq # <<>> /\ closeq[1] = fd
  BY TailFacts DEF Drain, TypeInv, TypeOK
<1>2. conns[fd] # None
      => conns[fd] \in Conns /\ phase' = [phase EXCEPT ![conns[fd]] = "closed"]
  BY <1>1 DEF Drain, CloseConnection, TypeInv, TypeOK
<1>3. conns[fd] = None => phase' = phase
  BY <1>1 DEF Drain, CloseConnection, tableVars
<1>4. fdOf' = fdOf /\ doomed' = doomed /\ closeq' = Tail(closeq)
  BY <1>1 DEF Drain, CloseConnection, tableVars
<1>5. \A c \in doomed : c \in Conns /\ phase'[c] \in {"open", "closed"}
  BY <1>2, <1>3 DEF DoomedInv, TypeInv, TypeOK
<1>6. ASSUME NEW c \in doomed, phase'[c] = "open"
      PROVE  \E i \in DOMAIN Tail(closeq) : Tail(closeq)[i] = fdOf[c]
  <2>1. phase[c] = "open" /\ (conns[fd] # None => conns[fd] # c)
    BY <1>2, <1>3, <1>5, <1>6 DEF TypeInv, TypeOK
  <2>2. fdOf[c] # fd
    BY <1>5, <2>1, ReactorConstants DEF OwnerInv, TableInv, Open
  <2>3. PICK i \in DOMAIN closeq : closeq[i] = fdOf[c]
    BY <2>1 DEF DoomedInv, CloseRequestsKept, Open
  <2>4. i # 1
    BY <1>1, <2>2, <2>3
  <2> QED
    BY <1>1, <2>3, <2>4, TailKeeps
<1> QED
  BY <1>4, <1>5, <1>6 DEF DoomedInv, CloseRequestsKept, Open

(* With handlers faster than the timeout, every request to close is in the
   queue until its connection is closed. *)
THEOREM CloseRequestsKeptHolds ==
    ASSUME Timely PROVE Spec => []CloseRequestsKept
<1>1. Init => DoomedInv
  BY DEF Init, DoomedInv, CloseRequestsKept
<1>2. TypeInv /\ OwnerInv /\ DoomedInv /\ [Next]_vars => DoomedInv'
  <2> SUFFICES ASSUME TypeInv, OwnerInv, DoomedInv, [Next]_vars PROVE DoomedInv'
    OBVIOUS
  <2>1. ASSUME NEW c \in Conns, Connect(c) \/ AcceptRefuse(c) PROVE DoomedInv'
    <3>1. closeq' = closeq /\ doomed' = doomed /\ fdOf' = fdOf
      BY <2>1 DEF Connect, AcceptRefuse, closeVars
    <3>2. \A d \in Conns :
            \/ phase'[d] = phase[d]
            \/ phase[d] \in {"new", "backlog"} /\ phase'[d] \in {"backlog", "refused"}
      BY <2>1 DEF Connect, AcceptRefuse, TypeInv, TypeOK
    <3> QED
      BY <3>1, <3>2, DoomedInvFrame
  <2>2. ASSUME UNCHANGED <<closeVars, tableVars>> PROVE DoomedInv'
    BY <2>2, DoomedInvFrame DEF tableVars, closeVars
  <2>3. ASSUME NEW c \in Conns, TickFire(c) PROVE DoomedInv'
    <3>1. Known(c)
      BY <2>3 DEF TickFire, TypeInv, FdInv
    <3> QED
      BY <2>3, <3>1, DoomedInvAsk DEF TickFire, Known, tableVars
  <2>4. CASE Drain
    BY <2>4, DoomedInvDrain
  <2>5. ASSUME NEW fd \in Fds, HandleEvent(fd) PROVE DoomedInv'
    <3>1. closeq' = closeq /\ doomed' = doomed /\ fdOf' = fdOf
      BY <2>5 DEF HandleEvent, CloseConnection, tableVars, closeVars
    <3>2. \A d \in Conns :
            \/ phase'[d] = phase[d]
            \/ phase[d] = "open" /\ phase'[d] = "closed"
      <4>1. CASE batch[fd] = "hup" /\ conns[fd] # None
        <5>1. conns[fd] \in Conns /\ Open(conns[fd])
          BY <4>1 DEF OwnerInv, TableInv, TypeInv, TypeOK
        <5>2. phase' = [phase EXCEPT ![conns[fd]] = "closed"]
          BY <2>5, <4>1 DEF HandleEvent, CloseConnection
        <5> QED
          BY <5>1, <5>2 DEF Open, TypeInv, TypeOK
      <4>2. CASE batch[fd] # "hup" \/ conns[fd] = None
        BY <2>5, <4>2 DEF HandleEvent, CloseConnection, tableVars
      <4> QED
        BY <4>1, <4>2
    <3> QED
      BY <3>1, <3>2, DoomedInvFrame
  <2>6. ASSUME NEW c \in Conns, AcceptOk(c) PROVE DoomedInv'
    <3>1. c \notin doomed /\ \A d \in doomed : d \in Conns
      BY <2>6 DEF AcceptOk, DoomedInv, TypeInv, TypeOK
    <3>2. \A d \in doomed : phase'[d] = phase[d] /\ fdOf'[d] = fdOf[d]
      BY <2>6, <3>1 DEF AcceptOk, Enter, TypeInv, TypeOK
    <3> QED
      BY <2>6, <3>2 DEF AcceptOk, closeVars, DoomedInv, CloseRequestsKept, Open
  <2>7. ASSUME NEW c \in Conns, AcceptBroken(c) PROVE DoomedInv'
    <3>1. PICK fd \in Fds : Enter(c, fd) /\ closeq' = Append(closeq, fd)
      BY <2>7 DEF AcceptBroken
    <3>2. phase'[c] = "open" /\ fdOf'[c] = fd /\ doomed' = doomed \cup {c}
      BY <2>7, <3>1 DEF AcceptBroken, Enter, TypeInv, TypeOK
    <3>3. \A d \in doomed : d # c => phase'[d] = phase[d] /\ fdOf'[d] = fdOf[d]
      BY <3>1 DEF Enter, TypeInv, TypeOK
    <3> QED
      BY <3>1, <3>2, <3>3, DoomedInvAsk
  <2>8. ASSUME NEW w \in Workers, RequestClose(w) PROVE DoomedInv'
    <3>1. wconn[w] \in Conns /\ Open(wconn[w]) /\ fdOf[wconn[w]] \in Fds
      BY <2>8, BusyOwner DEF RequestClose, Owned
    <3> QED
      BY <2>8, <3>1, DoomedInvAsk DEF RequestClose, Open, tableVars
  <2>9. ASSUME ClientNext \/ MainNext \/ (\E w \in Workers : WorkerNext(w))
        PROVE  \/ \E c \in Conns : \/ Connect(c) \/ AcceptRefuse(c) \/ TickFire(c)
                                   \/ AcceptOk(c) \/ AcceptBroken(c)
               \/ Drain
               \/ \E fd \in Fds : HandleEvent(fd)
               \/ \E w \in Workers : RequestClose(w)
               \/ UNCHANGED <<closeVars, tableVars>>
    BY <2>9 DEF ClientNext, Send, Shutdown, MainNext, TickDone, DrainDone, EpollWait,
       EventsDone, AcceptNext, AcceptStop, WorkerNext, Take, Read, Parse, ParseThrows,
       Route, RouteThrows, Rearm, Write
  <2>10. CASE UNCHANGED vars
    BY <2>2, <2>10 DEF vars
  <2> QED
    BY <2>1, <2>2, <2>3, <2>4, <2>5, <2>6, <2>7, <2>8, <2>9, <2>10 DEF Next
<1>3. DoomedInv => CloseRequestsKept
  BY DEF DoomedInv
<1> QED
  BY <1>1, <1>2, <1>3, OwnershipInvariant, PTL DEF Spec

-----------------------------------------------------------------------------
(* Who attends to a connection. *)

Attended(c) ==
    \/ Held(c) \/ InBatch(c)
    \/ interest[c] = "in" /\ rbuf[c] < ReqSegs
    \/ interest[c] = "out"

(* A worker re-arms for input only an incomplete request; the buffer of a new
   connection is empty; and only a connection that failed half-way into the
   table is unknown to epoll, where a re-arm would fail. *)
ArmInv ==
    /\ \A w \in Workers : wpc[w] = "armIn" => rbuf[wconn[w]] < ReqSegs
    /\ \A c \in Conns : phase[c] \in {"new", "backlog"} => rbuf[c] = 0
    /\ \A c \in Conns : Open(c) /\ interest[c] = "absent" => c \in doomed

(* What a connection is attended by when the queue, the workers, the batch and
   its own registration and buffer stay. *)
LEMMA AttendedFrame ==
    ASSUME NEW c \in Conns, Attended(c),
           UNCHANGED <<tasks, wconn, batch>>,
           \A fd \in Fds : conns[fd] = c => conns'[fd] = c,
           interest'[c] = interest[c], rbuf'[c] = rbuf[c]
    PROVE  Attended(c)'
BY DEF Attended, Held, Queued, Busy, InBatch

(* A connection stays with its task while the queue grows. *)
LEMMA HeldAppend ==
    ASSUME TypeInv, NEW c \in Conns, NEW t \in Task,
           wconn' = wconn, tasks' = Append(tasks, t)
    PROVE  /\ Held(c) => Held(c)'
           /\ t.conn = c => Held(c)'
<1>1. /\ DOMAIN tasks' = DOMAIN tasks \cup {Len(tasks) + 1}
      /\ \A i \in DOMAIN tasks : tasks'[i] = tasks[i]
      /\ tasks'[Len(tasks) + 1] = t
  BY AppendFacts DEF TypeInv, TypeOK
<1> QED
  BY <1>1 DEF Held, Queued, Busy

(* Clients and the main thread: whoever is neither doomed nor new stays as it
   was. *)
LEMMA StrandMain ==
    ASSUME TypeInv, ArmInv, NotStranded,
           UNCHANGED <<wpc, wconn, tasks, rbuf, threw>>, doomed \subseteq doomed',
           \A c \in Conns :
              /\ phase'[c] \in {"new", "backlog"} => phase[c] \in {"new", "backlog"}
              /\ Open(c)' /\ c \notin doomed' =>
                    /\ Open(c)
                    /\ interest'[c] = interest[c]
                    /\ InBatch(c) => InBatch(c)'
    PROVE  ArmInv' /\ NotStranded'
<1>1. ArmInv'
  BY DEF ArmInv
<1>2. \A c \in Conns : Held(c) => Held(c)'
  BY DEF Held, Queued, Busy
<1>3. ASSUME NEW c \in Conns, Open(c)', c \notin doomed' \cup threw'
      PROVE  Attended(c)'
  <2>1. Attended(c)
    BY <1>3 DEF NotStranded, Attended
  <2> QED
    BY <1>2, <1>3, <2>1 DEF Attended
<1> QED
  BY <1>1, <1>3 DEF NotStranded, Attended

(* A worker goes on with the connection it has. *)
LEMMA StrandContinue ==
    ASSUME TypeInv, OwnerInv, ArmInv, NotStranded, NEW w \in Workers, wpc[w] # "idle",
           NEW step, Continue(w, step),
           UNCHANGED <<tasks, conns, phase, interest, batch, doomed, threw>>,
           \A d \in Conns : d # wconn[w] => rbuf'[d] = rbuf[d],
           step = "armIn" => rbuf'[wconn[w]] < ReqSegs
    PROVE  ArmInv' /\ NotStranded'
<1>1. /\ wconn[w] \in Conns /\ Open(wconn[w]) /\ wconn' = wconn
      /\ \A v \in Workers : v # w => wconn[v] # wconn[w] /\ wpc'[v] = wpc[v]
      /\ wpc'[w] = step
  BY BusyOwner DEF Continue, Owned, TypeInv, TypeOK
<1>2. ArmInv'
  <2>1. ASSUME NEW v \in Workers, wpc'[v] = "armIn" PROVE rbuf'[wconn'[v]] < ReqSegs
    <3>1. CASE v = w
      BY <1>1, <2>1, <3>1
    <3>2. CASE v # w
      <4>1. wconn[v] \in Conns
        BY <1>1, <2>1, <3>2, BusyOwner
      <4> QED
        BY <1>1, <2>1, <3>2, <4>1 DEF ArmInv
    <3> QED
      BY <3>1, <3>2
  <2>2. \A c \in Conns : phase'[c] \in {"new", "backlog"} => rbuf'[c] = 0
    BY <1>1 DEF ArmInv, Open
  <2> QED
    BY <2>1, <2>2 DEF ArmInv, Open
<1>3. ASSUME NEW c \in Conns, Open(c)', c \notin doomed' \cup threw'
      PROVE  Attended(c)'
  <2>1. CASE c = wconn[w]
    BY <1>1, <2>1 DEF Attended, Held, Busy
  <2>2. CASE c # wconn[w]
    <3>1. Attended(c)
      BY <1>3 DEF NotStranded, Attended, Open
    <3> QED
      BY <1>1, <2>2, <3>1 DEF Attended, Held, Queued, Busy, InBatch
  <2> QED
    BY <2>1, <2>2
<1> QED
  BY <1>2, <1>3 DEF NotStranded, Attended

(* A worker lets go of its connection: it was armed, it asked to close it, or
   its task threw. *)
LEMMA StrandFinish ==
    ASSUME TypeInv, OwnerInv, ArmInv, NotStranded, NEW w \in Workers, wpc[w] # "idle",
           Finish(w), UNCHANGED <<tasks, conns, phase, batch, rbuf>>,
           doomed \subseteq doomed', threw \subseteq threw',
           \A d \in Conns : d # wconn[w] => interest'[d] = interest[d],
           interest'[wconn[w]] = "absent" => wconn[w] \in doomed',
           \/ wconn[w] \in doomed' \cup threw'
           \/ interest'[wconn[w]] = "in" /\ rbuf[wconn[w]] < ReqSegs
           \/ interest'[wconn[w]] = "out"
    PROVE  ArmInv' /\ NotStranded'
<1>1. \A v \in Workers : v # w => wconn'[v] = wconn[v] /\ wpc'[v] = wpc[v]
  BY DEF Finish, TypeInv, TypeOK
<1>2. wpc'[w] = "idle"
  BY DEF Finish, TypeInv, TypeOK
<1>3. ArmInv'
  <2>1. \A v \in Workers : wpc'[v] = "armIn" => rbuf'[wconn'[v]] < ReqSegs
    BY <1>1, <1>2 DEF ArmInv
  <2> QED
    BY <2>1 DEF ArmInv, Open
<1>4. ASSUME NEW c \in Conns, Open(c)', c \notin doomed' \cup threw'
      PROVE  Attended(c)'
  <2>1. CASE c = wconn[w]
    BY <1>4, <2>1 DEF Attended
  <2>2. CASE c # wconn[w]
    <3>1. Attended(c)
      BY <1>4 DEF NotStranded, Attended, Open
    <3>2. Busy(c) => Busy(c)'
      BY <1>1, <2>2 DEF Busy
    <3> QED
      BY <2>2, <3>1, <3>2 DEF Attended, Held, Queued, InBatch
  <2> QED
    BY <2>1, <2>2
<1> QED
  BY <1>3, <1>4 DEF NotStranded, Attended

(* A task moves from the queue to a worker. *)
LEMMA StrandTake ==
    ASSUME TypeInv, OwnerInv, ArmInv, NotStranded, NEW w \in Workers, Take(w)
    PROVE  ArmInv' /\ NotStranded'
<1>1. /\ tasks \in Seq(Task) /\ tasks # <<>> /\ tasks' = Tail(tasks)
      /\ Head(tasks) = tasks[1] /\ Head(tasks) \in Task
  BY TailFacts DEF Take, TypeInv, TypeOK
<1>2. wconn[w] = None
  BY DEF Take, TypeInv, TypeOK
<1>3. /\ wconn'[w] = tasks[1].conn /\ wpc'[w] \in {"read", "write"}
      /\ \A v \in Workers : v # w => wconn'[v] = wconn[v] /\ wpc'[v] = wpc[v]
  BY <1>1 DEF Take, Task, TypeInv, TypeOK
<1>4. UNCHANGED <<conns, phase, interest, batch, doomed, rbuf, threw>>
  BY DEF Take, mainVars, tableVars, closeVars, objectVars
<1>5. ArmInv'
  <2>1. \A v \in Workers : wpc'[v] = "armIn" => rbuf'[wconn'[v]] < ReqSegs
    BY <1>3, <1>4 DEF ArmInv
  <2> QED
    BY <1>4, <2>1 DEF ArmInv, Open
<1>6. ASSUME NEW c \in Conns, Held(c) PROVE Held(c)'
  <2>1. CASE Busy(c)
    BY <1>2, <1>3, <2>1, ReactorConstants DEF Busy, Held
  <2>2. CASE Queued(c)
    <3>1. PICK i \in DOMAIN tasks : tasks[i].conn = c
      BY <2>2 DEF Queued
    <3>2. CASE i = 1
      BY <1>3, <3>1, <3>2 DEF Busy, Held
    <3>3. CASE i # 1
      <4>1. i - 1 \in DOMAIN Tail(tasks) /\ Tail(tasks)[i - 1] = tasks[i]
        BY <1>1, <3>1, <3>3, TailKeeps
      <4> QED
        BY <1>1, <3>1, <4>1 DEF Queued, Held
    <3> QED
      BY <3>2, <3>3
  <2> QED
    BY <1>6, <2>1, <2>2 DEF Held
<1>7. ASSUME NEW c \in Conns, Open(c)', c \notin doomed' \cup threw'
      PROVE  Attended(c)'
  <2>1. Attended(c)
    BY <1>4, <1>7 DEF NotStranded, Attended, Open
  <2> QED
    BY <1>4, <1>6, <2>1 DEF Attended, InBatch
<1> QED
  BY <1>5, <1>7 DEF NotStranded, Attended

(* What epoll reports of a connection is in the batch. *)
LEMMA StrandEpollWait ==
    ASSUME TypeInv, OwnerInv, ArmInv, NotStranded, EpollWait
    PROVE  ArmInv' /\ NotStranded'
<1> PICK writable \in SUBSET {fd \in Fds : OutReady(fd)} :
        /\ batch' = [fd \in Fds |-> EventOf(fd, writable)]
        /\ interest' = [c \in Conns |->
                          IF \E fd \in Fds : conns[fd] = c
                                             /\ EventOf(fd, writable) # "none"
                          THEN "off" ELSE interest[c]]
  BY DEF EpollWait
<1>1. UNCHANGED <<wpc, wconn, tasks, conns, phase, doomed, rbuf, threw>>
  BY DEF EpollWait, tableVars, closeVars, workerVars, objectVars
<1>2. \A c \in Conns : ~InBatch(c)
  BY DEF EpollWait, OwnerInv, BatchInv, InBatch
<1>3. \A c \in Conns : interest'[c] = interest[c] \/ (interest'[c] = "off" /\ InBatch(c)')
  BY <1>1 DEF InBatch
<1>4. ArmInv'
  BY <1>1, <1>3 DEF ArmInv, Open
<1>5. ASSUME NEW c \in Conns, Open(c)', c \notin doomed' \cup threw'
      PROVE  Attended(c)'
  <2>1. Attended(c)
    BY <1>1, <1>5 DEF NotStranded, Attended, Open
  <2> QED
    BY <1>1, <1>2, <1>3, <2>1 DEF Attended, Held, Queued, Busy
<1> QED
  BY <1>4, <1>5 DEF NotStranded, Attended

(* An event that is not a hang-up makes its connection a task. *)
LEMMA StrandHandleEvent ==
    ASSUME TypeInv, OwnerInv, ArmInv, NotStranded, NEW fd \in Fds, HandleEvent(fd)
    PROVE  ArmInv' /\ NotStranded'
<1> DEFINE c == conns[fd]
<1>1. /\ c \in Conns /\ c # None /\ Open(c)
      /\ \A f \in Fds : conns[f] = c => f = fd
  BY DEF HandleEvent, OwnerInv, BatchInv, TableInv, TypeInv, TypeOK
<1>2. UNCHANGED <<wpc, wconn, doomed, rbuf, threw>>
  BY DEF HandleEvent, closeVars, workerVars, objectVars
<1>3. \A f \in Fds : f # fd => batch'[f] = batch[f]
  BY DEF HandleEvent, TypeInv, TypeOK
<1>4. CASE batch[fd] = "hup"
  <2>1. /\ phase' = [phase EXCEPT ![c] = "closed"]
        /\ conns' = [conns EXCEPT ![fd] = None]
        /\ interest' = [interest EXCEPT ![c] = "absent"]
        /\ tasks' = tasks
    BY <1>1, <1>4 DEF HandleEvent, CloseConnection
  <2>2. ASSUME NEW d \in Conns, Open(d)'
        PROVE  Open(d) /\ d # c /\ interest'[d] = interest[d]
    BY <1>1, <2>1, <2>2 DEF Open, TypeInv, TypeOK
  <2>3. ASSUME NEW d \in Conns, d # c, InBatch(d) PROVE InBatch(d)'
    BY <1>3, <2>1, <2>3 DEF InBatch, TypeInv, TypeOK
  <2>4. \A d \in Conns :
           phase'[d] \in {"new", "backlog"} => phase[d] \in {"new", "backlog"}
    BY <2>1 DEF TypeInv, TypeOK
  <2> QED
    BY <1>2, <2>1, <2>2, <2>3, <2>4, StrandMain
<1>5. CASE batch[fd] # "hup"
  <2> DEFINE t == [kind |-> IF batch[fd] = "out" THEN "write" ELSE "read", conn |-> c]
  <2>1. tasks' = Append(tasks, t) /\ UNCHANGED <<conns, phase, interest>>
    BY <1>1, <1>5 DEF HandleEvent, tableVars
  <2>2. t \in Task /\ t.conn = c
    BY <1>1 DEF Task
  <2>3. \A d \in Conns : Held(d) => Held(d)'
    BY <1>2, <2>1, <2>2, HeldAppend
  <2>4. Held(c)'
    BY <1>1, <1>2, <2>1, <2>2, HeldAppend
  <2>5. ASSUME NEW d \in Conns, d # c, InBatch(d) PROVE InBatch(d)'
    BY <1>3, <2>1, <2>5 DEF InBatch
  <2>6. ASSUME NEW d \in Conns, Open(d)', d \notin doomed' \cup threw'
        PROVE  Attended(d)'
    <3>1. Attended(d)
      BY <1>2, <2>1, <2>6 DEF NotStranded, Attended, Open
    <3> QED
      BY <1>2, <2>1, <2>3, <2>4, <2>5, <3>1 DEF Attended
  <2>7. ArmInv'
    BY <1>2, <2>1 DEF ArmInv, Open
  <2> QED
    BY <2>6, <2>7 DEF NotStranded, Attended
<1> QED
  BY <1>4, <1>5

(* A new connection is armed for input, its buffer empty. *)
LEMMA StrandAcceptOk ==
    ASSUME TypeInv, OwnerInv, ArmInv, NotStranded, NEW c \in Conns, AcceptOk(c)
    PROVE  ArmInv' /\ NotStranded'
<1>1. PICK fd \in Fds : Enter(c, fd)
  BY DEF AcceptOk
<1>2. /\ UNCHANGED <<wpc, wconn, tasks, batch, doomed, rbuf, threw>>
      /\ rbuf[c] = 0 /\ interest'[c] = "in"
      /\ \A d \in Conns : d # c => interest'[d] = interest[d] /\ phase'[d] = phase[d]
      /\ phase'[c] = "open"
      /\ \A f \in Fds : conns[f] # None => conns'[f] = conns[f]
  BY <1>1 DEF AcceptOk, Enter, closeVars, workerVars, objectVars, ArmInv, TypeInv, TypeOK
<1>3. ArmInv'
  BY <1>2 DEF ArmInv, Open
<1>4. ASSUME NEW d \in Conns, Open(d)', d \notin doomed' \cup threw'
      PROVE  Attended(d)'
  <2>1. CASE d = c
    BY <1>2, <2>1, ReactorConstants DEF Attended
  <2>2. CASE d # c
    <3>1. Attended(d)
      BY <1>2, <1>4, <2>2 DEF NotStranded, Attended, Open
    <3>2. \A f \in Fds : conns[f] = d => conns'[f] = d
      BY <1>2, ReactorConstants
    <3> QED
      BY <1>2, <2>2, <3>1, <3>2, AttendedFrame
  <2> QED
    BY <2>1, <2>2
<1> QED
  BY <1>3, <1>4 DEF NotStranded, Attended

(* With handlers faster than the timeout, no connection is stranded: unless
   its task threw or it is to be closed, a worker has it or will get it. *)
THEOREM NotStrandedHolds ==
    ASSUME Timely PROVE Spec => []NotStranded
<1>1. Init => ArmInv /\ NotStranded
  BY ReactorConstants DEF Init, ArmInv, NotStranded, Open
<1>2. TypeInv /\ OwnerInv /\ ArmInv /\ NotStranded /\ [Next]_vars => ArmInv' /\ NotStranded'
  <2> SUFFICES ASSUME TypeInv, OwnerInv, ArmInv, NotStranded, [Next]_vars
               PROVE  ArmInv' /\ NotStranded'
    OBVIOUS
  <2>1. ASSUME UNCHANGED <<wpc, wconn, tasks, rbuf, threw, conns, batch, interest>>,
               doomed \subseteq doomed',
               \A c \in Conns :
                  /\ phase'[c] \in {"new", "backlog"} => phase[c] \in {"new", "backlog"}
                  /\ Open(c)' => Open(c)
        PROVE  ArmInv' /\ NotStranded'
    <3>1. \A c \in Conns : InBatch(c) => InBatch(c)'
      BY <2>1 DEF InBatch
    <3> QED
      BY <2>1, <3>1, StrandMain
  <2>2. ASSUME NEW c \in Conns, Connect(c) \/ AcceptRefuse(c) PROVE ArmInv' /\ NotStranded'
    <3>1. \A d \in Conns :
            /\ phase'[d] \in {"new", "backlog"} => phase[d] \in {"new", "backlog"}
            /\ Open(d)' => Open(d)
      BY <2>2 DEF Connect, AcceptRefuse, Open, TypeInv, TypeOK
    <3> QED
      BY <2>1, <2>2, <3>1 DEF Connect, AcceptRefuse, closeVars, workerVars, objectVars
  <2>3. ASSUME NEW c \in Conns, Send(c) \/ Shutdown(c) \/ TickFire(c)
        PROVE  ArmInv' /\ NotStranded'
    BY <2>1, <2>3 DEF Send, Shutdown, TickFire, mainVars, tableVars, closeVars,
       workerVars, objectVars, Open
  <2>4. CASE TickDone \/ DrainDone \/ EventsDone \/ AcceptStop \/ UNCHANGED vars
    BY <2>1, <2>4 DEF TickDone, DrainDone, EventsDone, AcceptStop, vars, mainVars,
       tableVars, closeVars, workerVars, objectVars, Open
  <2>5. CASE Drain
    <3> DEFINE fd == Head(closeq)
    <3>1. fd \in Fds /\ CloseConnection(fd)
      BY <2>5, TailFacts DEF Drain, TypeInv, TypeOK
    <3>2. UNCHANGED <<wpc, wconn, tasks, rbuf, threw, doomed, batch>>
      BY <2>5 DEF Drain, mainVars, workerVars, objectVars
    <3>3. CASE conns[fd] = None
      BY <2>1, <3>1, <3>2, <3>3 DEF CloseConnection, tableVars, Open
    <3>4. CASE conns[fd] # None
      <4>1. /\ conns[fd] \in Conns
            /\ phase' = [phase EXCEPT ![conns[fd]] = "closed"]
            /\ conns' = [conns EXCEPT ![fd] = None]
            /\ interest' = [interest EXCEPT ![conns[fd]] = "absent"]
        BY <3>1, <3>4 DEF CloseConnection, TypeInv, TypeOK
      <4>2. \A d \in Conns :
              /\ phase'[d] \in {"new", "backlog"} => phase[d] \in {"new", "backlog"}
              /\ Open(d)' => Open(d) /\ interest'[d] = interest[d]
        BY <4>1 DEF Open, TypeInv, TypeOK
      <4>3. \A d \in Conns : ~InBatch(d)
        BY <2>5 DEF Drain, OwnerInv, BatchInv, InBatch
      <4> QED
        BY <3>2, <4>2, <4>3, StrandMain
    <3> QED
      BY <3>3, <3>4
  <2>6. CASE EpollWait
    BY <2>6, StrandEpollWait
  <2>7. ASSUME NEW fd \in Fds, HandleEvent(fd) PROVE ArmInv' /\ NotStranded'
    BY <2>7, StrandHandleEvent
  <2>8. ASSUME NEW c \in Conns, AcceptOk(c) PROVE ArmInv' /\ NotStranded'
    BY <2>8, StrandAcceptOk
  <2>9. ASSUME NEW c \in Conns, AcceptBroken(c) PROVE ArmInv' /\ NotStranded'
    <3>1. PICK fd \in Fds : Enter(c, fd)
      BY <2>9 DEF AcceptBroken
    <3>2. UNCHANGED <<wpc, wconn, tasks, rbuf, threw, batch>> /\ doomed' = doomed \cup {c}
      BY <2>9 DEF AcceptBroken, workerVars, objectVars
    <3>3. \A d \in Conns : d # c => interest'[d] = interest[d] /\ phase'[d] = phase[d]
      BY <2>9, <3>1 DEF AcceptBroken, Enter, TypeInv, TypeOK
    <3>4. \A d \in Conns : InBatch(d) => InBatch(d)'
      BY <2>9 DEF AcceptBroken, OwnerInv, BatchInv, InBatch
    <3> QED
      BY <2>9, <3>2, <3>3, <3>4, StrandMain DEF AcceptBroken, Open
  <2>10. ASSUME NEW w \in Workers, Take(w) PROVE ArmInv' /\ NotStranded'
    BY <2>10, StrandTake
  <2>11. ASSUME NEW w \in Workers, Read(w) PROVE ArmInv' /\ NotStranded'
    <3>1. PICK step \in {"close", "process"} : Continue(w, step)
      BY <2>11 DEF Read
    <3>2. wpc[w] # "idle" /\ \A d \in Conns : d # wconn[w] => rbuf'[d] = rbuf[d]
      BY <2>11 DEF Read, TypeInv, TypeOK
    <3> QED
      BY <2>11, <3>1, <3>2, StrandContinue DEF Read, mainVars, tableVars, closeVars
  <2>12. ASSUME NEW w \in Workers, Parse(w) PROVE ArmInv' /\ NotStranded'
    <3>1. CASE rbuf[wconn[w]] < ReqSegs
      BY <2>12, <3>1, StrandContinue DEF Parse, mainVars, tableVars, closeVars
    <3>2. CASE ~(rbuf[wconn[w]] < ReqSegs)
      <4>1. Continue(w, "route") /\ \A d \in Conns : d # wconn[w] => rbuf'[d] = rbuf[d]
        BY <2>12, <3>2 DEF Parse, TypeInv, TypeOK
      <4> QED
        BY <2>12, <4>1, StrandContinue DEF Parse, mainVars, tableVars, closeVars
    <3> QED
      BY <3>1, <3>2
  <2>13. ASSUME NEW w \in Workers, Route(w) PROVE ArmInv' /\ NotStranded'
    BY <2>13, StrandContinue DEF Route, mainVars, tableVars, closeVars
  <2>14. ASSUME NEW w \in Workers, Write(w) PROVE ArmInv' /\ NotStranded'
    <3>1. PICK out \in WriteOutcomes(wconn[w], Target(w)) : Continue(w, out.step)
      BY <2>14 DEF Write
    <3>2. out.step # "armIn"
      BY <3>1 DEF WriteOutcomes
    <3> QED
      BY <2>14, <3>1, <3>2, StrandContinue DEF Write, mainVars, tableVars, closeVars
  <2>15. ASSUME NEW w \in Workers, ParseThrows(w) \/ RouteThrows(w)
         PROVE  ArmInv' /\ NotStranded'
    <3>1. wconn[w] \in Conns /\ Open(wconn[w])
      BY <2>15, BusyOwner DEF ParseThrows, RouteThrows, Owned
    <3> QED
      BY <2>15, <3>1, StrandFinish
         DEF ParseThrows, RouteThrows, mainVars, tableVars, closeVars, ArmInv
  <2>16. ASSUME NEW w \in Workers, Rearm(w) PROVE ArmInv' /\ NotStranded'
    <3> DEFINE c == wconn[w]
    <3>1. c \in Conns /\ Open(c) /\ Target(w) = c /\ c # None
      BY <2>16, BusyOwner, ReactorConstants DEF Rearm, Owned
    <3>2. interest' = [interest EXCEPT ![c] =
                          IF @ = "absent" THEN "absent"
                          ELSE IF wpc[w] = "armIn" THEN "in" ELSE "out"]
      BY <2>16, <3>1 DEF Rearm
    <3>3. \A d \in Conns : d # c => interest'[d] = interest[d]
      BY <3>2 DEF TypeInv, TypeOK
    <3>4. interest'[c] = "absent" => c \in doomed
      BY <3>1, <3>2 DEF ArmInv, TypeInv, TypeOK
    <3>5. \/ c \in doomed
          \/ interest'[c] = "in" /\ rbuf[c] < ReqSegs
          \/ interest'[c] = "out"
      BY <3>1, <3>2 DEF ArmInv, TypeInv, TypeOK
    <3> QED
      BY <2>16, <3>3, <3>4, <3>5, StrandFinish
         DEF Rearm, mainVars, tableVars, closeVars, objectVars
  <2>17. ASSUME NEW w \in Workers, RequestClose(w) PROVE ArmInv' /\ NotStranded'
    BY <2>17, StrandFinish DEF RequestClose, mainVars, tableVars, objectVars
  <2> QED
    BY <2>2, <2>3, <2>4, <2>5, <2>6, <2>7, <2>8, <2>9, <2>10, <2>11, <2>12, <2>13,
       <2>14, <2>15, <2>16, <2>17
       DEF Next, ClientNext, MainNext, AcceptNext, WorkerNext
<1> QED
  BY <1>1, <1>2, OwnershipInvariant, PTL DEF Spec

=============================================================================
