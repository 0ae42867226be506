------------------------------ MODULE Reactor ------------------------------
(***************************************************************************)
(* The event loop of server::ServerBase (src/src/lib/serverbase.cpp): one  *)
(* main thread that ticks the timer, drains the close queue, waits in      *)
(* epoll, hands ready connections to a thread pool and accepts new ones;   *)
(* worker threads that read, parse, route and write and then either re-arm *)
(* the descriptor (EPOLLONESHOT) or ask the main thread to close it.       *)
(*                                                                         *)
(* A member of Conns is one client connection for its whole life: the      *)
(* client's socket, the kernel's buffers and the HTTPConnection object.    *)
(* Descriptors are reused.  Every system call goes through the descriptor  *)
(* stored in the HTTPConnection, so a worker that outlives its connection  *)
(* acts on whichever connection owns that descriptor by then.              *)
(***************************************************************************)
EXTENDS Integers, Sequences, FiniteSets

CONSTANTS
    Fds,            \* descriptors that accept() can return
    Conns,          \* connections that clients may open, each one once
    Workers,        \* threads of the pool
    None,           \* no connection / no descriptor
    MaxConn,        \* m_max_connection
    ReqSegs,        \* segments that make up one request
    MaxSegs,        \* segments a client may send: the bound on its input
    ListenET,       \* m_listen_event has EPOLLET
    ConnET,         \* m_connection_event has EPOLLET (HTTPConnection::enable_et)
    TimeoutOn,      \* m_timeout > 0
    SlowHandlers,   \* a task may take longer than m_timeout
    AcceptFails     \* accept may meet EMFILE, epoll_ctl or fcntl may fail

ASSUME ReactorConstants ==
    /\ None \notin Fds \cup Conns
    /\ MaxConn \in Nat \ {0}
    /\ ReqSegs \in Nat \ {0}
    /\ MaxSegs \in Nat
    /\ {ListenET, ConnET, TimeoutOn, SlowHandlers, AcceptFails} \subseteq BOOLEAN

(* Descriptors last for as long as the server has room: the limit set by
   setrlimit is m_max_connection + 512 (serverbase.cpp:131). *)
ASSUME EnoughDescriptors == IsFiniteSet(Fds) /\ MaxConn <= Cardinality(Fds)

VARIABLES
    mainpc,         \* where the loop of start() stands
    conns,          \* m_connections, and with it the kernel's descriptor table
    fdOf,           \* HTTPConnection::m_fd; keeps its value after the object is freed
    phase,          \* life of the connection
    interest,       \* its epoll registration: EPOLLIN, EPOLLOUT, disarmed, or absent
    timers,         \* connections whose timer is pending in m_timer
    timerSet,       \* connections whose timer_id was assigned (set_timer)
    closeq,         \* close_queue
    tasks,          \* m_threadpool->m_tasks
    wpc,            \* what each worker does next
    wconn,          \* the HTTPConnection& each worker holds
    batch,          \* what the last epoll_wait reported, not yet handled
    newConn,        \* new_conn
    listenEdge,     \* the listening socket has an unreported edge
    sock,           \* segments waiting in the connection's socket
    sent,           \* segments the client has sent
    shut,           \* the client shut its end down
    rbuf,           \* segments in m_read_buf
    rem,            \* to_write(): 0, 1 for at most 1024 bytes, 2 for more
    ka,             \* m_request.is_keep_alive()
    threw,          \* history: connections whose task ended in an exception
    doomed          \* history: connections whose own owner asked to close them

mainVars   == <<mainpc, batch, newConn, listenEdge>>
tableVars  == <<conns, fdOf, phase>>
timerVars  == <<timers, timerSet>>
closeVars  == <<closeq, doomed>>
workerVars == <<wpc, wconn>>
inputVars  == <<sock, sent, shut>>
objectVars == <<rbuf, rem, ka, threw>>
vars == <<mainVars, tableVars, interest, timerVars, closeVars, tasks,
          workerVars, inputVars, objectVars>>

Task == [kind : {"read", "write"}, conn : Conns]

Init ==
    /\ mainpc = "tick"
    /\ conns = [fd \in Fds |-> None]
    /\ fdOf = [c \in Conns |-> None]
    /\ phase = [c \in Conns |-> "new"]
    /\ interest = [c \in Conns |-> "absent"]
    /\ timers = {}
    /\ timerSet = {}
    /\ closeq = <<>>
    /\ tasks = <<>>
    /\ wpc = [w \in Workers |-> "idle"]
    /\ wconn = [w \in Workers |-> None]
    /\ batch = [fd \in Fds |-> "none"]
    /\ newConn = FALSE
    /\ listenEdge = FALSE
    /\ sock = [c \in Conns |-> 0]
    /\ sent = [c \in Conns |-> 0]
    /\ shut = [c \in Conns |-> FALSE]
    /\ rbuf = [c \in Conns |-> 0]
    /\ rem = [c \in Conns |-> 0]
    /\ ka = [c \in Conns |-> FALSE]
    /\ threw = {}
    /\ doomed = {}

-----------------------------------------------------------------------------
(* Who has the connection. *)

Open(c)    == phase[c] = "open"
Queued(c)  == \E i \in DOMAIN tasks : tasks[i].conn = c
Busy(c)    == \E w \in Workers : wconn[w] = c
Held(c)    == Queued(c) \/ Busy(c)
InBatch(c) == \E fd \in Fds : batch[fd] # "none" /\ conns[fd] = c
Armed(c)   == Open(c) /\ interest[c] \in {"in", "out"}
Backlog    == {c \in Conns : phase[c] = "backlog"}

-----------------------------------------------------------------------------
(* The clients and the kernel's side of their sockets. *)

Connect(c) ==
    /\ phase[c] = "new"
    /\ phase' = [phase EXCEPT ![c] = "backlog"]
    /\ listenEdge' = TRUE
    /\ UNCHANGED <<mainpc, batch, newConn, conns, fdOf, interest, timerVars,
                   closeVars, tasks, workerVars, inputVars, objectVars>>

Send(c) ==
    /\ phase[c] \in {"backlog", "open"}
    /\ ~shut[c]
    /\ sent[c] < MaxSegs
    /\ sent' = [sent EXCEPT ![c] = @ + 1]
    /\ sock' = [sock EXCEPT ![c] = @ + 1]
    /\ UNCHANGED <<mainVars, tableVars, interest, timerVars, closeVars, tasks,
                   workerVars, shut, objectVars>>

Shutdown(c) ==
    /\ phase[c] \in {"backlog", "open"}
    /\ ~shut[c]
    /\ shut' = [shut EXCEPT ![c] = TRUE]
    /\ UNCHANGED <<mainVars, tableVars, interest, timerVars, closeVars, tasks,
                   workerVars, sock, sent, objectVars>>

-----------------------------------------------------------------------------
(* The main thread. *)

(* close_connection(fd): a descriptor that is not in the table is only
   logged.  A timer_id that was never assigned is whatever the memory of the
   object holds, so that del_timer may hit the timer of any connection. *)
CloseConnection(fd) ==
    IF conns[fd] = None
    THEN UNCHANGED <<tableVars, interest, timers>>
    ELSE LET c == conns[fd] IN
         /\ \E t \in IF c \in timerSet THEN {c} ELSE timers \cup {None} :
                timers' = timers \ {t}
         /\ phase' = [phase EXCEPT ![c] = "closed"]
         /\ conns' = [conns EXCEPT ![fd] = None]
         /\ interest' = [interest EXCEPT ![c] = "absent"]
         /\ UNCHANGED fdOf

(* Faulty variants of TickFire: events that do not reset the timer, and a
   callback whose request never reaches the close queue. *)
TickFireUnreset(c) ==
    /\ mainpc = "tick"
    /\ c \in timers
    /\ timers' = timers \ {c}
    /\ closeq' = Append(closeq, fdOf[c])
    /\ doomed' = doomed \cup {c}
    /\ UNCHANGED <<mainVars, tableVars, interest, timerSet, tasks, workerVars,
                   inputVars, objectVars>>

TickFireIgnored(c) ==
    /\ mainpc = "tick"
    /\ c \in timers
    /\ ~Held(c)
    /\ timers' = timers \ {c}
    /\ UNCHANGED <<mainVars, tableVars, interest, timerSet, closeVars, tasks,
                   workerVars, inputVars, objectVars>>

(* A timer expires inside tick(): its callback is close_fd bound to the
   descriptor.  Every event resets the timer (serverbase.cpp:221, 235), so
   that it expires on a held connection only when the task is slower than
   m_timeout. *)
TickFire(c) ==
    /\ mainpc = "tick"
    /\ c \in timers
    /\ SlowHandlers \/ ~Held(c)
    /\ timers' = timers \ {c}
    /\ closeq' = Append(closeq, fdOf[c])
    /\ doomed' = doomed \cup {c}
    /\ UNCHANGED <<mainVars, tableVars, interest, timerSet, tasks, workerVars,
                   inputVars, objectVars>>

TickDone ==
    /\ mainpc = "tick"
    /\ mainpc' = "drain"
    /\ UNCHANGED <<batch, newConn, listenEdge, tableVars, interest, timerVars,
                   closeVars, tasks, workerVars, inputVars, objectVars>>

(* Faulty variants: a drain that forgets the requests after the first one,
   and one that stops before the queue is empty. *)
DrainForgetful ==
    /\ mainpc = "drain"
    /\ closeq # <<>>
    /\ CloseConnection(Head(closeq))
    /\ closeq' = <<>>
    /\ UNCHANGED <<mainVars, timerSet, doomed, tasks, workerVars, inputVars,
                   objectVars>>

DrainUnfinished ==
    /\ mainpc = "drain"
    /\ mainpc' = "wait"
    /\ UNCHANGED <<batch, newConn, listenEdge, tableVars, interest, timerVars,
                   closeVars, tasks, workerVars, inputVars, objectVars>>

(* m_qmutex is held from the first to the last step of "drain". *)
Drain ==
    /\ mainpc = "drain"
    /\ closeq # <<>>
    /\ CloseConnection(Head(closeq))
    /\ closeq' = Tail(closeq)
    /\ UNCHANGED <<mainVars, timerSet, doomed, tasks, workerVars, inputVars,
                   objectVars>>

DrainDone ==
    /\ mainpc = "drain"
    /\ closeq = <<>>
    /\ mainpc' = "wait"
    /\ UNCHANGED <<batch, newConn, listenEdge, tableVars, interest, timerVars,
                   closeVars, tasks, workerVars, inputVars, objectVars>>

(* Faulty variant: a descriptor registered without EPOLLONESHOT. *)
WatchedAlways(fd) == conns[fd] # None

(* What epoll would report of a descriptor.  An armed connection is looked at
   again whenever it is registered or modified, so that with EPOLLONESHOT an
   edge is never lost and ET and LT report the same.  The socket becomes
   writable when the peer reads, which is up to the peer. *)
Watched(fd)  == conns[fd] # None /\ Armed(conns[fd])
HupReady(fd) == Watched(fd) /\ shut[conns[fd]]
InReady(fd)  == Watched(fd) /\ interest[conns[fd]] = "in" /\ sock[conns[fd]] > 0
OutReady(fd) == Watched(fd) /\ interest[conns[fd]] = "out"

EventOf(fd, writable) ==
    IF HupReady(fd) THEN "hup"
    ELSE IF fd \in writable THEN "out"
    ELSE IF InReady(fd) THEN "in" ELSE "none"

(* epoll_wait: an event disarms its descriptor (EPOLLONESHOT). *)
EpollWait ==
    /\ mainpc = "wait"
    /\ \E writable \in SUBSET {fd \in Fds : OutReady(fd)} :
        /\ batch' = [fd \in Fds |-> EventOf(fd, writable)]
        /\ interest' = [c \in Conns |->
                          IF \E fd \in Fds : conns[fd] = c
                                             /\ EventOf(fd, writable) # "none"
                          THEN "off" ELSE interest[c]]
    /\ newConn' = IF ListenET THEN listenEdge ELSE Backlog # {}
    /\ listenEdge' = FALSE
    /\ mainpc' = "events"
    /\ UNCHANGED <<tableVars, timerVars, closeVars, tasks, workerVars,
                   inputVars, objectVars>>

(* One event of the batch: close, or hand the connection to the pool. *)
HandleEvent(fd) ==
    /\ mainpc = "events"
    /\ batch[fd] # "none"
    /\ batch' = [batch EXCEPT ![fd] = "none"]
    /\ IF batch[fd] = "hup"
       THEN /\ CloseConnection(fd)
            /\ UNCHANGED tasks
       ELSE /\ tasks' = IF conns[fd] = None THEN tasks
                        ELSE Append(tasks,
                                    [kind |-> IF batch[fd] = "out" THEN "write" ELSE "read",
                                     conn |-> conns[fd]])
            /\ UNCHANGED <<tableVars, interest, timers>>
    /\ UNCHANGED <<mainpc, newConn, listenEdge, timerSet, closeVars, workerVars,
                   inputVars, objectVars>>

EventsDone ==
    /\ mainpc = "events"
    /\ \A fd \in Fds : batch[fd] = "none"
    /\ mainpc' = IF newConn THEN "accept" ELSE "tick"
    /\ newConn' = FALSE
    /\ UNCHANGED <<batch, listenEdge, tableVars, interest, timerVars, closeVars,
                   tasks, workerVars, inputVars, objectVars>>

-----------------------------------------------------------------------------
(* accept_connection: a loop in ET mode, a single round in LT mode. *)

(* Faulty variant: one accept for one edge. *)
NextRoundOnce == mainpc' = "tick"

NextRound == mainpc' = IF ListenET THEN "accept" ELSE "tick"

Full == Cardinality({fd \in Fds : conns[fd] # None}) >= MaxConn

(* The new HTTPConnection, at a descriptor the kernel has free. *)
Enter(c, fd) ==
    /\ conns[fd] = None
    /\ conns' = [conns EXCEPT ![fd] = c]
    /\ fdOf' = [fdOf EXCEPT ![c] = fd]
    /\ phase' = [phase EXCEPT ![c] = "open"]

AcceptOk(c) ==
    /\ mainpc = "accept"
    /\ phase[c] = "backlog"
    /\ ~Full
    /\ \E fd \in Fds : Enter(c, fd)
    /\ interest' = [interest EXCEPT ![c] = "in"]
    /\ timers' = IF TimeoutOn THEN timers \cup {c} ELSE timers
    /\ timerSet' = IF TimeoutOn THEN timerSet \cup {c} ELSE timerSet
    /\ NextRound
    /\ UNCHANGED <<batch, newConn, listenEdge, closeVars, tasks, workerVars,
                   inputVars, objectVars>>

(* epoll_ctl or fcntl failed: the object is in the table, its timer_id is
   unassigned, and the main thread itself asks for it to be closed. *)
AcceptBroken(c) ==
    /\ AcceptFails
    /\ mainpc = "accept"
    /\ phase[c] = "backlog"
    /\ ~Full
    /\ \E fd \in Fds : Enter(c, fd) /\ closeq' = Append(closeq, fd)
    /\ doomed' = doomed \cup {c}
    /\ \E registered \in {"absent", "in"} :
          interest' = [interest EXCEPT ![c] = registered]
    /\ NextRound
    /\ UNCHANGED <<batch, newConn, listenEdge, timerVars, tasks, workerVars,
                   inputVars, objectVars>>

(* Too many connections, or the client gave up (ECONNABORTED). *)
AcceptRefuse(c) ==
    /\ mainpc = "accept"
    /\ phase[c] = "backlog"
    /\ Full \/ shut[c]
    /\ phase' = [phase EXCEPT ![c] = "refused"]
    /\ NextRound
    /\ UNCHANGED <<batch, newConn, listenEdge, conns, fdOf, interest, timerVars,
                   closeVars, tasks, workerVars, inputVars, objectVars>>

(* EAGAIN, or EMFILE with connections still in the backlog. *)
AcceptStop ==
    /\ mainpc = "accept"
    /\ Backlog = {} \/ AcceptFails
    /\ mainpc' = "tick"
    /\ UNCHANGED <<batch, newConn, listenEdge, tableVars, interest, timerVars,
                   closeVars, tasks, workerVars, inputVars, objectVars>>

-----------------------------------------------------------------------------
(* The workers.  step is where worker w goes on, still holding c. *)

Continue(w, step) == wpc' = [wpc EXCEPT ![w] = step] /\ UNCHANGED wconn

(* Faulty variant: a worker that goes idle with the connection in hand. *)
FinishHolding(w) == wpc' = [wpc EXCEPT ![w] = "idle"] /\ UNCHANGED wconn

Finish(w) ==
    /\ wpc' = [wpc EXCEPT ![w] = "idle"]
    /\ wconn' = [wconn EXCEPT ![w] = None]

(* The connection that owns the descriptor worker w would use. *)
Target(w) == IF fdOf[wconn[w]] \in Fds THEN conns[fdOf[wconn[w]]] ELSE None

Take(w) ==
    /\ wpc[w] = "idle"
    /\ tasks # <<>>
    /\ tasks' = Tail(tasks)
    /\ wpc' = [wpc EXCEPT ![w] = Head(tasks).kind]
    /\ wconn' = [wconn EXCEPT ![w] = Head(tasks).conn]
    /\ UNCHANGED <<mainVars, tableVars, interest, timerVars, closeVars,
                   inputVars, objectVars>>

(* process_read: in ET mode until EAGAIN or the end of the stream, which
   closes the connection even when bytes came before it; in LT mode one
   readv, whose buffer holds all that is waiting. *)
Read(w) ==
    /\ wpc[w] = "read"
    /\ LET c == wconn[w]
           s == Target(w)
           ended == s = None \/ (shut[s] /\ (ConnET \/ sock[s] = 0))
       IN /\ IF s = None THEN UNCHANGED <<rbuf, sock>>
             ELSE /\ rbuf' = [rbuf EXCEPT ![c] = @ + sock[s]]
                  /\ sock' = [sock EXCEPT ![s] = 0]
          /\ Continue(w, IF ended THEN "close" ELSE "process")
    /\ UNCHANGED <<mainVars, tableVars, interest, timerVars, closeVars, tasks,
                   sent, shut, rem, ka, threw>>

(* process, up to the parser: an empty buffer and an incomplete request wait
   for input; a complete one is taken off the buffer. *)
Parse(w) ==
    /\ wpc[w] = "process"
    /\ LET c == wconn[w] IN
       IF rbuf[c] < ReqSegs
       THEN Continue(w, "armIn") /\ UNCHANGED <<rbuf, ka>>
       ELSE /\ rbuf' = [rbuf EXCEPT ![c] = @ - ReqSegs]
            /\ \E keep \in BOOLEAN : ka' = [ka EXCEPT ![c] = keep]
            /\ Continue(w, "route")
    /\ UNCHANGED <<mainVars, tableVars, interest, timerVars, closeVars, tasks,
                   inputVars, rem, threw>>

(* The parser throws (std::stoi, substr) outside the try block: the task ends
   with the exception in its packaged_task and nothing is re-armed. *)
ParseThrows(w) ==
    /\ wpc[w] = "process"
    /\ rbuf[wconn[w]] > 0
    /\ threw' = threw \cup {wconn[w]}
    /\ Finish(w)
    /\ UNCHANGED <<mainVars, tableVars, interest, timerVars, closeVars, tasks,
                   inputVars, rbuf, rem, ka>>

(* The handler and make_response; exceptions of the handler become a 400. *)
Route(w) ==
    /\ wpc[w] = "route"
    /\ \E size \in 1..2 : rem' = [rem EXCEPT ![wconn[w]] = size]
    /\ Continue(w, "armOut")
    /\ UNCHANGED <<mainVars, tableVars, interest, timerVars, closeVars, tasks,
                   inputVars, rbuf, ka, threw>>

(* get_content_length or make_response throws, after the try block. *)
RouteThrows(w) ==
    /\ wpc[w] = "route"
    /\ threw' = threw \cup {wconn[w]}
    /\ Finish(w)
    /\ UNCHANGED <<mainVars, tableVars, interest, timerVars, closeVars, tasks,
                   inputVars, rbuf, rem, ka>>

(* m_epoller->modify, the last access to the connection; it fails when the
   descriptor is not registered. *)
Rearm(w) ==
    /\ wpc[w] \in {"armIn", "armOut"}
    /\ LET s == Target(w) IN
       interest' = IF s = None THEN interest
                   ELSE [interest EXCEPT ![s] =
                           IF @ = "absent" THEN "absent"
                           ELSE IF wpc[w] = "armIn" THEN "in" ELSE "out"]
    /\ Finish(w)
    /\ UNCHANGED <<mainVars, tableVars, timerVars, closeVars, tasks, inputVars,
                   objectVars>>

(* Faulty variants: what is left after one writev is given up, and a written
   response always waits for new input. *)
WriteOnce(c, s) ==
    {[left |-> n, step |-> IF n = 0 /\ ka[c] THEN "process" ELSE "close"] : n \in 0..rem[c]}

WriteThenWait(c, s) == {[left |-> 0, step |-> IF ka[c] THEN "armIn" ELSE "close"]}

(* conn.write(): what is left to write, and what process_write does next.
   The loop goes on until writev fails or nothing is left; in LT mode it
   also stops once at most 1024 bytes are left. *)
WriteOutcomes(c, s) ==
    LET done    == {[left |-> 0, step |-> IF ka[c] THEN "process" ELSE "close"]}
        again   == {[left |-> n, step |-> "armOut"] :
                      n \in IF ConnET THEN 1..rem[c] ELSE {rem[c]}}
        stopped == IF ConnET THEN {} ELSE {[left |-> 1, step |-> "close"]}
        broken  == {[left |-> rem[c], step |-> "close"]}
    IN IF s = None THEN broken
       ELSE done \cup again \cup stopped \cup (IF shut[s] THEN broken ELSE {})

Write(w) ==
    /\ wpc[w] = "write"
    /\ LET c == wconn[w] IN
       \E out \in WriteOutcomes(c, Target(w)) :
          /\ rem' = [rem EXCEPT ![c] = out.left]
          /\ Continue(w, out.step)
    /\ UNCHANGED <<mainVars, tableVars, interest, timerVars, closeVars, tasks,
                   inputVars, rbuf, ka, threw>>

WriteOut(w) == Write(w) /\ rem'[wconn[w]] = 0

(* close_fd(conn.get_fd()): waits for m_qmutex. *)
RequestClose(w) ==
    /\ wpc[w] = "close"
    /\ mainpc # "drain"
    /\ closeq' = Append(closeq, fdOf[wconn[w]])
    /\ doomed' = doomed \cup {wconn[w]}
    /\ Finish(w)
    /\ UNCHANGED <<mainVars, tableVars, interest, timerVars, tasks, inputVars,
                   objectVars>>

-----------------------------------------------------------------------------

ClientNext == \E c \in Conns : Connect(c) \/ Send(c) \/ Shutdown(c)

AcceptNext ==
    \/ \E c \in Conns : AcceptOk(c) \/ AcceptBroken(c) \/ AcceptRefuse(c)
    \/ AcceptStop

MainNext ==
    \/ \E c \in Conns : TickFire(c)
    \/ TickDone
    \/ Drain
    \/ DrainDone
    \/ EpollWait
    \/ \E fd \in Fds : HandleEvent(fd)
    \/ EventsDone
    \/ AcceptNext

WorkerNext(w) ==
    \/ Take(w)
    \/ Read(w)
    \/ Parse(w)
    \/ ParseThrows(w)
    \/ Route(w)
    \/ RouteThrows(w)
    \/ Rearm(w)
    \/ Write(w)
    \/ RequestClose(w)

Next == ClientNext \/ MainNext \/ \E w \in Workers : WorkerNext(w)

Spec == Init /\ [][Next]_vars

(* The operating system runs every thread, and lets a worker have m_qmutex
   while the main thread sits in epoll_wait.  A timer that is pending at tick
   after tick on an idle connection expires.  EPOLLOUT means that the peer has
   made room and a response is finite, so that a response written again and
   again is written out.  Clients owe nothing: one may never send, read or
   hang up. *)
Fairness ==
    /\ WF_vars(MainNext)
    /\ \A w \in Workers : /\ WF_vars(WorkerNext(w))
                           /\ SF_vars(RequestClose(w))
                           /\ SF_vars(WriteOut(w))
    /\ \A c \in Conns : SF_vars(TickFire(c))

LiveSpec == Spec /\ Fairness

-----------------------------------------------------------------------------
(* Every variable stays in its set. *)
TypeOK ==
    /\ mainpc \in {"tick", "drain", "wait", "events", "accept"}
    /\ conns \in [Fds -> Conns \cup {None}]
    /\ fdOf \in [Conns -> Fds \cup {None}]
    /\ phase \in [Conns -> {"new", "backlog", "open", "closed", "refused"}]
    /\ interest \in [Conns -> {"absent", "off", "in", "out"}]
    /\ timers \in SUBSET Conns
    /\ timerSet \in SUBSET Conns
    /\ closeq \in Seq(Fds)
    /\ tasks \in Seq(Task)
    /\ wpc \in [Workers -> {"idle", "read", "write", "process", "route",
                            "armIn", "armOut", "close"}]
    /\ wconn \in [Workers -> Conns \cup {None}]
    /\ \A w \in Workers : wpc[w] = "idle" <=> wconn[w] = None
    /\ batch \in [Fds -> {"none", "hup", "in", "out"}]
    /\ newConn \in BOOLEAN
    /\ listenEdge \in BOOLEAN
    /\ sock \in [Conns -> Nat]
    /\ sent \in [Conns -> Nat]
    /\ shut \in [Conns -> BOOLEAN]
    /\ rbuf \in [Conns -> Nat]
    /\ rem \in [Conns -> 0..2]
    /\ ka \in [Conns -> BOOLEAN]
    /\ threw \in SUBSET Conns
    /\ doomed \in SUBSET Conns

(* The thread pool gets std::ref(it->second): a connection that a queued task
   or a worker refers to is still in m_connections, so that no task touches
   an HTTPConnection that close_connection has freed. *)
NoUseAfterFree == \A c \in Conns : Held(c) => Open(c)

(* EPOLLONESHOT is there so that one thread at a time works on a connection:
   a connection is at most once in the task queue and the workers, and then
   neither armed in epoll nor waiting in the batch of the main thread. *)
ExclusiveHandling ==
    /\ \A i, j \in DOMAIN tasks : i # j => tasks[i].conn # tasks[j].conn
    /\ \A v, w \in Workers :
          v # w /\ wconn[v] # None => wconn[v] # wconn[w]
    /\ \A c \in Conns :
          /\ ~(Queued(c) /\ Busy(c))
          /\ Held(c) => ~InBatch(c) /\ ~Armed(c)
          /\ InBatch(c) => ~Armed(c)

(* close_queue holds descriptors, and descriptors are reused: a connection is
   closed only because its peer hung up or because its own worker, its own
   timer or its own failed accept asked for it, never by the late request of
   an earlier connection with the same descriptor. *)
NoWrongfulClose ==
    [][\A c \in Conns : Open(c) /\ ~Open(c)' => c \in doomed \/ shut[c]]_vars

(* A connection that nobody has asked to close is covered by its timer, also
   when its task ended in an exception and never re-armed it: nothing but its
   own expiry or its own close takes the timer away. *)
OpenHasTimer ==
    TimeoutOn => \A c \in Conns : Open(c) /\ c \notin doomed => c \in timers

(* A worker gives a connection up with response bytes unwritten only when the
   peer has gone: whatever writev leaves for later waits for EPOLLOUT. *)
ResponseNotCut ==
    \A w \in Workers :
        wpc[w] = "close" /\ rem[wconn[w]] > 0 => shut[wconn[w]]

(* A request to close stays in close_queue until the connection is closed:
   none is lost between the workers, the timer and the draining main thread,
   although the main thread itself closes connections in between. *)
CloseRequestsKept ==
    \A c \in doomed : Open(c) => \E i \in DOMAIN closeq : closeq[i] = fdOf[c]

(* A disarmed descriptor reports nothing, so that whoever has a connection
   must pass it on: unless its task threw, it is with a worker or on its way
   to one, or armed again, and armed for input only when its buffer does not
   hold a whole request already (a pipelined one would wait for ever). *)
NotStranded ==
    \A c \in Conns : Open(c) /\ c \notin doomed \cup threw =>
        \/ Held(c) \/ InBatch(c)
        \/ interest[c] = "in" /\ rbuf[c] < ReqSegs
        \/ interest[c] = "out"

(* With a timeout, every accepted connection ends, whatever its client and
   its handlers do. *)
EveryConnectionEnds ==
    TimeoutOn => \A c \in Conns : Open(c) ~> phase[c] = "closed"

(* A client in the backlog is accepted or turned away: in ET mode the accept
   loop leaves nobody behind without a new edge. *)
BacklogServed == \A c \in Conns : c \in Backlog ~> c \notin Backlog

=============================================================================
