------------------------------ MODULE AsyncLog ------------------------------
(***************************************************************************)
(* server::Log (src/src/lib/log.h, log.cpp): the threads that call write,  *)
(* the bounded queue between them and the log's own thread, the files that *)
(* are changed by day and by number of lines, and the destructor.          *)
(*                                                                         *)
(* A critical section is one step, with one exception: the log's thread    *)
(* holds m_queue_mutex from its test of the queue until it sleeps, and the *)
(* destructor, which takes no mutex, may run in between ("tested").        *)
(***************************************************************************)
EXTENDS Naturals, Sequences, FiniteSets

CONSTANTS
    Writers,        \* threads that log
    QueueSize,      \* m_queue_size
    SplitLines,     \* m_split_lines
    MaxCalls,       \* bound: calls of write by one thread
    MaxDay          \* bound: days after the start

ASSUME LogConstants ==
    /\ IsFiniteSet(Writers)
    /\ QueueSize \in Nat \ {0} /\ SplitLines \in Nat \ {0}
    /\ MaxCalls \in Nat /\ MaxDay \in Nat

VARIABLES
    method,         \* m_method
    closed,         \* m_close
    queue,          \* m_log_queue
    count,          \* m_count
    logDay,         \* m_day
    file,           \* m_full_file_name: its day and its number
    isOpen,         \* m_fout.is_open()
    last,           \* <<the line written to a file last>>, or <<>>
    fill,           \* lines written since this file's name was taken
    wpc,            \* where each thread stands in write
    calls,          \* how often each has called
    now,            \* the day each has read from the clock
    today,          \* the clock
    lpc,            \* where the log's thread stands in async_write
    hand,           \* its str: the line taken from the queue
    dpc             \* where the destructor stands

queueVars  == <<queue, wpc, lpc>>
fileVars   == <<count, logDay, file, isOpen>>
outVars    == <<last, fill>>
vars == <<method, closed, queueVars, fileVars, outVars, calls, now, today, hand, dpc>>

Line    == [by : Writers, no : Nat]
File    == [day : Nat, part : Nat]
Waiting == {w \in Writers : wpc[w] = "asleep"}
Woken   == {w \in Writers : wpc[w] = "woken"}

Init ==
    /\ method \in {"ASYNC", "SYNC"}
    /\ closed = FALSE
    /\ queue = <<>>
    /\ count = 0 /\ logDay = 0 /\ file = [day |-> 0, part |-> 0] /\ isOpen = TRUE
    /\ last = <<>> /\ fill = 0
    /\ wpc = [w \in Writers |-> "idle"]
    /\ calls = [w \in Writers |-> 0]
    /\ now = [w \in Writers |-> 0]
    /\ today = 0
    /\ lpc = IF method = "ASYNC" THEN "loop" ELSE "none"
    /\ hand = <<>>
    /\ dpc = "none"

QueueMutexFree == lpc # "tested"

(* m_fout << line: without an open file the line is gone. *)
Put(line) ==
    /\ last' = IF isOpen THEN <<line>> ELSE last
    /\ fill' = IF isOpen THEN fill + 1 ELSE fill

-----------------------------------------------------------------------------
(* A thread in write: the clock is read first. *)
Call(w) ==
    /\ wpc[w] = "idle" /\ calls[w] < MaxCalls /\ dpc = "none"
    /\ calls' = [calls EXCEPT ![w] = @ + 1]
    /\ now' = [now EXCEPT ![w] = today]
    /\ wpc' = [wpc EXCEPT ![w] = "stamped"]
    /\ UNCHANGED <<method, closed, queue, fileVars, outVars, today, lpc, hand, dpc>>

NewDay(w)  == now[w] # logDay
NewPart(w) == ~NewDay(w) /\ count + 1 >= SplitLines

(* Under m_mutex: the line is counted, the file changed when it is time; a
   file that does not open throws, and the line is not logged. *)
Count(w) ==
    /\ wpc[w] = "stamped"
    /\ logDay' = now[w]
    /\ count' = IF NewDay(w) THEN 1 ELSE count + 1
    /\ file' = IF NewDay(w) THEN [day |-> now[w], part |-> 0]
               ELSE IF NewPart(w)
                    THEN [day |-> logDay, part |-> (count + 1) \div SplitLines]
                    ELSE file
    /\ isOpen' \in IF NewDay(w) \/ NewPart(w) THEN BOOLEAN ELSE {isOpen}
    /\ wpc' = [wpc EXCEPT ![w] = IF isOpen' THEN "counted" ELSE "idle"]
    /\ fill' = IF file' = file THEN fill ELSE 0
    /\ UNCHANGED <<method, closed, queue, last, calls, now, today, lpc, hand, dpc>>

AtQueue(w) == method = "ASYNC" /\ wpc[w] \in {"counted", "woken"} /\ QueueMutexFree

(* m_cond_full.notify_one() *)
NotifyFull == lpc' = IF lpc = "asleep" THEN "woken" ELSE lpc

(* Faulty variants: the log's thread is not told of the line, and a thread
   that was woken does not look at the queue again. *)
PushSilently(w) ==
    /\ AtQueue(w) /\ Len(queue) < QueueSize
    /\ queue' = Append(queue, [by |-> w, no |-> calls[w]])
    /\ wpc' = [wpc EXCEPT ![w] = "idle"]
    /\ UNCHANGED <<method, closed, fileVars, outVars, calls, now, today, lpc, hand, dpc>>

PushOnceWoken(w) ==
    /\ AtQueue(w) /\ (Len(queue) < QueueSize \/ wpc[w] = "woken")
    /\ queue' = Append(queue, [by |-> w, no |-> calls[w]])
    /\ NotifyFull
    /\ wpc' = [wpc EXCEPT ![w] = "idle"]
    /\ UNCHANGED <<method, closed, fileVars, outVars, calls, now, today, hand, dpc>>

(* There is room in the queue. *)
Push(w) ==
    /\ AtQueue(w) /\ Len(queue) < QueueSize
    /\ queue' = Append(queue, [by |-> w, no |-> calls[w]])
    /\ NotifyFull
    /\ wpc' = [wpc EXCEPT ![w] = "idle"]
    /\ UNCHANGED <<method, closed, fileVars, outVars, calls, now, today, hand, dpc>>

(* There is none: m_cond_empty.wait. *)
Block(w) ==
    /\ AtQueue(w) /\ Len(queue) >= QueueSize
    /\ wpc' = [wpc EXCEPT ![w] = "asleep"]
    /\ UNCHANGED <<method, closed, queue, fileVars, outVars, calls, now, today, lpc,
                   hand, dpc>>

(* SYNC: the caller puts the line out itself, under m_mutex. *)
PutSync(w) ==
    /\ method = "SYNC" /\ wpc[w] = "counted"
    /\ Put([by |-> w, no |-> calls[w]])
    /\ wpc' = [wpc EXCEPT ![w] = "idle"]
    /\ UNCHANGED <<method, closed, queue, fileVars, calls, now, today, lpc, hand, dpc>>

Write(w) == Call(w) \/ Count(w) \/ Push(w) \/ Block(w) \/ PutSync(w)

-----------------------------------------------------------------------------
(* The log's thread, async_write. *)
Loop ==
    /\ lpc = "loop"
    /\ lpc' = IF closed THEN "ended" ELSE "enter"
    /\ UNCHANGED <<method, closed, queue, fileVars, outVars, wpc, calls, now, today,
                   hand, dpc>>

AtTest == lpc \in {"enter", "woken"}

TestClosed ==
    /\ AtTest /\ closed
    /\ lpc' = "ended"
    /\ UNCHANGED <<method, closed, queue, fileVars, outVars, wpc, calls, now, today,
                   hand, dpc>>

TestEmpty ==
    /\ AtTest /\ ~closed /\ queue = <<>>
    /\ lpc' = "tested"
    /\ UNCHANGED <<method, closed, queue, fileVars, outVars, wpc, calls, now, today,
                   hand, dpc>>

Sleep ==
    /\ lpc = "tested"
    /\ lpc' = "asleep"
    /\ UNCHANGED <<method, closed, queue, fileVars, outVars, wpc, calls, now, today,
                   hand, dpc>>

(* m_cond_empty.notify_one() *)
NotifyEmpty ==
    IF Waiting = {} THEN wpc' = wpc
    ELSE \E w \in Waiting : wpc' = [wpc EXCEPT ![w] = "woken"]

(* Faulty variants: the newest line first, and nobody is told of the room. *)
PopLast ==
    /\ AtTest /\ ~closed /\ queue # <<>>
    /\ hand' = <<queue[Len(queue)]>>
    /\ queue' = SubSeq(queue, 1, Len(queue) - 1)
    /\ NotifyEmpty
    /\ lpc' = "write"
    /\ UNCHANGED <<method, closed, fileVars, outVars, calls, now, today, dpc>>

PopSilently ==
    /\ AtTest /\ ~closed /\ queue # <<>>
    /\ hand' = <<Head(queue)>>
    /\ queue' = Tail(queue)
    /\ lpc' = "write"
    /\ UNCHANGED <<method, closed, fileVars, outVars, wpc, calls, now, today, dpc>>

Pop ==
    /\ AtTest /\ ~closed /\ queue # <<>>
    /\ hand' = <<Head(queue)>>
    /\ queue' = Tail(queue)
    /\ NotifyEmpty
    /\ lpc' = "write"
    /\ UNCHANGED <<method, closed, fileVars, outVars, calls, now, today, dpc>>

(* Faulty variant: the line stays in the hand. *)
WriteKeeping ==
    /\ lpc = "write"
    /\ Put(hand[1])
    /\ lpc' = "loop"
    /\ UNCHANGED <<method, closed, queue, fileVars, wpc, calls, now, today, hand, dpc>>

WriteLine ==
    /\ lpc = "write"
    /\ Put(hand[1])
    /\ hand' = <<>>
    /\ lpc' = "loop"
    /\ UNCHANGED <<method, closed, queue, fileVars, wpc, calls, now, today, dpc>>

LogThread == Loop \/ TestClosed \/ TestEmpty \/ Sleep \/ Pop \/ WriteLine

-----------------------------------------------------------------------------
(* ~Log, after main has returned and the pool's threads have been joined. *)
Close ==
    /\ dpc = "none" /\ \A w \in Writers : wpc[w] = "idle"
    /\ closed' = TRUE
    /\ dpc' = IF method = "ASYNC" THEN "notify" ELSE "gone"
    /\ isOpen' = (isOpen /\ method = "ASYNC")
    /\ UNCHANGED <<method, queue, count, logDay, file, outVars, wpc, calls, now,
                   today, lpc, hand>>

(* Faulty variant: no notification. *)
JustJoin ==
    /\ dpc = "notify"
    /\ dpc' = "join"
    /\ UNCHANGED <<method, closed, queue, fileVars, outVars, wpc, calls, now, today,
                   lpc, hand>>

Notify ==
    /\ dpc = "notify"
    /\ NotifyFull
    /\ dpc' = "join"
    /\ UNCHANGED <<method, closed, queue, fileVars, outVars, wpc, calls, now, today, hand>>

Join ==
    /\ dpc = "join" /\ lpc = "ended"
    /\ dpc' = "gone"
    /\ isOpen' = FALSE
    /\ UNCHANGED <<method, closed, queue, count, logDay, file, outVars, wpc, calls, now,
                   today, lpc, hand>>

Destructor == Close \/ Notify \/ Join

Midnight ==
    /\ today < MaxDay
    /\ today' = today + 1
    /\ UNCHANGED <<method, closed, queueVars, fileVars, outVars, calls, now, hand, dpc>>

Next ==
    \/ \E w \in Writers : Write(w)
    \/ LogThread
    \/ Destructor
    \/ Midnight

Spec == Init /\ [][Next]_vars

(* The operating system schedules every thread; main returns in the end.  The
   threads need not log, and the clock may stand still. *)
Fairness ==
    /\ \A w \in Writers : WF_vars(Count(w) \/ Push(w) \/ Block(w) \/ PutSync(w))
    /\ WF_vars(LogThread)
    /\ WF_vars(Notify \/ Join)

LiveSpec == Spec /\ Fairness

-----------------------------------------------------------------------------
Stage == {"idle", "stamped", "counted", "asleep", "woken"}

(* The variables keep their types; the log's thread exists only in ASYNC mode,
   and holds a line exactly while it is about to write one. *)
TypeOK ==
    /\ method \in {"ASYNC", "SYNC"}
    /\ closed \in BOOLEAN /\ isOpen \in BOOLEAN
    /\ queue \in Seq(Line)
    /\ count \in Nat /\ logDay \in Nat /\ file \in File
    /\ last \in Seq(Line) /\ fill \in Nat
    /\ wpc \in [Writers -> Stage]
    /\ calls \in [Writers -> Nat] /\ now \in [Writers -> Nat] /\ today \in Nat
    /\ lpc \in {"none", "loop", "enter", "tested", "asleep", "woken", "write", "ended"}
    /\ (lpc = "none") <=> (method = "SYNC")
    /\ hand \in Seq(Line) /\ Len(hand) = IF lpc = "write" THEN 1 ELSE 0
    /\ dpc \in {"none", "notify", "join", "gone"}

(* The queue never grows beyond m_queue_size, also when a thread overtakes one
   that was woken because there was room. *)
QueueBounded == Len(queue) <= QueueSize

(* notify_one tells enough: while the log is open its thread does not sleep on
   a line, and threads sleep for want of room only as long as every free place
   is meant for one that has been woken. *)
NoLostWakeup ==
    /\ lpc = "asleep" => queue = <<>>
    /\ Waiting # {} => Len(queue) + Cardinality(Woken) >= QueueSize

(* The file is chosen when a line is counted, but the line is written later, to
   whatever file is open then, so that a file can outgrow split_lines, which
   log.h calls the most it holds.  By how much is bounded by what is under way:
   one line of each thread, and the queue. *)
FileOverrun ==
    today = 0 =>
        fill < SplitLines + Cardinality(Writers)
                 + (IF method = "ASYNC" THEN QueueSize + 1 ELSE 0)

-----------------------------------------------------------------------------
(* The lines that a thread has given: its calls, but for the one that it is in. *)
LinesGiven == [w \in Writers |-> IF wpc[w] = "idle" THEN calls[w] ELSE calls[w] - 1]

Channel == INSTANCE LineChannel
               WITH pending <- hand \o queue, open <- isOpen, count <- LinesGiven

(* The log implements LineChannel: the lines that write accepts are put out in
   the order of the pushes, each once, and one vanishes only where m_fout has
   no open file when its turn comes. *)
InOrder == Channel!Spec

(* A thread that sleeps in write because the queue is full gets through. *)
GetsThrough == \A w \in Writers : wpc[w] = "asleep" ~> wpc[w] = "idle"

(* While lines wait, the log's thread takes the next one, so that every line is
   written in the end, unless the log is closed first: the destructor does not
   wait for the queue. *)
KeepsWriting == queue # <<>> ~> lpc = "write" \/ closed

(* The destructor comes to its end, unless m_close was set just after the log's
   thread had tested it and before it slept: that notification is lost. *)
CloseEnds == dpc = "notify" /\ lpc # "tested" ~> dpc = "gone"
=============================================================================
