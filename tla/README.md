# Interpreter-WebServer in TLA+

Models, model-checking runs and proofs for the C++ server under `src/src`: an
epoll event loop with a thread pool (`lib/`), a hierarchical timer wheel, an
asynchronous log, a pool of database connections, HTTP parsing and responses,
and on top of them a chat service whose dialogues are scripts run by a small
interpreter (`interpreter/`, `utils/`).

## 1. The system

One **main thread** runs `ServerBase::start`: `Timer::tick`, drain
`close_queue`, `epoll_wait`, hand each ready connection to the pool, accept new
ones. **Worker threads** read, parse, route and write, and end by re-arming the
descriptor (`EPOLLONESHOT`) or by pushing its number into `close_queue`. A
**log thread** empties the log's queue. One thread reads `exit` from the
standard input.

| component | state | operations | talks to | hard part |
|---|---|---|---|---|
| ServerBase | `m_connections`, `close_queue`, `m_listen_fd`, event masks | start, accept_connection, close_fd, close_connection, process_read, process_write, process | all of `lib/` | main thread and workers share connections by reference and by descriptor number |
| Epoller | the kernel's interest list | add, modify, remove, wait | ServerBase | oneshot and edge trigger: an event not passed on is lost |
| HTTPConnection | read and write buffers, iovec, request, response, `timer_id` | read, write, parse_request, make_response | Buffer, HTTPRequest, HTTPResponse | partial reads and writes, pipelined requests |
| Timer | `m_wheel`, `m_cur_slot`, `m_timer_map`, `m_cur_time` | add_timer, del_timer, reset_timer, tick | ServerBase (callbacks) | iterators kept in a map, placement across levels, irregular ticks |
| ThreadPool | `m_tasks`, `m_stop`, threads | add_task, worker loop, destructor | ServerBase | stop against queued and running tasks |
| Buffer | vector, read and write position | read, write, push_back, pop_front, expand | HTTPConnection | growth, positions |
| HTTPRequest | parse state, headers, body | parse | Buffer | incomplete and malformed input, exceptions |
| HTTPResponse | status, headers, content or mmap | init, get_response | HTTPConnection | life of the mapping |
| Log | bounded queue, `m_close`, file | write, async_write, destructor | everybody | blocking writers, shutdown |
| DBConnectionPool | queue of connections | get_connection, deleter | LoginHandler | blocking, return on every path |
| Router, Server, main | handler table, parameters | add_handler, route | handlers | none while running |
| Session | map of interpreters, `now_ssid` | get_ssid, remove_ssid, get_interpreter | LoginHandler, ChatHandler | shared by workers without a lock |
| LoginHandler | the user table | login, register | DBConnectionPool, Session | check, then insert |
| ChatHandler | none | handle_chat | Session, Interpreter | two requests of one session |
| Interpreter, Environment, AST | stack, scopes, functions, messages | parse, run, input, continue_run, output | ChatHandler | a run that is suspended at RECV and resumed by another request |

What makes each correct, and where it is hard to test, is the `hazards` list of
`PROJECT.json`, each entry at its line of the source.

The modules follow these parts:

| part | modules | runs |
|---|---|---|
| event loop, workers, epoll | `Reactor` | `reactor_safety`, `reactor_live`, `reactor_slow`, `reactor_lt` |
| timer | `TimerWheel` | `timer`, `timer_cascade`, `timer_late` |
| log | `AsyncLog`, implementing `LineChannel` | `log` |
| one connection's bytes | `Exchange` on `ByteBuffer` | `http`, `http_growth` |
| handlers under several workers | `Service`, composed of `ConnectionPool` and `Sessions`, which share `Threads` | `service` |
| scripts | `Interp` on `Syntax` and `Values`, implementing `Dialogue` | `interp` |

They meet as the components do. `Reactor` decides which worker handles a
connection, and when, and counts bytes only; `Exchange` is what that worker does
with the bytes. A handler that `Exchange` takes as a constant reply is a
handler of `Service`; `Talk` of `Service` is one request of `Interp`. A pending
timer of `Reactor` is a node of `TimerWheel`. `MC` modules give the constants
their values for TLC, `*Proofs` and `Induction` hold the theorems.

## 2. Reactor: the event loop and its workers

`Reactor.tla` models `serverbase.cpp` with `epoller.cpp`, the task queue of
`threadpool.*` and the I/O of `http_connection.cpp`.

*State.* A member of `Conns` is a client's connection for its whole life, so
that an `HTTPConnection` that was freed and a new one at the same descriptor are
different things. `conns` is `m_connections` and at the same time the kernel's
descriptor table; `fdOf[c]` is `m_fd`, which outlives the object, as it does in
the memory that a worker still refers to. `interest` is the epoll registration,
`batch` what `epoll_wait` returned and is not handled yet, `tasks` the pool's
queue, `wpc` and `wconn` a worker's next step and the reference it holds,
`closeq` and `timers` the close queue and the pending timers. Data is counted in
segments: `sock` in the socket, `rbuf` in `m_read_buf`; `rem` is what is left of
a response: nothing, at most 1024 bytes, or more (the code's own distinction).
`doomed` and `threw` are history variables: who was asked to close, and whose
task ended in an exception.

*Actions.* Main thread: `TickFire`, `TickDone`, `Drain`, `DrainDone`,
`EpollWait`, `HandleEvent`, `EventsDone`, and the accept loop `AcceptOk`,
`AcceptBroken`, `AcceptRefuse`, `AcceptStop`. A worker: `Take`, `Read`, `Parse`,
`ParseThrows`, `Route`, `RouteThrows`, `Write`, `Rearm`, `RequestClose`; each
ends before the next access to something shared, so that the main thread may run
in between. Clients connect, send and shut down whenever they like. A worker
that outlives its connection acts, through the stale descriptor, on whichever
connection has that descriptor now (`Target`).

*Settings.* `ListenET` and `ConnET` are the trigger modes, `TimeoutOn` is
`m_timeout > 0`, `SlowHandlers` says whether a task may take longer than
`m_timeout` (60 s in `main.cpp`) and `AcceptFails` whether `accept` may meet
EMFILE and `epoll_ctl` and `fcntl` may fail.

| run | shows | bounds |
|---|---|---|
| `reactor_safety` | ownership (`NoUseAfterFree`, `ExclusiveHandling`, `NoWrongfulClose`), nothing cut or lost (`ResponseNotCut`, `CloseRequestsKept`, `NotStranded`) | 2 descriptors, 2 connections, 2 workers, 2 requests of one segment from each client: a pipelined second request, both threads on both connections |
| `reactor_live` | `EveryConnectionEnds`, `BacklogServed`, `OpenHasTimer` | 1 descriptor used by 2 connections in turn, 1 worker, requests of 2 segments, which may arrive apart |
| `reactor_slow` | **violated**: `NoWrongfulClose` with `SlowHandlers` | 1 descriptor, 2 connections |
| `reactor_lt` | **violated**: `ResponseNotCut` with `ConnET = FALSE` | 1 connection, 1 segment |

Two connections at two descriptors with two workers give every pair of roles
that a property mentions (owner and intruder, old and new owner of a number,
event and task); the proofs of section 8 lift the safety properties to all sizes.
Symmetry is used in the safety run only, where nothing tells two descriptors,
connections or workers apart.

*Fairness.* Weak fairness of the main thread and of each worker: the operating
system schedules threads. `SF(RequestClose)`: the worker waits for `m_qmutex`,
which the main thread releases again and again for as long as it sits in
`epoll_wait`. `SF(WriteOut)`: EPOLLOUT means that the peer made room, and a
response is finite. `SF(TickFire)`: a timer that is pending in tick after tick
on a connection no worker holds expires; this is what `EveryTimerRuns` of
TimerWheel establishes for a server that is quiet for an interval again and
again, which it is when its finitely many clients have nothing more to send
(`MaxSegs`). Clients owe nothing.

## 3. TimerWheel

`TimerWheel.tla` models `timer.cpp`. Its thread is the main thread, so that
`add_timer`, `del_timer` and `reset_timer` are single actions; `tick()` is cut
into `Tick` (compute the turns, move `m_cur_time`), `Turn` (the hand of level 0),
`CascadeDue`, `CascadeAhead`, `CascadeDone` (the slot of an upper level) and
`Fire` (the callbacks of level 0). Time is relative: `elapsed` since
`m_cur_time`, `ahead[id]` from `m_cur_time` to the node's deadline. `defined`
turns FALSE where the C++ has undefined behaviour, and the model stops there;
`pos` keeps the entries that the code leaves behind. `Usages` is a set of
programs, each given by the timeouts it asks for (`timeouts`); a program is `Flat`
when they are less than one turn of level 0, as in `main.cpp`, whose one timeout
is 60 of 1000 slots. Only there do the entries of the map stay right, because a
cascade that meets a node takes an entry of the map or the list along.

| run | shows | bounds |
|---|---|---|
| `timer` | `CascadesDown`, `NotEarly`, `EveryTimerRuns`, and on a flat program `MapAgrees` and `AlwaysDefined` | one flat program, with a timeout below a slot, and one whose timeouts reach levels 0, 1 and 2; a wheel of 3 levels of 2 slots; 2 timers, so that two nodes share a slot; ticks up to `MaxGap` = 5 apart (two slots, a whole turn) |
| `timer_cascade` | **violated**: `NeverWalksOff`, a cascade of a node that is not due | timeouts on levels 0, 1 and 2 |
| `timer_late` | **violated**: `Precise`, ticks closer together than a slot | timeouts of whole slots |

`MaxLate` stops the count of a late node, `MaxResets` the resets of one node;
nothing in the code depends on either number. *Fairness* of `timer`: the loop
goes on (`WF(TickNext)`) and again and again `epoll_wait` sleeps its whole
interval (`SF(QuietSleep)`). Without the second assumption `EveryTimerRuns` is
false, which is the finding of `timer_late`: each `tick()` forgets the part of a
slot that had begun. Deadlock is not checked in these runs: where `defined` is
FALSE nothing more happens.

## 4. AsyncLog

`AsyncLog.tla` models `log.h` and `log.cpp` after `init`; `Init` chooses between
`ASYNC` and `SYNC`. `LineChannel.tla` is its abstract specification: lines that
are accepted come out once each and in the order of their acceptance, and a line
is lost only if no file is open when its turn comes.

*State.* `queue`, `closed`, `count`, `logDay`, `file` and `isOpen` are
`m_log_queue`, `m_close`, `m_count`, `m_day`, `m_full_file_name` and
`m_fout.is_open()`. A line is its thread and the number of its call. `wpc`,
`lpc` and `dpc` say where the callers of `write`, the log's thread and `~Log`
stand, and who sleeps on which condition; `now[w]` is the time a caller has read
before it takes `m_mutex`, `hand` the local `str` of `async_write`. `last` and
`fill` are history: the line put out last, and the lines in the file since its
name was taken.

*Actions.* A caller: `Call` (read the clock), `Count` (under `m_mutex`: count,
change the file, throw if it does not open), `Push` or `Block` (under
`m_queue_mutex`), `PutSync`. The log's thread: `Loop`, `TestClosed`, `TestEmpty`,
`Sleep`, `Pop`, `WriteLine`. The destructor: `Close`, `Notify`, `Join`; it runs
when `main` has returned and the pool is joined, so that no caller is left. A
critical section is one step, except that the log's thread holds
`m_queue_mutex` between its test and its sleep (`"tested"`): `~Log` takes no
mutex and may run there. `Midnight` moves the clock. A line that is put to
`m_fout` while no file is open is gone (`Put`): a caller for whom none could be
opened is told so by an exception, but the lines that others have in the queue
then are lost silently (`log.cpp:53`).

*Simplified.* `m_day` is counted in UTC and the name of the file uses the local
date; the model has one day for both. Spurious wakeups are left out: every wait
has a predicate, so that they could only make up for a notification that is
missing. `m_close` is a plain `bool` that two threads use; it is modelled as
atomic.

| run | shows | bounds |
|---|---|---|
| `log` | `QueueBounded`, `NoLostWakeup`, `InOrder`, `GetsThrough`, `KeepsWriting`, `CloseEnds` | 2 callers with 3 calls each, a queue of 2, files of 2 lines, one midnight: the queue is full with a line in the hand and both callers waiting, and the file changes several times |

*Fairness.* Weak, of each caller that is inside `write`, of the log's thread and
of the destructor: the operating system schedules threads. Nobody has to log. A
caller that was woken can be overtaken by one that has just come; `GetsThrough`
holds because calls are finite (`MaxCalls`), and the code promises no more.

What the properties leave room for is what the code does. `CloseEnds` excepts a
destructor that sets `m_close` after the log's thread has tested it and before
it sleeps: that notification is lost and the process never ends
(`log.cpp:29`). `KeepsWriting` ends with the closing: lines that are queued then
are dropped. A file gets more than the `split_lines` lines that `log.h:45` calls its
largest number, because the file is chosen when a line is counted and lines
already under way follow into it. `FileOverrun` says by how much at most; a small
instance does not come near that bound, and it is proved only (section 8). It is
about the first day: a caller with a stale `now` sets the file back to the day
before (`log.h:102`).

## 5. Exchange: the bytes of one connection

`Exchange.tla` models `http_connection.cpp`, `http_request.cpp`,
`http_response.cpp`, `router.cpp` and the part of `serverbase.cpp` that connects
them (`process_read`, `process_write`, `process`), in edge-triggered mode, for
one connection. `ByteBuffer.tla` models `buffer.cpp`.

*State.* `script` is what the client will send, `sent` how much of it has left,
`arrived` what is in the socket. `rbuf` and `wbuf` are the two buffers, `head`
and `tail` the two entries of `m_iovec`, `reply` is `m_response`, `keepAlive` the
flag of the request being answered. `got` is history: what the client has. A
buffer is the vector's size and capacity, `m_read_pos`, and the bytes between
the two positions; size and capacity are kept apart because the code asks for
the capacity and `resize` copies only the elements.

*Actions.* `Send` in any pieces; `Read`, one `readv` into the room and into the
array on the stack; `ReadAll`, at EAGAIN, with `Process`: `Await` an incomplete
request, `Abandon` after an exception of the parser, or `Answer` (parse, pop,
route, build the response); `Write`, one `writev` of any length; `WriteFails`,
the `writev` that meets the address `MAP_FAILED`, and the closing that follows;
`WroteAll`, which processes what has already been read or closes.

*Simplified.* A symbol is a whole line without its end, an end of line, or a
byte of a body; a request line is known, of HTTP/1.0 or not, or "junk". Of the
header lines those are kept that change what happens: the two values of
Connection, Content-Length that is good or that `stoi` refuses, a line without
a colon, and a line that ends at it. Of the reply's header only the status
and Content-length are kept.

| run | shows | bounds |
|---|---|---|
| `http` | `ReadIntact`, `RepliesIntact`, `NothingOwed` | buffers of 7 symbols and 3 on the stack; 2 or 3 pipelined requests of 3 to 9 symbols in all splits, with up to `Window` = 13 symbols on their way: data is moved to the front, a buffer grows, the array on the stack is used, a response is written in parts, every error page and every exception occurs |
| `http_growth` | **violated**: `ReadIntact` | `Window` = 20, so that a buffer grows twice |

`Window` bounds what the client has sent and no request has taken out yet; the
script itself may be of any length. The three properties hold while `Window` is
less than twice the first size of the buffer. Beyond it they are false. After a
first growth the vector's `size()` is less than its `capacity()`, the code uses
the bytes up to the capacity, and the `resize` of a second growth copies only
those up to the size (`buffer.cpp:96`): with buffers of 1024 bytes, a request of
which 1500 bytes and then another 1000 are read has zeros in the place of some of
its bytes. `http_growth` shows it, and below that bound the three are proved for
every pair of sizes.

An empty file cannot be mapped. `set_file` prepares the 404 page, but leaves
`MAP_FAILED` in `m_data`, which `has_mmap` takes for a mapping
(`http_response.cpp:139`, `http_response.h:33`): `writev` refuses the address and
the connection is closed with nothing sent. `NothingOwed` excepts a connection
that was closed so; `RepliesIntact` holds there too, as nothing wrong is sent.

What else was met: a request that the parser calls INVALID is still popped and
routed; the `400` reply announces "Connection: close" while the rule of the
version may keep the connection, and the JSON handlers always announce
keep-alive; a redirect and the error page of a missing `404.html` are kept
alive without a Content-length. Except for the Connection line of a reply the
model has it, and no property is about it: what a client makes of a reply is
outside.

## 6. Service: the handlers and what they share

`Service.tla` models `login_handler.cpp`, `chat_handler.cpp` and the routes of
`server.cpp` under several workers; `ConnectionPool.tla` models
`db_connectionpool.*`, `Sessions.tla` models `session.cpp`, `Threads.tla` holds
the constants both share.

*State.* Of the pool: `free` is `m_connections`, `held[w]` a worker's
`unique_ptr`, `asleep` and `woken` who waits on `m_cond` and who has been
notified. Of the sessions: `nowSsid`, `table` (`m_interpreter_map`), and
`key[w]`, what `get_ssid` has read. Of the handlers: `pc`, `job`, `granted`
(`is_login`), `talker` (the looked up interpreter), `rows` (the table of users),
`cookie`. `lone`, `given`, `gone` and `raced` are history, by which the
properties say which overlaps they except.

*Actions.* A worker: `Begin`; for an account `Connect` (get a connection or
sleep), `Select`, or `Check` and `Insert`, `Return` (the deleter), and after a
login `Key`, `Store`, `Number`, the three accesses of `get_ssid` (`now_ssid` is
read, the map is written, `now_ssid++` is returned); for a visit `Lookup`,
`Talk`, `Remove`. A statement may throw, and an INSERT that throws may have been
carried out. Clients need not wait for an answer: any number of requests of one
client may be under way.

*Simplified.* A page and a chat are both a visit: both look the session up. A
request with a bad body changes no state and is left out. A request carries the
cookie that its client has when a worker takes it up. One access to the
`unordered_map` is one step: that two of them are a data race in the C++ is not
explored, and neither is the wraparound of the 32-bit `now_ssid`.

| run | shows | bounds |
|---|---|---|
| `service` | `Conserved`, `NoLostWakeup`, `NamesUnique`, `LoneLoginWorks`, `OwnDialogue`, `Served` | 3 workers on 1 connection, so that two sleep while one works (`main.cpp` has 16 on 8); 2 clients; 1 name, registered before or not; 4 requests: two logins that overlap and a chat on each, or two registrations and two logins; `StoiMax` 1, so that a third session has a number that `stoi` refuses |

*Fairness.* Weak, of each worker: the operating system runs it and the database
answers. A worker that was woken may be overtaken at the pool; `Served` holds
because requests are finite.

What the properties except is what the code does. `NamesUnique`: two
registrations that both SELECT before either INSERTs make the name twice, as
only `login_handler.cpp:174` stands in the way. `LoneLoginWorks`: two overlapping
`get_ssid` write one key and return two numbers, so that one of the logins has
no interpreter and its client is told to log in again. `OwnDialogue`: two
requests of one client may be in one interpreter at once, and it has no lock.

## 7. Interp: scripts

`Syntax.tla` models `Interpreter::parse` (from the tokens of a script to nodes),
`Values.tla` the values and the ten operators of `OPnode.cpp`, `Interp.tla`
`run`, `continue_run`, `Environment` and the `execute()` of each node, with
`handle_chat` as the driver. `Dialogue.tla` is the language as
`docs/intepreter.md` has it: lines in order, variables, RECV waiting for the next
message, and expressions read from right to left off their tokens, with no nodes
and no cached values.

*State.* `stack` is `m_stack` with `m_state_stack`, `cell[n]` the value that node
`n` caches, `vars` the variables, `recv` and `send` the two messages of
`Environment`, `mode` where `handle_chat` is. `failed`, `fresh` and `unread` are
history.

*Actions.* `Start` and `Resume`, the two ways of `handle_chat`; of the loop of
`continue_run`, `Open` (put the children above the node), `OpenCall`, `Suspend`
(a RECV seen for the first time) and `Finished`; the `execute()` of a node,
`Evaluate`, `Assign`, `SendOut`, `Branch`, `Receive`, `Leave`; and `Fault`, an
exception, which `run()` catches and `continue_run()` leaves to
`ServerBase::process`, with the stack as it is.

| run | shows | bounds |
|---|---|---|
| `interp` | `OperandsFresh`, `AskAnswered`, and that Interp implements Dialogue (`Documented`) | 72 scripts: a short form of `scripts/script_store.txt`, every script of three pieces behind a function that calls itself, scripts that throw in each way and two that do not parse; 3 messages; 4 requests in a session (`MaxAsks`), enough to go into a called function, out of it and on |

A script's lines are complete: a line with a missing operand or an unclosed
literal reads outside of its tokens, or hangs. `Decimal`, `Quotient` and
`Precedes`, the operations on doubles and strings, are constants. Every cycle
of calls in the scripts passes a RECV; one that does not is a script that loops,
and so would be the request. *Fairness*: `WF(Step)`, the worker that has the
request runs.

`Documented` promises nothing once a node has thrown or when the script does not
parse (`broken`), and nothing of a script that is not of the language
(`Grammatical`: bodies are closed, functions stand outside of bodies, statements
have their words and literals their end; all 72 scripts of the run are). After a
throw the statement whose expression failed is still on the stack, and the next
request executes it with the value its node had before, or none.
The following is also what the code does, and the models have it: only the last
SEND before a suspension reaches the client, and it is repeated when the next
request sends nothing; a CALL in tail position leaves its entry on the stack,
which grows with each; a script that ends in a blank line makes `parse` hang
(`interpreter.cpp:70`), and a FUNC inside a block ends the block.

## 8. Proofs

All are for every value of the constants that the modules' assumptions admit.

`ReactorProofs.tla`
: *Types.* `TypeOK` is not inductive: a task or a worker has to have a
  connection with a descriptor, and so do a timer and an entry of the table
  (`FdInv`). `TypeInv` adds that and gives `TypeCorrect`, with no assumption on
  how fast handlers are.
: *Ownership.* Under `Timely` (with timeouts on, tasks are faster than
  `m_timeout`) the invariant `OwnerInv` says for each open connection that it is
  the one in the table at its descriptor, and that of epoll, the batch, the task
  queue, a worker and the close queue exactly one has it. No conjunct is
  inductive alone: a worker may act on its connection because nobody has asked
  to close it, and nobody else can ask because nobody else has it.
  `NoUseAfterFree`, `ExclusiveHandling`, `NoWrongfulClose`, `ResponseNotCut`
  (edge-triggered) and `OpenHasTimer` (no failing accepts) follow.

: *Handing over.* `CloseRequestsKept` and `NotStranded` from the same ownership: a connection
  that nobody asked to close is always with somebody who will pass it on
  (`ArmInv`, `DoomedInv`).

`TimerWheelProofs.tla`
: `TypeOK`, `CascadesDown` and `NotEarly` hold for every number of levels and
  whatever timeouts are asked for. Their invariant `WheelInv` has `Timely` at its
  heart: for a node in slot `s` of level `l` there are numbers `q[0]..q[l]`, the
  slots of each level that its deadline may still be away, chained by
  `q[k] + curSlot[k] < (q[k+1] + 1) * Slots`, and `q[l]` is no more than the
  steps the hand of `l` has to make to reach `s` (`Due`). A turn takes one from
  `q[0]`; when a level comes round, its own link of the chain is short by one
  until the level above has moved (`Carry`), which `DueMove` shows for all levels
  at once. Under the hand `q[l]` is 0, so that the deadline is less than a slot
  away (level 0, `DueHere`) or less than one slot of level `l`, and then the loop
  of `add_timer` would stop below `l` (`DueBelow`). What that loop computes,
  `Away`, is a recursive function; `AwayFacts` and `LevelFacts` prove by
  induction that it exists and where it ends.
  `MapAgrees` and `AlwaysDefined` are about flat programs (section 3); they follow
  from `FlatInv`, which adds that the upper levels are empty and that map and
  slots agree both ways.

`AsyncLogProofs.tla`
: `QueueBounded` and `NoLostWakeup` from `WakeInv`, which adds that the queue
  stays empty between the test of the log's thread and its sleep.
  `InOrder`, that AsyncLog implements `LineChannel` with `hand \o queue` as what
  is pending and `LinesGiven` as what each thread has given: a `Push` is an
  `Accept`, a `WriteLine` a `PutOut`, or a `Lose` where no file is open, a
  `PutSync` a `PassThrough`, a `Count` that fails a `Refuse`, and a `Pop` a
  stutter.
  `FileOverrun` from `FillInv`: on the first day the lines in the file and those
  under way together are bounded by the part of `m_count` beyond the last
  multiple of `split_lines`, plus all that can be under way.

`ExchangeProofs.tla`
: `TypeOK` is inductive given what the buffer's operations do to `BufferOK`,
  which are lemmas of their own: no position ever leaves the vector, however it
  moves and grows. The other three theorems assume `Window < 2 * InitSize`, and
  are about scripts of any length. `ReadIntact` needs more than itself: `ReadInv`
  adds that a buffer is as it was made or has at least twice its first size
  (`Steady`), and that it holds less than that together with the socket, so that
  it grows at most once, and that one growth keeps every byte. `RepliesIntact` and `NothingOwed` are about `Answers`, which
  is recursive over the requests of a script. `ReplyInv` is a ledger: whatever of
  the script is still to come, the answers to all of it are what the client has
  got, then what is left of the reply under way, then what is due to the requests
  behind the one being answered (`Ledger`), also where an empty file has ended the
  connection with all of that unsent. That `Answers` does not change its
  mind, and that a request that is complete stays so when more of the script
  arrives, are lemmas by induction on the position in the script.

`Induction.tla`
: Induction over sets of numbers: a set that has 0 and is closed under the step
  has every number, a set of numbers that is not empty has a least one, and one
  that is bounded a greatest. A claim about a recursive function becomes the set
  of the arguments it holds for, so that no theorem with an operator parameter is
  needed.

`ServiceProofs.tla`
: `TypeOK` becomes inductive with what a worker has on its way (`Underway`: a key
  in `get_ssid`, a session in a chat). `Conserved` and `NoLostWakeup` follow for
  every number of workers and connections: each connection put back wakes
  somebody, and whoever is woken takes one or finds that somebody else has. For
  `NamesUnique`, of two workers before the INSERT of one name, or one of them
  and a row, the name has been counted as raced. For `LoneLoginWorks` and
  `OwnDialogue`, numbers below `now_ssid` are given once, an entry that a lone
  login has stored is written by nobody else, and an interpreter belongs to one
  session.

`InterpProofs.tla`
: For every set of scripts whose programs hang together (`WellShaped`, which TLC
  evaluates for those of the run), `TypeCorrect` and, with a strengthening about
  the stack (`UseOf`), `OperandsFresh`: every expression on it belongs to an
  opened node below that reads it, is there once, and nothing but expressions
  lies above such a node; so nothing is suspended or branched in between, and
  each operand is fresh or still to come.
: `Documented`, that Interp implements `Dialogue`. The mapping takes `todo` to
  the lines of the statements that are left on the stack (`LinesLeft`), `store` to
  the variables, `inbox` and `out` to the two messages; `Open`, `Evaluate` and
  `Leave` are stutters, `Assign` is `Define`, `Branch` is `If`, `OpenCall` is
  `Call`, `Suspend` and `Finished` are `Answer`, `Fault` is `Meaningless`. `DocInv` is
  what it needs: the value cached in a node that is fresh is the one that its
  tokens have when they are read from the right (`CachedIn`), every expression on
  the stack is one that the parser made whole (`Wholes`), what is fresh has a
  reader below (`FreshFed`), and a RECV that was told to wait is on top and
  nowhere else (`Told`).

`ScriptProofs.tla`
: What `InterpProofs` needs to know of the parser, for every script of the
  language: the statements that `parse` and `parse_lines` put into the main block,
  a function and the body of an IF are the lines that Dialogue counts to it
  (the parser descends, Dialogue compares depths); `parse_RPN` takes for an
  operator the two expressions behind it, which are those whose values are
  waiting when the line is read from the right; a literal ends at the same token
  in both. Both sides are recursive functions; each is known by one turn of its
  recursion, and that it exists is proved by induction from its last index down.
  Two assumptions on constants are used: a script is a sequence of lines, a line
  one of strings (`ScriptAssumption`), and no token that opens a literal is an
  operator or empty (`OpeningAssumption`).

Every safety property that a passing run checks is proved. Only model-checked are
the liveness properties (`EveryConnectionEnds`, `BacklogServed`, `EveryTimerRuns`,
`GetsThrough`, `KeepsWriting`, `CloseEnds`, `Served`, `AskAnswered`): they need
fairness and ENABLED, which are out of the prover's reach.

`Timely` is needed: `reactor_slow` is its negation, and violates. So is
`Window < 2 * InitSize`, by `http_growth`.

## 9. Findings

| run | source | |
|---|---|---|
| `reactor_slow` | `serverbase.cpp:322` | close requests name descriptors; when a task outlasts `m_timeout` the late one closes another client |
| `reactor_lt` | `http_connection.cpp:68` | level-triggered: a response with at most 1024 bytes left is cut |
| `timer_cascade` | `timer.cpp:141` | a cascade of a node that is not due walks into another list |
| `timer_late` | `timer.cpp:103` | frequent ticks lose time, timers are late without bound |
| `http_growth` | `buffer.cpp:96` | the second growth of a buffer replaces bytes that were read by zeros |

Other bugs that were met are in the models, and the property that would meet them
excepts them by name; each is in the hazards list:

| source | excepted by | |
|---|---|---|
| `log.cpp:29` | `CloseEnds` | the destructor's notification is lost between the log thread's test and its sleep, and the process never ends |
| `log.cpp:46` | `KeepsWriting` | lines in the queue are dropped when the log closes |
| `log.h:152` | (`FileOverrun`, proved) | a file gets more lines than `split_lines` |
| `http_response.cpp:139` | `NothingOwed` | an empty file closes the connection without an answer |
| `login_handler.cpp:174` | `NamesUnique` | two overlapping registrations make one name twice |
| `session.cpp:19` | `LoneLoginWorks` | two overlapping logins share one interpreter, and one of them has none |
| `chat_handler.cpp:73` | `OwnDialogue` | two requests of one client are in one interpreter at once |
| `interpreter.cpp:205` | `OperandsFresh`, `Documented` | after an exception the next request executes a statement with a value of before |

## 10. Not modelled

- Stopping: when `exit` is read, `start` ends, `main` returns and the destructors
  of `ServerBase` and `ThreadPool` run. Of these only `~Log` is modelled.
- The level-triggered mode of `Exchange`; `reactor_lt` shows why it would differ.
- The text of headers and pages, `decode`, the values of a query, the numbers of
  the double arithmetic: they change no control.
- What the operating system does to the process: SIGPIPE, lack of memory.
- Undefined behaviour of the unlocked `unordered_map` of `Session` beyond the
  order of its accesses.
- `http_types` (enumerations), the parameters in `main`, the web client.

The entries of the hazards list without a property say why they have none.

## 11. What is left

1. `Lifecycle`: the shutdown of ServerBase and ThreadPool, with queued and
   running tasks; the abstract life of a connection, implemented by Reactor.
2. The level-triggered mode in `Exchange`.
