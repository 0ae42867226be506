------------------------------- MODULE Service -------------------------------
(***************************************************************************)
(* The handlers of the server under several workers: LoginHandler on the   *)
(* connection pool and the table of users, ChatHandler and the handler of  *)
(* pages on the table of sessions.  A worker's handler is cut where it     *)
(* touches what others touch.  An interpreter is used by chat requests;    *)
(* what it says is the business of Interp.                                 *)
(***************************************************************************)
EXTENDS ConnectionPool, Sessions

CONSTANTS
    Clients, Names, Passwords,
    Tables,         \* what the table of users may be at the start
    MaxRequests     \* bound: requests of all clients together

ASSUME TablesAssumption ==
    \A t \in Tables :
        /\ t \in Seq(Names \X Passwords)
        /\ \A i, j \in DOMAIN t : t[i][1] = t[j][1] => i = j
ASSUME RequestsAssumption == MaxRequests \in Nat

Account(c, k, n, p) ==
    [client |-> c, kind |-> k, name |-> n, password |-> p, session |-> None]
Visit(c, s) ==
    [client |-> c, kind |-> "visit", name |-> None, password |-> None, session |-> s]

VARIABLES
    pc,         \* worker -> where its handler is
    job,        \* worker -> the request it handles
    granted,    \* worker -> is_login
    talker,     \* worker -> the interpreter that handle_chat has looked up
    rows,       \* the table of users
    cookie,     \* client -> the session of its last login
    requests,   \* how many requests have come
    lone,       \* history: worker -> its get_ssid overlaps no other
    given,      \* history: ssid -> the login that it was given to
    gone,       \* history: sessions whose dialogue has ended
    raced       \* history: names whose registrations overlapped
handlerVars == <<pc, job, granted, talker, rows, cookie, requests>>
historyVars == <<lone, given, gone, raced>>
vars == <<poolVars, sessionVars, handlerVars, historyVars>>

NoJob == Visit(None, None)

Init ==
    /\ PoolInit /\ SessionsInit
    /\ pc = [w \in Workers |-> "idle"]
    /\ job = [w \in Workers |-> NoJob]
    /\ granted = [w \in Workers |-> FALSE]
    /\ talker = [w \in Workers |-> None]
    /\ rows \in Tables
    /\ cookie = [c \in Clients |-> None]
    /\ requests = 0
    /\ lone = [w \in Workers |-> TRUE]
    /\ given = [s \in {} |-> None]
    /\ gone = {} /\ raced = {}

Goto(w, at) == pc' = [pc EXCEPT ![w] = at]

(* The handler returns, or throws and the answer is "Bad Request"; its local
   variables are gone. *)
Finish(w) ==
    /\ Goto(w, "idle")
    /\ job' = [job EXCEPT ![w] = NoJob]
    /\ granted' = [granted EXCEPT ![w] = FALSE]
    /\ talker' = [talker EXCEPT ![w] = None]

(* Router::route: a worker has parsed a request, which carries the cookie that
   the client has now.  A client need not wait for an answer. *)
Begin(w, c) ==
    /\ pc[w] = "idle" /\ requests < MaxRequests
    /\ \/ \E k \in {"login", "register"}, n \in Names, p \in Passwords :
            job' = [job EXCEPT ![w] = Account(c, k, n, p)] /\ Goto(w, "connect")
       \/ job' = [job EXCEPT ![w] = Visit(c, cookie[c])] /\ Goto(w, "lookup")
    /\ requests' = requests + 1
    /\ UNCHANGED <<poolVars, sessionVars, historyVars, granted, talker, rows, cookie>>

-----------------------------------------------------------------------------
(* login and reg: a connection, the statements, the connection back. *)
Connect(w) ==
    /\ pc[w] = "connect"
    /\ \/ Acquire(w) /\ Goto(w, IF job[w].kind = "login" THEN "select" ELSE "check")
       \/ Wait(w) /\ UNCHANGED pc
    /\ UNCHANGED <<sessionVars, historyVars, job, granted, talker, rows, cookie, requests>>

Registered(n)   == \E i \in DOMAIN rows : rows[i][1] = n
Matches(n, p)   == \E i \in DOMAIN rows : rows[i] = <<n, p>>

(* A statement may throw, which is an answer like no; what a registration
   answers is not kept. *)
Select(w) ==
    /\ pc[w] = "select" /\ Goto(w, "return")
    /\ \/ granted' = [granted EXCEPT ![w] = Matches(job[w].name, job[w].password)]
       \/ UNCHANGED granted
    /\ UNCHANGED <<poolVars, sessionVars, historyVars, job, talker, rows, cookie, requests>>

Inserting(n, w) == \E v \in Workers \ {w} : pc[v] = "insert" /\ job[v].name = n

(* Faulty Checks: one returns without its connection being put back, one does
   not look at what it has found. *)
CheckLeaking(w) ==
    /\ pc[w] = "check"
    /\ \/ Finish(w)
       \/ /\ ~Registered(job[w].name) /\ Goto(w, "insert")
          /\ UNCHANGED <<job, granted, talker>>
    /\ UNCHANGED <<poolVars, sessionVars, historyVars, rows, cookie, requests>>
CheckBlind(w) ==
    /\ pc[w] = "check" /\ Goto(w, "insert")
    /\ UNCHANGED <<poolVars, sessionVars, historyVars, job, granted, talker, rows, cookie, requests>>

Check(w) ==
    /\ pc[w] = "check"
    /\ \/ Goto(w, "return") /\ UNCHANGED raced     \* the name is taken, or it throws
       \/ /\ ~Registered(job[w].name) /\ Goto(w, "insert")
          /\ raced' = raced \cup (IF Inserting(job[w].name, w) THEN {job[w].name} ELSE {})
    /\ UNCHANGED <<poolVars, sessionVars, job, granted, talker, rows, cookie, requests,
                   lone, given, gone>>

(* An INSERT that throws may have been carried out. *)
Insert(w) ==
    /\ pc[w] = "insert" /\ Goto(w, "return")
    /\ rows' \in {rows, Append(rows, <<job[w].name, job[w].password>>)}
    /\ UNCHANGED <<poolVars, sessionVars, historyVars, job, granted, talker, cookie, requests>>

Return(w) ==
    /\ pc[w] = "return"
    /\ PutBack(w)
    /\ IF granted[w]
       THEN Goto(w, "key") /\ UNCHANGED <<job, granted, talker>>
       ELSE Finish(w)
    /\ UNCHANGED <<sessionVars, historyVars, rows, cookie, requests>>

-----------------------------------------------------------------------------
(* handle_login: get_ssid, and the cookie of the answer. *)
Getting == {v \in Workers : pc[v] \in {"store", "number"}}

Key(w) ==
    /\ pc[w] = "key"
    /\ ReadKey(w)
    /\ lone' = [v \in Workers |-> IF v = w THEN Getting = {}
                                  ELSE lone[v] /\ v \notin Getting]
    /\ Goto(w, "store")
    /\ UNCHANGED <<poolVars, job, granted, talker, rows, cookie, requests, given, gone, raced>>

Store(w) ==
    /\ pc[w] = "store"
    /\ StoreInterpreter(w)
    /\ Goto(w, "number")
    /\ UNCHANGED <<poolVars, historyVars, job, granted, talker, rows, cookie, requests>>

GivenWith(s, w) ==
    [t \in DOMAIN given \cup {s} |->
        IF t = s THEN [client |-> job[w].client, lone |-> lone[w]] ELSE given[t]]

(* A faulty Number: the answer has the number that was the key. *)
NumberOfKey(w) ==
    /\ pc[w] = "number"
    /\ TakeNumber(w)
    /\ cookie' = [cookie EXCEPT ![job[w].client] = key[w]]
    /\ given' = GivenWith(key[w], w)
    /\ Finish(w)
    /\ lone' = [lone EXCEPT ![w] = TRUE]
    /\ UNCHANGED <<poolVars, rows, requests, gone, raced>>

Number(w) ==
    /\ pc[w] = "number"
    /\ TakeNumber(w)
    /\ cookie' = [cookie EXCEPT ![job[w].client] = nowSsid]
    /\ given' = GivenWith(nowSsid, w)
    /\ Finish(w)
    /\ lone' = [lone EXCEPT ![w] = TRUE]
    /\ UNCHANGED <<poolVars, rows, requests, gone, raced>>

-----------------------------------------------------------------------------
(* handle_chat and default_handler.  A page does no more than look whether there
   is an interpreter, a chat without one is told to log in, and one without a
   message throws. *)
Lookup(w) ==
    /\ pc[w] = "lookup"
    /\ LET i == GetInterpreter(Ssid(job[w].session)) IN
       \/ Finish(w)
       \/ /\ i # None /\ talker' = [talker EXCEPT ![w] = i]
          /\ Goto(w, "talk") /\ UNCHANGED <<job, granted>>
    /\ UNCHANGED <<poolVars, sessionVars, historyVars, rows, cookie, requests>>

(* The interpreter is done with the message: it waits for the next one or has
   thrown, or its dialogue is over. *)
Talk(w) ==
    /\ pc[w] = "talk"
    /\ \/ Finish(w)
       \/ /\ talker' = [talker EXCEPT ![w] = None] /\ Goto(w, "remove")
          /\ UNCHANGED <<job, granted>>
    /\ UNCHANGED <<poolVars, sessionVars, historyVars, rows, cookie, requests>>

(* A faulty Remove: the session of the last login is removed. *)
RemoveLast(w) ==
    /\ pc[w] = "remove"
    /\ RemoveSsid(nowSsid - 1)
    /\ gone' = gone \cup {job[w].session}
    /\ Finish(w)
    /\ UNCHANGED <<poolVars, rows, cookie, requests, lone, given, raced>>

Remove(w) ==
    /\ pc[w] = "remove"
    /\ RemoveSsid(job[w].session)
    /\ gone' = gone \cup {job[w].session}
    /\ Finish(w)
    /\ UNCHANGED <<poolVars, rows, cookie, requests, lone, given, raced>>

-----------------------------------------------------------------------------
Work(w) ==
    \/ Connect(w) \/ Select(w) \/ Check(w) \/ Insert(w) \/ Return(w)
    \/ Key(w) \/ Store(w) \/ Number(w)
    \/ Lookup(w) \/ Talk(w) \/ Remove(w)

(* Nobody asks for anything any more; the workers may have more to do. *)
Quiet == requests = MaxRequests /\ UNCHANGED vars

Next ==
    \/ \E w \in Workers : Work(w) \/ \E c \in Clients : Begin(w, c)
    \/ Quiet

(* The operating system runs every worker, and the database answers. *)
Spec == Init /\ [][Next]_vars /\ \A w \in Workers : WF_vars(Work(w))

-----------------------------------------------------------------------------
(* The types of the variables, what a worker at a point of its handler is
   handling, and who has a connection: a worker between get_connection and the
   end of login or reg. *)
AtDatabase == {"select", "check", "insert", "return"}
AtLogin    == {"connect", "key", "store", "number"} \cup AtDatabase
AtVisit    == {"lookup", "talk", "remove"}

JobOK(w) ==
    \/ pc[w] = "idle" /\ job[w] = NoJob
    \/ /\ pc[w] \in AtLogin
       /\ \E c \in Clients, k \in {"login", "register"}, n \in Names, p \in Passwords :
            job[w] = Account(c, k, n, p)
    \/ /\ pc[w] \in AtVisit
       /\ \E c \in Clients, s \in DOMAIN given \cup {None} : job[w] = Visit(c, s)

Jobs == [client : Clients \cup {None}, kind : {"login", "register", "visit"},
         name : Names \cup {None}, password : Passwords \cup {None}, session : Nat \cup {None}]
HandlersTypeOK ==
    /\ pc \in [Workers -> {"idle"} \cup AtLogin \cup AtVisit]
    /\ job \in [Workers -> Jobs]
    /\ granted \in [Workers -> BOOLEAN]
    /\ talker \in [Workers -> 1..made \cup {None}]
    /\ rows \in Seq(Names \X Passwords)
    /\ cookie \in [Clients -> DOMAIN given \cup {None}]
    /\ requests \in 0..MaxRequests
HistoryTypeOK ==
    /\ lone \in [Workers -> BOOLEAN]
    /\ DOMAIN given \subseteq 0..nowSsid - 1
    /\ \A s \in DOMAIN given : given[s] \in [client : Clients, lone : BOOLEAN]
    /\ gone \subseteq Nat /\ raced \subseteq Names

TypeOK ==
    /\ PoolTypeOK /\ SessionsTypeOK /\ HandlersTypeOK /\ HistoryTypeOK
    /\ \A w \in Workers : JobOK(w)
    /\ \A w \in Workers : held[w] # None <=> pc[w] \in AtDatabase
    /\ \A w \in asleep : pc[w] = "connect"

(* db_connectionpool.cpp:36: a request is done in the end, whether or not there
   was a connection for it and its statements threw. *)
Served == \A w \in Workers : pc[w] # "idle" ~> pc[w] = "idle"

(* login_handler.cpp:174: nothing makes a name unique but the SELECT before the
   INSERT.  A name has two rows only if two registrations of it overlapped. *)
NamesUnique ==
    \A i, j \in DOMAIN rows :
        i # j /\ rows[i][1] = rows[j][1] => rows[i][1] \in raced

(* session.cpp:19: a login whose get_ssid overlaps no other gives a session that
   has an interpreter until its dialogue ends; nobody else's login, chat or end
   takes it away. *)
LoneLoginWorks ==
    \A s \in DOMAIN given :
        given[s].lone /\ s \notin gone => GetInterpreter(s) # None

(* session.cpp:30: the interpreter has no lock.  Two workers are in one
   interpreter only with two requests of the same client, who has not waited
   for the answer to the first. *)
OwnDialogue ==
    \A v, w \in Workers :
        pc[v] = "talk" /\ pc[w] = "talk" /\ talker[v] = talker[w]
            => job[v].client = job[w].client
=============================================================================
