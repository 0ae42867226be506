--------------------------- MODULE ConnectionPool ---------------------------
(***************************************************************************)
(* DBConnectionPool (src/src/lib/db_connectionpool.cpp): a queue of        *)
(* database connections that workers share.  What a worker gets is a       *)
(* unique_ptr whose deleter puts the connection back.                      *)
(***************************************************************************)
EXTENDS Threads, Sequences, FiniteSets

CONSTANT Connections

ASSUME ConnectionsAssumption == None \notin Connections /\ IsFiniteSet(Connections)

VARIABLES
    free,       \* m_connections
    held,       \* worker -> the connection of its unique_ptr
    asleep,     \* workers waiting on m_cond
    woken       \* those that notify_one has chosen and that have not run since
poolVars == <<free, held, asleep, woken>>

(* The constructor connects one after the other. *)
PoolInit ==
    /\ free \in {q \in [1..Cardinality(Connections) -> Connections] :
                    \A i, j \in DOMAIN q : q[i] = q[j] => i = j}
    /\ held = [w \in Workers |-> None]
    /\ asleep = {} /\ woken = {}

(* get_connection holds m_mutex from its test to its pop, and so does the wait
   from its test to its sleep. *)
Acquire(w) ==
    /\ w \notin asleep /\ free # <<>>
    /\ held' = [held EXCEPT ![w] = Head(free)]
    /\ free' = Tail(free)
    /\ woken' = woken \ {w}
    /\ UNCHANGED asleep

Wait(w) ==
    /\ w \notin asleep /\ free = <<>>
    /\ asleep' = asleep \cup {w}
    /\ woken' = woken \ {w}
    /\ UNCHANGED <<free, held>>

Notify ==
    IF asleep = {} THEN UNCHANGED <<asleep, woken>>
    ELSE \E v \in asleep : asleep' = asleep \ {v} /\ woken' = woken \cup {v}

(* Faulty deleters: one tells nobody, one puts in the connection that the
   unique_ptr keeps. *)
PutBackSilently(w) ==
    /\ free' = Append(free, held[w])
    /\ held' = [held EXCEPT ![w] = None]
    /\ UNCHANGED <<asleep, woken>>
PutBackKeeping(w) ==
    /\ free' = Append(free, held[w])
    /\ Notify
    /\ UNCHANGED held

(* The deleter. *)
PutBack(w) ==
    /\ free' = Append(free, held[w])
    /\ held' = [held EXCEPT ![w] = None]
    /\ Notify

-----------------------------------------------------------------------------
PoolTypeOK ==
    /\ free \in Seq(Connections)
    /\ held \in [Workers -> Connections \cup {None}]
    /\ asleep \subseteq Workers /\ woken \subseteq Workers

(* db_connectionpool.cpp:40: a connection is in the queue once or with one
   worker; none is lost and none is used by two. *)
Conserved ==
    /\ \A i, j \in DOMAIN free : free[i] = free[j] => i = j
    /\ \A v, w \in Workers : held[v] # None /\ held[v] = held[w] => v = w
    /\ \A w \in Workers, i \in DOMAIN free : held[w] # free[i]
    /\ \A c \in Connections :
        (\E i \in DOMAIN free : free[i] = c) \/ (\E w \in Workers : held[w] = c)

(* db_connectionpool.cpp:44: while workers sleep, for every connection in the
   queue somebody has been woken and is on its way to it. *)
NoLostWakeup == asleep # {} => Len(free) <= Cardinality(woken)
=============================================================================
