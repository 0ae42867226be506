---------------------------- MODULE ServiceProofs ----------------------------
(***************************************************************************)
(* Theorems about Service, for any number of workers, connections, clients *)
(* and requests.                                                           *)
(***************************************************************************)
EXTENDS Service, FiniteSetTheorems, SequenceTheorems, TLAPS

-----------------------------------------------------------------------------
(* TypeOK is not inductive: it needs that a worker in get_ssid has read a key
   and that one with an interpreter has a session. *)
Underway ==
    \A w \in Workers :
        /\ pc[w] \in {"store", "number"} => key[w] \in Nat
        /\ pc[w] \in {"talk", "remove"} => job[w].session \in Nat
Types == TypeOK /\ Underway

LEMMA TypesInit == Init => Types
<1> SUFFICES ASSUME Init PROVE Types
  OBVIOUS
<1> USE NoneAssumption DEF Init, PoolInit, SessionsInit
<1>1. PoolTypeOK
  <2> PICK q \in [1..Cardinality(Connections) -> Connections] : free = q
    OBVIOUS
  <2>1. Cardinality(Connections) \in Nat
    BY ConnectionsAssumption, FS_CardinalityType
  <2>2. free \in Seq(Connections)
    BY <2>1, SeqDef
  <2> QED
    BY <2>2 DEF PoolTypeOK
<1>2. SessionsTypeOK
  BY DEF SessionsTypeOK
<1>3. \A w \in Workers : JobOK(w)
  BY DEF JobOK
<1>4. rows \in Seq(Names \X Passwords)
  BY TablesAssumption
<1>5. job \in [Workers -> Jobs]
  BY DEF NoJob, Visit, Jobs
<1>6. HandlersTypeOK
  BY <1>4, <1>5, RequestsAssumption DEF HandlersTypeOK
<1>7. HistoryTypeOK
  BY DEF HistoryTypeOK
<1> QED
  BY <1>1, <1>2, <1>3, <1>6, <1>7 DEF Types, TypeOK, Underway, AtDatabase, AtLogin, AtVisit

LEMMA NoJobTyped == NoJob \in Jobs
BY DEF NoJob, Jobs, Visit

LEMMA LoginJob ==
  ASSUME Types, NEW w \in Workers, pc[w] \in AtLogin
  PROVE  job[w].client \in Clients /\ job[w].name \in Names /\ job[w].password \in Passwords
<1>1. JobOK(w)
  BY DEF Types, TypeOK
<1>2. pc[w] # "idle" /\ pc[w] \notin AtVisit
  BY DEF AtLogin, AtVisit, AtDatabase
<1>3. PICK c \in Clients, k \in {"login", "register"}, n \in Names, p \in Passwords :
        job[w] = Account(c, k, n, p)
  BY <1>1, <1>2 DEF JobOK
<1> QED
  BY <1>3 DEF Account

LEMMA TypesBegin ==
  ASSUME Types, NEW w \in Workers, NEW c \in Clients, Begin(w, c)
  PROVE  Types'
<1> USE NoneAssumption
        DEF Types, Begin, Goto, poolVars, sessionVars, historyVars
<1>1. /\ \A v \in Workers \ {w} : pc'[v] = pc[v] /\ job'[v] = job[v]
      /\ pc'[w] \in {"idle"} \cup AtLogin \cup AtVisit
  BY DEF TypeOK, HandlersTypeOK, AtDatabase, AtLogin, AtVisit
<1>2. PoolTypeOK'
  BY DEF TypeOK, PoolTypeOK
<1>3. SessionsTypeOK'
  BY DEF TypeOK, Underway, SessionsTypeOK
<1>4. HandlersTypeOK'
  <2>1. pc' \in [Workers -> {"idle"} \cup AtLogin \cup AtVisit]
    BY <1>1 DEF TypeOK, HandlersTypeOK
  <2>0. cookie[c] \in Nat \cup {None}
    BY DEF TypeOK, HandlersTypeOK, HistoryTypeOK, SessionsTypeOK
  <2>2. \A n \in Names, q \in Passwords : \A k \in {"login", "register"} :
            Account(c, k, n, q) \in Jobs
    BY DEF Account, Jobs
  <2>3. Visit(c, cookie[c]) \in Jobs
    BY <2>0 DEF Visit, Jobs
  <2>4. job' \in [Workers -> Jobs]
    <3>1. CASE \E k \in {"login", "register"}, n \in Names, q \in Passwords :
                job' = [job EXCEPT ![w] = Account(c, k, n, q)]
      BY <2>2, <3>1 DEF TypeOK, HandlersTypeOK
    <3>2. CASE job' = [job EXCEPT ![w] = Visit(c, cookie[c])]
      BY <2>3, <3>2 DEF TypeOK, HandlersTypeOK
    <3> QED
      BY <3>1, <3>2
  <2> QED
    BY <2>1, <2>4, RequestsAssumption DEF TypeOK, HandlersTypeOK
<1>5. HistoryTypeOK'
  BY DEF TypeOK, HistoryTypeOK
<1>6. \A v \in Workers : JobOK(v)'
  <2>1. JobOK(w)'
    BY DEF TypeOK, HandlersTypeOK, JobOK, AtDatabase, AtLogin, AtVisit
  <2> QED
    BY <1>1, <2>1 DEF TypeOK, JobOK
<1>7. \A v \in Workers : held'[v] # None <=> pc'[v] \in AtDatabase
  BY <1>1 DEF TypeOK, HandlersTypeOK, AtDatabase
<1>8. \A v \in asleep' : pc'[v] = "connect"
  BY <1>1 DEF TypeOK, HandlersTypeOK, PoolTypeOK
<1>9. Underway'
  BY <1>1 DEF TypeOK, HandlersTypeOK, SessionsTypeOK, Underway
<1> QED
  BY <1>2, <1>3, <1>4, <1>5, <1>6, <1>7, <1>8, <1>9 DEF TypeOK

LEMMA TypesConnect ==
  ASSUME Types, NEW w \in Workers, Connect(w)
  PROVE  Types'
<1> USE NoneAssumption
        DEF Types, Connect, Acquire, Wait, Goto, poolVars, sessionVars, historyVars
<1>1. /\ \A v \in Workers \ {w} : pc'[v] = pc[v] /\ job'[v] = job[v]
      /\ pc'[w] \in {"idle"} \cup AtLogin \cup AtVisit
  BY DEF TypeOK, HandlersTypeOK, AtDatabase, AtLogin, AtVisit
<1>2. PoolTypeOK'
  BY DEF TypeOK, PoolTypeOK
<1>3. SessionsTypeOK'
  BY DEF TypeOK, Underway, SessionsTypeOK
<1>4. HandlersTypeOK'
  <2>1. pc' \in [Workers -> {"idle"} \cup AtLogin \cup AtVisit]
    BY <1>1 DEF TypeOK, HandlersTypeOK
  <2>2. job' \in [Workers -> Jobs]
    BY NoJobTyped DEF TypeOK, HandlersTypeOK
  <2> QED
    BY <2>1, <2>2 DEF TypeOK, HandlersTypeOK
<1>5. HistoryTypeOK'
  BY DEF TypeOK, HistoryTypeOK
<1>6. \A v \in Workers : JobOK(v)'
  <2>1. JobOK(w)'
    BY DEF TypeOK, HandlersTypeOK, JobOK, AtDatabase, AtLogin, AtVisit
  <2> QED
    BY <1>1, <2>1 DEF TypeOK, JobOK
<1>7. \A v \in Workers : held'[v] # None <=> pc'[v] \in AtDatabase
  BY <1>1, ConnectionsAssumption DEF TypeOK, HandlersTypeOK, PoolTypeOK, AtDatabase
<1>8. \A v \in asleep' : pc'[v] = "connect"
  BY <1>1 DEF TypeOK, HandlersTypeOK, PoolTypeOK
<1>9. Underway'
  BY <1>1 DEF TypeOK, HandlersTypeOK, SessionsTypeOK, Underway
<1> QED
  BY <1>2, <1>3, <1>4, <1>5, <1>6, <1>7, <1>8, <1>9 DEF TypeOK

LEMMA TypesSelect ==
  ASSUME Types, NEW w \in Workers, Select(w)
  PROVE  Types'
<1> USE NoneAssumption
        DEF Types, Select, Goto, poolVars, sessionVars, historyVars
<1>1. /\ \A v \in Workers \ {w} : pc'[v] = pc[v] /\ job'[v] = job[v]
      /\ pc'[w] \in {"idle"} \cup AtLogin \cup AtVisit
  BY DEF TypeOK, HandlersTypeOK, AtDatabase, AtLogin, AtVisit
<1>2. PoolTypeOK'
  BY DEF TypeOK, PoolTypeOK
<1>3. SessionsTypeOK'
  BY DEF TypeOK, Underway, SessionsTypeOK
<1>4. HandlersTypeOK'
  <2>1. pc' \in [Workers -> {"idle"} \cup AtLogin \cup AtVisit]
    BY <1>1 DEF TypeOK, HandlersTypeOK
  <2>2. job' \in [Workers -> Jobs]
    BY NoJobTyped DEF TypeOK, HandlersTypeOK
  <2>3. granted' \in [Workers -> BOOLEAN]
    BY DEF TypeOK, HandlersTypeOK, Matches
  <2> QED
    BY <2>1, <2>2, <2>3 DEF TypeOK, HandlersTypeOK
<1>5. HistoryTypeOK'
  BY DEF TypeOK, HistoryTypeOK
<1>6. \A v \in Workers : JobOK(v)'
  <2>1. JobOK(w)'
    BY DEF TypeOK, HandlersTypeOK, JobOK, AtDatabase, AtLogin, AtVisit
  <2> QED
    BY <1>1, <2>1 DEF TypeOK, JobOK
<1>7. \A v \in Workers : held'[v] # None <=> pc'[v] \in AtDatabase
  BY <1>1 DEF TypeOK, HandlersTypeOK, AtDatabase
<1>8. \A v \in asleep' : pc'[v] = "connect"
  BY <1>1 DEF TypeOK, HandlersTypeOK, PoolTypeOK
<1>9. Underway'
  BY <1>1 DEF TypeOK, HandlersTypeOK, SessionsTypeOK, Underway
<1> QED
  BY <1>2, <1>3, <1>4, <1>5, <1>6, <1>7, <1>8, <1>9 DEF TypeOK

LEMMA TypesCheck ==
  ASSUME Types, NEW w \in Workers, Check(w)
  PROVE  Types'
<1> USE NoneAssumption
        DEF Types, Check, Goto, poolVars, sessionVars, historyVars
<1>1. /\ \A v \in Workers \ {w} : pc'[v] = pc[v] /\ job'[v] = job[v]
      /\ pc'[w] \in {"idle"} \cup AtLogin \cup AtVisit
  BY DEF TypeOK, HandlersTypeOK, AtDatabase, AtLogin, AtVisit
<1>2. PoolTypeOK'
  BY DEF TypeOK, PoolTypeOK
<1>3. SessionsTypeOK'
  BY DEF TypeOK, Underway, SessionsTypeOK
<1>4. HandlersTypeOK'
  <2>1. pc' \in [Workers -> {"idle"} \cup AtLogin \cup AtVisit]
    BY <1>1 DEF TypeOK, HandlersTypeOK
  <2>2. job' \in [Workers -> Jobs]
    BY NoJobTyped DEF TypeOK, HandlersTypeOK
  <2> QED
    BY <2>1, <2>2 DEF TypeOK, HandlersTypeOK
<1>5. HistoryTypeOK'
  <2>1. job[w].name \in Names
    BY LoginJob DEF AtLogin, AtDatabase
  <2> QED
    BY <2>1 DEF TypeOK, HistoryTypeOK
<1>6. \A v \in Workers : JobOK(v)'
  <2>1. JobOK(w)'
    BY DEF TypeOK, HandlersTypeOK, JobOK, AtDatabase, AtLogin, AtVisit
  <2> QED
    BY <1>1, <2>1 DEF TypeOK, JobOK
<1>7. \A v \in Workers : held'[v] # None <=> pc'[v] \in AtDatabase
  BY <1>1 DEF TypeOK, HandlersTypeOK, AtDatabase
<1>8. \A v \in asleep' : pc'[v] = "connect"
  BY <1>1 DEF TypeOK, HandlersTypeOK, PoolTypeOK
<1>9. Underway'
  BY <1>1 DEF TypeOK, HandlersTypeOK, SessionsTypeOK, Underway
<1> QED
  BY <1>2, <1>3, <1>4, <1>5, <1>6, <1>7, <1>8, <1>9 DEF TypeOK

LEMMA TypesInsert ==
  ASSUME Types, NEW w \in Workers, Insert(w)
  PROVE  Types'
<1> USE NoneAssumption
        DEF Types, Insert, Goto, poolVars, sessionVars, historyVars
<1>1. /\ \A v \in Workers \ {w} : pc'[v] = pc[v] /\ job'[v] = job[v]
      /\ pc'[w] \in {"idle"} \cup AtLogin \cup AtVisit
  BY DEF TypeOK, HandlersTypeOK, AtDatabase, AtLogin, AtVisit
<1>2. PoolTypeOK'
  BY DEF TypeOK, PoolTypeOK
<1>3. SessionsTypeOK'
  BY DEF TypeOK, Underway, SessionsTypeOK
<1>4. HandlersTypeOK'
  <2>1. pc' \in [Workers -> {"idle"} \cup AtLogin \cup AtVisit]
    BY <1>1 DEF TypeOK, HandlersTypeOK
  <2>2. job' \in [Workers -> Jobs]
    BY NoJobTyped DEF TypeOK, HandlersTypeOK
  <2>3. job[w].name \in Names /\ job[w].password \in Passwords
    BY LoginJob DEF AtLogin, AtDatabase
  <2> DEFINE row == <<job[w].name, job[w].password>>
  <2>4. row \in Names \X Passwords
    BY <2>3
  <2>5. rows' \in Seq(Names \X Passwords)
    <3>1. rows' = rows \/ rows' = Append(rows, row)
      OBVIOUS
    <3>2. rows \in Seq(Names \X Passwords)
      BY DEF TypeOK, HandlersTypeOK
    <3> HIDE DEF Insert, Types, row
    <3> QED
      BY <2>4, <3>1, <3>2, AppendProperties
  <2>6. granted' \in [Workers -> BOOLEAN] /\ talker' \in [Workers -> 1..made' \cup {None}]
    BY DEF TypeOK, HandlersTypeOK
  <2> QED
    BY <2>1, <2>2, <2>5, <2>6 DEF TypeOK, HandlersTypeOK
<1>5. HistoryTypeOK'
  BY DEF TypeOK, HistoryTypeOK
<1>6. \A v \in Workers : JobOK(v)'
  <2>1. JobOK(w)'
    BY DEF TypeOK, HandlersTypeOK, JobOK, AtDatabase, AtLogin, AtVisit
  <2> QED
    BY <1>1, <2>1 DEF TypeOK, JobOK
<1>7. \A v \in Workers : held'[v] # None <=> pc'[v] \in AtDatabase
  BY <1>1 DEF TypeOK, HandlersTypeOK, AtDatabase
<1>8. \A v \in asleep' : pc'[v] = "connect"
  BY <1>1 DEF TypeOK, HandlersTypeOK, PoolTypeOK
<1>9. Underway'
  BY <1>1 DEF TypeOK, HandlersTypeOK, SessionsTypeOK, Underway
<1> QED
  BY <1>2, <1>3, <1>4, <1>5, <1>6, <1>7, <1>8, <1>9 DEF TypeOK

LEMMA TypesReturn ==
  ASSUME Types, NEW w \in Workers, Return(w)
  PROVE  Types'
<1> USE NoneAssumption
        DEF Types, Return, PutBack, Notify, Finish, Goto, poolVars, sessionVars, historyVars
<1>1. /\ \A v \in Workers \ {w} : pc'[v] = pc[v] /\ job'[v] = job[v]
      /\ pc'[w] \in {"idle"} \cup AtLogin \cup AtVisit
  BY DEF TypeOK, HandlersTypeOK, AtDatabase, AtLogin, AtVisit
<1>2. PoolTypeOK'
  <2>1. held[w] \in Connections
    BY DEF TypeOK, PoolTypeOK, AtDatabase
  <2> QED
    BY <2>1 DEF TypeOK, PoolTypeOK
<1>3. SessionsTypeOK'
  BY DEF TypeOK, Underway, SessionsTypeOK
<1>4. HandlersTypeOK'
  <2>1. pc' \in [Workers -> {"idle"} \cup AtLogin \cup AtVisit]
    BY <1>1 DEF TypeOK, HandlersTypeOK
  <2>2. job' \in [Workers -> Jobs]
    BY NoJobTyped DEF TypeOK, HandlersTypeOK
  <2>3. granted' \in [Workers -> BOOLEAN]
    <3>1. CASE granted' = granted
      BY <3>1 DEF TypeOK, HandlersTypeOK
    <3>2. CASE granted' = [granted EXCEPT ![w] = FALSE]
      BY <3>2 DEF TypeOK, HandlersTypeOK
    <3> QED
      BY <3>1, <3>2
  <2>4. talker' \in [Workers -> 1..made \cup {None}]
    BY DEF TypeOK, HandlersTypeOK
  <2> QED
    BY <2>1, <2>2, <2>3, <2>4 DEF TypeOK, HandlersTypeOK
<1>5. HistoryTypeOK'
  BY DEF TypeOK, HistoryTypeOK
<1>6. \A v \in Workers : JobOK(v)'
  <2>1. JobOK(w)'
    BY DEF TypeOK, HandlersTypeOK, JobOK, AtDatabase, AtLogin, AtVisit
  <2> QED
    BY <1>1, <2>1 DEF TypeOK, JobOK
<1>7. \A v \in Workers : held'[v] # None <=> pc'[v] \in AtDatabase
  BY <1>1 DEF TypeOK, HandlersTypeOK, PoolTypeOK, AtDatabase
<1>8. \A v \in asleep' : pc'[v] = "connect"
  BY <1>1 DEF TypeOK, HandlersTypeOK, PoolTypeOK
<1>9. Underway'
  BY <1>1 DEF TypeOK, HandlersTypeOK, SessionsTypeOK, Underway
<1> QED
  BY <1>2, <1>3, <1>4, <1>5, <1>6, <1>7, <1>8, <1>9 DEF TypeOK

LEMMA TypesKey ==
  ASSUME Types, NEW w \in Workers, Key(w)
  PROVE  Types'
<1> USE NoneAssumption
        DEF Types, Key, ReadKey, Getting, Goto, poolVars, sessionVars, historyVars
<1>1. /\ \A v \in Workers \ {w} : pc'[v] = pc[v] /\ job'[v] = job[v]
      /\ pc'[w] \in {"idle"} \cup AtLogin \cup AtVisit
  BY DEF TypeOK, HandlersTypeOK, AtDatabase, AtLogin, AtVisit
<1>2. PoolTypeOK'
  BY DEF TypeOK, PoolTypeOK
<1>3. SessionsTypeOK'
  BY DEF TypeOK, Underway, SessionsTypeOK
<1>4. HandlersTypeOK'
  <2>1. pc' \in [Workers -> {"idle"} \cup AtLogin \cup AtVisit]
    BY <1>1 DEF TypeOK, HandlersTypeOK
  <2>2. job' \in [Workers -> Jobs]
    BY NoJobTyped DEF TypeOK, HandlersTypeOK
  <2> QED
    BY <2>1, <2>2 DEF TypeOK, HandlersTypeOK
<1>5. HistoryTypeOK'
  BY DEF TypeOK, HistoryTypeOK
<1>6. \A v \in Workers : JobOK(v)'
  <2>1. JobOK(w)'
    BY DEF TypeOK, HandlersTypeOK, JobOK, AtDatabase, AtLogin, AtVisit
  <2> QED
    BY <1>1, <2>1 DEF TypeOK, JobOK
<1>7. \A v \in Workers : held'[v] # None <=> pc'[v] \in AtDatabase
  BY <1>1 DEF TypeOK, HandlersTypeOK, AtDatabase
<1>8. \A v \in asleep' : pc'[v] = "connect"
  BY <1>1 DEF TypeOK, HandlersTypeOK, PoolTypeOK
<1>9. Underway'
  BY <1>1 DEF TypeOK, HandlersTypeOK, SessionsTypeOK, Underway
<1> QED
  BY <1>2, <1>3, <1>4, <1>5, <1>6, <1>7, <1>8, <1>9 DEF TypeOK

LEMMA TypesStore ==
  ASSUME Types, NEW w \in Workers, Store(w)
  PROVE  Types'
<1> USE NoneAssumption
        DEF Types, Store, StoreInterpreter, TableWith, Goto, poolVars, sessionVars, historyVars
<1>1. /\ \A v \in Workers \ {w} : pc'[v] = pc[v] /\ job'[v] = job[v]
      /\ pc'[w] \in {"idle"} \cup AtLogin \cup AtVisit
  BY DEF TypeOK, HandlersTypeOK, AtDatabase, AtLogin, AtVisit
<1>2. PoolTypeOK'
  BY DEF TypeOK, PoolTypeOK
<1>3. SessionsTypeOK'
  BY DEF TypeOK, Underway, SessionsTypeOK
<1>4. HandlersTypeOK'
  <2>1. pc' \in [Workers -> {"idle"} \cup AtLogin \cup AtVisit]
    BY <1>1 DEF TypeOK, HandlersTypeOK
  <2>2. job' \in [Workers -> Jobs]
    BY NoJobTyped DEF TypeOK, HandlersTypeOK
  <2>3. made' \in Nat /\ made < made'
    BY DEF TypeOK, SessionsTypeOK
  <2>4. talker' \in [Workers -> 1..made' \cup {None}]
    BY <2>3 DEF TypeOK, HandlersTypeOK, SessionsTypeOK
  <2> QED
    BY <2>1, <2>2, <2>4 DEF TypeOK, HandlersTypeOK
<1>5. HistoryTypeOK'
  BY DEF TypeOK, HistoryTypeOK
<1>6. \A v \in Workers : JobOK(v)'
  <2>1. job[w] = job'[w] /\ pc[w] = "store" /\ pc'[w] = "number" /\ given' = given
    BY DEF TypeOK, HandlersTypeOK
  <2>2. JobOK(w)'
    BY <2>1 DEF TypeOK, JobOK, AtDatabase, AtLogin, AtVisit
  <2> QED
    BY <1>1, <2>1, <2>2 DEF TypeOK, JobOK
<1>7. \A v \in Workers : held'[v] # None <=> pc'[v] \in AtDatabase
  BY <1>1 DEF TypeOK, HandlersTypeOK, AtDatabase
<1>8. \A v \in asleep' : pc'[v] = "connect"
  BY <1>1 DEF TypeOK, HandlersTypeOK, PoolTypeOK
<1>9. Underway'
  BY <1>1 DEF TypeOK, HandlersTypeOK, SessionsTypeOK, Underway
<1> QED
  BY <1>2, <1>3, <1>4, <1>5, <1>6, <1>7, <1>8, <1>9 DEF TypeOK

LEMMA TypesNumber ==
  ASSUME Types, NEW w \in Workers, Number(w)
  PROVE  Types'
<1> USE NoneAssumption
        DEF Types, Number, TakeNumber, GivenWith, Finish, Goto, poolVars, sessionVars, historyVars
<1>1. /\ \A v \in Workers \ {w} : pc'[v] = pc[v] /\ job'[v] = job[v]
      /\ pc'[w] \in {"idle"} \cup AtLogin \cup AtVisit
  BY DEF TypeOK, HandlersTypeOK, AtDatabase, AtLogin, AtVisit
<1>2. PoolTypeOK'
  BY DEF TypeOK, PoolTypeOK
<1>3. SessionsTypeOK'
  BY DEF TypeOK, Underway, SessionsTypeOK
<1>4. HandlersTypeOK'
  <2>1. pc' \in [Workers -> {"idle"} \cup AtLogin \cup AtVisit]
    BY <1>1 DEF TypeOK, HandlersTypeOK
  <2>2. job' \in [Workers -> Jobs]
    BY NoJobTyped DEF TypeOK, HandlersTypeOK
  <2>3. cookie' \in [Clients -> DOMAIN given' \cup {None}]
    BY DEF TypeOK, HandlersTypeOK
  <2> QED
    BY <2>1, <2>2, <2>3 DEF TypeOK, HandlersTypeOK
<1>5. HistoryTypeOK'
  <2>1. job[w].client \in Clients /\ lone[w] \in BOOLEAN
    BY LoginJob DEF TypeOK, HistoryTypeOK, AtLogin, AtDatabase
  <2>2. DOMAIN given' \subseteq 0..nowSsid' - 1
    BY DEF TypeOK, HistoryTypeOK, SessionsTypeOK
  <2>3. \A s \in DOMAIN given' : given'[s] \in [client : Clients, lone : BOOLEAN]
    BY <2>1 DEF TypeOK, HistoryTypeOK
  <2> QED
    BY <2>2, <2>3 DEF TypeOK, HistoryTypeOK
<1>6. \A v \in Workers : JobOK(v)'
  <2>1. JobOK(w)'
    BY DEF TypeOK, HandlersTypeOK, JobOK, AtDatabase, AtLogin, AtVisit
  <2> QED
    BY <1>1, <2>1 DEF TypeOK, JobOK
<1>7. \A v \in Workers : held'[v] # None <=> pc'[v] \in AtDatabase
  BY <1>1 DEF TypeOK, HandlersTypeOK, AtDatabase
<1>8. \A v \in asleep' : pc'[v] = "connect"
  BY <1>1 DEF TypeOK, HandlersTypeOK, PoolTypeOK
<1>9. Underway'
  BY <1>1 DEF TypeOK, HandlersTypeOK, SessionsTypeOK, Underway
<1> QED
  BY <1>2, <1>3, <1>4, <1>5, <1>6, <1>7, <1>8, <1>9 DEF TypeOK

LEMMA TypesLookup ==
  ASSUME Types, NEW w \in Workers, Lookup(w)
  PROVE  Types'
<1> USE NoneAssumption
        DEF Types, Lookup, GetInterpreter, Ssid, Finish, Goto, poolVars, sessionVars, historyVars
<1>1. /\ \A v \in Workers \ {w} : pc'[v] = pc[v] /\ job'[v] = job[v]
      /\ pc'[w] \in {"idle"} \cup AtLogin \cup AtVisit
  BY DEF TypeOK, HandlersTypeOK, AtDatabase, AtLogin, AtVisit
<1>2. PoolTypeOK'
  BY DEF TypeOK, PoolTypeOK
<1>3. SessionsTypeOK'
  BY DEF TypeOK, Underway, SessionsTypeOK
<1>4. HandlersTypeOK'
  <2>1. pc' \in [Workers -> {"idle"} \cup AtLogin \cup AtVisit]
    BY <1>1 DEF TypeOK, HandlersTypeOK
  <2>2. job' \in [Workers -> Jobs]
    BY NoJobTyped DEF TypeOK, HandlersTypeOK
  <2>3. talker' \in [Workers -> 1..made \cup {None}]
    BY DEF TypeOK, HandlersTypeOK, SessionsTypeOK
  <2> QED
    BY <2>1, <2>2, <2>3 DEF TypeOK, HandlersTypeOK
<1>5. HistoryTypeOK'
  BY DEF TypeOK, HistoryTypeOK
<1>6. \A v \in Workers : JobOK(v)'
  <2>1. JobOK(w)'
    BY DEF TypeOK, HandlersTypeOK, JobOK, AtDatabase, AtLogin, AtVisit
  <2> QED
    BY <1>1, <2>1 DEF TypeOK, JobOK
<1>7. \A v \in Workers : held'[v] # None <=> pc'[v] \in AtDatabase
  BY <1>1 DEF TypeOK, HandlersTypeOK, AtDatabase
<1>8. \A v \in asleep' : pc'[v] = "connect"
  BY <1>1 DEF TypeOK, HandlersTypeOK, PoolTypeOK
<1>9. Underway'
  BY <1>1 DEF TypeOK, HandlersTypeOK, SessionsTypeOK, Underway
<1> QED
  BY <1>2, <1>3, <1>4, <1>5, <1>6, <1>7, <1>8, <1>9 DEF TypeOK

LEMMA TypesTalk ==
  ASSUME Types, NEW w \in Workers, Talk(w)
  PROVE  Types'
<1> USE NoneAssumption
        DEF Types, Talk, Finish, Goto, poolVars, sessionVars, historyVars
<1>1. /\ \A v \in Workers \ {w} : pc'[v] = pc[v] /\ job'[v] = job[v]
      /\ pc'[w] \in {"idle"} \cup AtLogin \cup AtVisit
  BY DEF TypeOK, HandlersTypeOK, AtDatabase, AtLogin, AtVisit
<1>2. PoolTypeOK'
  BY DEF TypeOK, PoolTypeOK
<1>3. SessionsTypeOK'
  BY DEF TypeOK, Underway, SessionsTypeOK
<1>4. HandlersTypeOK'
  <2>1. pc' \in [Workers -> {"idle"} \cup AtLogin \cup AtVisit]
    BY <1>1 DEF TypeOK, HandlersTypeOK
  <2>2. job' \in [Workers -> Jobs]
    BY NoJobTyped DEF TypeOK, HandlersTypeOK
  <2> QED
    BY <2>1, <2>2 DEF TypeOK, HandlersTypeOK
<1>5. HistoryTypeOK'
  BY DEF TypeOK, HistoryTypeOK
<1>6. \A v \in Workers : JobOK(v)'
  <2>1. JobOK(w)'
    BY DEF TypeOK, HandlersTypeOK, JobOK, AtDatabase, AtLogin, AtVisit
  <2> QED
    BY <1>1, <2>1 DEF TypeOK, JobOK
<1>7. \A v \in Workers : held'[v] # None <=> pc'[v] \in AtDatabase
  BY <1>1 DEF TypeOK, HandlersTypeOK, AtDatabase
<1>8. \A v \in asleep' : pc'[v] = "connect"
  BY <1>1 DEF TypeOK, HandlersTypeOK, PoolTypeOK
<1>9. Underway'
  BY <1>1 DEF TypeOK, HandlersTypeOK, SessionsTypeOK, Underway
<1> QED
  BY <1>2, <1>3, <1>4, <1>5, <1>6, <1>7, <1>8, <1>9 DEF TypeOK

LEMMA TypesRemove ==
  ASSUME Types, NEW w \in Workers, Remove(w)
  PROVE  Types'
<1> USE NoneAssumption
        DEF Types, Remove, RemoveSsid, TableWith, Finish, Goto, poolVars, sessionVars, historyVars
<1>1. /\ \A v \in Workers \ {w} : pc'[v] = pc[v] /\ job'[v] = job[v]
      /\ pc'[w] \in {"idle"} \cup AtLogin \cup AtVisit
  BY DEF TypeOK, HandlersTypeOK, AtDatabase, AtLogin, AtVisit
<1>2. PoolTypeOK'
  BY DEF TypeOK, PoolTypeOK
<1>3. SessionsTypeOK'
  BY DEF TypeOK, Underway, SessionsTypeOK
<1>4. HandlersTypeOK'
  <2>1. pc' \in [Workers -> {"idle"} \cup AtLogin \cup AtVisit]
    BY <1>1 DEF TypeOK, HandlersTypeOK
  <2>2. job' \in [Workers -> Jobs]
    BY NoJobTyped DEF TypeOK, HandlersTypeOK
  <2> QED
    BY <2>1, <2>2 DEF TypeOK, HandlersTypeOK
<1>5. HistoryTypeOK'
  BY DEF TypeOK, HistoryTypeOK, Underway
<1>6. \A v \in Workers : JobOK(v)'
  <2>1. JobOK(w)'
    BY DEF TypeOK, HandlersTypeOK, JobOK, AtDatabase, AtLogin, AtVisit
  <2> QED
    BY <1>1, <2>1 DEF TypeOK, JobOK
<1>7. \A v \in Workers : held'[v] # None <=> pc'[v] \in AtDatabase
  BY <1>1 DEF TypeOK, HandlersTypeOK, AtDatabase
<1>8. \A v \in asleep' : pc'[v] = "connect"
  BY <1>1 DEF TypeOK, HandlersTypeOK, PoolTypeOK
<1>9. Underway'
  BY <1>1 DEF TypeOK, HandlersTypeOK, SessionsTypeOK, Underway
<1> QED
  BY <1>2, <1>3, <1>4, <1>5, <1>6, <1>7, <1>8, <1>9 DEF TypeOK

LEMMA TypesNext == Types /\ [Next]_vars => Types'
<1> SUFFICES ASSUME Types, [Next]_vars PROVE Types'
  OBVIOUS
<1>1. ASSUME NEW w \in Workers, Work(w) PROVE Types'
  BY <1>1, TypesConnect, TypesSelect, TypesCheck, TypesInsert, TypesReturn, TypesKey, TypesStore,
     TypesNumber, TypesLookup, TypesTalk, TypesRemove DEF Work
<1>2. ASSUME NEW w \in Workers, NEW c \in Clients, Begin(w, c) PROVE Types'
  BY <1>2, TypesBegin
<1>3. ASSUME UNCHANGED vars PROVE Types'
  BY <1>3 DEF vars, poolVars, sessionVars, handlerVars, historyVars, Types, TypeOK, PoolTypeOK,
     SessionsTypeOK, HandlersTypeOK, HistoryTypeOK, JobOK, Underway
<1> QED
  BY <1>1, <1>2, <1>3 DEF Next, Quiet

LEMMA TypesAlways == Spec => []Types
BY TypesInit, TypesNext, PTL DEF Spec

(* Every variable has its type, and exactly the workers between get_connection
   and the end of login or reg have a connection (db_connectionpool.cpp:32). *)
THEOREM TypeCorrect == Spec => []TypeOK
<1>1. Types => TypeOK
  BY DEF Types
<1> QED
  BY <1>1, TypesAlways, PTL

-----------------------------------------------------------------------------
(* What the steps of the handlers are to the pool. *)
LEMMA PoolSteps ==
  ASSUME [Next]_vars
  PROVE  \/ \E w \in Workers : (pc[w] = "connect" /\ (Acquire(w) \/ Wait(w))) \/ (pc[w] = "return" /\ PutBack(w))
         \/ UNCHANGED poolVars
<1>1. CASE UNCHANGED vars
  BY <1>1 DEF vars
<1>2. CASE \E w \in Workers, c \in Clients : Begin(w, c)
  BY <1>2 DEF Begin
<1>3. ASSUME NEW w \in Workers, Work(w)
      PROVE  (pc[w] = "connect" /\ (Acquire(w) \/ Wait(w))) \/ (pc[w] = "return" /\ PutBack(w)) \/ UNCHANGED poolVars
  BY <1>3 DEF Work, Connect, Select, Check, Insert, Return, Key, Store, Number, Lookup, Talk, Remove
<1> QED
  BY <1>1, <1>2, <1>3 DEF Next, Quiet

(* A worker that has been woken does not sleep: what counts for NoLostWakeup is
   that Notify adds to the woken. *)
Wakeups == IsFiniteSet(woken) /\ asleep \cap woken = {} /\ NoLostWakeup

LEMMA WakeupsNext == Types /\ Wakeups /\ [Next]_vars => Wakeups'
<1> SUFFICES ASSUME Types, Wakeups, [Next]_vars PROVE Wakeups'
  OBVIOUS
<1>0. /\ free \in Seq(Connections) /\ IsFiniteSet(woken) /\ asleep \cap woken = {}
      /\ Len(free) \in Nat /\ Cardinality(woken) \in Nat
  BY FS_CardinalityType DEF Types, TypeOK, PoolTypeOK, Wakeups
<1>1. ASSUME NEW w \in Workers, Acquire(w) PROVE Wakeups'
  <2>1. /\ IsFiniteSet(woken \ {w})
        /\ Cardinality(woken \ {w}) >= Cardinality(woken) - 1
    <3>1. Cardinality(woken \ {w}) = IF w \in woken THEN Cardinality(woken) - 1
                                                     ELSE Cardinality(woken)
      BY <1>0, FS_RemoveElement, Zenon
    <3> QED
      BY <1>0, <3>1, FS_RemoveElement
  <2>2. Len(Tail(free)) = Len(free) - 1
    BY <1>0, <1>1, HeadTailProperties DEF Acquire
  <2>3. asleep # {} => Len(free) <= Cardinality(woken)
    BY DEF Wakeups, NoLostWakeup
  <2>4. Cardinality(woken \ {w}) \in Nat
    BY <2>1, FS_CardinalityType
  <2> QED
    BY <1>0, <1>1, <2>1, <2>2, <2>3, <2>4 DEF Acquire, Wakeups, NoLostWakeup
<1>2. ASSUME NEW w \in Workers, Wait(w) PROVE Wakeups'
  <2>1. IsFiniteSet(woken \ {w}) /\ Cardinality(woken \ {w}) \in Nat
    BY <1>0, FS_RemoveElement, FS_CardinalityType
  <2>2. Len(free) = 0
    BY <1>2 DEF Wait
  <2> QED
    BY <1>0, <1>2, <2>1, <2>2 DEF Wait, Wakeups, NoLostWakeup
<1>3. ASSUME NEW w \in Workers, pc[w] = "return", PutBack(w) PROVE Wakeups'
  <2>1. CASE asleep = {}
    BY <1>0, <1>3, <2>1 DEF PutBack, Notify, Wakeups, NoLostWakeup
  <2>2. CASE asleep # {}
    <3>1. PICK v \in asleep : asleep' = asleep \ {v} /\ woken' = woken \cup {v}
      BY <1>3, <2>2 DEF PutBack, Notify
    <3>2. IsFiniteSet(woken') /\ Cardinality(woken') = Cardinality(woken) + 1
      BY <1>0, <3>1, FS_AddElement
    <3>3. Len(free') = Len(free) + 1
      <4>1. held[w] \in Connections
        BY <1>3 DEF Types, TypeOK, PoolTypeOK, AtDatabase
      <4> QED
        BY <1>0, <1>3, <4>1, AppendProperties DEF PutBack
    <3>4. Len(free) <= Cardinality(woken)
      BY <2>2 DEF Wakeups, NoLostWakeup
    <3> QED
      BY <1>0, <3>1, <3>2, <3>3, <3>4 DEF Wakeups, NoLostWakeup
  <2> QED
    BY <2>1, <2>2
<1>4. CASE UNCHANGED poolVars
  BY <1>4 DEF poolVars, Wakeups, NoLostWakeup
<1> QED
  BY <1>1, <1>2, <1>3, <1>4, PoolSteps

(* While workers sleep in get_connection, for every connection in the queue
   somebody has been woken and has not yet run (db_connectionpool.cpp:44). *)
THEOREM NoLostWakeupHolds == Spec => []NoLostWakeup
<1>1. Init => Wakeups
  BY FS_EmptySet DEF Init, PoolInit, Wakeups, NoLostWakeup
<1>2. Wakeups => NoLostWakeup
  BY DEF Wakeups
<1> QED
  BY <1>1, <1>2, WakeupsNext, TypesAlways, PTL DEF Spec

-----------------------------------------------------------------------------
(* An injection of 1..|S| into S leaves nothing of S out. *)
LEMMA NothingLeftOut ==
  ASSUME NEW S, IsFiniteSet(S), NEW q \in [1..Cardinality(S) -> S],
         \A i, j \in 1..Cardinality(S) : q[i] = q[j] => i = j
  PROVE  \A c \in S : \E i \in 1..Cardinality(S) : q[i] = c
<1> DEFINE N == Cardinality(S)
<1>1. N \in Nat
  BY FS_CardinalityType
<1>2. IsFiniteSet(1..N) /\ Cardinality(1..N) = N
  BY <1>1, FS_Interval
<1>3. q \in Injection(1..N, S)
  BY DEF Injection, IsInjective
<1>4. q \in Surjection(1..N, S)
  BY <1>2, <1>3, FS_Injection
<1> QED
  BY <1>4 DEF Surjection

LEMMA ConservedInit == Init => Conserved
<1> SUFFICES ASSUME Init PROVE Conserved
  OBVIOUS
<1>1. PICK q \in [1..Cardinality(Connections) -> Connections] :
        free = q /\ \A i, j \in DOMAIN q : q[i] = q[j] => i = j
  BY DEF Init, PoolInit
<1>2. DOMAIN q = 1..Cardinality(Connections)
  OBVIOUS
<1>3. \A c \in Connections : \E i \in DOMAIN q : q[i] = c
  <2>1. \A i, j \in 1..Cardinality(Connections) : q[i] = q[j] => i = j
    BY <1>1, <1>2
  <2>2. \A c \in Connections : \E i \in 1..Cardinality(Connections) : q[i] = c
    BY <2>1, ConnectionsAssumption, NothingLeftOut
  <2> QED
    BY <1>2, <2>2
<1>4. \A w \in Workers : held[w] = None
  BY DEF Init, PoolInit
<1>5. \A i \in DOMAIN q : q[i] # None
  BY <1>2, ConnectionsAssumption
<1> QED
  BY <1>1, <1>3, <1>4, <1>5 DEF Conserved

LEMMA ConservedNext == Types /\ Conserved /\ [Next]_vars => Conserved'
<1> SUFFICES ASSUME Types, Conserved, [Next]_vars PROVE Conserved'
  OBVIOUS
<1>0. free \in Seq(Connections) /\ Len(free) \in Nat /\ DOMAIN free = 1..Len(free)
      /\ held \in [Workers -> Connections \cup {None}]
      /\ \A w \in Workers : held[w] # None <=> pc[w] \in AtDatabase
  BY LenProperties DEF Types, TypeOK, PoolTypeOK
<1>1. ASSUME NEW w \in Workers, pc[w] = "connect", Acquire(w) PROVE Conserved'
  <2>1. /\ free' \in Seq(Connections) /\ Len(free') = Len(free) - 1
        /\ \A i \in 1..Len(free') : free'[i] = free[i + 1]
        /\ 1 \in DOMAIN free /\ Head(free) = free[1]
    BY <1>0, <1>1, HeadTailProperties DEF Acquire
  <2>2. DOMAIN free' = 1..Len(free')
    BY <2>1, LenProperties
  <2>3. \A i \in DOMAIN free' : i + 1 \in DOMAIN free /\ free'[i] = free[i + 1] /\ free'[i] # free[1]
    BY <1>0, <2>1, <2>2 DEF Conserved
  <2>4. /\ held'[w] = free[1] /\ \A v \in Workers \ {w} : held'[v] = held[v]
        /\ free[1] # None /\ \A v \in Workers : held[v] # free[1]
    BY <1>0, <1>1, <2>1, ConnectionsAssumption DEF Acquire, Conserved
  <2>5. \A i, j \in DOMAIN free' : free'[i] = free'[j] => i = j
    BY <1>0, <2>2, <2>1, <2>3 DEF Conserved
  <2>6. \A u, v \in Workers : held'[u] # None /\ held'[v] = held'[u] => u = v
    BY <2>4 DEF Conserved
  <2>7. \A v \in Workers, i \in DOMAIN free' : held'[v] # free'[i]
    BY <2>3, <2>4 DEF Conserved
  <2>8. ASSUME NEW c \in Connections
        PROVE (\E i \in DOMAIN free' : free'[i] = c) \/ (\E v \in Workers : held'[v] = c)
    <3>1. CASE c = free[1]
      BY <2>4, <3>1
    <3>2. CASE \E v \in Workers : held[v] = c
      <4>1. PICK v \in Workers : held[v] = c
        BY <3>2
      <4>2. held[w] = None
        BY <1>0, <1>1 DEF AtDatabase
      <4> QED
        BY <2>4, <4>1, <4>2, ConnectionsAssumption
    <3>3. ASSUME NEW i \in DOMAIN free, free[i] = c, c # free[1]
          PROVE \E k \in DOMAIN free' : free'[k] = c
      <4>1. i - 1 \in DOMAIN free' /\ (i - 1) + 1 = i
        BY <1>0, <2>1, <2>2, <3>3
      <4> QED
        BY <2>3, <3>3, <4>1
    <3> QED
      BY <3>1, <3>2, <3>3 DEF Conserved
  <2> QED
    BY <2>5, <2>6, <2>7, <2>8 DEF Conserved
<1>2. ASSUME NEW w \in Workers, Wait(w) PROVE Conserved'
  BY <1>2 DEF Wait, Conserved
<1>3. ASSUME NEW w \in Workers, pc[w] = "return", PutBack(w) PROVE Conserved'
  <2>1. held[w] \in Connections /\ held[w] # None
    BY <1>0, <1>3 DEF AtDatabase
  <2>2. /\ free' \in Seq(Connections) /\ Len(free') = Len(free) + 1
        /\ \A i \in 1..Len(free) : free'[i] = free[i]
        /\ free'[Len(free) + 1] = held[w]
    BY <1>0, <1>3, <2>1, AppendProperties DEF PutBack
  <2>3. DOMAIN free' = 1..Len(free')
    BY <2>2, LenProperties
  <2>4. held'[w] = None /\ \A v \in Workers \ {w} : held'[v] = held[v]
    BY <1>0, <1>3 DEF PutBack
  <2>5. \A i \in DOMAIN free' : i = Len(free) + 1 \/ (i \in DOMAIN free /\ free'[i] = free[i])
    BY <1>0, <2>2, <2>3
  <2>6. \A i \in DOMAIN free : i \in DOMAIN free' /\ free'[i] = free[i] /\ free[i] # held[w]
    BY <1>0, <2>2, <2>3 DEF Conserved
  <2>7. \A i, j \in DOMAIN free' : free'[i] = free'[j] => i = j
    BY <2>2, <2>5, <2>6 DEF Conserved
  <2>8. \A u, v \in Workers : held'[u] # None /\ held'[v] = held'[u] => u = v
    BY <2>4 DEF Conserved
  <2>9. \A v \in Workers, i \in DOMAIN free' : held'[v] # free'[i]
    <3>1. \A i \in DOMAIN free' : free'[i] \in Connections
      BY <2>2, <2>3, ElementOfSeq
    <3>2. \A v \in Workers \ {w} : held'[v] # held[w]
      BY <2>1, <2>4 DEF Conserved
    <3> QED
      BY <2>2, <2>4, <2>5, <3>1, <3>2, ConnectionsAssumption DEF Conserved
  <2>10. ASSUME NEW c \in Connections
         PROVE (\E i \in DOMAIN free' : free'[i] = c) \/ (\E v \in Workers : held'[v] = c)
    <3>1. CASE c = held[w]
      <4>1. Len(free) + 1 \in DOMAIN free'
        BY <1>0, <2>2, <2>3
      <4> QED
        BY <2>2, <3>1, <4>1
    <3>2. CASE c # held[w]
      BY <2>4, <2>6, <3>2 DEF Conserved
    <3> QED
      BY <3>1, <3>2
  <2> QED
    BY <2>7, <2>8, <2>9, <2>10 DEF Conserved
<1>4. CASE UNCHANGED poolVars
  BY <1>4 DEF poolVars, Conserved
<1> QED
  BY <1>1, <1>2, <1>3, <1>4, PoolSteps

(* A connection is in the queue once or with one worker: none is lost, and none
   is used by two (db_connectionpool.cpp:40). *)
THEOREM ConservedHolds == Spec => []Conserved
BY ConservedInit, ConservedNext, TypesAlways, PTL DEF Spec

-----------------------------------------------------------------------------
(* A worker that is about to insert a name whose registrations have not
   overlapped is the only one, and the name has no row. *)
Registering ==
    /\ NamesUnique
    /\ \A w \in Workers :
        pc[w] = "insert" /\ job[w].name \notin raced =>
            /\ ~Registered(job[w].name)
            /\ \A v \in Workers : pc[v] = "insert" /\ job[v].name = job[w].name => v = w

LEMMA RegisteringFrame ==
  ASSUME Registering, rows' = rows, raced' = raced,
         \A v \in Workers : pc'[v] = "insert" => pc[v] = "insert" /\ job'[v] = job[v]
  PROVE  Registering'
BY DEF Registering, NamesUnique, Registered

LEMMA RegisteringNext == Types /\ Registering /\ [Next]_vars => Registering'
<1> SUFFICES ASSUME Types, Registering, [Next]_vars PROVE Registering'
  OBVIOUS
<1>0. /\ pc \in [Workers -> {"idle"} \cup AtLogin \cup AtVisit] /\ job \in [Workers -> Jobs]
      /\ rows \in Seq(Names \X Passwords)
  BY DEF Types, TypeOK, HandlersTypeOK
<1>1. ASSUME NEW w \in Workers, NEW c \in Clients, Begin(w, c) PROVE Registering'
  BY <1>0, <1>1, RegisteringFrame DEF Begin, Goto, historyVars
<1>2. ASSUME NEW w \in Workers, Check(w) PROVE Registering'
  <2>1. CASE pc'[w] = "return" /\ raced' = raced
    BY <1>0, <1>2, <2>1, RegisteringFrame DEF Check, Goto
  <2>2. CASE /\ ~Registered(job[w].name) /\ pc' = [pc EXCEPT ![w] = "insert"]
             /\ raced' = raced \cup (IF Inserting(job[w].name, w) THEN {job[w].name} ELSE {})
    <3>1. rows' = rows /\ job' = job
      BY <1>2 DEF Check
    <3>2. \A n : Registered(n)' <=> Registered(n)
      BY <3>1 DEF Registered
    <3>3. NamesUnique'
      BY <2>2, <3>1 DEF Registering, NamesUnique
    <3>4. ASSUME NEW u \in Workers, pc'[u] = "insert", job'[u].name \notin raced'
          PROVE  /\ ~Registered(job[u].name)
                 /\ \A v \in Workers : pc'[v] = "insert" /\ job[v].name = job[u].name => v = u
      <4>1. \A v \in Workers \ {w} : pc'[v] = pc[v]
        BY <1>0, <2>2
      <4>2. CASE u = w
        BY <2>2, <3>1, <3>4, <4>1, <4>2 DEF Inserting
      <4>3. CASE u # w
        <5>1. pc[u] = "insert" /\ job[u].name \notin raced
          BY <2>2, <3>1, <3>4, <4>1, <4>3
        <5>2. job[u].name # job[w].name
          BY <2>2, <3>1, <3>4, <4>3, <5>1 DEF Inserting
        <5> QED
          BY <4>1, <5>1, <5>2 DEF Registering
      <4> QED
        BY <4>2, <4>3
    <3> QED
      BY <3>1, <3>2, <3>3, <3>4 DEF Registering
  <2> QED
    BY <1>0, <1>2, <2>1, <2>2 DEF Check, Goto
<1>3. ASSUME NEW w \in Workers, Insert(w) PROVE Registering'
  <2>1. /\ pc' = [pc EXCEPT ![w] = "return"] /\ job' = job /\ raced' = raced
        /\ pc[w] = "insert"
    BY <1>3 DEF Insert, Goto, historyVars
  <2>2. CASE rows' = rows
    BY <1>0, <2>1, <2>2, RegisteringFrame
  <2>3. CASE rows' = Append(rows, <<job[w].name, job[w].password>>)
    <3> DEFINE n == job[w].name
               row == <<n, job[w].password>>
    <3>1. n \in Names /\ row \in Names \X Passwords
      BY <2>1, LoginJob DEF AtLogin, AtDatabase
    <3>2. /\ Len(rows') = Len(rows) + 1 /\ Len(rows) \in Nat
          /\ \A i \in 1..Len(rows) : rows'[i] = rows[i]
          /\ rows'[Len(rows) + 1] = row /\ row[1] = n
          /\ DOMAIN rows = 1..Len(rows) /\ DOMAIN rows' = 1..Len(rows')
      <4> HIDE DEF row
      <4>1. rows' \in Seq(Names \X Passwords)
        BY <1>0, <2>3, <3>1, AppendProperties DEF row
      <4>2. /\ Len(rows') = Len(rows) + 1
            /\ \A i \in 1..Len(rows) : rows'[i] = rows[i]
            /\ rows'[Len(rows) + 1] = row
        BY <1>0, <2>3, <3>1, AppendProperties DEF row
      <4> QED
        BY <1>0, <4>1, <4>2, LenProperties DEF row
    <3> HIDE DEF row, n
    <3>3. \A i \in DOMAIN rows' : (i \in DOMAIN rows /\ rows'[i] = rows[i])
                                  \/ (i = Len(rows) + 1 /\ rows'[i][1] = n)
      BY <3>2
    <3>4. n \in raced \/ ~Registered(n)
      BY <2>1 DEF Registering, n
    <3>5. NamesUnique'
      BY <2>1, <3>3, <3>4 DEF Registering, NamesUnique, Registered
    <3>6. ASSUME NEW u \in Workers, pc'[u] = "insert", job'[u].name \notin raced'
          PROVE  /\ ~Registered(job[u].name)'
                 /\ \A v \in Workers : pc'[v] = "insert" /\ job'[v].name = job'[u].name => v = u
      <4>1. u # w /\ pc[u] = "insert" /\ \A v \in Workers : pc'[v] = "insert" => pc[v] = "insert"
        BY <1>0, <2>1, <3>6
      <4>2. /\ ~Registered(job[u].name)
            /\ \A v \in Workers : pc[v] = "insert" /\ job[v].name = job[u].name => v = u
        BY <2>1, <3>6, <4>1 DEF Registering
      <4>3. job[u].name # n
        BY <2>1, <4>1, <4>2 DEF n
      <4> QED
        BY <2>1, <3>3, <4>1, <4>2, <4>3 DEF Registered
    <3> QED
      BY <3>5, <3>6 DEF Registering
  <2> QED
    BY <1>3, <2>2, <2>3 DEF Insert
<1>4. ASSUME NEW w \in Workers, Work(w), ~Check(w), ~Insert(w) PROVE Registering'
  <2>1. rows' = rows /\ raced' = raced
    BY <1>4 DEF Work, Connect, Select, Return, Key, Store, Number, Lookup, Talk, Remove, historyVars
  <2>2. pc'[w] # "insert" /\ \A v \in Workers \ {w} : pc'[v] = pc[v] /\ job'[v] = job[v]
    BY <1>0, <1>4 DEF Work, Connect, Select, Return, Key, Store, Number, Lookup, Talk, Remove,
       Finish, Goto
  <2> QED
    BY <2>1, <2>2, RegisteringFrame
<1>5. CASE UNCHANGED vars
  BY <1>5, RegisteringFrame DEF vars, handlerVars, historyVars
<1> QED
  BY <1>1, <1>2, <1>3, <1>4, <1>5 DEF Next, Work, Quiet

(* Nothing but the SELECT before the INSERT makes a name unique: a name has two
   rows only if two registrations of it overlapped (login_handler.cpp:174). *)
THEOREM NamesUniqueHolds == Spec => []NamesUnique
<1>1. Init => Registering
  BY TablesAssumption DEF Init, Registering, NamesUnique
<1>2. Registering => NamesUnique
  BY DEF Registering
<1> QED
  BY <1>1, <1>2, RegisteringNext, TypesAlways, PTL DEF Spec

-----------------------------------------------------------------------------
LEMMA TableStep ==
  ASSUME NEW s, NEW i, table' = TableWith(s, i)
  PROVE  \A k : GetInterpreter(k)' = IF k = s THEN i ELSE GetInterpreter(k)
BY DEF TableWith, GetInterpreter

(* get_ssid: a worker that overlaps no other has as its key the number that it
   will take, and its interpreter is there once it is stored. *)
Getssid ==
    /\ LoneLoginWorks
    /\ \A w \in Workers :
        pc[w] \in {"store", "number"} /\ lone[w] =>
            /\ key[w] = nowSsid
            /\ \A v \in Workers : pc[v] \in {"store", "number"} => v = w
            /\ pc[w] = "number" => GetInterpreter(key[w]) # None

LEMMA GetssidFrame ==
  ASSUME Getssid, UNCHANGED <<sessionVars, given, gone, lone>>,
         \A v \in Workers : pc'[v] \in {"store", "number"} => pc'[v] = pc[v]
  PROVE  Getssid'
BY DEF Getssid, LoneLoginWorks, GetInterpreter, sessionVars

LEMMA GetssidNext == Types /\ Getssid /\ [Next]_vars => Getssid'
<1> SUFFICES ASSUME Types, Getssid, [Next]_vars PROVE Getssid'
  OBVIOUS
<1> USE NoneAssumption
<1>0. /\ pc \in [Workers -> {"idle"} \cup AtLogin \cup AtVisit]
      /\ key \in [Workers -> Nat \cup {None}] /\ lone \in [Workers -> BOOLEAN]
      /\ nowSsid \in Nat /\ made \in Nat /\ DOMAIN given \subseteq 0..nowSsid - 1
  BY DEF Types, TypeOK, HandlersTypeOK, HistoryTypeOK, SessionsTypeOK
<1>1. ASSUME NEW w \in Workers, NEW c \in Clients, Begin(w, c) PROVE Getssid'
  BY <1>0, <1>1, GetssidFrame DEF Begin, Goto, historyVars
<1>2. ASSUME NEW w \in Workers, Key(w) PROVE Getssid'
  <2>1. /\ pc' = [pc EXCEPT ![w] = "store"] /\ pc[w] = "key"
        /\ key' = [key EXCEPT ![w] = nowSsid] /\ UNCHANGED <<nowSsid, table, given, gone>>
        /\ lone' = [v \in Workers |-> IF v = w THEN Getting = {} ELSE lone[v] /\ v \notin Getting]
    BY <1>2 DEF Key, ReadKey, Goto
  <2>2. LoneLoginWorks'
    BY <2>1 DEF Getssid, LoneLoginWorks, GetInterpreter
  <2>3. ASSUME NEW v \in Workers, pc'[v] \in {"store", "number"}, lone'[v]
        PROVE  /\ key'[v] = nowSsid
               /\ \A u \in Workers : pc'[u] \in {"store", "number"} => u = v
               /\ pc'[v] # "number"
    <3>1. v = w
      BY <1>0, <2>1, <2>3 DEF Getting
    <3>2. Getting = {}
      BY <2>1, <2>3, <3>1
    <3> QED
      BY <1>0, <2>1, <3>1, <3>2 DEF Getting
  <2> QED
    BY <2>1, <2>2, <2>3 DEF Getssid
<1>3. ASSUME NEW w \in Workers, Store(w) PROVE Getssid'
  <2>1. /\ pc' = [pc EXCEPT ![w] = "number"] /\ pc[w] = "store"
        /\ made' = made + 1 /\ table' = TableWith(key[w], made')
        /\ UNCHANGED <<nowSsid, key, lone, given, gone>>
    BY <1>3 DEF Store, StoreInterpreter, Goto, historyVars
  <2>2. \A k : GetInterpreter(k)' = IF k = key[w] THEN made' ELSE GetInterpreter(k)
    BY <2>1, TableStep
  <2>3. made' # None
    BY <1>0, <2>1
  <2>4. LoneLoginWorks'
    BY <2>1, <2>2, <2>3 DEF Getssid, LoneLoginWorks
  <2>5. \A v \in Workers \ {w} : pc'[v] = pc[v]
    BY <1>0, <2>1
  <2>6. pc'[w] = "number"
    BY <1>0, <2>1
  <2>7. \A v \in Workers : pc'[v] \in {"store", "number"} <=> pc[v] \in {"store", "number"}
    BY <2>1, <2>5, <2>6
  <2>8. ASSUME NEW v \in Workers, pc'[v] \in {"store", "number"}, lone'[v]
        PROVE  /\ key'[v] = nowSsid'
               /\ \A u \in Workers : pc'[u] \in {"store", "number"} => u = v
               /\ v = w
    BY <2>1, <2>7, <2>8 DEF Getssid
  <2>9. (GetInterpreter(key[w]) # None)'
    BY <2>1, <2>2, <2>3
  <2> QED
    BY <2>4, <2>8, <2>9 DEF Getssid
<1>4. ASSUME NEW w \in Workers, Number(w) PROVE Getssid'
  <2>1. /\ pc' = [pc EXCEPT ![w] = "idle"] /\ pc[w] = "number"
        /\ nowSsid' = nowSsid + 1 /\ key' = [key EXCEPT ![w] = None]
        /\ given' = GivenWith(nowSsid, w) /\ lone' = [lone EXCEPT ![w] = TRUE]
        /\ UNCHANGED <<table, gone>>
    BY <1>4 DEF Number, TakeNumber, Finish, Goto
  <2>2. \A k : GetInterpreter(k)' = GetInterpreter(k)
    BY <2>1 DEF GetInterpreter
  <2>3. lone[w] => GetInterpreter(nowSsid) # None
    BY <2>1 DEF Getssid
  <2>4. LoneLoginWorks'
    BY <1>0, <2>1, <2>2, <2>3 DEF Getssid, LoneLoginWorks, GivenWith
  <2>5. ASSUME NEW v \in Workers, pc'[v] \in {"store", "number"}, lone'[v]
        PROVE  FALSE
    <3>1. v # w /\ pc[v] \in {"store", "number"} /\ lone[v]
      BY <1>0, <2>1, <2>5
    <3> QED
      BY <2>1, <3>1 DEF Getssid
  <2> QED
    BY <2>4, <2>5 DEF Getssid
<1>5. ASSUME NEW w \in Workers, Remove(w) PROVE Getssid'
  <2>1. /\ pc' = [pc EXCEPT ![w] = "idle"] /\ pc[w] = "remove"
        /\ table' = TableWith(job[w].session, None) /\ gone' = gone \cup {job[w].session}
        /\ UNCHANGED <<nowSsid, key, given, lone>>
    BY <1>5 DEF Remove, RemoveSsid, Finish, Goto
  <2>2. \A k : GetInterpreter(k)' = IF k = job[w].session THEN None ELSE GetInterpreter(k)
    BY <2>1, TableStep
  <2>3. job[w].session \in DOMAIN given
    <3>1. JobOK(w) /\ job[w].session # None
      BY <2>1 DEF Types, TypeOK, Underway
    <3>2. pc[w] # "idle" /\ pc[w] \notin AtLogin
      BY <2>1 DEF AtLogin, AtDatabase
    <3>3. PICK c \in Clients, s \in DOMAIN given \cup {None} : job[w] = Visit(c, s)
      BY <3>1, <3>2 DEF JobOK
    <3> QED
      BY <3>1, <3>3 DEF Visit
  <2>4. job[w].session # nowSsid
    BY <1>0, <2>3
  <2>5. LoneLoginWorks'
    BY <2>1, <2>2 DEF Getssid, LoneLoginWorks
  <2>6. \A v \in Workers : pc'[v] \in {"store", "number"} => v # w /\ pc'[v] = pc[v]
    BY <1>0, <2>1
  <2> QED
    BY <2>1, <2>2, <2>4, <2>5, <2>6 DEF Getssid
<1>6. ASSUME NEW w \in Workers, Work(w), ~Key(w), ~Store(w), ~Number(w), ~Remove(w)
      PROVE Getssid'
  <2>1. UNCHANGED <<sessionVars, given, gone, lone>>
    BY <1>6 DEF Work, Connect, Select, Check, Insert, Return, Lookup, Talk, historyVars
  <2>2. pc'[w] \notin {"store", "number"} /\ \A v \in Workers \ {w} : pc'[v] = pc[v]
    BY <1>0, <1>6 DEF Work, Connect, Select, Check, Insert, Return, Lookup, Talk, Finish, Goto
  <2> QED
    BY <2>1, <2>2, GetssidFrame
<1>7. CASE UNCHANGED vars
  BY <1>7, GetssidFrame DEF vars, handlerVars, historyVars
<1> QED
  BY <1>1, <1>2, <1>3, <1>4, <1>5, <1>6, <1>7 DEF Next, Work, Quiet

(* A login whose get_ssid overlaps no other gives a session that has an
   interpreter until its dialogue ends (session.cpp:19). *)
THEOREM LoneLoginHolds == Spec => []LoneLoginWorks
<1>1. Init => Getssid
  BY DEF Init, SessionsInit, Getssid, LoneLoginWorks
<1>2. Getssid => LoneLoginWorks
  BY DEF Getssid
<1> QED
  BY <1>1, <1>2, GetssidNext, TypesAlways, PTL DEF Spec

-----------------------------------------------------------------------------
(* Who may talk to whom: a session belongs to the client it was given to, an
   interpreter to one session. *)
Entry(k)  == GetInterpreter(k)
OwnVisit(w) ==
    job[w].session # None =>
        job[w].session \in DOMAIN given /\ given[job[w].session].client = job[w].client
Owned ==
    /\ \A w \in Workers : OwnVisit(w)
    /\ \A c \in Clients : cookie[c] # None =>
        cookie[c] \in DOMAIN given /\ given[cookie[c]].client = c
Apart ==
    /\ \A j, k : Entry(j) # None /\ Entry(j) = Entry(k) => j = k
    /\ \A w \in Workers : pc[w] = "talk" =>
        /\ talker[w] # None
        /\ \A k : Entry(k) = talker[w] => k = job[w].session
    /\ \A v, w \in Workers :
        pc[v] = "talk" /\ pc[w] = "talk" /\ talker[v] = talker[w] => job[v].session = job[w].session

LEMMA OwnedFrame ==
  ASSUME Owned, UNCHANGED <<given, cookie>>,
         \A v \in Workers : job'[v].session = None \/ job'[v] = job[v]
  PROVE  Owned'
BY DEF Owned, OwnVisit

LEMMA OwnedNext == Types /\ Owned /\ [Next]_vars => Owned'
<1> SUFFICES ASSUME Types, Owned, [Next]_vars PROVE Owned'
  OBVIOUS
<1>0. /\ job \in [Workers -> Jobs] /\ cookie \in [Clients -> DOMAIN given \cup {None}]
      /\ nowSsid \in Nat /\ DOMAIN given \subseteq 0..nowSsid - 1
  BY DEF Types, TypeOK, HandlersTypeOK, HistoryTypeOK, SessionsTypeOK
<1>1. ASSUME NEW w \in Workers, NEW c \in Clients, Begin(w, c) PROVE Owned'
  <2>1. UNCHANGED <<given, cookie>> /\ \A v \in Workers \ {w} : job'[v] = job[v]
    BY <1>0, <1>1 DEF Begin, historyVars
  <2>2. job'[w].session = None \/ (job'[w].session = cookie[c] /\ job'[w].client = c)
    BY <1>0, <1>1 DEF Begin, Account, Visit
  <2> QED
    BY <2>1, <2>2 DEF Owned, OwnVisit
<1>2. ASSUME NEW w \in Workers, Number(w) PROVE Owned'
  <2> DEFINE c == job[w].client
  <2>1. /\ job' = [job EXCEPT ![w] = NoJob] /\ given' = GivenWith(nowSsid, w)
        /\ cookie' = [cookie EXCEPT ![c] = nowSsid]
    BY <1>2 DEF Number, Finish
  <2>2. /\ DOMAIN given' = DOMAIN given \cup {nowSsid} /\ given'[nowSsid].client = c
        /\ \A s \in DOMAIN given : given'[s] = given[s]
    BY <1>0, <2>1 DEF GivenWith
  <2>3. NoJob.session = None
    BY DEF NoJob, Visit
  <2>4. \A v \in Workers : job'[v].session = None \/ job'[v] = job[v]
    BY <1>0, <2>1, <2>3
  <2>5. \A v \in Workers : OwnVisit(v)'
    BY <2>2, <2>4 DEF Owned, OwnVisit
  <2>6. \A d \in Clients : cookie'[d] # None =>
            cookie'[d] \in DOMAIN given' /\ given'[cookie'[d]].client = d
    BY <1>0, <2>1, <2>2 DEF Owned
  <2> QED
    BY <2>5, <2>6 DEF Owned
<1>3. ASSUME NEW w \in Workers, Work(w), ~Number(w) PROVE Owned'
  <2>1. UNCHANGED <<given, cookie>> /\ (job' = job \/ job' = [job EXCEPT ![w] = NoJob])
    BY <1>3 DEF Work, Connect, Select, Check, Insert, Return, Key, Store, Lookup, Talk, Remove,
       Finish, historyVars
  <2>2. NoJob.session = None
    BY DEF NoJob, Visit
  <2> QED
    BY <1>0, <2>1, <2>2, OwnedFrame
<1>4. CASE UNCHANGED vars
  BY <1>4, OwnedFrame DEF vars, handlerVars, historyVars
<1> QED
  BY <1>1, <1>2, <1>3, <1>4 DEF Next, Work, Quiet

LEMMA ApartFrame ==
  ASSUME Apart, \A k : Entry(k)' = Entry(k) \/ Entry(k)' = None,
         \A v \in Workers : pc'[v] = "talk" =>
            pc[v] = "talk" /\ job'[v] = job[v] /\ talker'[v] = talker[v]
  PROVE  Apart'
BY DEF Apart

LEMMA ApartNext == Types /\ Apart /\ [Next]_vars => Apart'
<1> SUFFICES ASSUME Types, Apart, [Next]_vars PROVE Apart'
  OBVIOUS
<1> USE NoneAssumption
<1>0. /\ pc \in [Workers -> {"idle"} \cup AtLogin \cup AtVisit] /\ job \in [Workers -> Jobs]
      /\ talker \in [Workers -> 1..made \cup {None}] /\ made \in Nat
  BY DEF Types, TypeOK, HandlersTypeOK, SessionsTypeOK
<1>1. ASSUME NEW w \in Workers, NEW c \in Clients, Begin(w, c) PROVE Apart'
  <2>1. \A k : Entry(k)' = Entry(k)
    BY <1>1 DEF Begin, sessionVars, Entry, GetInterpreter
  <2>2. pc'[w] # "talk" /\ talker' = talker /\ \A v \in Workers \ {w} : pc'[v] = pc[v] /\ job'[v] = job[v]
    BY <1>0, <1>1 DEF Begin, Goto
  <2> QED
    BY <2>1, <2>2, ApartFrame
<1>2. ASSUME NEW w \in Workers, Store(w) PROVE Apart'
  <2>1. /\ pc' = [pc EXCEPT ![w] = "number"] /\ made' = made + 1
        /\ table' = TableWith(key[w], made') /\ UNCHANGED <<job, talker>>
    BY <1>2 DEF Store, StoreInterpreter, Goto
  <2>2. \A k : Entry(k)' = IF k = key[w] THEN made' ELSE Entry(k)
    BY <2>1, TableStep DEF Entry
  <2>3. \A k : Entry(k) \in 1..made \cup {None}
    BY DEF Types, TypeOK, SessionsTypeOK, Entry, GetInterpreter
  <2>4. made' \notin 1..made /\ made' # None
    BY <1>0, <2>1
  <2>5. \A v \in Workers : pc'[v] = "talk" => pc[v] = "talk" /\ talker[v] \in 1..made \cup {None}
    BY <1>0, <2>1
  <2>6. \A j, k : (Entry(j) # None)' /\ (Entry(j) = Entry(k))' => j = k
    BY <2>2, <2>3, <2>4 DEF Apart
  <2>7. \A v \in Workers : pc'[v] = "talk" =>
            talker[v] # None /\ \A k : Entry(k)' = talker[v] => k = job[v].session
    BY <2>2, <2>4, <2>5 DEF Apart
  <2> QED
    BY <2>1, <2>5, <2>6, <2>7 DEF Apart
<1>3. ASSUME NEW w \in Workers, Lookup(w), pc'[w] = "talk" PROVE Apart'
  <2> DEFINE s == job[w].session
  <2>1. /\ pc' = [pc EXCEPT ![w] = "talk"] /\ job' = job
        /\ talker' = [talker EXCEPT ![w] = GetInterpreter(Ssid(s))]
        /\ GetInterpreter(Ssid(s)) # None /\ table' = table
    BY <1>0, <1>3 DEF Lookup, Finish, Goto, sessionVars
  <2>2. Ssid(s) = s
    <3>1. GetInterpreter(None) = None
      BY DEF Types, TypeOK, SessionsTypeOK, GetInterpreter
    <3> QED
      BY <2>1, <3>1 DEF Ssid
  <2>3. \A k : Entry(k)' = Entry(k)
    BY <2>1 DEF Entry, GetInterpreter
  <2>4. talker'[w] = Entry(s) /\ Entry(s) # None
    BY <1>0, <2>1, <2>2 DEF Entry
  <2>5. \A v \in Workers \ {w} : pc'[v] = pc[v] /\ talker'[v] = talker[v]
    BY <1>0, <2>1
  <2>6. ASSUME NEW v \in Workers, pc'[v] = "talk"
        PROVE talker'[v] # None /\ \A k : Entry(k) = talker'[v] => k = job[v].session
    BY <2>4, <2>5, <2>6 DEF Apart
  <2>7. ASSUME NEW u \in Workers, NEW v \in Workers,
               pc'[u] = "talk", pc'[v] = "talk", talker'[u] = talker'[v]
        PROVE job[u].session = job[v].session
    BY <2>4, <2>5, <2>7 DEF Apart
  <2> QED
    BY <2>1, <2>3, <2>6, <2>7 DEF Apart
<1>4. ASSUME NEW w \in Workers, Work(w), ~Store(w), ~(Lookup(w) /\ pc'[w] = "talk")
      PROVE Apart'
  <2>1. \A k : Entry(k)' = Entry(k) \/ Entry(k)' = None
    <3>1. CASE table' = table
      BY <3>1 DEF Entry, GetInterpreter
    <3>2. CASE Remove(w)
      BY <3>2, TableStep DEF Remove, RemoveSsid, Entry
    <3> QED
      BY <1>4, <3>1, <3>2 DEF Work, Connect, Select, Check, Insert, Return, Key, Number, Lookup,
         Talk, ReadKey, TakeNumber, sessionVars
  <2>2. /\ pc'[w] # "talk"
        /\ \A v \in Workers \ {w} : pc'[v] = pc[v] /\ job'[v] = job[v] /\ talker'[v] = talker[v]
    BY <1>0, <1>4 DEF Work, Connect, Select, Check, Insert, Return, Key, Number, Lookup, Talk,
       Remove, Finish, Goto
  <2> QED
    BY <2>1, <2>2, ApartFrame
<1>5. CASE UNCHANGED vars
  BY <1>5, ApartFrame DEF vars, handlerVars, sessionVars, Entry, GetInterpreter
<1> QED
  BY <1>1, <1>2, <1>3, <1>4, <1>5 DEF Next, Work, Quiet

(* Two workers are in one interpreter only with two requests of one client
   (session.cpp:30, chat_handler.cpp:78). *)
THEOREM OwnDialogueHolds == Spec => []OwnDialogue
<1>1. Init => Owned /\ Apart
  BY DEF Init, SessionsInit, NoJob, Visit, Owned, OwnVisit, Apart, Entry, GetInterpreter
<1>2. Types /\ Owned /\ Apart => OwnDialogue
  <2> SUFFICES ASSUME Types, Owned, Apart, NEW v \in Workers, NEW w \in Workers,
                      pc[v] = "talk", pc[w] = "talk", talker[v] = talker[w]
               PROVE  job[v].client = job[w].client
    BY DEF OwnDialogue
  <2>1. job[v].session = job[w].session
    BY DEF Apart
  <2>2. job[v].session # None /\ job[w].session # None
    BY NoneAssumption DEF Types, Underway
  <2> QED
    BY <2>1, <2>2 DEF Owned, OwnVisit
<1> QED
  BY <1>1, <1>2, OwnedNext, ApartNext, TypesAlways, PTL DEF Spec
=============================================================================
