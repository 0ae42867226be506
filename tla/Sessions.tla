------------------------------ MODULE Sessions ------------------------------
(***************************************************************************)
(* Session (src/src/utils/session.cpp): the interpreter of each session.   *)
(* Its methods take no lock.  now_ssid is atomic; the map is not, and one  *)
(* access to it is taken as one step.                                      *)
(***************************************************************************)
EXTENDS Threads

CONSTANT StoiMax    \* the largest number that std::stoi reads: INT_MAX

ASSUME StoiAssumption == StoiMax \in Nat

VARIABLES
    nowSsid,        \* now_ssid
    table,          \* m_interpreter_map; an interpreter is its number
    key,            \* worker -> the key that get_ssid has read
    made            \* how many interpreters have been made
sessionVars == <<nowSsid, table, key, made>>

SessionsInit ==
    /\ nowSsid = 0 /\ made = 0
    /\ table = [s \in {} |-> None]
    /\ key = [w \in Workers |-> None]

(* What the cookie of session s is read as: a number that stoi refuses is the
   session -1, as is no cookie. *)
Ssid(s) == IF s # None /\ s <= StoiMax THEN s ELSE None

(* get_interpreter and remove_ssid.  The entries with nullptr that operator[]
   leaves behind are like no entries. *)
GetInterpreter(s) == IF s \in DOMAIN table THEN table[s] ELSE None
TableWith(s, i)   == [k \in DOMAIN table \cup {s} |-> IF k = s THEN i ELSE table[k]]

RemoveSsid(s) ==
    /\ table' = TableWith(s, None)
    /\ UNCHANGED <<nowSsid, key, made>>

(* get_ssid in three accesses: the key, the entry, the number that is
   returned. *)
ReadKey(w) ==
    /\ key' = [key EXCEPT ![w] = nowSsid]
    /\ UNCHANGED <<nowSsid, table, made>>

StoreInterpreter(w) ==
    /\ made' = made + 1
    /\ table' = TableWith(key[w], made')
    /\ UNCHANGED <<nowSsid, key>>

TakeNumber(w) ==
    /\ nowSsid' = nowSsid + 1
    /\ key' = [key EXCEPT ![w] = None]
    /\ UNCHANGED <<table, made>>

-----------------------------------------------------------------------------
SessionsTypeOK ==
    /\ nowSsid \in Nat /\ made \in Nat
    /\ DOMAIN table \subseteq Nat /\ \A s \in DOMAIN table : table[s] \in 1..made \cup {None}
    /\ key \in [Workers -> Nat \cup {None}]
=============================================================================
