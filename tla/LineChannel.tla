---------------------------- MODULE LineChannel ----------------------------
(***************************************************************************)
(* What a log promises the threads that write to it.  The lines of a       *)
(* thread are numbered by its calls.  A line that is accepted goes to the  *)
(* file once, behind all that were accepted before it.  It is lost only if *)
(* no file is open when its turn comes, and refused only if none could be  *)
(* opened when it was given.                                               *)
(***************************************************************************)
EXTENDS Naturals, Sequences

CONSTANT Writers    \* the threads

VARIABLES
    pending,        \* the lines that are accepted and have not had their turn
    last,           \* <<the line in the file that was put there last>>, or <<>>
    open,           \* a file is open
    count           \* how many lines each thread has given

Init ==
    /\ pending = <<>> /\ last = <<>> /\ open = TRUE
    /\ count = [w \in Writers |-> 0]

Given(w) == [by |-> w, no |-> count[w] + 1]
Give(w)  == count' = [count EXCEPT ![w] = @ + 1]

Accept(w) ==
    /\ Give(w)
    /\ pending' = Append(pending, Given(w))
    /\ UNCHANGED <<last, open>>

(* No file could be opened, and the thread is told so. *)
Refuse(w) ==
    /\ Give(w)
    /\ open' = FALSE
    /\ UNCHANGED <<pending, last>>

(* A log without a queue passes a line on as it takes it. *)
PassThrough(w) ==
    /\ pending = <<>>
    /\ Give(w)
    /\ last' = IF open THEN <<Given(w)>> ELSE last
    /\ UNCHANGED <<pending, open>>

PutOut ==
    /\ pending # <<>> /\ open
    /\ last' = <<Head(pending)>>
    /\ pending' = Tail(pending)
    /\ UNCHANGED <<open, count>>

Lose ==
    /\ pending # <<>> /\ ~open
    /\ pending' = Tail(pending)
    /\ UNCHANGED <<last, open, count>>

(* Files are opened and closed. *)
Switch ==
    /\ open' \in BOOLEAN
    /\ UNCHANGED <<pending, last, count>>

Next ==
    \/ \E w \in Writers : Accept(w) \/ Refuse(w) \/ PassThrough(w)
    \/ PutOut \/ Lose \/ Switch

Spec == Init /\ [][Next]_<<pending, last, open, count>>
=============================================================================
