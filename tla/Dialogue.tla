------------------------------ MODULE Dialogue ------------------------------
(***************************************************************************)
(* What the script language promises (src/docs/intepreter.md), line by     *)
(* line: statements in their order, a store of variables, RECV waiting for *)
(* the next message, CALL and IF going on with the lines of their body.    *)
(* There are no nodes and no cached values here, and an expression has the *)
(* value that its tokens give when they are read from right to left.       *)
(***************************************************************************)
EXTENDS Values

CONSTANTS Opening, Closing, Bare, Scripts, Messages

VARIABLES script, todo, store, out, inbox, status, broken
state == <<script, todo, store, out, inbox, status, broken>>

-----------------------------------------------------------------------------
(* Which lines belong to which body is told by counting. *)
Is(s, l, words) == s[l] # <<>> /\ s[l][1] \in words
Opens(s, l)     == Is(s, l, {"IF", "FUNC"})
Closes(s, l)    == Is(s, l, {"ENDIF", "ENDFUNC"})
Depth(s, l) ==
    LET depth[k \in 1..Len(s) + 1] ==
            IF k = 1 THEN 0
            ELSE depth[k - 1] + (IF Opens(s, k - 1) THEN 1 ELSE IF Closes(s, k - 1) THEN -1 ELSE 0)
    IN depth[l]
Ending(s, l, e) == Closes(s, e) /\ Depth(s, e) = Depth(s, l) + 1
End(s, l)       == CHOOSE e \in l + 1..Len(s) :
                        Ending(s, l, e) /\ \A k \in l + 1..e - 1 : ~Ending(s, l, k)

Plain(s, l, d)  == s[l] # <<>> /\ Depth(s, l) = d /\ ~Closes(s, l) /\ ~Is(s, l, {"FUNC"})
AtDepth(s, from, to, d) ==
    LET lines[l \in from..to + 1] ==
            IF l > to THEN <<>>
            ELSE (IF Plain(s, l, d) THEN <<l>> ELSE <<>>) \o lines[l + 1]
    IN lines[from]
Body(s, l)      == AtDepth(s, l + 1, End(s, l) - 1, Depth(s, l) + 1)
Main(s)         == AtDepth(s, 1, Len(s), 0)
Function(s, f)  == {l \in DOMAIN s : Is(s, l, {"FUNC"}) /\ s[l][2] = f}

(* The scripts that the language has: a body is closed, a function stands
   outside of all bodies, a statement has its words, and a literal its end.
   Nothing is promised of any other. *)
ExpressionAt(line) == IF line[1] \in {"VAR", "SET"} THEN 3 ELSE 2

Formed(line) ==
    /\ line[1] \in {"VAR", "SET", "IF", "SEND"} =>
            /\ ExpressionAt(line) <= Len(line)
            /\ \A p \in 1..ExpressionAt(line) - 1 : line[p] \notin Opening
    /\ line[1] \in {"CALL", "RECV", "FUNC"} => Len(line) >= 2
    /\ \A p \in DOMAIN line : line[p] \in Opening =>
            \E q \in p..Len(line) : line[q] \in Closing

Grammatical(s) ==
    /\ \A l \in 1..Len(s) + 1 : Depth(s, l) >= 0
    /\ Depth(s, Len(s) + 1) = 0
    /\ \A l \in DOMAIN s : Is(s, l, {"FUNC"}) => Depth(s, l) = 0
    /\ \A l \in DOMAIN s : s[l] # <<>> => Formed(s[l])

-----------------------------------------------------------------------------
Literal(line, p) ==
    LET end == CHOOSE q \in p..Len(line) :
                    line[q] \in Closing /\ \A r \in p..q - 1 : line[r] \notin Closing
    IN String([i \in 1..end - p + 1 |->
                LET t == line[p + i - 1] IN IF t \in DOMAIN Bare THEN Bare[t] ELSE t])

Within(line, p) ==      \* inside a literal that began before
    \E b \in 1..p - 1 : line[b] \in Opening
        /\ \A q \in b..p - 1 : line[q] \notin Closing

Word(t) ==
    IF t \in DOMAIN Numerals THEN Number(Numerals[t])
    ELSE IF t \in DOMAIN store THEN store[t] ELSE Error

(* The values that are waiting to the right of a token. *)
Waiting(line) ==
    LET values[p \in 1..Len(line) + 1] ==
            IF p > Len(line) THEN <<>>
            ELSE LET later == values[p + 1] IN
                 IF Within(line, p) THEN later
                 ELSE IF line[p] \in Opening THEN <<Literal(line, p)>> \o later
                 ELSE IF line[p] \in Operators
                      THEN <<IF Error \in {later[1], later[2]} THEN Error
                             ELSE Apply(line[p], later[1], later[2])>> \o Tail(Tail(later))
                 ELSE <<Word(line[p])>> \o later
    IN values

Value(line, p) == Waiting(line)[p][1]

-----------------------------------------------------------------------------
Init ==
    /\ script \in Scripts
    /\ todo = <<>> /\ store = [x \in {} |-> None]
    /\ out = <<>> /\ inbox = <<>> /\ status = "new" /\ broken \in BOOLEAN

Line   == script[Head(todo)]
Result == Value(Line, ExpressionAt(Line))
Does(word) == status = "busy" /\ todo # <<>> /\ Line[1] = word

Put(x, v) ==
    store' = [y \in DOMAIN store \cup {x} |-> IF y = x THEN v ELSE store[y]]

Ask(m) ==
    /\ status \in {"new", "idle"} /\ status' = "busy" /\ inbox' = <<m>>
    /\ todo' = IF status = "new" THEN Main(script) ELSE todo
    /\ UNCHANGED <<script, store, out, broken>>

Define ==
    /\ Does("VAR") \/ Does("SET")
    /\ Printable(Result)
    /\ Put(Line[2], Result)
    /\ todo' = Tail(todo)
    /\ UNCHANGED <<script, out, inbox, status, broken>>

Send ==
    /\ Does("SEND") /\ Printable(Result)
    /\ out' = Printed(Result)
    /\ todo' = Tail(todo)
    /\ UNCHANGED <<script, store, inbox, status, broken>>

Receive ==
    /\ Does("RECV") /\ inbox # <<>>
    /\ Put(Line[2], ReadValue(inbox[1]))
    /\ inbox' = <<>> /\ todo' = Tail(todo)
    /\ UNCHANGED <<script, out, status, broken>>

If ==
    /\ Does("IF") /\ Result.type = "BOOL"
    /\ todo' = (IF Result.bool THEN Body(script, Head(todo)) ELSE <<>>) \o Tail(todo)
    /\ UNCHANGED <<script, store, out, inbox, status, broken>>

Call ==
    /\ Does("CALL")
    /\ \E l \in Function(script, Line[2]) : todo' = Body(script, l) \o Tail(todo)
    /\ UNCHANGED <<script, store, out, inbox, status, broken>>

(* The answer is what was sent last. *)
Answer ==
    /\ status = "busy"
    /\ \/ todo = <<>> /\ status' = "over"
       \/ Does("RECV") /\ inbox = <<>> /\ status' = "idle"
    /\ inbox' = <<>>
    /\ UNCHANGED <<script, todo, store, out, broken>>

(* The language gives this line no meaning; nothing is promised after it. *)
Meaningless ==
    /\ \/ (Does("VAR") \/ Does("SET") \/ Does("SEND")) /\ ~Printable(Result)
       \/ Does("IF") /\ Result.type # "BOOL"
       \/ Does("CALL") /\ Function(script, Line[2]) = {}
    /\ broken' = TRUE /\ UNCHANGED script

Unpromised ==
    /\ (broken /\ broken') \/ ~Grammatical(script)
    /\ UNCHANGED script

Next ==
    \/ \E m \in Messages : Ask(m)
    \/ Define \/ Send \/ Receive \/ If \/ Call \/ Answer
    \/ Meaningless \/ Unpromised

Spec == Init /\ [][Next]_state
=============================================================================
