---------------------------- MODULE InterpProofs ----------------------------
(***************************************************************************)
(* Theorems about Interp, for every set of scripts whose programs hang     *)
(* together (WellShaped) and for any number of requests: the types, the    *)
(* operands that a node reads (from UseInv), and that the stack of nodes   *)
(* does what Dialogue promises (from DocInv, and from what ScriptProofs    *)
(* says of the parser).                                                    *)
(***************************************************************************)
EXTENDS ScriptProofs
LOCAL INSTANCE FiniteSetsExt

-----------------------------------------------------------------------------
(* Values. *)
LEMMA ApplyType ==
    ASSUME NEW op \in Operators, NEW l, NEW r, Apply(op, l, r) # Error
    PROVE  Apply(op, l, r).type \in {"NUMBER", "STRING", "BOOL"}
BY DEF Operators, Apply, Sum, Difference, Product, Ratio, Number, String, Bool, Error

LEMMA ReadType == ASSUME NEW t PROVE Printable(ReadValue(t))
BY DEF ReadValue, Printable, Number, String

(* The shape of the program that runs. *)
LEMMA Shape ==
    ASSUME script \in Scripts
    PROVE  /\ Root \in DOMAIN Ast /\ Kind(Root) = "BLOCK"
           /\ \A x \in DOMAIN Functions :
                Functions[x] \in DOMAIN Ast /\ Kind(Functions[x]) = "BLOCK"
           /\ \A n \in DOMAIN Ast :
                /\ Kind(n) \in Expressions \cup Statements \cup Blocks
                /\ Kids(n) \in Seq(DOMAIN Ast)
                /\ Kind(n) = "OP" => Arg(n) \in Operators
                /\ Kind(n) \in {"STR", "NUM"} => Printable(Ast[n].value)
                /\ Kind(n) \in Consumers =>
                    /\ \A k \in KidSet(n) : Kind(k) \in Expressions
                    /\ Ast[n].then \in DOMAIN Ast /\ Kind(Ast[n].then) = "BLOCK"
                    /\ Len(Kids(n)) = (IF Kind(n) = "OP" THEN 2 ELSE 1)
                    /\ \A i, j \in DOMAIN Kids(n) : Kids(n)[i] = Kids(n)[j] => i = j
                /\ Kind(n) = "BLOCK" => \A k \in KidSet(n) : Kind(k) \in Statements
                /\ Kind(n) \notin Consumers \cup Blocks => Kids(n) = <<>>
           /\ \A m, n \in DOMAIN Ast : \A k \in KidSet(m) \cap KidSet(n) :
                Kind(k) \in Expressions => m = n
<1> DEFINE p == ProgramOf[script]
<1>1. ShapeOf(p)
  BY WellShaped
<1>2. /\ Ast = p.ast /\ Functions = p.fun
      /\ \A n : Kind(n) = p.ast[n].kind /\ Arg(n) = p.ast[n].arg /\ Kids(n) = p.ast[n].kids
      /\ \A n : KidSet(n) = ChildrenOf(p, n)
  BY DEF Ast, Functions, Kind, Arg, Kids, KidSet, ChildrenOf
<1> HIDE DEF p
<1> QED
  BY <1>1, <1>2 DEF ShapeOf

-----------------------------------------------------------------------------
(* The stack. *)
StackEntries == [node : DOMAIN Ast, done : BOOLEAN]

LEMMA PopStack ==
    ASSUME NEW S, NEW s \in Seq(S), s # <<>>
    PROVE  /\ Tail(s) \in Seq(S) /\ Len(Tail(s)) = Len(s) - 1
           /\ \A i \in 1..Len(s) - 1 : Tail(s)[i] = s[i + 1]
           /\ Len(s) \in Nat /\ Len(s) >= 1 /\ s[1] \in S
OBVIOUS

LEMMA PushStack ==
    ASSUME NEW S, NEW a \in Seq(S), NEW x \in S, NEW s \in Seq(S), s # <<>>,
           NEW t, t = a \o <<x>> \o Tail(s)
    PROVE  /\ t \in Seq(S) /\ Len(t) = Len(a) + Len(s)
           /\ \A i \in 1..Len(a) : t[i] = a[i]
           /\ t[Len(a) + 1] = x
           /\ \A i \in 2..Len(s) : t[Len(a) + i] = s[i]
<1> DEFINE u == a \o <<x>>
<1>1. /\ u \in Seq(S) /\ Len(u) = Len(a) + 1 /\ u[Len(a) + 1] = x
      /\ \A i \in 1..Len(a) : u[i] = a[i]
  OBVIOUS
<1>2. /\ Tail(s) \in Seq(S) /\ Len(Tail(s)) = Len(s) - 1 /\ Len(s) \in Nat /\ Len(a) \in Nat
      /\ \A i \in 1..Len(s) - 1 : Tail(s)[i] = s[i + 1]
  BY PopStack
<1>3. t = u \o Tail(s)
  OBVIOUS
<1> HIDE DEF u
<1>4. /\ t \in Seq(S) /\ Len(t) = Len(u) + Len(Tail(s))
      /\ \A i \in 1..Len(u) : t[i] = u[i]
      /\ \A i \in 1..Len(Tail(s)) : t[Len(u) + i] = Tail(s)[i]
  BY <1>1, <1>2, <1>3
<1>5. \A i \in 2..Len(s) : t[Len(a) + i] = s[i]
  <2> TAKE i \in 2..Len(s)
  <2>1. i - 1 \in 1..Len(s) - 1 /\ (i - 1) + 1 = i /\ Len(u) + (i - 1) = Len(a) + i
    BY <1>1, <1>2
  <2>2. t[Len(u) + (i - 1)] = Tail(s)[i - 1]
    BY <1>2, <1>4, <2>1
  <2>3. Tail(s)[i - 1] = s[(i - 1) + 1]
    BY <1>2, <2>1
  <2> QED
    BY <2>1, <2>2, <2>3
<1> QED
  BY <1>1, <1>2, <1>4, <1>5

-----------------------------------------------------------------------------
(* Types. *)
LEMMA FunctionIsSeq ==
    ASSUME NEW S, NEW n \in Nat, NEW f \in [1..n -> S]
    PROVE  f \in Seq(S) /\ Len(f) = n
<1>1. f \in Seq(S)
  BY SeqDef
<1> QED
  BY <1>1, LenProperties

LEMMA SeqPrefix ==
    ASSUME NEW S, NEW x \in S, NEW y \in S, NEW s \in Seq(S), NEW a \in Seq(S)
    PROVE  <<x>> \o s \in Seq(S) /\ <<x, y>> \o s \in Seq(S) /\ a \o <<x>> \o s \in Seq(S)
OBVIOUS

LEMMA TopTyped ==
    ASSUME TypeOK, stack # <<>>
    PROVE  /\ stack \in Seq(StackEntries) /\ stack[1] \in StackEntries
           /\ Top \in DOMAIN Ast /\ Tail(stack) \in Seq(StackEntries)
<1>1. stack \in Seq(StackEntries)
  BY DEF TypeOK, StackEntries
<1>2. stack[1] \in StackEntries /\ Tail(stack) \in Seq(StackEntries)
  BY <1>1, PopStack
<1> QED
  BY <1>1, <1>2 DEF StackEntries, Top

LEMMA KidsTyped ==
    ASSUME TypeOK, NEW n \in DOMAIN Ast
    PROVE  /\ Kids(n) \in Seq(DOMAIN Ast) /\ Entries(Kids(n)) \in Seq(StackEntries)
           /\ Len(Entries(Kids(n))) = Len(Kids(n))
           /\ \A i \in 1..Len(Kids(n)) : Entries(Kids(n))[i] = Entry(Kids(n)[i], FALSE)
           /\ \A i \in DOMAIN Kids(n) : Kids(n)[i] \in DOMAIN Ast
<1>1. Kids(n) \in Seq(DOMAIN Ast)
  BY Shape DEF TypeOK
<1> DEFINE k == Kids(n)
<1>2. k \in Seq(DOMAIN Ast)
  BY <1>1
<1> HIDE DEF k
<1>3. \A i \in DOMAIN k : k[i] \in DOMAIN Ast
  BY <1>2
<1>4. \A i \in DOMAIN k : Entry(k[i], FALSE) \in StackEntries
  BY <1>3 DEF Entry, StackEntries
<1>5. Len(k) \in Nat /\ DOMAIN k = 1..Len(k)
  BY <1>2
<1>6. Entries(k) = [i \in 1..Len(k) |-> Entry(k[i], FALSE)]
  BY <1>5 DEF Entries
<1>7. /\ Entries(k) \in Seq(StackEntries) /\ Len(Entries(k)) = Len(k)
      /\ \A i \in 1..Len(k) : Entries(k)[i] = Entry(k[i], FALSE)
  <2> DEFINE e == Entries(k)
             S == StackEntries
             N == Len(k)
  <2>1. e = [i \in 1..N |-> Entry(k[i], FALSE)] /\ N \in Nat
    BY <1>5, <1>6
  <2>2. \A i \in 1..N : Entry(k[i], FALSE) \in S
    BY <1>4, <1>5
  <2> HIDE DEF e, S, N
  <2>3. \A i \in 1..N : e[i] = Entry(k[i], FALSE) /\ e[i] \in S
    BY <2>1, <2>2
  <2>4. e \in Seq(S) /\ Len(e) = N
    <3>1. e \in [1..N -> S]
      BY <2>1, <2>2
    <3> QED
      BY <2>1, <3>1, FunctionIsSeq
  <2> QED
    BY <2>3, <2>4, Zenon DEF e, S, N
<1> QED
  BY <1>2, <1>3, <1>5, <1>7, Zenon DEF k

LEMMA EntryTyped ==
    ASSUME NEW n \in DOMAIN Ast, NEW d \in BOOLEAN
    PROVE  Entry(n, d) \in StackEntries
BY DEF Entry, StackEntries

LEMMA ConsumerTyped ==
    ASSUME TypeOK, NEW n \in DOMAIN Ast, Kind(n) \in Consumers
    PROVE  /\ Kids(n)[1] \in DOMAIN Ast /\ Kids(n)[1] \in KidSet(n)
           /\ Operand(n, 1).type \in {"NONE", "NUMBER", "STRING", "BOOL"}
<1>1. /\ Kids(n) \in Seq(DOMAIN Ast)
      /\ Len(Kids(n)) = (IF Kind(n) = "OP" THEN 2 ELSE 1)
  BY Shape DEF TypeOK
<1> DEFINE k == Kids(n)
<1>3. k \in Seq(DOMAIN Ast) /\ Len(k) >= 1
  BY <1>1
<1> HIDE DEF k
<1>4. 1 \in DOMAIN k /\ k[1] \in DOMAIN Ast
  BY <1>3
<1>2. 1 \in DOMAIN Kids(n) /\ Kids(n)[1] \in DOMAIN Ast
  BY <1>4 DEF k
<1> QED
  BY <1>2 DEF KidSet, Operand, TypeOK

LEMMA ValueTyped ==
    ASSUME TypeOK, NEW n \in DOMAIN Ast, Kind(n) \in Expressions, ValueOf(n) # Error
    PROVE  ValueOf(n).type \in {"NONE", "NUMBER", "STRING", "BOOL"}
<1>1. CASE Kind(n) = "OP"
  <2>1. Arg(n) \in Operators
    BY <1>1, Shape DEF TypeOK
  <2>2. ValueOf(n) = Apply(Arg(n), Operand(n, 1), Operand(n, 2))
    BY <1>1 DEF ValueOf
  <2> QED
    BY <2>1, <2>2, ApplyType
<1>2. CASE Kind(n) = "VARIANT"
  BY <1>2 DEF ValueOf, TypeOK, Printable
<1>3. CASE Kind(n) \in {"STR", "NUM"}
  BY <1>3, Shape DEF ValueOf, TypeOK, Printable
<1> QED
  BY <1>1, <1>2, <1>3 DEF Expressions

LEMMA VariableTyped ==
    ASSUME TypeOK, NEW x, NEW v, Printable(v), SetVariable(x, v)
    PROVE  \A y \in DOMAIN vars' : Printable(vars'[y])
BY DEF TypeOK, SetVariable

LEMMA InitTyped == Init => TypeOK
<1> SUFFICES ASSUME Init PROVE TypeOK
  OBVIOUS
<1>1. MaxAsks \in Nat
  BY BoundAssumption
<1>2. stack \in Seq([node : DOMAIN Ast, done : BOOLEAN])
  BY DEF Init
<1>3. DOMAIN cell = DOMAIN Ast /\ \A n \in DOMAIN cell : cell[n].type = "NONE"
  BY DEF Init, Ast, None
<1>4. DOMAIN vars = {}
  BY DEF Init
<1> QED
  <2>1. /\ script \in Scripts /\ mode = "idle" /\ failed = FALSE /\ unread = FALSE
        /\ fresh = {} /\ asked = 0
    BY DEF Init
  <2>2. \A n \in DOMAIN cell : cell[n].type \in {"NONE", "NUMBER", "STRING", "BOOL"}
    BY <1>3
  <2>3. \A x \in DOMAIN vars : Printable(vars[x])
    BY <1>4
  <2>4. asked \in 0..MaxAsks
    BY <1>1, <2>1
  <2> QED
    BY <1>2, <1>3, <2>1, <2>2, <2>3, <2>4 DEF TypeOK

LEMMA StepTyped == TypeOK /\ [Next]_state => TypeOK'
<1> SUFFICES ASSUME TypeOK, [Next]_state PROVE TypeOK'
  OBVIOUS
<1> USE DEF TypeOK
<1>1. ASSUME NEW m \in Messages, Start(m) PROVE TypeOK'
  <2>1. Ast' = Ast
    BY <1>1 DEF Start, Ast
  <2>2. Entry(Root, FALSE) \in StackEntries
    BY Shape, EntryTyped
  <2>3. stack' \in Seq(StackEntries)
    <3>1. stack' = stack \/ stack' = <<Entry(Root, FALSE)>>
      BY <1>1 DEF Start
    <3>2. <<Entry(Root, FALSE)>> \in Seq(StackEntries)
      <4> DEFINE S == StackEntries
                 x == Entry(Root, FALSE)
      <4>1. x \in S
        BY <2>2
      <4> HIDE DEF S, x
      <4>2. <<x>> \in Seq(S)
        BY <4>1
      <4> QED
        BY <4>2 DEF S, x
    <3>3. stack \in Seq(StackEntries)
      BY DEF StackEntries
    <3> QED
      BY <3>1, <3>2, <3>3
  <2>4. asked' \in 0..MaxAsks
    BY <1>1, BoundAssumption DEF Start
  <2>5. mode' \in {"idle", "run", "continue", "over", "hung"}
    BY <1>1 DEF Start
  <2> QED
    BY <1>1, <2>1, <2>3, <2>4, <2>5 DEF Start, StackEntries
<1>2. ASSUME NEW m \in Messages, Resume(m) PROVE TypeOK'
  <2>1. asked' \in 0..MaxAsks
    BY <1>2, BoundAssumption DEF Resume
  <2> QED
    BY <1>2, <2>1 DEF Resume, Ast
<1>3. ASSUME Finished PROVE TypeOK'
  BY <1>3 DEF Finished, LeaveLoop, Ast
<1>4. ASSUME Suspend PROVE TypeOK'
  <2>1. stack' \in Seq(StackEntries)
    BY <1>4, TopTyped, SeqPrefix, EntryTyped DEF Suspend, AtOpen
  <2> QED
    BY <1>4, <2>1 DEF Suspend, LeaveLoop, Ast, StackEntries
<1>5. ASSUME Open PROVE TypeOK'
  <2>1. stack # <<>> /\ Push(Top)
    BY <1>5 DEF Open, AtOpen
  <2>2. stack' \in Seq(StackEntries)
    BY <2>1, TopTyped, SeqPrefix, EntryTyped, KidsTyped DEF Push
  <2> QED
    BY <1>5, <2>2 DEF Open, said, Ast, StackEntries
<1>6. ASSUME OpenCall PROVE TypeOK'
  <2>1. Functions[Arg(Top)] \in DOMAIN Ast
    BY <1>6, Shape DEF OpenCall
  <2>3. /\ stack # <<>>
        /\ stack' = <<Entry(Functions[Arg(Top)], FALSE)>> \o (<<Entry(Top, TRUE)>> \o Tail(stack))
    BY <1>6 DEF OpenCall, AtOpen
  <2>4. <<Entry(Top, TRUE)>> \o Tail(stack) \in Seq(StackEntries)
    BY <2>3, TopTyped, SeqPrefix, EntryTyped
  <2>2. stack' \in Seq(StackEntries)
    BY <2>1, <2>3, <2>4, SeqPrefix, EntryTyped
  <2> QED
    BY <1>6, <2>2 DEF OpenCall, said, Ast, StackEntries
<1>7. ASSUME Evaluate PROVE TypeOK'
  <2>1. stack' \in Seq(StackEntries) /\ Top \in DOMAIN Ast
    BY <1>7, TopTyped DEF Evaluate, AtDone
  <2>2. ValueOf(Top).type \in {"NONE", "NUMBER", "STRING", "BOOL"}
    BY <1>7, <2>1, ValueTyped DEF Evaluate
  <2>3. /\ DOMAIN cell' = DOMAIN Ast
        /\ \A n \in DOMAIN cell' : cell'[n].type \in {"NONE", "NUMBER", "STRING", "BOOL"}
    BY <1>7, <2>1, <2>2 DEF Evaluate
  <2> QED
    BY <1>7, <2>1, <2>3 DEF Evaluate, said, Ast, StackEntries
<1>8. ASSUME Assign PROVE TypeOK'
  <2>1. stack' \in Seq(StackEntries)
    BY <1>8, TopTyped DEF Assign, AtDone
  <2>2. \A x \in DOMAIN vars' : Printable(vars'[x])
    BY <1>8, VariableTyped DEF Assign
  <2> QED
    BY <1>8, <2>1, <2>2 DEF Assign, said, Ast, StackEntries
<1>9. ASSUME SendOut PROVE TypeOK'
  <2>1. stack' \in Seq(StackEntries)
    BY <1>9, TopTyped DEF SendOut, AtDone
  <2> QED
    BY <1>9, <2>1 DEF SendOut, said, Ast, StackEntries
<1>10. ASSUME Branch PROVE TypeOK'
  <2>1. stack # <<>> /\ Top \in DOMAIN Ast
    BY <1>10, TopTyped DEF Branch, AtDone
  <2>2. Ast[Top].then \in DOMAIN Ast
    BY <1>10, <2>1, Shape DEF Branch, Consumers
  <2>3. stack' \in Seq(StackEntries)
    BY <1>10, <2>1, <2>2, TopTyped, SeqPrefix, EntryTyped DEF Branch
  <2> QED
    BY <1>10, <2>3 DEF Branch, said, Ast, StackEntries
<1>11. ASSUME Receive PROVE TypeOK'
  <2>1. stack' \in Seq(StackEntries)
    BY <1>11, TopTyped DEF Receive, AtDone
  <2>2. \A x \in DOMAIN vars' : Printable(vars'[x])
    BY <1>11, VariableTyped, ReadType DEF Receive
  <2> QED
    BY <1>11, <2>1, <2>2 DEF Receive, Ast, StackEntries
<1>12. ASSUME Leave PROVE TypeOK'
  <2>1. stack' \in Seq(StackEntries)
    BY <1>12, TopTyped DEF Leave, AtDone
  <2> QED
    BY <1>12, <2>1 DEF Leave, said, Ast, StackEntries
<1>13. ASSUME Fault PROVE TypeOK'
  <2>1. stack # <<>>
    BY <1>13 DEF Fault, AtDone, AtOpen
  <2>2. stack' = Tail(stack) \/ stack' = <<Entry(Top, TRUE)>> \o Tail(stack)
    BY <1>13 DEF Fault
  <2>3. stack' \in Seq(StackEntries)
    <3>1. Tail(stack) \in Seq(StackEntries) /\ Top \in DOMAIN Ast
      BY <2>1, TopTyped
    <3>2. Entry(Top, TRUE) \in StackEntries
      BY <3>1, EntryTyped
    <3>3. <<Entry(Top, TRUE)>> \o Tail(stack) \in Seq(StackEntries)
      BY <3>1, <3>2, SeqPrefix
    <3> QED
      BY <2>2, <3>1, <3>3
  <2>4. failed' \in BOOLEAN /\ unread' \in BOOLEAN /\ mode' \in {"idle", "continue"}
    BY <1>13 DEF Fault
  <2> QED
    BY <1>13, <2>3, <2>4 DEF Fault, Ast, StackEntries
<1>14. ASSUME Stopped \/ UNCHANGED state PROVE TypeOK'
  BY <1>14 DEF Stopped, state, Ast
<1> QED
  BY <1>1, <1>2, <1>3, <1>4, <1>5, <1>6, <1>7, <1>8, <1>9, <1>10, <1>11, <1>12, <1>13,
     <1>14 DEF Next, Step

(* Every cached value is a value and every variable has a number or a string,
   whatever the script and the client do. *)
THEOREM TypeCorrect == Spec => []TypeOK
BY InitTyped, StepTyped, PTL DEF Spec

-----------------------------------------------------------------------------
(* Fresh operands.  A consumer that has been opened is hungry until it is     *)
(* executed.  Every expression on a stack s belongs to a hungry node below    *)
(* it, is there once, and nothing but expressions lies above a hungry node;   *)
(* an operand of a hungry node is in the set f or still to come.              *)
Hungry(e) == e.done /\ Kind(e.node) \in Consumers
IsExp(e)  == Kind(e.node) \in Expressions

Fed(s) ==
    \A i \in 1..Len(s) : IsExp(s[i]) =>
        \E j \in 1..Len(s) : j > i /\ Hungry(s[j]) /\ s[i].node \in KidSet(s[j].node)
Once(s) ==
    \A i, j \in 1..Len(s) : IsExp(s[i]) /\ s[i].node = s[j].node => i = j
Above(s) ==
    \A i, j \in 1..Len(s) : i < j /\ Hungry(s[j]) => IsExp(s[i])
Pending(s, f) ==
    \A j \in 1..Len(s) : Hungry(s[j]) =>
        \A k \in KidSet(s[j].node) :
            k \in f \/ \E i \in 1..Len(s) : i < j /\ s[i].node = k
UseOf(s, f) == Fed(s) /\ Once(s) /\ Above(s) /\ Pending(s, f)

UseInv == failed \/ UseOf(stack, fresh)

LEMMA Elements ==
    ASSUME NEW S, NEW s \in Seq(S)
    PROVE  Len(s) \in Nat /\ \A i \in 1..Len(s) : s[i] \in S
OBVIOUS

LEMMA NodesTyped ==
    ASSUME NEW s \in Seq(StackEntries)
    PROVE  Len(s) \in Nat /\ \A i \in 1..Len(s) : s[i].node \in DOMAIN Ast
<1>1. Len(s) \in Nat /\ \A i \in 1..Len(s) : s[i] \in StackEntries
  BY Elements
<1> QED
  BY <1>1 DEF StackEntries

LEMMA Quiet ==
    ASSUME NEW s, NEW f, \A i \in 1..Len(s) : ~Hungry(s[i]) /\ ~IsExp(s[i])
    PROVE  UseOf(s, f)
BY DEF UseOf, Fed, Once, Above, Pending

(* Below a statement that is on top nothing waits for a value. *)
LEMMA NoneWaiting ==
    ASSUME NEW s \in Seq(StackEntries), s # <<>>, NEW f, UseOf(s, f), ~IsExp(s[1])
    PROVE  \A i \in 2..Len(s) : ~Hungry(s[i]) /\ ~IsExp(s[i])
<1>1. Len(s) \in Nat /\ Len(s) >= 1
  BY PopStack
<1>2. \A i \in 2..Len(s) : ~Hungry(s[i])
  BY <1>1 DEF UseOf, Above
<1>3. \A i \in 2..Len(s) : ~IsExp(s[i])
  <2> SUFFICES ASSUME NEW i \in 2..Len(s), IsExp(s[i]) PROVE FALSE
    OBVIOUS
  <2>1. PICK j \in 1..Len(s) : j > i /\ Hungry(s[j])
    BY <1>1 DEF UseOf, Fed
  <2> QED
    BY <1>1, <1>2, <2>1
<1> QED
  BY <1>2, <1>3

(* An expression that has been executed leaves the stack and is fresh. *)
LEMMA PopUse ==
    ASSUME script \in Scripts, NEW s \in Seq(StackEntries), s # <<>>, NEW f, UseOf(s, f),
           IsExp(s[1])
    PROVE  UseOf(Tail(s), (f \ KidSet(s[1].node)) \cup {s[1].node})
<1> DEFINE t == Tail(s)
           n == s[1].node
           g == (f \ KidSet(n)) \cup {n}
<1>1. /\ Len(s) \in Nat /\ Len(s) >= 1 /\ Len(t) = Len(s) - 1
      /\ \A i \in 1..Len(s) - 1 : t[i] = s[i + 1]
      /\ \A i \in 1..Len(s) : s[i].node \in DOMAIN Ast
  BY PopStack, NodesTyped
<1> HIDE DEF t
<1>2. Fed(t)
  <2> SUFFICES ASSUME NEW i \in 1..Len(t), IsExp(t[i])
               PROVE  \E j \in 1..Len(t) :
                        j > i /\ Hungry(t[j]) /\ t[i].node \in KidSet(t[j].node)
    BY DEF Fed
  <2>1. i + 1 \in 1..Len(s) /\ t[i] = s[i + 1]
    BY <1>1
  <2>2. PICK j \in 1..Len(s) : j > i + 1 /\ Hungry(s[j]) /\ s[i + 1].node \in KidSet(s[j].node)
    BY <2>1 DEF UseOf, Fed
  <2>3. j - 1 \in 1..Len(t) /\ j - 1 > i /\ t[j - 1] = s[(j - 1) + 1] /\ (j - 1) + 1 = j
    BY <1>1, <2>2
  <2> QED
    BY <2>1, <2>2, <2>3
<1>3. Once(t)
  <2> SUFFICES ASSUME NEW i \in 1..Len(t), NEW j \in 1..Len(t), IsExp(t[i]), t[i].node = t[j].node
               PROVE  i = j
    BY DEF Once
  <2>1. i + 1 \in 1..Len(s) /\ j + 1 \in 1..Len(s) /\ t[i] = s[i + 1] /\ t[j] = s[j + 1]
    BY <1>1
  <2>2. i + 1 = j + 1
    BY <2>1 DEF UseOf, Once
  <2> QED
    BY <1>1, <2>2
<1>4. Above(t)
  <2> SUFFICES ASSUME NEW i \in 1..Len(t), NEW j \in 1..Len(t), i < j, Hungry(t[j])
               PROVE  IsExp(t[i])
    BY DEF Above
  <2>1. /\ i + 1 \in 1..Len(s) /\ j + 1 \in 1..Len(s) /\ t[i] = s[i + 1] /\ t[j] = s[j + 1]
        /\ i + 1 < j + 1
    BY <1>1
  <2> QED
    BY <2>1 DEF UseOf, Above
<1>5. Pending(t, g)
  <2> SUFFICES ASSUME NEW j \in 1..Len(t), Hungry(t[j]), NEW k \in KidSet(t[j].node), k \notin g
               PROVE  \E i \in 1..Len(t) : i < j /\ t[i].node = k
    BY DEF Pending
  <2>1. j + 1 \in 1..Len(s) /\ t[j] = s[j + 1]
    BY <1>1
  <2>2. k \in f \/ \E i \in 1..Len(s) : i < j + 1 /\ s[i].node = k
    BY <2>1 DEF UseOf, Pending
  <2>3. k \notin KidSet(n)
    <3> SUFFICES ASSUME k \in KidSet(n) PROVE FALSE
      OBVIOUS
    <3>1. n \in DOMAIN Ast /\ t[j].node \in DOMAIN Ast
      BY <1>1, <2>1
    <3>2. Kind(k) \in Expressions
      BY <3>1, Shape DEF Hungry
    <3>3. n = s[j + 1].node
      BY <2>1, <3>1, <3>2, Shape
    <3>4. 1 \in 1..Len(s) /\ 1 # j + 1
      BY <1>1
    <3> QED
      BY <2>1, <3>3, <3>4 DEF UseOf, Once
  <2>4. k \notin f /\ k # n
    BY <2>3
  <2>5. PICK i \in 1..Len(s) : i < j + 1 /\ s[i].node = k
    BY <2>2, <2>4
  <2>6. i # 1
    BY <2>4, <2>5
  <2>7. i - 1 \in 1..Len(t) /\ i - 1 < j /\ t[i - 1] = s[(i - 1) + 1] /\ (i - 1) + 1 = i
    BY <1>1, <2>5, <2>6
  <2> QED
    BY <2>5, <2>7
<1> QED
  BY <1>2, <1>3, <1>4, <1>5 DEF UseOf, t

(* What a node looks like on a stack t on which s[1] has just been opened. *)
Opened(s, t, n, N) ==
    /\ n \in DOMAIN Ast /\ n = s[1].node /\ N \in Nat /\ N = Len(Kids(n))
    /\ Len(t) = N + Len(s)
    /\ \A i \in 1..N : t[i] = Entry(Kids(n)[i], FALSE)
    /\ t[N + 1] = Entry(n, TRUE)
    /\ \A i \in 2..Len(s) : t[N + i] = s[i]

LEMMA PushOpens ==
    ASSUME TypeOK, AtOpen, Push(Top)
    PROVE  Opened(stack, stack', Top, Len(Kids(Top)))
<1>1. /\ stack \in Seq(StackEntries) /\ stack # <<>> /\ Top \in DOMAIN Ast
  BY TopTyped DEF AtOpen
<1>2. /\ Entries(Kids(Top)) \in Seq(StackEntries) /\ Len(Entries(Kids(Top))) = Len(Kids(Top))
      /\ \A i \in 1..Len(Kids(Top)) : Entries(Kids(Top))[i] = Entry(Kids(Top)[i], FALSE)
      /\ Kids(Top) \in Seq(DOMAIN Ast)
  BY <1>1, KidsTyped
<1>3. Entry(Top, TRUE) \in StackEntries
  BY <1>1, EntryTyped
<1>4. Len(Kids(Top)) \in Nat
  BY <1>2, Elements
<1> DEFINE a == Entries(Kids(Top))
           x == Entry(Top, TRUE)
           N == Len(Kids(Top))
<1>5. stack' = a \o <<x>> \o Tail(stack)
  BY DEF Push
<1>6. a \in Seq(StackEntries) /\ x \in StackEntries /\ Len(a) = N
  BY <1>2, <1>3
<1>7. \A i \in 1..N : a[i] = Entry(Kids(Top)[i], FALSE)
  BY <1>2
<1>8. N \in Nat
  BY <1>4
<1> HIDE DEF a, N, x
<1>9. /\ Len(stack') = N + Len(stack)
      /\ \A i \in 1..N : stack'[i] = a[i]
      /\ stack'[N + 1] = x
      /\ \A i \in 2..Len(stack) : stack'[N + i] = stack[i]
  <2>1. PICK t : t = stack'
    OBVIOUS
  <2>2. t = a \o <<x>> \o Tail(stack)
    BY <1>5, <2>1
  <2>3. /\ Len(t) = Len(a) + Len(stack)
        /\ \A i \in 1..Len(a) : t[i] = a[i]
        /\ t[Len(a) + 1] = x
        /\ \A i \in 2..Len(stack) : t[Len(a) + i] = stack[i]
    <3>1. PICK S : S = StackEntries
      OBVIOUS
    <3>2. PICK b : b = a
      OBVIOUS
    <3>3. PICK y : y = x
      OBVIOUS
    <3>4. PICK s : s = stack
      OBVIOUS
    <3>5. s \in Seq(S) /\ s # <<>> /\ b \in Seq(S) /\ y \in S /\ t = b \o <<y>> \o Tail(s)
      BY <1>1, <1>6, <2>2, <3>1, <3>2, <3>3, <3>4
    <3>6. /\ Len(t) = Len(b) + Len(s)
          /\ \A i \in 1..Len(b) : t[i] = b[i]
          /\ t[Len(b) + 1] = y
          /\ \A i \in 2..Len(s) : t[Len(b) + i] = s[i]
      BY <3>5, PushStack
    <3> QED
      BY <3>2, <3>3, <3>4, <3>6, Zenon
  <2>4. Len(a) = N
    BY <1>6
  <2> QED
    BY <2>1, <2>3, <2>4, Zenon
<1>10. \A i \in 1..N : stack'[i] = Entry(Kids(Top)[i], FALSE)
  BY <1>7, <1>9
<1>11. Top = stack[1].node
  BY DEF Top
<1> QED
  BY <1>1, <1>8, <1>9, <1>10, <1>11, Zenon DEF Opened, N, x

(* No operand of the node on top was on the stack before. *)
LEMMA KidsAbsent ==
    ASSUME script \in Scripts, NEW s \in Seq(StackEntries), s # <<>>, NEW f, UseOf(s, f),
           NEW n \in DOMAIN Ast, n = s[1].node, Kind(n) \in Consumers,
           NEW i \in 1..Len(s)
    PROVE  s[i].node \notin KidSet(n)
<1> SUFFICES ASSUME s[i].node \in KidSet(n) PROVE FALSE
  OBVIOUS
<1>1. Len(s) \in Nat /\ Len(s) >= 1 /\ \A j \in 1..Len(s) : s[j].node \in DOMAIN Ast
  BY PopStack, NodesTyped
<1>2. IsExp(s[i])
  BY Shape DEF IsExp
<1>3. PICK h \in 1..Len(s) : h > i /\ Hungry(s[h]) /\ s[i].node \in KidSet(s[h].node)
  BY <1>2 DEF UseOf, Fed
<1>4. s[h].node = n
  BY <1>1, <1>2, <1>3, Shape DEF IsExp
<1>5. h \in 2..Len(s) /\ 1 \in 1..Len(s) /\ h # 1
  BY <1>1, <1>3
<1>6. CASE IsExp(s[1])
  BY <1>4, <1>5, <1>6 DEF UseOf, Once
<1>7. CASE ~IsExp(s[1])
  BY <1>3, <1>5, <1>7, NoneWaiting
<1> QED
  BY <1>6, <1>7

LEMMA OpenedEntries ==
    ASSUME NEW s, NEW t, NEW n, NEW N, Opened(s, t, n, N), Len(s) \in Nat, Len(s) >= 1
    PROVE  /\ \A i \in 1..N : ~Hungry(t[i]) /\ t[i].node = Kids(n)[i]
           /\ \A i \in 1..Len(s) : t[N + i].node = s[i].node
           /\ Hungry(t[N + 1]) <=> Kind(n) \in Consumers
           /\ \A i \in 2..Len(s) : Hungry(t[N + i]) <=> Hungry(s[i])
<1>1. \A i \in 1..N : ~Hungry(t[i]) /\ t[i].node = Kids(n)[i]
  <2>1. \A k : Entry(k, FALSE).done = FALSE /\ Entry(k, FALSE).node = k
    BY DEF Entry
  <2>2. \A i \in 1..N : t[i] = Entry(Kids(n)[i], FALSE)
    BY DEF Opened
  <2> QED
    BY <2>1, <2>2 DEF Hungry
<1>2. t[N + 1].node = n /\ t[N + 1].done = TRUE
  BY DEF Opened, Entry
<1>3. \A i \in 2..Len(s) : t[N + i] = s[i]
  BY DEF Opened
<1>4. n = s[1].node
  BY DEF Opened
<1> QED
  BY <1>1, <1>2, <1>3, <1>4 DEF Hungry

LEMMA OpenedKids ==
    ASSUME script \in Scripts, NEW n \in DOMAIN Ast, NEW N, N = Len(Kids(n))
    PROVE  /\ N \in Nat
           /\ \A i \in 1..N : Kids(n)[i] \in KidSet(n)
           /\ \A k \in KidSet(n) : \E i \in 1..N : Kids(n)[i] = k
           /\ Kind(n) \in Consumers => \A i, j \in 1..N : Kids(n)[i] = Kids(n)[j] => i = j
           /\ Kind(n) \notin Consumers \cup Blocks => N = 0 /\ KidSet(n) = {}
<1>1. Kids(n) \in Seq(DOMAIN Ast)
  BY Shape
<1>2. DOMAIN Kids(n) = 1..N /\ N \in Nat
  BY <1>1
<1>3. Kind(n) \notin Consumers \cup Blocks => Kids(n) = <<>>
  BY Shape
<1>4. Kind(n) \in Consumers => \A i, j \in DOMAIN Kids(n) : Kids(n)[i] = Kids(n)[j] => i = j
  BY Shape
<1> QED
  BY <1>2, <1>3, <1>4 DEF KidSet

(* A block is opened when nothing waits for a value. *)
LEMMA OpenBlock ==
    ASSUME script \in Scripts, NEW s \in Seq(StackEntries), s # <<>>, NEW f, UseOf(s, f),
           NEW n, NEW N, NEW t, Opened(s, t, n, N), Kind(n) = "BLOCK", NEW g
    PROVE  UseOf(t, g)
<1>1. Len(s) \in Nat /\ Len(s) >= 1 /\ N \in Nat /\ Len(t) = N + Len(s) /\ n \in DOMAIN Ast
  BY PopStack DEF Opened
<1>2. ~IsExp(s[1])
  BY DEF IsExp, Expressions, Opened
<1>3. \A i \in 2..Len(s) : ~Hungry(s[i]) /\ ~IsExp(s[i])
  BY <1>2, NoneWaiting
<1>4. \A i \in 1..Len(t) : ~Hungry(t[i]) /\ ~IsExp(t[i])
  <2> SUFFICES ASSUME NEW i \in 1..Len(t) PROVE ~Hungry(t[i]) /\ ~IsExp(t[i])
    OBVIOUS
  <2>1. CASE i \in 1..N
    <3>1. ~Hungry(t[i]) /\ t[i].node = Kids(n)[i]
      BY <1>1, <2>1, OpenedEntries
    <3>2. Kids(n)[i] \in KidSet(n)
      BY <1>1, <2>1, OpenedKids DEF Opened
    <3>3. Kind(Kids(n)[i]) \in Statements
      BY <1>1, <3>2, Shape
    <3> QED
      BY <3>1, <3>3 DEF IsExp, Expressions, Statements
  <2>2. CASE i = N + 1
    <3>1. ~Hungry(t[i])
      BY <1>1, <2>2, OpenedEntries DEF Consumers
    <3>2. t[i].node = n
      BY <2>2 DEF Opened, Entry
    <3> QED
      BY <3>1, <3>2 DEF IsExp, Expressions
  <2>3. CASE i - N \in 2..Len(s)
    <3>1. N + (i - N) = i
      BY <1>1
    <3>2. t[N + (i - N)] = s[i - N]
      BY <2>3 DEF Opened
    <3> QED
      BY <1>3, <2>3, <3>1, <3>2
  <2> QED
    BY <1>1, <2>1, <2>2, <2>3
<1> QED
  BY <1>4, Quiet

(* An expression, or a statement with an operand, is opened below its
   operands. *)
LEMMA OpenUse ==
    ASSUME script \in Scripts, NEW s \in Seq(StackEntries), s # <<>>, NEW f, UseOf(s, f),
           NEW n, NEW N, NEW t, Opened(s, t, n, N), Kind(n) \in Consumers \cup Expressions
    PROVE  UseOf(t, f \ {n})
<1>1. Len(s) \in Nat /\ Len(s) >= 1 /\ N \in Nat /\ Len(t) = N + Len(s) /\ n \in DOMAIN Ast
  BY PopStack DEF Opened
<1>2. n = s[1].node /\ N = Len(Kids(n))
  BY DEF Opened
<1>3. /\ \A i \in 1..N : ~Hungry(t[i]) /\ t[i].node = Kids(n)[i]
      /\ \A i \in 1..Len(s) : t[N + i].node = s[i].node
      /\ Hungry(t[N + 1]) <=> Kind(n) \in Consumers
      /\ \A i \in 2..Len(s) : Hungry(t[N + i]) <=> Hungry(s[i])
  BY <1>1, OpenedEntries
<1>4. /\ \A i \in 1..N : Kids(n)[i] \in KidSet(n)
      /\ \A k \in KidSet(n) : \E i \in 1..N : Kids(n)[i] = k
      /\ Kind(n) \in Consumers => \A i, j \in 1..N : Kids(n)[i] = Kids(n)[j] => i = j
      /\ Kind(n) \notin Consumers => N = 0 /\ KidSet(n) = {}
  BY <1>1, <1>2, OpenedKids DEF Expressions, Blocks
<1>5. \A k \in KidSet(n) : Kind(n) \in Consumers /\ Kind(k) \in Expressions
  BY <1>1, <1>4, Shape
<1>6. \A i \in 1..Len(s) : s[i].node \notin KidSet(n)
  BY <1>1, <1>2, <1>5, KidsAbsent
<1>7. \A i \in 1..Len(t) : i \in 1..N \/ (i - N \in 1..Len(s) /\ N + (i - N) = i)
  BY <1>1
<1>8. Fed(t)
  <2> SUFFICES ASSUME NEW i \in 1..Len(t), IsExp(t[i])
               PROVE  \E j \in 1..Len(t) :
                        j > i /\ Hungry(t[j]) /\ t[i].node \in KidSet(t[j].node)
    BY DEF Fed
  <2>1. CASE i \in 1..N
    <3>1. t[i].node \in KidSet(n) /\ Kind(n) \in Consumers
      BY <1>3, <1>4, <1>5, <2>1
    <3>2. N + 1 \in 1..Len(t) /\ N + 1 > i /\ 1 \in 1..Len(s)
      BY <1>1, <2>1
    <3>3. t[N + 1].node = n /\ Hungry(t[N + 1])
      BY <1>2, <1>3, <3>1, <3>2
    <3> QED
      BY <3>1, <3>2, <3>3
  <2>2. CASE i - N \in 1..Len(s) /\ N + (i - N) = i
    <3>1. t[i].node = s[i - N].node
      BY <1>3, <2>2
    <3>2. IsExp(s[i - N])
      BY <3>1 DEF IsExp
    <3>3. PICK h \in 1..Len(s) : h > i - N /\ Hungry(s[h]) /\ s[i - N].node \in KidSet(s[h].node)
      BY <2>2, <3>2 DEF UseOf, Fed
    <3>4. h \in 2..Len(s) /\ N + h \in 1..Len(t) /\ N + h > i
      BY <1>1, <2>2, <3>3
    <3>5. Hungry(t[N + h]) /\ t[N + h].node = s[h].node
      BY <1>3, <3>3, <3>4
    <3> QED
      BY <3>1, <3>3, <3>4, <3>5
  <2> QED
    BY <1>7, <2>1, <2>2
<1>9. Once(t)
  <2> SUFFICES ASSUME NEW i \in 1..Len(t), NEW j \in 1..Len(t), IsExp(t[i]), t[i].node = t[j].node
               PROVE  i = j
    BY DEF Once
  <2>1. CASE i \in 1..N /\ j \in 1..N
    BY <1>3, <1>4, <1>5, <2>1
  <2>2. CASE i \in 1..N /\ j - N \in 1..Len(s) /\ N + (j - N) = j
    <3>1. t[i].node \in KidSet(n) /\ t[j].node = s[j - N].node
      BY <1>3, <1>4, <2>2
    <3> QED
      BY <1>6, <2>2, <3>1
  <2>3. CASE j \in 1..N /\ i - N \in 1..Len(s) /\ N + (i - N) = i
    <3>1. t[j].node \in KidSet(n) /\ t[i].node = s[i - N].node
      BY <1>3, <1>4, <2>3
    <3> QED
      BY <1>6, <2>3, <3>1
  <2>4. CASE i - N \in 1..Len(s) /\ N + (i - N) = i /\ j - N \in 1..Len(s) /\ N + (j - N) = j
    <3>1. t[i].node = s[i - N].node /\ t[j].node = s[j - N].node
      BY <1>3, <2>4
    <3>2. i - N = j - N
      BY <2>4, <3>1 DEF UseOf, Once, IsExp
    <3> QED
      BY <1>1, <2>4, <3>2
  <2> QED
    BY <1>7, <2>1, <2>2, <2>3, <2>4
<1>10. Above(t)
  <2> SUFFICES ASSUME NEW i \in 1..Len(t), NEW j \in 1..Len(t), i < j, Hungry(t[j])
               PROVE  IsExp(t[i])
    BY DEF Above
  <2>1. CASE i \in 1..N
    BY <1>3, <1>4, <1>5, <2>1 DEF IsExp
  <2>2. CASE i - N \in 1..Len(s) /\ N + (i - N) = i
    <3>1. j - N \in 2..Len(s) /\ N + (j - N) = j /\ i - N < j - N
      BY <1>1, <2>2
    <3>2. Hungry(s[j - N])
      BY <1>3, <3>1
    <3>3. j - N \in 1..Len(s)
      BY <1>1, <3>1
    <3>4. IsExp(s[i - N])
      BY <2>2, <3>1, <3>2, <3>3 DEF UseOf, Above
    <3>5. t[i].node = s[i - N].node
      BY <1>3, <2>2
    <3> QED
      BY <3>4, <3>5 DEF IsExp
  <2> QED
    BY <1>7, <2>1, <2>2
<1>11. Pending(t, f \ {n})
  <2> SUFFICES ASSUME NEW j \in 1..Len(t), Hungry(t[j]), NEW k \in KidSet(t[j].node),
                      k \notin f \ {n}
               PROVE  \E i \in 1..Len(t) : i < j /\ t[i].node = k
    BY DEF Pending
  <2>1. j - N \in 1..Len(s) /\ N + (j - N) = j
    BY <1>3, <1>7
  <2>2. t[j].node = s[j - N].node
    BY <1>3, <2>1
  <2>3. CASE j = N + 1
    <3>1. k \in KidSet(n)
      BY <1>1, <1>2, <2>2, <2>3
    <3>2. PICK i \in 1..N : Kids(n)[i] = k
      BY <1>4, <3>1
    <3>3. i \in 1..Len(t) /\ i < j
      BY <1>1, <2>3
    <3> QED
      BY <1>3, <3>2, <3>3
  <2>4. CASE j # N + 1
    <3>1. j - N \in 2..Len(s)
      BY <1>1, <2>1, <2>4
    <3>2. Hungry(s[j - N])
      BY <1>3, <2>1, <3>1
    <3>3. k \in f \/ \E i \in 1..Len(s) : i < j - N /\ s[i].node = k
      BY <2>1, <2>2, <3>2 DEF UseOf, Pending
    <3>4. CASE k = n
      <4>1. N + 1 \in 1..Len(t) /\ N + 1 < j /\ 1 \in 1..Len(s)
        BY <1>1, <3>1
      <4>2. t[N + 1].node = k
        BY <1>2, <1>3, <3>4, <4>1
      <4> QED
        BY <4>1, <4>2
    <3>5. CASE k # n
      <4>1. PICK i \in 1..Len(s) : i < j - N /\ s[i].node = k
        BY <3>3, <3>5
      <4>2. N + i \in 1..Len(t) /\ N + i < j
        BY <1>1, <3>1, <4>1
      <4> QED
        BY <1>3, <4>1, <4>2
    <3> QED
      BY <3>4, <3>5
  <2> QED
    BY <2>3, <2>4
<1> QED
  BY <1>8, <1>9, <1>10, <1>11 DEF UseOf

(* The program does not change, so that UseOf means the same in both states. *)
LEMMA UseNext ==
    ASSUME script' = script, failed' \/ UseOf(stack', fresh')
    PROVE  UseInv'
<1>1. Ast' = Ast
  BY DEF Ast
<1>2. CASE failed'
  BY <1>2 DEF UseInv
<1>3. CASE UseOf(stack', fresh')
  <2>1. Fed(stack)'
    BY <1>1, <1>3 DEF UseOf, Fed, Hungry, IsExp, Kind, KidSet, Kids
  <2>2. Once(stack)'
    BY <1>1, <1>3 DEF UseOf, Once, IsExp, Kind
  <2>3. Above(stack)'
    BY <1>1, <1>3 DEF UseOf, Above, Hungry, IsExp, Kind
  <2>4. Pending(stack, fresh)'
    BY <1>1, <1>3 DEF UseOf, Pending, Hungry, Kind, KidSet, Kids
  <2> QED
    <3>1. UseOf(stack, fresh)'
      BY <2>1, <2>2, <2>3, <2>4 DEF UseOf
    <3> QED
      BY <3>1 DEF UseInv
<1> QED
  BY <1>2, <1>3

(* A stack on which nothing waits for a value. *)
Still(s) == \A i \in 1..Len(s) : ~Hungry(s[i]) /\ ~IsExp(s[i])

LEMMA StillUse == ASSUME NEW s, NEW f, Still(s) PROVE UseOf(s, f)
BY Quiet DEF Still

LEMMA StillBelow ==
    ASSUME TypeOK, UseOf(stack, fresh), stack # <<>>, ~IsExp(stack[1])
    PROVE  Tail(stack) \in Seq(StackEntries) /\ Still(Tail(stack))
<1> DEFINE t == Tail(stack)
<1>1. stack \in Seq(StackEntries) /\ t \in Seq(StackEntries)
  BY TopTyped
<1>2. /\ Len(stack) \in Nat /\ Len(stack) >= 1 /\ Len(t) = Len(stack) - 1
      /\ \A i \in 1..Len(stack) - 1 : t[i] = stack[i + 1]
  BY <1>1, PopStack
<1>3. \A i \in 2..Len(stack) : ~Hungry(stack[i]) /\ ~IsExp(stack[i])
  BY <1>1, NoneWaiting
<1> HIDE DEF t
<1>4. Still(t)
  BY <1>2, <1>3 DEF Still
<1> QED
  BY <1>1, <1>4 DEF t

LEMMA StillPut ==
    ASSUME NEW s \in Seq(StackEntries), Still(s), NEW n \in DOMAIN Ast, NEW d \in BOOLEAN,
           Kind(n) \in {"BLOCK", "CALL", "RECV"}
    PROVE  /\ <<Entry(n, d)>> \o s \in Seq(StackEntries)
           /\ Still(<<Entry(n, d)>> \o s)
<1> DEFINE e == Entry(n, d)
           t == <<e>> \o s
<1>1. ~Hungry(e) /\ ~IsExp(e)
  BY DEF Hungry, IsExp, Entry, Consumers, Expressions
<1>2. e \in StackEntries
  BY EntryTyped
<1> HIDE DEF e
<1>3. /\ Len(s) \in Nat /\ Len(t) = Len(s) + 1 /\ t[1] = e
      /\ \A i \in 2..Len(t) : t[i] = s[i - 1]
      /\ t \in Seq(StackEntries)
  BY <1>2
<1> HIDE DEF t
<1>4. Still(t)
  <2> SUFFICES ASSUME NEW i \in 1..Len(t) PROVE ~Hungry(t[i]) /\ ~IsExp(t[i])
    BY DEF Still
  <2>1. CASE i = 1
    BY <1>1, <1>3, <2>1
  <2>2. CASE i \in 2..Len(t)
    BY <1>3, <2>2 DEF Still
  <2> QED
    BY <1>3, <2>1, <2>2
<1> QED
  BY <1>3, <1>4 DEF t, e

LEMMA InitUse == Init => UseInv
<1> SUFFICES ASSUME Init PROVE UseInv
  OBVIOUS
<1>1. Len(stack) = 0
  BY DEF Init
<1>2. Still(stack)
  BY <1>1 DEF Still
<1> QED
  BY <1>2, StillUse DEF UseInv

LEMMA StepUse == TypeOK /\ UseInv /\ [Next]_state => UseInv'
<1> SUFFICES ASSUME TypeOK, UseInv, [Next]_state PROVE UseInv'
  OBVIOUS
<1>1. script' = script /\ script \in Scripts
  BY DEF TypeOK, Next, Step, Start, Resume, Finished, Suspend, Open, OpenCall, Evaluate,
         Assign, SendOut, Branch, Receive, Leave, Fault, Stopped, state
<1>2. CASE failed
  <2>1. failed'
    BY <1>2 DEF Next, Step, Start, Resume, Finished, Suspend, Open, OpenCall, Evaluate,
         Assign, SendOut, Branch, Receive, Leave, Fault, Stopped, state
  <2> QED
    BY <1>1, <2>1, UseNext
<1>3. CASE ~failed
  <2>1. UseOf(stack, fresh)
    BY <1>3 DEF UseInv
  <2> SUFFICES failed' \/ UseOf(stack', fresh')
    BY <1>1, UseNext
  <2>2. ASSUME NEW m \in Messages, Start(m) PROVE UseOf(stack', fresh')
    <3>1. CASE stack' = stack
      BY <2>1, <2>2, <3>1 DEF Start
    <3>2. CASE stack' = <<Entry(Root, FALSE)>>
      <4>1. Root \in DOMAIN Ast /\ Kind(Root) = "BLOCK"
        BY <1>1, Shape
      <4>2. \A e : Len(<<e>>) = 1 /\ <<e>>[1] = e
        OBVIOUS
      <4>3. Len(stack') = 1 /\ stack'[1] = Entry(Root, FALSE)
        BY <3>2, <4>2
      <4>4. Still(stack')
        BY <4>1, <4>3 DEF Still, Hungry, IsExp, Entry, Expressions
      <4> QED
        BY <4>4, StillUse
    <3> QED
      BY <2>2, <3>1, <3>2 DEF Start
  <2>3. ASSUME (\E m \in Messages : Resume(m)) \/ Finished \/ Stopped \/ UNCHANGED state
        PROVE  UseOf(stack', fresh')
    BY <2>1, <2>3 DEF Resume, Finished, Stopped, state
  <2>4. ASSUME Suspend PROVE UseOf(stack', fresh')
    <3>1. stack # <<>> /\ Kind(Top) = "RECV" /\ stack' = <<Entry(Top, TRUE)>> \o Tail(stack)
      BY <2>4 DEF Suspend, AtOpen
    <3>2. Top \in DOMAIN Ast /\ ~IsExp(stack[1])
      BY <3>1, TopTyped DEF IsExp, Top, Expressions
    <3>3. Tail(stack) \in Seq(StackEntries) /\ Still(Tail(stack))
      BY <2>1, <3>1, <3>2, StillBelow
    <3>4. Still(stack')
      BY <3>1, <3>2, <3>3, StillPut
    <3> QED
      BY <3>4, StillUse
  <2>5. ASSUME Open PROVE UseOf(stack', fresh')
    <3>1. /\ AtOpen /\ stack # <<>> /\ Kind(Top) \notin {"RECV", "CALL"} /\ Push(Top)
          /\ fresh' = fresh \ {Top}
      BY <2>5 DEF Open, AtOpen
    <3>2. Opened(stack, stack', Top, Len(Kids(Top)))
      BY <3>1, PushOpens
    <3>3. stack \in Seq(StackEntries) /\ Top \in DOMAIN Ast
      BY <3>1, TopTyped
    <3>4. Kind(Top) \in Expressions \cup Statements \cup Blocks
      BY <1>1, <3>3, Shape
    <3>5. CASE Kind(Top) = "BLOCK"
      BY <1>1, <2>1, <3>1, <3>2, <3>3, <3>5, OpenBlock
    <3>6. CASE Kind(Top) # "BLOCK"
      <4>1. Kind(Top) \in Consumers \cup Expressions
        BY <3>1, <3>4, <3>6 DEF Expressions, Statements, Blocks, Consumers
      <4> QED
        BY <1>1, <2>1, <3>1, <3>2, <3>3, <4>1, OpenUse
    <3> QED
      BY <3>5, <3>6
  <2>6. ASSUME OpenCall PROVE UseOf(stack', fresh')
    <3> DEFINE b == Functions[Arg(Top)]
    <3>1. /\ stack # <<>> /\ Kind(Top) = "CALL" /\ Arg(Top) \in DOMAIN Functions
          /\ stack' = <<Entry(b, FALSE)>> \o (<<Entry(Top, TRUE)>> \o Tail(stack))
      BY <2>6 DEF OpenCall, AtOpen
    <3>2. Top \in DOMAIN Ast /\ ~IsExp(stack[1])
      BY <3>1, TopTyped DEF IsExp, Top, Expressions
    <3>3. Tail(stack) \in Seq(StackEntries) /\ Still(Tail(stack))
      BY <2>1, <3>1, <3>2, StillBelow
    <3>4. b \in DOMAIN Ast /\ Kind(b) = "BLOCK"
      BY <1>1, <3>1, Shape
    <3> HIDE DEF b
    <3> DEFINE u == <<Entry(Top, TRUE)>> \o Tail(stack)
    <3>5. u \in Seq(StackEntries) /\ Still(u)
      BY <3>1, <3>2, <3>3, StillPut
    <3>6. stack' = <<Entry(b, FALSE)>> \o u
      BY <3>1
    <3> HIDE DEF u
    <3>7. Still(stack')
      BY <3>4, <3>5, <3>6, StillPut
    <3> QED
      BY <3>7, StillUse
  <2>7. ASSUME Evaluate PROVE UseOf(stack', fresh')
    <3>1. /\ stack # <<>> /\ IsExp(stack[1]) /\ stack' = Tail(stack)
          /\ fresh' = (fresh \ KidSet(stack[1].node)) \cup {stack[1].node}
      BY <2>7 DEF Evaluate, AtDone, IsExp, Top
    <3>2. stack \in Seq(StackEntries)
      BY <3>1, TopTyped
    <3> QED
      BY <1>1, <2>1, <3>1, <3>2, PopUse
  <2>8. ASSUME Assign \/ SendOut \/ Receive \/ Leave PROVE UseOf(stack', fresh')
    <3>1. stack # <<>> /\ ~IsExp(stack[1]) /\ stack' = Tail(stack)
      BY <2>8 DEF Assign, SendOut, Receive, Leave, AtDone, IsExp, Top, Expressions
    <3>2. Still(stack')
      BY <2>1, <3>1, StillBelow
    <3> QED
      BY <3>2, StillUse
  <2>9. ASSUME Branch PROVE UseOf(stack', fresh')
    <3>1. /\ stack # <<>> /\ Kind(Top) = "IF"
          /\ \/ stack' = Tail(stack)
             \/ stack' = <<Entry(Ast[Top].then, FALSE)>> \o Tail(stack)
      BY <2>9 DEF Branch, AtDone
    <3>2. Top \in DOMAIN Ast /\ ~IsExp(stack[1])
      BY <3>1, TopTyped DEF IsExp, Top, Expressions
    <3>3. Tail(stack) \in Seq(StackEntries) /\ Still(Tail(stack))
      BY <2>1, <3>1, <3>2, StillBelow
    <3>4. Ast[Top].then \in DOMAIN Ast /\ Kind(Ast[Top].then) = "BLOCK"
      BY <1>1, <3>1, <3>2, Shape DEF Consumers
    <3>5. Still(stack')
      BY <3>1, <3>3, <3>4, StillPut
    <3> QED
      BY <3>5, StillUse
  <2>10. ASSUME Fault PROVE failed'
    BY <2>10 DEF Fault
  <2> QED
    BY <2>2, <2>3, <2>4, <2>5, <2>6, <2>7, <2>8, <2>9, <2>10 DEF Next, Step
<1> QED
  BY <1>2, <1>3

LEMMA UseGives == TypeOK /\ UseInv => OperandsFresh
<1> SUFFICES ASSUME TypeOK, UseInv, ~failed, AtDone, Kind(Top) \in Consumers,
                    NEW k \in KidSet(Top)
             PROVE  k \in fresh
  BY DEF OperandsFresh
<1>1. stack # <<>> /\ stack[1].done
  BY DEF AtDone
<1>2. Len(stack) \in Nat /\ Len(stack) >= 1
  BY <1>1, TopTyped, PopStack
<1>3. Hungry(stack[1]) /\ Top = stack[1].node
  BY <1>1 DEF Hungry, Top
<1>4. k \in fresh \/ \E i \in 1..Len(stack) : i < 1 /\ stack[i].node = k
  BY <1>2, <1>3 DEF UseInv, UseOf, Pending
<1> QED
  BY <1>2, <1>4

(* A node that is executed reads the operands that were evaluated for this
   execution, however deep the calls and whatever the client has said in
   between. *)
THEOREM OperandsFreshHolds == Spec => []OperandsFresh
<1>1. TypeOK /\ UseInv => OperandsFresh
  BY UseGives
<1> QED
  BY InitTyped, StepTyped, InitUse, StepUse, <1>1, PTL DEF Spec

-----------------------------------------------------------------------------
(* The program of a script that has been parsed. *)
Parsed == script \in Scripts /\ ProgramOf[script].parse = "ok" /\ D!Grammatical(script)

LEMMA ProgramIs ==
    ASSUME Parsed
    PROVE  /\ ParseOf(script) = "ok"
           /\ DOMAIN Ast = NodeIds(script)
           /\ \A n \in NodeIds(script) : Ast[n] = NodeAt(script, n[1], n[2])
           /\ Functions = [name \in {script[l][2] : l \in Lines(script, {"FUNC"})} |->
                    <<Max({l \in Lines(script, {"FUNC"}) : script[l][2] = name}), 0>>]
<1>1. ProgramOf[script] = Program(script)
  BY DEF Parsed, ProgramOf
<1>2. Program(script).parse = ParseOf(script)
  BY DEF Program
<1>3. ParseOf(script) = "ok"
  BY <1>1, <1>2 DEF Parsed
<1>4. Ast = [n \in NodeIds(script) |-> NodeAt(script, n[1], n[2])]
  BY <1>1, <1>3 DEF Ast, Program
<1>5. Functions = [name \in {script[l][2] : l \in Lines(script, {"FUNC"})} |->
                    <<Max({l \in Lines(script, {"FUNC"}) : script[l][2] = name}), 0>>]
  BY <1>1, <1>3 DEF Functions, Program
<1>6. DOMAIN Ast = NodeIds(script) /\ \A n \in NodeIds(script) : Ast[n] = NodeAt(script, n[1], n[2])
  BY <1>4
<1> QED
  BY <1>3, <1>5, <1>6

LEMMA ScriptIs ==
    ASSUME Parsed
    PROVE  /\ Len(script) \in Nat /\ DOMAIN script = 1..Len(script)
           /\ \A l \in 1..Len(script) : Sequence(script[l])
           /\ Closed(script) /\ D!Depth(script, 1) = 0
           /\ \A l \in 1..Len(script) : script[l] # <<>> => D!Formed(script[l])
<1>1. script \in Seq(Seq(STRING)) /\ D!Grammatical(script)
  BY ScriptAssumption DEF Parsed
<1>2. Len(script) \in Nat /\ DOMAIN script = 1..Len(script)
  BY <1>1
<1>3. \A l \in 1..Len(script) : script[l] \in Seq(STRING)
  BY <1>1
<1>4. Ended(script)
  <2>1. ParseOf(script) = "ok"
    BY ProgramIs
  <2>2. ~(script # <<>> /\ script[Len(script)] = <<>>)
    BY <2>1 DEF ParseOf
  <2>3. Len(script) > 0 => script # <<>>
    OBVIOUS
  <2> QED
    BY <1>2, <2>2, <2>3 DEF Ended
<1>5. Closed(script) /\ D!Depth(script, 1) = 0
  BY <1>1, <1>4, GrammarCloses
<1>6. \A l \in 1..Len(script) : script[l] # <<>> => D!Formed(script[l])
  BY <1>1, <1>2 DEF D!Grammatical
<1> QED
  BY <1>2, <1>3, <1>5, <1>6 DEF Sequence

Opener(l) == l \in Lines(script, {"IF", "FUNC"})
Stating(l) == l \in Lines(script, Statements)
Valued(l) == l \in Lines(script, {"VAR", "SET", "IF", "SEND"})

LEMMA NodeCases ==
    ASSUME Parsed, NEW n \in DOMAIN Ast
    PROVE  \/ n = Root
           \/ \E l \in 1..Len(script) : Opener(l) /\ n = <<l, 0>>
           \/ \E l \in 1..Len(script) : Stating(l) /\ n = <<l, 1>>
           \/ \E l \in 1..Len(script) : Valued(l) /\
                \E p \in FirstToken(script[l])..Len(script[l]) : n = <<l, p>>
<1>1. n \in NodeIds(script)
  BY ProgramIs
<1>2. \A l, ks : l \in Lines(script, ks) => l \in 1..Len(script)
  BY ScriptIs DEF Lines
<1>3. Keywords \ {"FUNC", "ENDIF", "ENDFUNC"} = Statements
  BY DEF Keywords, Statements
<1>4. \/ n = Root
      \/ \E l \in Lines(script, {"IF", "FUNC"}) : n = <<l, 0>>
      \/ \E l \in Lines(script, Statements) : n = <<l, 1>>
      \/ \E l \in Lines(script, {"VAR", "SET", "IF", "SEND"}) :
            \E p \in FirstToken(script[l])..Len(script[l]) : n = <<l, p>>
  BY <1>1, <1>3 DEF NodeIds
<1> QED
  BY <1>2, <1>4 DEF Opener, Stating, Valued

LEMMA NodesAre ==
    ASSUME Parsed
    PROVE  /\ Root \in DOMAIN Ast /\ Ast[Root] = Block(MainBlock(script))
           /\ \A l \in 1..Len(script) : Opener(l) =>
                <<l, 0>> \in DOMAIN Ast /\ Ast[<<l, 0>>] = Block(BlockFrom(script)[l + 1].nodes)
           /\ \A l \in 1..Len(script) : Stating(l) =>
                <<l, 1>> \in DOMAIN Ast /\ Ast[<<l, 1>>] = Statement(script[l], l)
           /\ \A l \in 1..Len(script) : Valued(l) =>
                \A p \in FirstToken(script[l])..Len(script[l]) :
                    <<l, p>> \in DOMAIN Ast /\ Ast[<<l, p>>] = Expression(script[l], l, p)
<1>1. DOMAIN Ast = NodeIds(script) /\ \A n \in NodeIds(script) : Ast[n] = NodeAt(script, n[1], n[2])
  BY ProgramIs
<1>2. Keywords \ {"FUNC", "ENDIF", "ENDFUNC"} = Statements
  BY DEF Keywords, Statements
<1>3. Root \in NodeIds(script)
  BY DEF NodeIds
<1>4. ASSUME NEW l \in 1..Len(script), Opener(l)
      PROVE  <<l, 0>> \in NodeIds(script)
  BY <1>4 DEF NodeIds, Opener
<1>5. ASSUME NEW l \in 1..Len(script), Stating(l)
      PROVE  <<l, 1>> \in NodeIds(script)
  BY <1>2, <1>5 DEF NodeIds, Stating
<1>6. ASSUME NEW l \in 1..Len(script), Valued(l),
             NEW p \in FirstToken(script[l])..Len(script[l])
      PROVE  <<l, p>> \in NodeIds(script)
  BY <1>6 DEF NodeIds, Valued
<1>7. NodeAt(script, Root[1], Root[2]) = Block(MainBlock(script))
  BY DEF NodeAt, Root
<1>8. \A l \in 1..Len(script) : \A p : <<l, p>> # Root
  BY DEF Root
<1>9. \A l \in 1..Len(script) :
        NodeAt(script, <<l, 0>>[1], <<l, 0>>[2]) = Block(BlockFrom(script)[l + 1].nodes)
  BY <1>8 DEF NodeAt
<1>10. \A l \in 1..Len(script) :
        NodeAt(script, <<l, 1>>[1], <<l, 1>>[2]) = Statement(script[l], l)
  BY <1>8 DEF NodeAt
<1>11. \A l \in 1..Len(script) : \A p \in FirstToken(script[l])..Len(script[l]) :
        NodeAt(script, <<l, p>>[1], <<l, p>>[2]) = Expression(script[l], l, p)
  <2>1. \A l \in 1..Len(script) : \A p \in FirstToken(script[l])..Len(script[l]) : p # 0 /\ p # 1
    BY DEF FirstToken
  <2> QED
    BY <1>8, <2>1 DEF NodeAt
<1> QED
  BY <1>1, <1>3, <1>4, <1>5, <1>6, <1>7, <1>9, <1>10, <1>11

LEMMA BlockNode ==
    ASSUME NEW v, NEW n \in DOMAIN Ast, Ast[n] = Block(v)
    PROVE  /\ Kind(n) = "BLOCK" /\ Kids(n) = [i \in DOMAIN v |-> <<v[i], 1>>]
BY DEF Kind, Kids, Block, Leaf

LEMMA StatementNode ==
    ASSUME Parsed, NEW l \in 1..Len(script), Stating(l)
    PROVE  /\ <<l, 1>> \in DOMAIN Ast
           /\ Kind(<<l, 1>>) = script[l][1] /\ Kind(<<l, 1>>) \in Statements
           /\ Arg(<<l, 1>>) = Token(script[l], 2)
           /\ script[l][1] \notin {"CALL", "RECV"} =>
                Valued(l) /\ Kids(<<l, 1>>) = <<<<l, FirstToken(script[l])>>>>
           /\ script[l][1] = "IF" => Ast[<<l, 1>>].then = <<l, 0>> /\ Opener(l)
<1>1. <<l, 1>> \in DOMAIN Ast /\ Ast[<<l, 1>>] = Statement(script[l], l)
  BY NodesAre
<1>2. script[l][1] \in Statements /\ script[l] # <<>> /\ l \in DOMAIN script
  BY DEF Stating, Lines
<1>3. script[l][1] \notin {"CALL", "RECV"} => Valued(l)
  BY <1>2 DEF Valued, Lines, Statements
<1>4. script[l][1] = "IF" => Opener(l)
  BY <1>2 DEF Opener, Lines
<1> QED
  BY <1>1, <1>2, <1>3, <1>4 DEF Kind, Arg, Kids, Statement, Leaf

LEMMA ExpressionNode ==
    ASSUME Parsed, NEW l \in 1..Len(script), Valued(l),
           NEW p \in FirstToken(script[l])..Len(script[l])
    PROVE  /\ <<l, p>> \in DOMAIN Ast /\ Kind(<<l, p>>) \in Expressions
           /\ Token(script[l], p) \in Operators =>
                /\ Kind(<<l, p>>) = "OP" /\ Arg(<<l, p>>) = Token(script[l], p)
                /\ Kids(<<l, p>>) = <<<<l, p + 1>>, <<l, After(script[l])[p + 1]>>>>
           /\ Token(script[l], p) \notin Operators =>
                /\ Kind(<<l, p>>) # "OP"
                /\ Token(script[l], p) \in Opening =>
                        /\ Kind(<<l, p>>) = "STR"
                        /\ Ast[<<l, p>>].value = String(Literal(script[l], p))
                /\ Token(script[l], p) \notin Opening /\ Token(script[l], p) \in DOMAIN Numerals =>
                        /\ Kind(<<l, p>>) = "NUM"
                        /\ Ast[<<l, p>>].value = Number(Numerals[Token(script[l], p)])
                /\ Token(script[l], p) \notin Opening /\ Token(script[l], p) \notin DOMAIN Numerals =>
                        /\ Kind(<<l, p>>) = "VARIANT" /\ Arg(<<l, p>>) = Token(script[l], p)
<1>1. <<l, p>> \in DOMAIN Ast /\ Ast[<<l, p>>] = Expression(script[l], l, p)
  BY NodesAre
<1> DEFINE t == Token(script[l], p)
<1>2. CASE t \in Operators
  <2>1. Ast[<<l, p>>] = [Leaf("OP", t, None) EXCEPT
            !.kids = <<<<l, p + 1>>, <<l, After(script[l])[p + 1]>>>>]
    BY <1>1, <1>2 DEF Expression
  <2> QED
    BY <1>1, <1>2, <2>1 DEF Kind, Arg, Kids, Leaf, Expressions
<1>3. CASE t \notin Operators
  <2>1. Ast[<<l, p>>] = IF t \in Opening THEN Leaf("STR", "", String(Literal(script[l], p)))
                        ELSE IF t \in DOMAIN Numerals THEN Leaf("NUM", "", Number(Numerals[t]))
                        ELSE Leaf("VARIANT", t, None)
    BY <1>1, <1>3 DEF Expression
  <2> HIDE DEF t
  <2>2. CASE t \in Opening
    <3>1. PICK v : v = String(Literal(script[l], p))
      OBVIOUS
    <3>2. PICK a : a = Leaf("STR", "", v)
      OBVIOUS
    <3>3. a.kind = "STR" /\ a.value = v
      BY <3>2, Zenon DEF Leaf
    <3>4. Ast[<<l, p>>] = a
      BY <2>1, <2>2, <3>1, <3>2, Zenon
    <3>5. Kind(<<l, p>>) = "STR" /\ Ast[<<l, p>>].value = v
      BY <3>3, <3>4 DEF Kind
    <3>6. Kind(<<l, p>>) \in Expressions /\ Kind(<<l, p>>) # "OP"
      BY <3>5 DEF Expressions
    <3> QED
      BY <1>1, <1>3, <2>2, <3>1, <3>5, <3>6, Zenon DEF t
  <2>3. CASE t \notin Opening /\ t \in DOMAIN Numerals
    <3>1. PICK v : v = Number(Numerals[t])
      OBVIOUS
    <3>2. PICK a : a = Leaf("NUM", "", v)
      OBVIOUS
    <3>3. a.kind = "NUM" /\ a.value = v
      BY <3>2, Zenon DEF Leaf
    <3>4. Ast[<<l, p>>] = a
      BY <2>1, <2>3, <3>1, <3>2, Zenon
    <3>5. Kind(<<l, p>>) = "NUM" /\ Ast[<<l, p>>].value = v
      BY <3>3, <3>4 DEF Kind
    <3>6. Kind(<<l, p>>) \in Expressions /\ Kind(<<l, p>>) # "OP"
      BY <3>5 DEF Expressions
    <3> QED
      BY <1>1, <1>3, <2>3, <3>1, <3>5, <3>6, Zenon DEF t
  <2>4. CASE t \notin Opening /\ t \notin DOMAIN Numerals
    BY <1>1, <1>3, <2>1, <2>4 DEF Kind, Arg, Leaf, Expressions, t
  <2> QED
    BY <2>2, <2>3, <2>4
<1> QED
  BY <1>2, <1>3

LEMMA QuotedIs ==
    ASSUME Parsed, NEW l \in 1..Len(script), Valued(l)
    PROVE  /\ Quoted(script[l]) /\ FirstToken(script[l]) \in 1..Len(script[l])
           /\ FirstToken(script[l]) \in {2, 3} /\ Len(script[l]) \in Nat
           /\ D!ExpressionAt(script[l]) = FirstToken(script[l])
           /\ \A p \in 1..FirstToken(script[l]) - 1 : script[l][p] \notin Opening
<1> DEFINE line == script[l]
           first == FirstToken(line)
<1>1. Sequence(line) /\ Len(line) \in Nat /\ DOMAIN line = 1..Len(line)
  BY ScriptIs, Elems
<1>2. line # <<>> /\ line[1] \in {"VAR", "SET", "IF", "SEND"}
  BY DEF Valued, Lines
<1>3. D!Formed(line)
  BY <1>2, ScriptIs
<1>4. D!ExpressionAt(line) = first /\ first \in {2, 3}
  BY DEF D!ExpressionAt, FirstToken
<1>5. Quoted(line)
  BY <1>1, <1>3 DEF D!Formed, Quoted
<1> HIDE DEF first
<1>6. first <= Len(line) /\ \A p \in 1..first - 1 : line[p] \notin Opening
  BY <1>2, <1>3, <1>4 DEF D!Formed
<1>7. first \in 1..Len(line)
  BY <1>1, <1>4, <1>6
<1> QED
  BY <1>1, <1>4, <1>5, <1>6, <1>7 DEF first

(* A node that is not in the first two places is an expression's. *)
LEMMA PlaceIs ==
    ASSUME Parsed, NEW l \in 1..Len(script), NEW p \in Nat, p >= 2, <<l, p>> \in DOMAIN Ast
    PROVE  p <= Len(script[l])
<1>1. <<l, p>> # Root
  BY DEF Root
<1>2. \A k : <<l, p>> # <<k, 0>> /\ <<l, p>> # <<k, 1>>
  OBVIOUS
<1>3. PICK k \in 1..Len(script) : Valued(k) /\
        \E q \in FirstToken(script[k])..Len(script[k]) : <<l, p>> = <<k, q>>
  BY <1>1, <1>2, NodeCases
<1>4. Len(script[k]) \in Nat
  BY <1>3, QuotedIs
<1> QED
  BY <1>3, <1>4

LEMMA ZoneIs ==
    ASSUME Parsed, NEW l \in 1..Len(script), Valued(l)
    PROVE  Zone(script[l], FirstToken(script[l]))
<1> DEFINE line == script[l]
           first == FirstToken(line)
<1>1. /\ Quoted(line) /\ first \in 1..Len(line) /\ first \in {2, 3} /\ Len(line) \in Nat
      /\ \A p \in 1..first - 1 : line[p] \notin Opening
  BY QuotedIs
<1>2. ASSUME NEW p \in first..Len(line), line[p] \in Operators
      PROVE  p + 1 <= Len(line) /\ After(line)[p + 1] <= Len(line)
  <2>1. p \in 1..Len(line) /\ p + 1 \in 1..Len(line) + 1 /\ p + 1 \in Nat /\ p + 1 >= 2
    BY <1>1
  <2>2. Token(line, p) \in Operators
    BY <1>1, <1>2, <2>1, TokenIs DEF Quoted
  <2>3. /\ Kids(<<l, p>>) = <<<<l, p + 1>>, <<l, After(line)[p + 1]>>>>
        /\ <<l, p>> \in DOMAIN Ast
    BY <2>2, ExpressionNode
  <2>4. Kids(<<l, p>>) \in Seq(DOMAIN Ast)
    BY <2>3, Shape DEF Parsed
  <2> DEFINE a == After(line)[p + 1]
  <2>5. Beyond(line, After(line), p + 1)
    BY <1>1, <2>1, AfterIs
  <2>6. a \in p + 1..Len(line) + 1
    BY <2>5 DEF Beyond
  <2> HIDE DEF a
  <2>7. <<l, p + 1>> \in DOMAIN Ast /\ <<l, a>> \in DOMAIN Ast
    <3>1. PICK x, y : x = <<l, p + 1>> /\ y = <<l, a>>
      OBVIOUS
    <3>2. <<x, y>> \in Seq(DOMAIN Ast)
      BY <2>3, <2>4, <3>1 DEF a
    <3>3. x \in DOMAIN Ast /\ y \in DOMAIN Ast
      <4>1. Len(<<x, y>>) = 2 /\ <<x, y>>[1] = x /\ <<x, y>>[2] = y
        OBVIOUS
      <4>2. PICK s \in Seq(DOMAIN Ast) : s = <<x, y>>
        BY <3>2
      <4>3. \A i \in 1..Len(s) : s[i] \in DOMAIN Ast
        BY Elements
      <4> QED
        BY <4>1, <4>2, <4>3
    <3> QED
      BY <3>1, <3>3
  <2>8. a \in Nat /\ a >= 2
    BY <1>1, <2>1, <2>6
  <2>9. p + 1 <= Len(line) /\ a <= Len(line)
    BY <2>1, <2>7, <2>8, PlaceIs
  <2> QED
    BY <2>9 DEF a
<1> HIDE DEF line, first
<1>3. Zone(line, first)
  BY <1>1, <1>2 DEF Zone
<1> QED
  BY <1>3 DEF line, first

(* A node of an expression, and what it means. *)
Whole(n) ==
    \E l \in 1..Len(script) : Valued(l) /\
        \E p \in FirstToken(script[l])..Len(script[l]) :
            n = <<l, p>> /\ ~D!Within(script[l], p)

Means(n) == D!Value(script[n[1]], n[2])

LEMMA WholeOp ==
    ASSUME Parsed, NEW n, Whole(n), Kind(n) = "OP"
    PROVE  /\ Whole(Kids(n)[1]) /\ Whole(Kids(n)[2])
           /\ KidSet(n) = {Kids(n)[1], Kids(n)[2]}
           /\ Means(n) = IF Error \in {Means(Kids(n)[1]), Means(Kids(n)[2])} THEN Error
                         ELSE Apply(Arg(n), Means(Kids(n)[1]), Means(Kids(n)[2]))
<1>1. PICK l \in 1..Len(script) : Valued(l) /\
        \E p \in FirstToken(script[l])..Len(script[l]) :
            n = <<l, p>> /\ ~D!Within(script[l], p)
  BY DEF Whole
<1> DEFINE line == script[l]
           first == FirstToken(line)
<1>2. PICK p \in first..Len(line) : n = <<l, p>> /\ ~D!Within(line, p)
  BY <1>1
<1>3. Zone(line, first)
  BY <1>1, ZoneIs
<1>4. Meaning(line, first, p)
  BY <1>2, <1>3, MeaningIs
<1>5. Token(line, p) = line[p]
  <2>1. p \in 1..Len(line) /\ Sequence(line)
    BY <1>1, <1>2, QuotedIs DEF Quoted
  <2> QED
    BY <2>1, TokenIs
<1>6. line[p] \in Operators
  BY <1>1, <1>2, <1>5, ExpressionNode
<1> DEFINE a == After(line)[p + 1]
           x == <<l, p + 1>>
           y == <<l, a>>
<1>7. Kids(n) = <<x, y>> /\ Arg(n) = line[p]
  BY <1>1, <1>2, <1>5, <1>6, ExpressionNode
<1>8. /\ p + 1 \in first..Len(line) /\ ~D!Within(line, p + 1)
      /\ a \in first..Len(line) /\ ~D!Within(line, a)
      /\ D!Value(line, p) = IF Error \in {D!Value(line, p + 1), D!Value(line, a)} THEN Error
                            ELSE Apply(line[p], D!Value(line, p + 1), D!Value(line, a))
  BY <1>4, <1>6 DEF Meaning
<1> HIDE DEF a
<1>9. Whole(x) /\ Whole(y)
  BY <1>1, <1>8 DEF Whole
<1>10. Means(x) = D!Value(line, p + 1) /\ Means(y) = D!Value(line, a) /\ Means(n) = D!Value(line, p)
  BY <1>2 DEF Means
<1> HIDE DEF x, y
<1>11. Kids(n)[1] = x /\ Kids(n)[2] = y /\ DOMAIN Kids(n) = {1, 2}
  <2>1. DOMAIN <<x, y>> = {1, 2} /\ <<x, y>>[1] = x /\ <<x, y>>[2] = y
    OBVIOUS
  <2> QED
    BY <1>7, <2>1
<1>12. KidSet(n) = {x, y}
  BY <1>11 DEF KidSet
<1> HIDE DEF line, first
<1> QED
  BY <1>7, <1>8, <1>9, <1>10, <1>11, <1>12

LEMMA WholeLeaf ==
    ASSUME Parsed, NEW n, Whole(n), Kind(n) # "OP"
    PROVE  ValueOf(n) = Means(n)
<1>1. PICK l \in 1..Len(script) : Valued(l) /\
        \E p \in FirstToken(script[l])..Len(script[l]) :
            n = <<l, p>> /\ ~D!Within(script[l], p)
  BY DEF Whole
<1> DEFINE line == script[l]
           first == FirstToken(line)
<1>2. PICK p \in first..Len(line) : n = <<l, p>> /\ ~D!Within(line, p)
  BY <1>1
<1>3. Zone(line, first)
  BY <1>1, ZoneIs
<1>4. Meaning(line, first, p)
  BY <1>2, <1>3, MeaningIs
<1>5. Token(line, p) = line[p]
  <2>1. p \in 1..Len(line) /\ Sequence(line)
    BY <1>1, <1>2, QuotedIs DEF Quoted
  <2> QED
    BY <2>1, TokenIs
<1>6. line[p] \notin Operators
  BY <1>1, <1>2, <1>5, ExpressionNode
<1>7. /\ line[p] \in Opening => D!Value(line, p) = String(Literal(line, p))
      /\ line[p] \notin Opening => D!Value(line, p) = D!Word(line[p])
  BY <1>4, <1>6 DEF Meaning
<1>8. Means(n) = D!Value(line, p)
  BY <1>2 DEF Means
<1>9. /\ line[p] \in Opening => Kind(n) = "STR" /\ Ast[n].value = String(Literal(line, p))
      /\ line[p] \notin Opening /\ line[p] \in DOMAIN Numerals =>
            Kind(n) = "NUM" /\ Ast[n].value = Number(Numerals[line[p]])
      /\ line[p] \notin Opening /\ line[p] \notin DOMAIN Numerals =>
            Kind(n) = "VARIANT" /\ Arg(n) = line[p]
  BY <1>1, <1>2, <1>5, <1>6, ExpressionNode
<1>10. D!Word(line[p]) = IF line[p] \in DOMAIN Numerals THEN Number(Numerals[line[p]])
                         ELSE IF line[p] \in DOMAIN vars THEN vars[line[p]] ELSE Error
  BY SameValues DEF D!Word
<1> HIDE DEF line
<1>11. CASE line[p] \in Opening
  BY <1>7, <1>8, <1>9, <1>11 DEF ValueOf
<1>12. CASE line[p] \notin Opening /\ line[p] \in DOMAIN Numerals
  BY <1>7, <1>8, <1>9, <1>10, <1>12 DEF ValueOf
<1>13. CASE line[p] \notin Opening /\ line[p] \notin DOMAIN Numerals
  BY <1>7, <1>8, <1>9, <1>10, <1>13 DEF ValueOf
<1> QED
  BY <1>11, <1>12, <1>13

(* The operand of a statement, and the value that Dialogue gives its line. *)
LEMMA WholeStatement ==
    ASSUME Parsed, NEW l \in 1..Len(script), Valued(l)
    PROVE  LET k == <<l, FirstToken(script[l])>> IN
           /\ Kids(<<l, 1>>) = <<k>> /\ KidSet(<<l, 1>>) = {k} /\ Kids(<<l, 1>>)[1] = k
           /\ Whole(k) /\ Means(k) = D!Value(script[l], D!ExpressionAt(script[l]))
<1> DEFINE k == <<l, FirstToken(script[l])>>
<1>1. Stating(l) /\ script[l][1] \notin {"CALL", "RECV"}
  BY DEF Stating, Valued, Lines, Statements
<1>2. Kids(<<l, 1>>) = <<k>>
  BY <1>1, StatementNode
<1>3. FirstToken(script[l]) \in FirstToken(script[l])..Len(script[l])
  BY QuotedIs
<1>4. ~D!Within(script[l], FirstToken(script[l]))
  BY ZoneIs, WithinFirst
<1>5. Whole(k)
  BY <1>3, <1>4 DEF Whole
<1>6. Means(k) = D!Value(script[l], D!ExpressionAt(script[l]))
  BY QuotedIs DEF Means
<1> HIDE DEF k
<1>7. KidSet(<<l, 1>>) = {k} /\ Kids(<<l, 1>>)[1] = k
  <2>1. DOMAIN <<k>> = {1} /\ <<k>>[1] = k
    OBVIOUS
  <2> QED
    BY <1>2, <2>1 DEF KidSet
<1> QED
  BY <1>2, <1>5, <1>6, <1>7 DEF k

-----------------------------------------------------------------------------
(* The lines that the entries of a stack leave to do. *)
LEMMA KindIs ==
    ASSUME Parsed, NEW n \in DOMAIN Ast
    PROVE  /\ Kind(n) \in Statements =>
                \E l \in 1..Len(script) : Stating(l) /\ n = <<l, 1>>
           /\ Kind(n) \in Expressions =>
                \E l \in 1..Len(script) : Valued(l) /\
                    \E p \in FirstToken(script[l])..Len(script[l]) : n = <<l, p>>
<1>1. Kind(n) = "BLOCK" => Kind(n) \notin Statements \cup Expressions
  BY DEF Statements, Expressions
<1>2. CASE n = Root
  BY <1>1, <1>2, NodesAre, BlockNode
<1>3. CASE \E l \in 1..Len(script) : Opener(l) /\ n = <<l, 0>>
  BY <1>1, <1>3, NodesAre, BlockNode
<1>4. CASE \E l \in 1..Len(script) : Stating(l) /\ n = <<l, 1>>
  <2>1. Kind(n) \in Statements
    BY <1>4, StatementNode
  <2>2. Kind(n) \notin Expressions
    BY <2>1 DEF Statements, Expressions
  <2> QED
    BY <1>4, <2>2
<1>5. CASE \E l \in 1..Len(script) : Valued(l) /\
                \E p \in FirstToken(script[l])..Len(script[l]) : n = <<l, p>>
  <2>1. Kind(n) \in Expressions
    BY <1>5, ExpressionNode
  <2>2. Kind(n) \notin Statements
    BY <2>1 DEF Statements, Expressions
  <2> QED
    BY <1>5, <2>2
<1> QED
  BY <1>2, <1>3, <1>4, <1>5, NodeCases

LEMMA LinesOfIs ==
    ASSUME NEW e
    PROVE  /\ Kind(e.node) = "BLOCK" /\ ~e.done =>
                LinesOf(e) = [i \in DOMAIN Kids(e.node) |-> Kids(e.node)[i][1]]
           /\ Kind(e.node) \in Statements /\ ~(Kind(e.node) = "CALL" /\ e.done) =>
                LinesOf(e) = <<e.node[1]>>
           /\ Kind(e.node) \in Expressions \/ (Kind(e.node) \in {"BLOCK", "CALL"} /\ e.done) =>
                LinesOf(e) = <<>>
BY DEF LinesOf, Statements, Expressions

LEMMA LinesOfSequence ==
    ASSUME Parsed, NEW e \in StackEntries
    PROVE  Sequence(LinesOf(e))
<1>1. e.node \in DOMAIN Ast /\ e.done \in BOOLEAN
  BY DEF StackEntries
<1>2. Kind(e.node) \in Expressions \cup Statements \cup Blocks
  BY <1>1, Shape DEF Parsed
<1>3. CASE Kind(e.node) = "BLOCK" /\ ~e.done
  <2>1. PICK k : k = Kids(e.node)
    OBVIOUS
  <2>2. k \in Seq(DOMAIN Ast)
    BY <1>1, <2>1, Shape DEF Parsed
  <2>3. Len(k) \in Nat /\ DOMAIN k = 1..Len(k)
    BY <2>2
  <2> DEFINE f == [i \in 1..Len(k) |-> k[i][1]]
             S == {k[i][1] : i \in 1..Len(k)}
  <2>4. f \in [1..Len(k) -> S]
    OBVIOUS
  <2>5. f \in Seq(S)
    BY <2>3, <2>4, FunctionIsSeq
  <2>6. LinesOf(e) = f
    BY <1>3, <2>1, <2>3, LinesOfIs
  <2> QED
    BY <2>5, <2>6 DEF Sequence
<1>4. CASE Kind(e.node) \in Statements /\ ~(Kind(e.node) = "CALL" /\ e.done)
  BY <1>4, LinesOfIs, OneSequence
<1>5. CASE Kind(e.node) \in Expressions \/ (Kind(e.node) \in {"BLOCK", "CALL"} /\ e.done)
  BY <1>5, LinesOfIs, EmptySequence
<1> QED
  BY <1>1, <1>2, <1>3, <1>4, <1>5 DEF Blocks

LEMMA LeftTyped ==
    ASSUME Parsed, NEW s \in Seq(StackEntries)
    PROVE  /\ Sequence(s) /\ \A i \in 1..Len(s) : Sequence(LinesOf(s[i]))
           /\ Sequence(LinesLeft(s))
<1>1. Sequence(s)
  BY DEF Sequence
<1>2. \A i \in 1..Len(s) : Sequence(LinesOf(s[i]))
  BY Elements, LinesOfSequence
<1> QED
  BY <1>1, <1>2, LeftSequence

(* The stack from its top. *)
LEMMA LeftTop ==
    ASSUME Parsed, NEW s \in Seq(StackEntries), s # <<>>
    PROVE  LinesLeft(s) = Cat(LinesOf(s[1]), LinesLeft(Tail(s)))
<1>1. Sequence(s)
  BY LeftTyped
<1>2. s = <<s[1]>> \o Tail(s) /\ Sequence(Tail(s))
  BY <1>1, TailParts
<1>3. PICK e, t : e = s[1] /\ t = Tail(s)
  OBVIOUS
<1>4. LinesLeft(<<e>> \o t) = LinesOf(e) \o LinesLeft(t)
  BY <1>2, <1>3, LeftCons
<1>5. <<e>> \o t = s
  BY <1>2, <1>3
<1> QED
  BY <1>3, <1>4, <1>5 DEF Cat

(* A statement is the next line. *)
LEMMA LeftHead ==
    ASSUME Parsed, NEW s \in Seq(StackEntries), s # <<>>, NEW l, LinesOf(s[1]) = <<l>>
    PROVE  /\ LinesLeft(s) # <<>> /\ Head(LinesLeft(s)) = l
           /\ Tail(LinesLeft(s)) = LinesLeft(Tail(s))
<1>1. Tail(s) \in Seq(StackEntries)
  OBVIOUS
<1>2. PICK u : u = LinesLeft(Tail(s)) /\ Sequence(u)
  BY <1>1, LeftTyped
<1>3. LinesLeft(s) = <<l>> \o u
  BY <1>2, LeftTop DEF Cat
<1> QED
  BY <1>2, <1>3, ConsParts

(* Entries that leave nothing to do. *)
LEMMA LeftPop ==
    ASSUME Parsed, NEW s \in Seq(StackEntries), s # <<>>, LinesOf(s[1]) = <<>>
    PROVE  LinesLeft(s) = LinesLeft(Tail(s))
<1>1. Tail(s) \in Seq(StackEntries)
  OBVIOUS
<1>2. PICK u : u = LinesLeft(Tail(s)) /\ Sequence(u)
  BY <1>1, LeftTyped
<1>3. LinesLeft(s) = Cat(<<>>, u)
  BY <1>2, LeftTop
<1>4. Cat(<<>>, u) = u
  BY <1>2, CatEmpty DEF Cat
<1> QED
  BY <1>2, <1>3, <1>4

LEMMA LeftPast ==
    ASSUME Parsed, NEW s \in Seq(StackEntries), NEW j \in 1..Len(s), NEW l,
           \A i \in 1..j - 1 : LinesOf(s[i]) = <<>>, LinesOf(s[j]) = <<l>>
    PROVE  LinesLeft(s) # <<>> /\ Head(LinesLeft(s)) = l
<1> DEFINE Good(t, m) == /\ t \in Seq(StackEntries) /\ m + 1 \in 1..Len(t)
                         /\ \A i \in 1..m : LinesOf(t[i]) = <<>>
                         /\ LinesOf(t[m + 1]) = <<l>>
           T == {m \in Nat : \A t : Good(t, m) => LinesLeft(t) # <<>> /\ Head(LinesLeft(t)) = l}
<1>1. 0 \in T
  <2> SUFFICES ASSUME NEW t, Good(t, 0) PROVE LinesLeft(t) # <<>> /\ Head(LinesLeft(t)) = l
    OBVIOUS
  <2>1. t \in Seq(StackEntries) /\ t # <<>> /\ LinesOf(t[1]) = <<l>>
    OBVIOUS
  <2> QED
    BY <2>1, LeftHead
<1>2. ASSUME NEW m \in Nat, m \in T PROVE m + 1 \in T
  <2> SUFFICES ASSUME NEW t, Good(t, m + 1) PROVE LinesLeft(t) # <<>> /\ Head(LinesLeft(t)) = l
    OBVIOUS
  <2>1. t \in Seq(StackEntries) /\ t # <<>> /\ LinesOf(t[1]) = <<>>
    OBVIOUS
  <2>2. PICK u : u = Tail(t)
    OBVIOUS
  <2>3. u \in Seq(StackEntries) /\ Len(u) = Len(t) - 1 /\ \A i \in 1..Len(t) - 1 : u[i] = t[i + 1]
    BY <2>1, <2>2, PopStack
  <2>4. Good(u, m)
    <3>1. (m + 1) + 1 \in 1..Len(t) /\ Len(t) \in Nat
      BY <2>1
    <3>2. m + 1 \in 1..Len(u) /\ m + 1 \in 1..Len(t) - 1
      BY <2>3, <3>1
    <3>3. \A i \in 1..m : i \in 1..Len(t) - 1 /\ i + 1 \in 1..m + 1
      BY <3>1
    <3>4. \A i \in 1..m : LinesOf(u[i]) = <<>>
      BY <2>3, <3>3
    <3>5. LinesOf(u[m + 1]) = <<l>>
      BY <2>3, <3>2
    <3> QED
      BY <2>3, <3>2, <3>4, <3>5
  <2>5. LinesLeft(u) # <<>> /\ Head(LinesLeft(u)) = l
    BY <1>2, <2>4
  <2>6. LinesLeft(t) = LinesLeft(u)
    BY <2>1, <2>2, LeftPop
  <2> QED
    BY <2>5, <2>6
<1> HIDE DEF T
<1>3. Nat \subseteq T
  BY <1>1, <1>2, NatInd
<1>4. PICK m \in Nat : m = j - 1
  OBVIOUS
<1>5. Good(s, m)
  BY <1>4
<1>6. m \in T
  BY <1>3
<1> QED
  BY <1>5, <1>6 DEF T

(* A statement whose node is on the stack. *)
LEMMA StatementLine ==
    ASSUME Parsed, NEW e \in StackEntries, Kind(e.node) \in Statements
    PROVE  \E l \in 1..Len(script) :
                /\ Stating(l) /\ e.node = <<l, 1>> /\ script[l][1] = Kind(e.node)
                /\ ~(Kind(e.node) = "CALL" /\ e.done) => LinesOf(e) = <<l>>
<1>1. e.node \in DOMAIN Ast
  BY DEF StackEntries
<1>2. PICK l \in 1..Len(script) : Stating(l) /\ e.node = <<l, 1>>
  BY <1>1, KindIs
<1>3. script[l][1] = Kind(e.node)
  BY <1>2, StatementNode
<1>4. e.node[1] = l
  BY <1>2
<1>5. ~(Kind(e.node) = "CALL" /\ e.done) => LinesOf(e) = <<l>>
  BY <1>4, LinesOfIs
<1> QED
  BY <1>2, <1>3, <1>5

LEMMA LeftPut ==
    ASSUME Parsed, NEW e \in StackEntries, NEW s \in Seq(StackEntries)
    PROVE  LinesLeft(<<e>> \o s) = Cat(LinesOf(e), LinesLeft(s))
<1>1. Sequence(s)
  BY LeftTyped
<1> QED
  BY <1>1, LeftCons DEF Cat

LEMMA LeftOne ==
    ASSUME Parsed, NEW e \in StackEntries
    PROVE  LinesLeft(<<e>>) = LinesOf(e)
<1>1. <<>> \in Seq(StackEntries) /\ <<e>> \o <<>> = <<e>>
  OBVIOUS
<1>2. LinesLeft(<<e>> \o <<>>) = Cat(LinesOf(e), LinesLeft(<<>>))
  BY <1>1, LeftPut
<1>3. PICK v : v = LinesOf(e) /\ Sequence(v)
  BY LinesOfSequence
<1>4. Cat(v, <<>>) = v
  BY <1>3, CatEmpty DEF Cat
<1> QED
  BY <1>1, <1>2, <1>3, <1>4, LeftEmpty

LEMMA LeftPush ==
    ASSUME Parsed, NEW a \in Seq(StackEntries), NEW x \in StackEntries,
           NEW s \in Seq(StackEntries)
    PROVE  LinesLeft(a \o <<x>> \o s) = Cat(Cat(LinesLeft(a), LinesOf(x)), LinesLeft(s))
<1>1. PICK b : b = a \o <<x>>
  OBVIOUS
<1>2. <<x>> \in Seq(StackEntries) /\ b \in Seq(StackEntries)
  BY <1>1
<1>3. PICK y : y = <<x>>
  OBVIOUS
<1>4. LinesLeft(a \o y) = LinesLeft(a) \o LinesLeft(y)
  BY <1>2, <1>3, LeftTyped, LeftAppend
<1>5. LinesLeft(b \o s) = LinesLeft(b) \o LinesLeft(s)
  BY <1>2, LeftTyped, LeftAppend
<1>6. LinesLeft(y) = LinesOf(x)
  BY <1>3, LeftOne
<1>7. LinesLeft(b) = Cat(LinesLeft(a), LinesOf(x))
  BY <1>1, <1>3, <1>4, <1>6, Zenon DEF Cat
<1>8. LinesLeft(b \o s) = Cat(LinesLeft(b), LinesLeft(s))
  BY <1>5, Zenon DEF Cat
<1> QED
  BY <1>1, <1>7, <1>8, Zenon

LEMMA EntryLines ==
    ASSUME NEW n, NEW d
    PROVE  /\ Kind(n) = "BLOCK" /\ ~d =>
                LinesOf(Entry(n, d)) = [i \in DOMAIN Kids(n) |-> Kids(n)[i][1]]
           /\ Kind(n) \in Statements /\ ~(Kind(n) = "CALL" /\ d) => LinesOf(Entry(n, d)) = <<n[1]>>
           /\ Kind(n) \in Expressions \/ (Kind(n) \in {"BLOCK", "CALL"} /\ d) =>
                LinesOf(Entry(n, d)) = <<>>
<1>1. PICK e : e = Entry(n, d)
  OBVIOUS
<1>2. e.node = n /\ e.done = d
  BY <1>1 DEF Entry
<1>3. PICK k : k = Kids(n)
  OBVIOUS
<1>4. Kids(e.node) = k
  BY <1>2, <1>3
<1>5. Kind(n) = "BLOCK" /\ ~d => LinesOf(e) = [i \in DOMAIN k |-> k[i][1]]
  <2> SUFFICES ASSUME Kind(n) = "BLOCK", ~d PROVE LinesOf(e) = [i \in DOMAIN k |-> k[i][1]]
    OBVIOUS
  <2>1. Kind(e.node) = "BLOCK" /\ ~e.done
    BY <1>2
  <2>2. LinesOf(e) = [i \in DOMAIN Kids(e.node) |-> Kids(e.node)[i][1]]
    BY <2>1, LinesOfIs
  <2> QED
    BY <1>4, <2>2
<1>6. Kind(n) \in Statements /\ ~(Kind(n) = "CALL" /\ d) => LinesOf(e) = <<n[1]>>
  BY <1>2, LinesOfIs
<1>7. Kind(n) \in Expressions \/ (Kind(n) \in {"BLOCK", "CALL"} /\ d) => LinesOf(e) = <<>>
  BY <1>2, LinesOfIs
<1> QED
  BY <1>1, <1>3, <1>5, <1>6, <1>7

(* What the children of a node leave to do. *)
LEMMA KidsLeave ==
    ASSUME Parsed, TypeOK, NEW n \in DOMAIN Ast, Kind(n) \notin {"RECV", "CALL"}
    PROVE  Cat(LinesLeft(Entries(Kids(n))), LinesOf(Entry(n, TRUE))) = LinesOf(Entry(n, FALSE))
<1>1. PICK k, a : k = Kids(n) /\ a = Entries(k)
  OBVIOUS
<1>2. /\ k \in Seq(DOMAIN Ast) /\ a \in Seq(StackEntries) /\ Len(a) = Len(k)
      /\ \A i \in 1..Len(k) : a[i] = Entry(k[i], FALSE)
      /\ \A i \in 1..Len(k) : k[i] \in KidSet(n)
      /\ Len(k) \in Nat /\ DOMAIN k = 1..Len(k)
  <2>1. k \in Seq(DOMAIN Ast) /\ a \in Seq(StackEntries)
        /\ Len(a) = Len(k) /\ \A i \in 1..Len(k) : a[i] = Entry(k[i], FALSE)
    BY <1>1, KidsTyped
  <2>2. Len(k) \in Nat /\ DOMAIN k = 1..Len(k)
    BY <2>1
  <2>3. \A i \in 1..Len(k) : k[i] \in KidSet(n)
    BY <1>1, <2>2 DEF KidSet
  <2> QED
    BY <2>1, <2>2, <2>3
<1>3. \A m, d : Entry(m, d).node = m /\ Entry(m, d).done = d
  BY DEF Entry
<1>4. Sequence(a)
  BY <1>2 DEF Sequence
<1>5. CASE Kind(n) = "BLOCK"
  <2> DEFINE v == [i \in 1..Len(k) |-> k[i][1]]
             S == {k[i][1] : i \in 1..Len(k)}
  <2>1. v \in Seq(S) /\ Len(v) = Len(k)
    <3>1. v \in [1..Len(k) -> S]
      OBVIOUS
    <3> QED
      BY <1>2, <3>1, FunctionIsSeq
  <2>2. Sequence(v)
    BY <2>1 DEF Sequence
  <2>3. LinesOf(Entry(n, FALSE)) = v /\ LinesOf(Entry(n, TRUE)) = <<>>
    <3>1. LinesOf(Entry(n, FALSE)) = [i \in DOMAIN Kids(n) |-> Kids(n)[i][1]]
      BY <1>5, EntryLines
    <3>2. LinesOf(Entry(n, TRUE)) = <<>>
      BY <1>5, EntryLines
    <3> QED
      BY <1>1, <1>2, <3>1, <3>2
  <2>4. \A i \in 1..Len(a) : LinesOf(a[i]) = <<v[i]>>
    <3> TAKE i \in 1..Len(a)
    <3>1. a[i] = Entry(k[i], FALSE) /\ Kind(k[i]) \in Statements
      BY <1>2, <1>5, Shape DEF Parsed
    <3>2. LinesOf(a[i]) = <<k[i][1]>>
      BY <3>1, EntryLines
    <3>3. v[i] = k[i][1]
      BY <1>2
    <3> QED
      BY <3>2, <3>3
  <2> HIDE DEF v
  <2>5. LinesLeft(a) = v
    BY <1>2, <1>4, <2>1, <2>2, <2>4, LeftEach
  <2>6. Cat(v, <<>>) = v
    BY <2>2, CatEmpty DEF Cat
  <2> QED
    BY <1>1, <2>3, <2>5, <2>6
<1>6. CASE Kind(n) # "BLOCK"
  <2>1. Kind(n) \in Expressions \cup Statements
    BY <1>6, Shape DEF Parsed, Blocks
  <2>2. Kind(n) \in Consumers \/ k = <<>>
    BY <1>1, <1>6, Shape DEF Parsed, Blocks
  <2>3. \A i \in 1..Len(a) : LinesOf(a[i]) = <<>>
    <3> TAKE i \in 1..Len(a)
    <3>1. Kind(n) \in Consumers
      BY <1>2, <2>2
    <3>2. a[i] = Entry(k[i], FALSE) /\ Kind(k[i]) \in Expressions
      BY <1>2, <3>1, Shape DEF Parsed
    <3> QED
      <4>1. LinesOf(Entry(k[i], FALSE)) = <<>>
        BY <3>2, EntryLines
      <4> QED
        BY <3>2, <4>1
  <2>4. LinesLeft(a) = <<>>
    BY <1>4, <2>3, LeftNone
  <2>5. LinesOf(Entry(n, TRUE)) = LinesOf(Entry(n, FALSE))
    <3>1. CASE Kind(n) \in Expressions
      BY <3>1, EntryLines
    <3>2. CASE Kind(n) \in Statements
      BY <3>2, EntryLines
    <3> QED
      BY <2>1, <3>1, <3>2
  <2>6. PICK u : u = LinesOf(Entry(n, FALSE)) /\ Sequence(u)
    <3>1. Entry(n, FALSE) \in StackEntries
      BY EntryTyped
    <3> QED
      BY <3>1, LinesOfSequence
  <2>7. Cat(<<>>, u) = u
    BY <2>6, CatEmpty DEF Cat
  <2> QED
    BY <1>1, <2>4, <2>5, <2>6, <2>7
<1> QED
  BY <1>5, <1>6

LEMMA OpenLeaves ==
    ASSUME Parsed, TypeOK, AtOpen, Kind(Top) \notin {"RECV", "CALL"}
    PROVE  LinesLeft(Entries(Kids(Top)) \o <<Entry(Top, TRUE)>> \o Tail(stack)) = LinesLeft(stack)
<1>1. /\ stack \in Seq(StackEntries) /\ stack[1] \in StackEntries /\ stack # <<>>
      /\ Top \in DOMAIN Ast /\ Tail(stack) \in Seq(StackEntries)
  BY TopTyped DEF AtOpen
<1>2. PICK n, a, x, s : n = Top /\ a = Entries(Kids(n)) /\ x = Entry(n, TRUE) /\ s = Tail(stack)
  OBVIOUS
<1>3. a \in Seq(StackEntries) /\ x \in StackEntries /\ s \in Seq(StackEntries)
  BY <1>1, <1>2, KidsTyped, EntryTyped
<1>4. LinesLeft(a \o <<x>> \o s) = Cat(Cat(LinesLeft(a), LinesOf(x)), LinesLeft(s))
  BY <1>3, LeftPush
<1>5. Cat(LinesLeft(a), LinesOf(x)) = LinesOf(Entry(n, FALSE))
  BY <1>1, <1>2, KidsLeave
<1>6. stack[1] = Entry(n, FALSE)
  <2>1. PICK e \in StackEntries : e = stack[1]
    BY <1>1
  <2>2. e.node = n /\ e.done = FALSE /\ e = [node |-> e.node, done |-> e.done]
    BY <1>2, <2>1 DEF AtOpen, StackEntries, Top
  <2> QED
    BY <2>1, <2>2 DEF Entry
<1>7. LinesLeft(stack) = Cat(LinesOf(stack[1]), LinesLeft(s))
  BY <1>1, <1>2, LeftTop
<1> QED
  BY <1>2, <1>4, <1>5, <1>6, <1>7, Zenon

-----------------------------------------------------------------------------
(* The bodies. *)
LEMMA BlockLines ==
    ASSUME NEW n \in DOMAIN Ast, NEW v, Sequence(v), Ast[n] = Block(v)
    PROVE  LinesOf(Entry(n, FALSE)) = v
<1>1. Kind(n) = "BLOCK" /\ Kids(n) = [i \in DOMAIN v |-> <<v[i], 1>>]
  BY BlockNode
<1>2. Entry(n, FALSE).node = n /\ Entry(n, FALSE).done = FALSE
  BY DEF Entry
<1>3. DOMAIN v = 1..Len(v) /\ v = [i \in 1..Len(v) |-> v[i]]
  BY Elems
<1>4. LinesOf(Entry(n, FALSE)) = [i \in DOMAIN Kids(n) |-> Kids(n)[i][1]]
  BY <1>1, EntryLines
<1>5. [i \in DOMAIN Kids(n) |-> Kids(n)[i][1]] = [i \in 1..Len(v) |-> v[i]]
  BY <1>1, <1>3
<1> QED
  BY <1>3, <1>4, <1>5

LEMMA MainSequence ==
    ASSUME Parsed
    PROVE  Sequence(D!Main(script)) /\ LinesOf(Entry(Root, FALSE)) = D!Main(script)
<1>1. Len(script) \in Nat /\ Closed(script) /\ D!Depth(script, 1) = 0
  BY ScriptIs
<1>2. Sequence(D!Main(script))
  <2>1. 1 \in Int /\ Len(script) \in Int /\ 1 <= Len(script) + 1
    BY <1>1
  <2> QED
    BY <2>1, AtDepthSequence DEF D!Main
<1>3. MainBlock(script) = D!Main(script)
  BY <1>1, MainBlockIs
<1>4. Root \in DOMAIN Ast /\ Ast[Root] = Block(D!Main(script))
  BY <1>3, NodesAre
<1> QED
  BY <1>2, <1>4, BlockLines

LEMMA BodySequence ==
    ASSUME Parsed, NEW l \in 1..Len(script), Opener(l)
    PROVE  Sequence(D!Body(script, l)) /\ LinesOf(Entry(<<l, 0>>, FALSE)) = D!Body(script, l)
<1>1. Len(script) \in Nat /\ Closed(script)
  BY ScriptIs
<1>2. Turn(script, l) = 1
  BY DEF Opener, Lines, Turn, D!Opens, D!Is
<1>3. PICK e : BodyTo(script, l, e)
  BY <1>1, <1>2, BodyExists
<1>4. /\ e \in l + 1..Len(script)
      /\ BlockFrom(script)[l + 1].nodes = D!AtDepth(script, l + 1, e - 1, D!Depth(script, l) + 1)
  BY <1>3 DEF BodyTo
<1>5. BlockFrom(script)[l + 1].nodes = D!Body(script, l)
  BY <1>1, <1>2, BodyIs
<1>6. Sequence(D!Body(script, l))
  <2>1. PICK a \in Int, m \in Int : a = l + 1 /\ m = e - 1 /\ a <= m + 1
    BY <1>1, <1>4
  <2>2. Sequence(D!AtDepth(script, a, m, D!Depth(script, l) + 1))
    BY <2>1, AtDepthSequence
  <2> QED
    BY <1>4, <1>5, <2>1, <2>2
<1>7. <<l, 0>> \in DOMAIN Ast /\ Ast[<<l, 0>>] = Block(D!Body(script, l))
  BY <1>5, NodesAre
<1>8. PICK n, v : n = <<l, 0>> /\ v = D!Body(script, l)
  OBVIOUS
<1>9. LinesOf(Entry(n, FALSE)) = v
  BY <1>6, <1>7, <1>8, BlockLines
<1> QED
  BY <1>6, <1>8, <1>9

-----------------------------------------------------------------------------
(* What makes the stack follow the lines, as long as nothing has thrown: a    *)
(* fresh node is waited for by a consumer on the stack, it holds the value    *)
(* that its tokens mean, every expression on the stack is one of a line, and  *)
(* a RECV that has been seen is on top and is about to take its message.      *)
FreshFed(s, f) ==
    \A n \in f : \E j \in 1..Len(s) : Hungry(s[j]) /\ n \in KidSet(s[j].node)

Wholes(s) == \A i \in 1..Len(s) : IsExp(s[i]) => Whole(s[i].node)

CachedIn(f, c) == \A n \in f : Whole(n) /\ c[n] = Means(n)

Silent(s) == \A i \in 1..Len(s) : ~(Kind(s[i].node) = "RECV" /\ s[i].done)

Told(s, m, u) ==
    /\ \A i \in 1..Len(s) : Kind(s[i].node) = "RECV" /\ s[i].done =>
            i = 1 /\ (m = "idle" \/ (m = "continue" /\ u))
    /\ m = "idle" /\ s # <<>> => Kind(s[1].node) = "RECV" /\ s[1].done
    /\ m = "continue" /\ u => s = <<>> \/ (Kind(s[1].node) = "RECV" /\ s[1].done)

DocOf(s, f, c, m, u) == FreshFed(s, f) /\ Wholes(s) /\ CachedIn(f, c) /\ Told(s, m, u)

DocInv == failed \/ ~Parsed \/ DocOf(stack, fresh, cell, mode, unread)

LEMMA ParsedNext == ASSUME script' = script PROVE Parsed' <=> Parsed
BY DEF Parsed

LEMMA WholeNext == ASSUME script' = script, NEW n PROVE Whole(n)' <=> Whole(n)
BY DEF Whole, Valued, Lines

LEMMA MeansNext ==
    ASSUME script' = script, vars' = vars, NEW n
    PROVE  Means(n)' = Means(n)
BY DEF Means, D!Value, D!Waiting, D!Word

(* The program does not change. *)
LEMMA DocNext ==
    ASSUME script' = script,
           FreshFed(stack', fresh'), Wholes(stack'), Told(stack', mode', unread'),
           fresh' = {} \/ (vars' = vars /\ CachedIn(fresh', cell'))
    PROVE  DocInv'
<1>1. Ast' = Ast
  BY DEF Ast
<1>2. FreshFed(stack, fresh)'
  BY <1>1 DEF FreshFed, Hungry, Kind, KidSet, Kids
<1>3. Wholes(stack)'
  <2>1. \A n : Whole(n)' <=> Whole(n)
    BY WholeNext
  <2> QED
    BY <1>1, <2>1 DEF Wholes, IsExp, Kind
<1>4. CachedIn(fresh, cell)'
  <2>1. CASE fresh' = {}
    BY <2>1 DEF CachedIn
  <2>2. CASE vars' = vars /\ CachedIn(fresh', cell')
    <3>1. \A n : (Whole(n)' <=> Whole(n)) /\ Means(n)' = Means(n)
      BY <2>2, WholeNext, MeansNext
    <3> QED
      BY <2>2, <3>1 DEF CachedIn
  <2> QED
    BY <2>1, <2>2
<1>5. Told(stack, mode, unread)'
  BY <1>1 DEF Told, Kind
<1>6. DocOf(stack, fresh, cell, mode, unread)'
  BY <1>2, <1>3, <1>4, <1>5 DEF DocOf
<1> QED
  BY <1>6 DEF DocInv

LEMMA StillWholes ==
    ASSUME NEW s, Still(s) PROVE Wholes(s) /\ FreshFed(s, {})
BY DEF Still, Wholes, FreshFed

LEMMA SilentTold ==
    ASSUME NEW s, NEW m, NEW u, Silent(s), m # "idle" \/ s = <<>>, ~(m = "continue" /\ u) \/ s = <<>>
    PROVE  Told(s, m, u)
BY DEF Silent, Told

LEMMA TailSilent ==
    ASSUME NEW s \in Seq(StackEntries), s # <<>>, NEW m, NEW u, Told(s, m, u)
    PROVE  Silent(Tail(s))
<1> DEFINE t == Tail(s)
<1>1. /\ Len(s) \in Nat /\ Len(s) >= 1 /\ Len(t) = Len(s) - 1
      /\ \A i \in 1..Len(s) - 1 : t[i] = s[i + 1]
  BY PopStack
<1> HIDE DEF t
<1>2. Silent(t)
  <2> SUFFICES ASSUME NEW i \in 1..Len(t), Kind(t[i].node) = "RECV", t[i].done PROVE FALSE
    BY DEF Silent
  <2>1. i + 1 \in 1..Len(s) /\ t[i] = s[i + 1] /\ i + 1 # 1
    BY <1>1
  <2> QED
    BY <2>1 DEF Told
<1> QED
  BY <1>2 DEF t

LEMMA PutSilent ==
    ASSUME NEW s \in Seq(StackEntries), Silent(s), NEW e \in StackEntries,
           ~(Kind(e.node) = "RECV" /\ e.done)
    PROVE  <<e>> \o s \in Seq(StackEntries) /\ Silent(<<e>> \o s)
<1> DEFINE t == <<e>> \o s
<1>1. /\ Len(s) \in Nat /\ Len(t) = Len(s) + 1 /\ t[1] = e
      /\ \A i \in 2..Len(t) : t[i] = s[i - 1]
      /\ t \in Seq(StackEntries)
  OBVIOUS
<1> HIDE DEF t
<1>2. Silent(t)
  <2> SUFFICES ASSUME NEW i \in 1..Len(t) PROVE ~(Kind(t[i].node) = "RECV" /\ t[i].done)
    BY DEF Silent
  <2>1. CASE i = 1
    BY <1>1, <2>1
  <2>2. CASE i \in 2..Len(t)
    <3>1. i - 1 \in 1..Len(s) /\ t[i] = s[i - 1]
      BY <1>1, <2>2
    <3> QED
      BY <3>1 DEF Silent
  <2> QED
    BY <1>1, <2>1, <2>2
<1> QED
  BY <1>1, <1>2 DEF t

(* Nothing is fresh but the operands of the statement on top. *)
LEMMA NoFresh ==
    ASSUME TypeOK, UseOf(stack, fresh), FreshFed(stack, fresh), stack # <<>>, ~IsExp(stack[1])
    PROVE  fresh \ KidSet(Top) = {} /\ (~Hungry(stack[1]) => fresh = {})
<1>1. Len(stack) \in Nat /\ Len(stack) >= 1 /\ stack \in Seq(StackEntries)
  BY TopTyped, PopStack
<1>2. \A i \in 2..Len(stack) : ~Hungry(stack[i])
  BY <1>1, NoneWaiting
<1>3. ASSUME NEW n \in fresh PROVE Hungry(stack[1]) /\ n \in KidSet(Top)
  <2>1. PICK j \in 1..Len(stack) : Hungry(stack[j]) /\ n \in KidSet(stack[j].node)
    BY DEF FreshFed
  <2>2. j = 1
    BY <1>1, <1>2, <2>1
  <2> QED
    BY <2>1, <2>2 DEF Top
<1> QED
  BY <1>3

LEMMA OpenDoc ==
    ASSUME Parsed, TypeOK, UseOf(stack, fresh), Open,
           DocOf(stack, fresh, cell, mode, unread)
    PROVE  /\ FreshFed(stack', fresh') /\ Wholes(stack') /\ CachedIn(fresh', cell')
           /\ Told(stack', mode', unread')
<1> DEFINE n == Top
           N == Len(Kids(Top))
<1>1. /\ AtOpen /\ stack # <<>> /\ ~stack[1].done /\ Kind(n) \notin {"RECV", "CALL"} /\ Push(Top)
      /\ fresh' = fresh \ {n} /\ cell' = cell /\ mode' = mode /\ unread' = unread
      /\ mode \in {"run", "continue"} /\ n = stack[1].node
  BY DEF Open, AtOpen, Running, said, Top
<1>2. Opened(stack, stack', n, N)
  BY <1>1, PushOpens
<1>3. stack \in Seq(StackEntries) /\ n \in DOMAIN Ast /\ Len(stack) \in Nat /\ Len(stack) >= 1
  BY <1>1, TopTyped, PopStack
<1>4. FreshFed(stack, fresh) /\ Wholes(stack) /\ CachedIn(fresh, cell) /\ Told(stack, mode, unread)
  BY DEF DocOf
<1> HIDE DEF n, N
<1>5. /\ \A i \in 1..N : ~Hungry(stack'[i]) /\ stack'[i].node = Kids(n)[i]
      /\ \A i \in 1..Len(stack) : stack'[N + i].node = stack[i].node
      /\ \A i \in 2..Len(stack) : stack'[N + i] = stack[i]
      /\ N \in Nat /\ Len(stack') = N + Len(stack) /\ N = Len(Kids(n))
  <2>1. N \in Nat /\ Len(stack') = N + Len(stack) /\ N = Len(Kids(n))
    BY <1>2 DEF Opened
  <2>2. \A i \in 2..Len(stack) : stack'[N + i] = stack[i]
    BY <1>2 DEF Opened
  <2>3. /\ \A i \in 1..N : ~Hungry(stack'[i]) /\ stack'[i].node = Kids(n)[i]
        /\ \A i \in 1..Len(stack) : stack'[N + i].node = stack[i].node
    BY <1>2, <1>3, OpenedEntries
  <2> QED
    BY <2>1, <2>2, <2>3
<1>6. \A i \in 1..Len(stack') : i \in 1..N \/ (i - N \in 1..Len(stack) /\ N + (i - N) = i)
  BY <1>3, <1>5
<1>7. FreshFed(stack', fresh')
  <2> SUFFICES ASSUME NEW m \in fresh
               PROVE  \E j \in 1..Len(stack') : Hungry(stack'[j]) /\ m \in KidSet(stack'[j].node)
    BY <1>1 DEF FreshFed
  <2>1. PICK j \in 1..Len(stack) : Hungry(stack[j]) /\ m \in KidSet(stack[j].node)
    BY <1>4 DEF FreshFed
  <2>2. j \in 2..Len(stack)
    BY <1>1, <1>3, <2>1 DEF Hungry
  <2>3. N + j \in 1..Len(stack') /\ stack'[N + j] = stack[j]
    BY <1>3, <1>5, <2>2
  <2> QED
    BY <2>1, <2>3
<1>8. Wholes(stack')
  <2> SUFFICES ASSUME NEW i \in 1..Len(stack'), IsExp(stack'[i]) PROVE Whole(stack'[i].node)
    BY DEF Wholes
  <2>1. CASE i \in 1..N
    <3>1. stack'[i].node = Kids(n)[i] /\ Kind(Kids(n)[i]) \in Expressions
      BY <1>5, <2>1 DEF IsExp
    <3>2. Kids(n)[i] \in KidSet(n)
      BY <1>3, <1>5, <2>1, OpenedKids DEF Parsed
    <3>3. Kind(n) \in Consumers
      <4>1. Kind(n) = "BLOCK" => Kind(Kids(n)[i]) \in Statements
        BY <1>3, <3>2, Shape DEF Parsed
      <4>2. Kind(n) # "BLOCK"
        BY <3>1, <4>1 DEF Statements, Expressions
      <4>3. Kind(n) \notin Consumers \cup Blocks => KidSet(n) = {}
        BY <1>3, <1>5, OpenedKids DEF Parsed
      <4> QED
        BY <3>2, <4>2, <4>3 DEF Blocks
    <3>4. CASE Kind(n) = "OP"
      <4>1. Whole(n)
        BY <1>1, <1>3, <1>4, <3>4 DEF Wholes, IsExp, Expressions
      <4> QED
        BY <3>1, <3>2, <3>4, <4>1, WholeOp
    <3>5. CASE Kind(n) # "OP"
      <4>1. Kind(n) \in Statements
        BY <3>3, <3>5 DEF Consumers, Statements
      <4>2. PICK l \in 1..Len(script) : Stating(l) /\ n = <<l, 1>>
        BY <1>3, <4>1, KindIs
      <4>3. Valued(l)
        BY <1>1, <4>2, StatementNode
      <4>4. Whole(Kids(n)[i])
        BY <3>2, <4>2, <4>3, WholeStatement
      <4> QED
        BY <3>1, <4>4
    <3> QED
      BY <3>4, <3>5
  <2>2. CASE i - N \in 1..Len(stack) /\ N + (i - N) = i
    <3>1. stack'[i].node = stack[i - N].node
      BY <1>5, <2>2
    <3> QED
      BY <1>4, <2>2, <3>1 DEF Wholes, IsExp
  <2> QED
    BY <1>6, <2>1, <2>2
<1>9. CachedIn(fresh', cell')
  BY <1>1, <1>4 DEF CachedIn
<1>10. Told(stack', mode', unread')
  <2>1. \A i \in 2..Len(stack) : ~(Kind(stack[i].node) = "RECV" /\ stack[i].done)
    BY <1>3, <1>4 DEF Told
  <2>2. \A k, d : Entry(k, d).node = k /\ Entry(k, d).done = d
    BY DEF Entry
  <2>3. Silent(stack')
    <3> SUFFICES ASSUME NEW i \in 1..Len(stack'), Kind(stack'[i].node) = "RECV", stack'[i].done
                 PROVE  FALSE
      BY DEF Silent
    <3>1. CASE i \in 1..N
      <4>1. stack'[i] = Entry(Kids(n)[i], FALSE)
        BY <1>2, <3>1 DEF Opened
      <4> QED
        BY <2>2, <4>1
    <3>2. CASE i = N + 1
      <4>1. stack'[i] = Entry(n, TRUE)
        BY <1>2, <3>2 DEF Opened
      <4>2. Kind(n) # "RECV"
        BY <1>1
      <4>3. stack'[i].node = n
        BY <2>2, <4>1, Zenon
      <4> QED
        BY <4>2, <4>3
    <3>3. CASE i - N \in 2..Len(stack) /\ N + (i - N) = i
      <4>1. stack'[i] = stack[i - N]
        BY <1>5, <3>3
      <4> QED
        BY <2>1, <3>3, <4>1
    <3> QED
      BY <1>3, <1>5, <1>6, <3>1, <3>2, <3>3
  <2>4. ~(mode' = "continue" /\ unread') /\ mode' # "idle"
    BY <1>1, <1>4 DEF Told
  <2> QED
    BY <2>3, <2>4, SilentTold
<1> QED
  BY <1>7, <1>8, <1>9, <1>10

(* What an expression computes is what its tokens mean. *)
LEMMA ValueMeans ==
    ASSUME Parsed, TypeOK, UseInv, ~failed, AtDone, Kind(Top) \in Expressions, Whole(Top),
           CachedIn(fresh, cell)
    PROVE  ValueOf(Top) = Means(Top)
<1>1. CASE Kind(Top) = "OP"
  <2>1. KidSet(Top) \subseteq fresh
    BY <1>1, UseGives DEF OperandsFresh, Consumers
  <2>2. /\ KidSet(Top) = {Kids(Top)[1], Kids(Top)[2]}
        /\ Means(Top) = IF Error \in {Means(Kids(Top)[1]), Means(Kids(Top)[2])} THEN Error
                        ELSE Apply(Arg(Top), Means(Kids(Top)[1]), Means(Kids(Top)[2]))
    BY <1>1, WholeOp
  <2>3. \A k \in KidSet(Top) : cell[k] = Means(k) /\ Means(k) # Error
    <3> TAKE k \in KidSet(Top)
    <3>1. k \in fresh /\ k \in DOMAIN cell
      BY <2>1 DEF TypeOK
    <3>2. cell[k] = Means(k) /\ cell[k].type # "ERROR"
      BY <3>1 DEF CachedIn, TypeOK
    <3> QED
      BY <3>2 DEF Error
  <2>4. Kids(Top)[1] \in KidSet(Top) /\ Kids(Top)[2] \in KidSet(Top)
    BY <2>2
  <2>5. Error \notin {Means(Kids(Top)[1]), Means(Kids(Top)[2])}
    BY <2>3, <2>4
  <2>6. Means(Top) = Apply(Arg(Top), Operand(Top, 1), Operand(Top, 2))
    BY <2>2, <2>3, <2>4, <2>5 DEF Operand
  <2> QED
    BY <1>1, <2>6 DEF ValueOf
<1>2. CASE Kind(Top) # "OP"
  BY <1>2, WholeLeaf
<1> QED
  BY <1>1, <1>2

LEMMA EvaluateDoc ==
    ASSUME Parsed, TypeOK, UseInv, ~failed, Evaluate,
           DocOf(stack, fresh, cell, mode, unread)
    PROVE  /\ FreshFed(stack', fresh') /\ Wholes(stack') /\ CachedIn(fresh', cell')
           /\ Told(stack', mode', unread')
<1> DEFINE n == Top
           t == Tail(stack)
<1>1. /\ AtDone /\ stack # <<>> /\ IsExp(stack[1]) /\ stack' = t /\ n = stack[1].node
      /\ fresh' = (fresh \ KidSet(n)) \cup {n} /\ cell' = [cell EXCEPT ![n] = ValueOf(n)]
      /\ mode' = mode /\ unread' = unread /\ mode \in {"run", "continue"}
      /\ Kind(n) \in Expressions /\ ValueOf(n) # Error
  BY DEF Evaluate, AtDone, Running, said, Top, IsExp
<1>2. /\ stack \in Seq(StackEntries) /\ n \in DOMAIN Ast /\ Len(stack) \in Nat /\ Len(stack) >= 1
      /\ Len(t) = Len(stack) - 1 /\ \A i \in 1..Len(stack) - 1 : t[i] = stack[i + 1]
  BY <1>1, TopTyped, PopStack
<1>3. FreshFed(stack, fresh) /\ Wholes(stack) /\ CachedIn(fresh, cell) /\ Told(stack, mode, unread)
  BY DEF DocOf
<1>4. Silent(t)
  BY <1>1, <1>2, <1>3, TailSilent
<1>5. Whole(n)
  BY <1>1, <1>2, <1>3 DEF Wholes
<1>6. ValueOf(n) = Means(n)
  BY <1>1, <1>3, <1>5, ValueMeans
<1> HIDE DEF n, t
<1>7. FreshFed(t, fresh')
  <2> SUFFICES ASSUME NEW m \in fresh'
               PROVE  \E j \in 1..Len(t) : Hungry(t[j]) /\ m \in KidSet(t[j].node)
    BY DEF FreshFed
  <2>1. PICK j \in 2..Len(stack) : Hungry(stack[j]) /\ m \in KidSet(stack[j].node)
    <3>1. CASE m = n
      <4>1. 1 \in 1..Len(stack)
        BY <1>2
      <4>2. PICK j \in 1..Len(stack) : j > 1 /\ Hungry(stack[j]) /\ n \in KidSet(stack[j].node)
        BY <1>1, <4>1 DEF UseInv, UseOf, Fed
      <4>3. j \in 2..Len(stack)
        BY <1>2, <4>2
      <4> QED
        BY <3>1, <4>2, <4>3
    <3>2. CASE m # n
      <4>1. m \in fresh /\ m \notin KidSet(n)
        BY <1>1, <3>2
      <4>2. PICK j \in 1..Len(stack) : Hungry(stack[j]) /\ m \in KidSet(stack[j].node)
        BY <1>3, <4>1 DEF FreshFed
      <4>3. j # 1
        BY <1>1, <4>1, <4>2
      <4>4. j \in 2..Len(stack)
        BY <1>2, <4>2, <4>3
      <4> QED
        BY <4>2, <4>4
    <3> QED
      BY <3>1, <3>2
  <2>2. j - 1 \in 1..Len(t) /\ t[j - 1] = stack[(j - 1) + 1] /\ (j - 1) + 1 = j
    BY <1>2
  <2> QED
    BY <2>1, <2>2
<1>8. Wholes(t)
  <2> SUFFICES ASSUME NEW i \in 1..Len(t), IsExp(t[i]) PROVE Whole(t[i].node)
    BY DEF Wholes
  <2>1. i + 1 \in 1..Len(stack) /\ t[i] = stack[i + 1]
    BY <1>2
  <2> QED
    BY <1>3, <2>1 DEF Wholes
<1>9. CachedIn(fresh', cell')
  <2> SUFFICES ASSUME NEW m \in fresh' PROVE Whole(m) /\ cell'[m] = Means(m)
    BY DEF CachedIn
  <2>1. CASE m = n
    <3>1. cell'[n] = ValueOf(n)
      BY <1>1, <1>2 DEF TypeOK
    <3> QED
      BY <1>5, <1>6, <2>1, <3>1
  <2>2. CASE m # n
    <3>1. m \in fresh /\ m \in DOMAIN cell
      BY <1>1, <2>2 DEF TypeOK
    <3>2. cell'[m] = cell[m]
      BY <1>1, <2>2, <3>1
    <3> QED
      BY <1>3, <3>1, <3>2 DEF CachedIn
  <2> QED
    BY <2>1, <2>2
<1>10. Told(t, mode', unread')
  <2>1. Kind(stack[1].node) # "RECV"
    BY <1>1 DEF IsExp, Expressions
  <2>2. ~(mode' = "continue" /\ unread') /\ mode' # "idle"
    BY <1>1, <1>3, <2>1 DEF Told
  <2> QED
    BY <1>4, <2>2, SilentTold
<1> QED
  BY <1>1, <1>7, <1>8, <1>9, <1>10

LEMMA InitDoc == Init => DocInv
<1> SUFFICES ASSUME Init PROVE DocInv
  OBVIOUS
<1>1. stack = <<>> /\ fresh = {} /\ unread = FALSE
  BY DEF Init
<1>2. Len(stack) = 0
  BY <1>1
<1>3. FreshFed(stack, fresh) /\ Wholes(stack) /\ CachedIn(fresh, cell) /\ Told(stack, mode, unread)
  BY <1>1, <1>2 DEF FreshFed, Wholes, CachedIn, Told
<1> QED
  BY <1>3 DEF DocInv, DocOf

(* A stack without expressions, consumers and waiting RECVs. *)
LEMMA StillDoc ==
    ASSUME Still(stack'), Silent(stack'), fresh' = {}, mode' # "idle",
           ~(mode' = "continue" /\ unread'), script' = script
    PROVE  DocInv'
<1>1. Wholes(stack') /\ FreshFed(stack', fresh')
  BY StillWholes
<1>2. Told(stack', mode', unread')
  BY SilentTold
<1> QED
  BY <1>1, <1>2, DocNext

LEMMA StepDoc == TypeOK /\ UseInv /\ DocInv /\ [Next]_state => DocInv'
<1> SUFFICES ASSUME TypeOK, UseInv, DocInv, [Next]_state PROVE DocInv'
  OBVIOUS
<1>1. script' = script /\ script \in Scripts
  BY DEF TypeOK, Next, Step, Start, Resume, Finished, Suspend, Open, OpenCall, Evaluate,
         Assign, SendOut, Branch, Receive, Leave, Fault, Stopped, state
<1>2. CASE failed
  <2>1. failed'
    BY <1>2 DEF Next, Step, Start, Resume, Finished, Suspend, Open, OpenCall, Evaluate,
         Assign, SendOut, Branch, Receive, Leave, Fault, Stopped, state
  <2> QED
    BY <2>1 DEF DocInv
<1>3. CASE ~Parsed
  BY <1>1, <1>3, ParsedNext DEF DocInv
<1>4. CASE ~failed /\ Parsed
  <2>1. /\ Parsed /\ ~failed /\ UseOf(stack, fresh)
        /\ DocOf(stack, fresh, cell, mode, unread)
        /\ FreshFed(stack, fresh) /\ Wholes(stack) /\ CachedIn(fresh, cell)
        /\ Told(stack, mode, unread)
    BY <1>1, <1>4 DEF UseInv, DocInv, DocOf
  <2>2. ASSUME NEW m \in Messages, Start(m) PROVE DocInv'
    <3>1. /\ stack = <<>> /\ stack' = <<Entry(Root, FALSE)>> /\ mode' = "run" /\ fresh' = fresh
      BY <2>1, <2>2 DEF Start, Parsed
    <3>2. fresh = {}
      <4>1. Len(stack) = 0
        BY <3>1
      <4> QED
        BY <2>1, <4>1 DEF FreshFed
    <3>3. Root \in DOMAIN Ast /\ Kind(Root) = "BLOCK"
      BY <1>1, Shape
    <3>4. \A e : Len(<<e>>) = 1 /\ <<e>>[1] = e
      OBVIOUS
    <3>5. Len(stack') = 1 /\ stack'[1].node = Root /\ stack'[1].done = FALSE
      BY <3>1, <3>4 DEF Entry
    <3>6. Still(stack') /\ Silent(stack')
      BY <3>3, <3>5 DEF Still, Silent, Hungry, IsExp, Expressions
    <3> QED
      BY <1>1, <3>1, <3>2, <3>6, StillDoc
  <2>3. ASSUME NEW m \in Messages, Resume(m) PROVE DocInv'
    <3>1. /\ stack' = stack /\ fresh' = fresh /\ cell' = cell /\ vars' = vars /\ stack # <<>>
          /\ mode = "idle" /\ mode' = "continue" /\ unread' = TRUE
      BY <2>3 DEF Resume
    <3>2. Told(stack', mode', unread')
      BY <2>1, <3>1 DEF Told
    <3> QED
      BY <1>1, <2>1, <3>1, <3>2, DocNext
  <2>4. ASSUME Finished PROVE DocInv'
    <3>1. /\ stack' = stack /\ fresh' = fresh /\ cell' = cell /\ vars' = vars /\ stack = <<>>
      BY <2>4 DEF Finished
    <3>2. Len(stack') = 0
      BY <3>1
    <3>3. Told(stack', mode', unread')
      BY <3>1, <3>2 DEF Told
    <3> QED
      BY <1>1, <2>1, <3>1, <3>3, DocNext
  <2>5. ASSUME Suspend PROVE DocInv'
    <3>1. /\ stack # <<>> /\ ~stack[1].done /\ Kind(Top) = "RECV"
          /\ stack' = <<Entry(Top, TRUE)>> \o Tail(stack)
          /\ fresh' = fresh
      BY <2>5 DEF Suspend, AtOpen
    <3>2. Top \in DOMAIN Ast /\ ~IsExp(stack[1]) /\ ~Hungry(stack[1]) /\ stack \in Seq(StackEntries)
      BY <3>1, TopTyped DEF IsExp, Top, Expressions, Hungry
    <3>3. Tail(stack) \in Seq(StackEntries) /\ Still(Tail(stack)) /\ fresh = {}
      BY <2>1, <3>1, <3>2, StillBelow, NoFresh
    <3>4. Silent(Tail(stack))
      BY <2>1, <3>1, <3>2, TailSilent
    <3>5. PICK e, s : e = Entry(Top, TRUE) /\ s = Tail(stack)
      OBVIOUS
    <3>6. stack' = <<e>> \o s /\ s \in Seq(StackEntries) /\ Silent(s) /\ e.node = Top /\ e.done = TRUE
      BY <3>1, <3>3, <3>4, <3>5 DEF Entry
    <3>7. Still(stack')
      BY <3>1, <3>2, <3>3, StillPut
    <3>8. /\ Len(s) \in Nat /\ Len(stack') = Len(s) + 1 /\ stack'[1] = e
          /\ \A i \in 2..Len(stack') : stack'[i] = s[i - 1] /\ i - 1 \in 1..Len(s)
      <4>1. PICK t : t = <<e>> \o s
        OBVIOUS
      <4>2. /\ Len(s) \in Nat /\ Len(t) = Len(s) + 1 /\ t[1] = e
            /\ \A i \in 2..Len(t) : t[i] = s[i - 1] /\ i - 1 \in 1..Len(s)
        BY <3>6, <4>1
      <4> QED
        BY <3>6, <4>1, <4>2
    <3>9. mode' = "idle" \/ (mode' = "continue" /\ unread')
      <4>1. stack' # <<>>
        BY <3>8
      <4> QED
        BY <2>5, <4>1 DEF Suspend, LeaveLoop, AtOpen, Running
    <3>10. Told(stack', mode', unread')
      <4>1. \A i \in 1..Len(stack') : i = 1 \/ i \in 2..Len(stack')
        BY <3>8
      <4>2. \A i \in 1..Len(stack') : Kind(stack'[i].node) = "RECV" /\ stack'[i].done => i = 1
        BY <3>6, <3>8, <4>1 DEF Silent
      <4> QED
        BY <3>1, <3>6, <3>8, <3>9, <4>2 DEF Told
    <3>11. Wholes(stack') /\ FreshFed(stack', fresh')
      BY <3>1, <3>3, <3>7, StillWholes
    <3> QED
      BY <1>1, <3>1, <3>3, <3>10, <3>11, DocNext
  <2>6. ASSUME Open PROVE DocInv'
    <3>1. vars' = vars
      BY <2>6 DEF Open
    <3> QED
      BY <1>1, <2>1, <2>6, <3>1, OpenDoc, DocNext
  <2>7. ASSUME OpenCall PROVE DocInv'
    <3> DEFINE b == Functions[Arg(Top)]
    <3>1. /\ stack # <<>> /\ Kind(Top) = "CALL" /\ Arg(Top) \in DOMAIN Functions
          /\ ~stack[1].done /\ mode \in {"run", "continue"}
          /\ stack' = <<Entry(b, FALSE)>> \o (<<Entry(Top, TRUE)>> \o Tail(stack))
          /\ fresh' = fresh /\ mode' = mode /\ unread' = unread
      BY <2>7 DEF OpenCall, AtOpen, Running, said
    <3>2. Top \in DOMAIN Ast /\ ~IsExp(stack[1]) /\ ~Hungry(stack[1]) /\ stack \in Seq(StackEntries)
      BY <3>1, TopTyped DEF IsExp, Top, Expressions, Hungry
    <3>3. Tail(stack) \in Seq(StackEntries) /\ Still(Tail(stack)) /\ fresh = {}
      BY <2>1, <3>1, <3>2, StillBelow, NoFresh
    <3>4. b \in DOMAIN Ast /\ Kind(b) = "BLOCK"
      BY <1>1, <3>1, Shape
    <3>5. Silent(Tail(stack))
      BY <2>1, <3>1, <3>2, TailSilent
    <3> HIDE DEF b
    <3>6. PICK x, y, s : x = Entry(b, FALSE) /\ y = Entry(Top, TRUE) /\ s = Tail(stack)
      OBVIOUS
    <3>7. /\ x \in StackEntries /\ y \in StackEntries /\ x.node = b /\ y.node = Top
      BY <3>2, <3>4, <3>6, EntryTyped DEF Entry
    <3>8. ~(Kind(x.node) = "RECV" /\ x.done) /\ ~(Kind(y.node) = "RECV" /\ y.done)
      BY <3>1, <3>4, <3>7
    <3>9. PICK u : u = <<y>> \o s
      OBVIOUS
    <3>10. u \in Seq(StackEntries) /\ Silent(u) /\ Still(u)
      <4>1. u \in Seq(StackEntries) /\ Silent(u)
        BY <3>3, <3>5, <3>6, <3>7, <3>8, <3>9, PutSilent
      <4>2. Still(u)
        BY <3>1, <3>2, <3>3, <3>6, <3>9, StillPut
      <4> QED
        BY <4>1, <4>2
    <3>11. stack' = <<x>> \o u
      BY <3>1, <3>6, <3>9
    <3>12. Silent(stack')
      BY <3>7, <3>8, <3>10, <3>11, PutSilent
    <3>13. Still(stack')
      BY <3>4, <3>6, <3>10, <3>11, StillPut
    <3>14. ~(mode' = "continue" /\ unread') /\ mode' # "idle"
      BY <2>1, <3>1 DEF Told
    <3> QED
      BY <1>1, <3>1, <3>3, <3>12, <3>13, <3>14, StillDoc
  <2>8. ASSUME Evaluate PROVE DocInv'
    <3>1. vars' = vars
      BY <2>8 DEF Evaluate
    <3> QED
      BY <1>1, <2>1, <2>8, <3>1, EvaluateDoc, DocNext
  <2>9. ASSUME Assign \/ SendOut \/ Receive \/ Leave PROVE DocInv'
    <3>1. /\ stack # <<>> /\ ~IsExp(stack[1]) /\ stack' = Tail(stack)
          /\ mode' = mode /\ mode \in {"run", "continue"}
      BY <2>9 DEF Assign, SendOut, Receive, Leave, AtDone, IsExp, Top, Expressions, Running, said
    <3>2. Still(stack') /\ stack \in Seq(StackEntries) /\ fresh \ KidSet(Top) = {}
      BY <2>1, <3>1, StillBelow, TopTyped, NoFresh
    <3>3. Silent(stack')
      BY <2>1, <3>1, <3>2, TailSilent
    <3>4. fresh' = {}
      <4>1. CASE Assign \/ SendOut
        BY <3>2, <4>1 DEF Assign, SendOut
      <4>2. CASE Receive \/ Leave
        <5>1. fresh' = fresh /\ ~Hungry(stack[1])
          BY <4>2 DEF Receive, Leave, Hungry, Top, Consumers
        <5> QED
          BY <2>1, <3>1, <5>1, NoFresh
      <4> QED
        BY <2>9, <4>1, <4>2
    <3>5. ~(mode' = "continue" /\ unread')
      <4>1. CASE Assign \/ SendOut \/ Leave
        <5>1. Kind(stack[1].node) # "RECV" /\ unread' = unread
          BY <4>1 DEF Assign, SendOut, Leave, Top, said
        <5> QED
          BY <2>1, <3>1, <5>1 DEF Told
      <4>2. CASE Receive
        BY <4>2 DEF Receive
      <4> QED
        BY <2>9, <4>1, <4>2
    <3> QED
      BY <1>1, <3>1, <3>2, <3>3, <3>4, <3>5, StillDoc
  <2>10. ASSUME Branch PROVE DocInv'
    <3>1. /\ stack # <<>> /\ Kind(Top) = "IF" /\ mode' = mode /\ mode \in {"run", "continue"}
          /\ \/ stack' = Tail(stack)
             \/ stack' = <<Entry(Ast[Top].then, FALSE)>> \o Tail(stack)
          /\ fresh' = fresh \ KidSet(Top) /\ unread' = unread
      BY <2>10 DEF Branch, AtDone, Running, said
    <3>2. Top \in DOMAIN Ast /\ ~IsExp(stack[1]) /\ stack \in Seq(StackEntries)
      BY <3>1, TopTyped DEF IsExp, Top, Expressions
    <3>3. /\ Tail(stack) \in Seq(StackEntries) /\ Still(Tail(stack)) /\ Silent(Tail(stack))
          /\ fresh' = {}
      BY <2>1, <3>1, <3>2, StillBelow, TailSilent, NoFresh
    <3>4. Ast[Top].then \in DOMAIN Ast /\ Kind(Ast[Top].then) = "BLOCK"
      BY <1>1, <3>1, <3>2, Shape DEF Consumers
    <3>5. Still(stack')
      BY <3>1, <3>3, <3>4, StillPut
    <3>6. Silent(stack')
      <4>1. PICK e, s : e = Entry(Ast[Top].then, FALSE) /\ s = Tail(stack)
        OBVIOUS
      <4>2. e \in StackEntries /\ e.node = Ast[Top].then
        BY <3>4, <4>1, EntryTyped DEF Entry
      <4>3. ~(Kind(e.node) = "RECV" /\ e.done)
        BY <3>4, <4>2
      <4>4. Silent(<<e>> \o s)
        BY <3>3, <4>1, <4>2, <4>3, PutSilent
      <4> QED
        BY <3>1, <3>3, <4>1, <4>4
    <3>7. ~(mode' = "continue" /\ unread')
      BY <2>1, <3>1 DEF Told, Top
    <3> QED
      BY <1>1, <3>1, <3>3, <3>5, <3>6, <3>7, StillDoc
  <2>11. ASSUME Fault PROVE DocInv'
    BY <2>11 DEF Fault, DocInv
  <2>12. ASSUME Stopped \/ UNCHANGED state PROVE DocInv'
    <3>1. /\ stack' = stack /\ fresh' = fresh /\ cell' = cell /\ vars' = vars
          /\ mode' = mode /\ unread' = unread
      BY <2>12 DEF Stopped, state
    <3> QED
      BY <1>1, <2>1, <3>1, DocNext
  <2> QED
    BY <2>2, <2>3, <2>4, <2>5, <2>6, <2>7, <2>8, <2>9, <2>10, <2>11, <2>12 DEF Next, Step
<1> QED
  BY <1>2, <1>3, <1>4

-----------------------------------------------------------------------------
(* The state of Dialogue that a state of Interp stands for.                   *)
Todo == LinesLeft(stack)
Inbox == IF mode = "run" THEN <<msg>>
         ELSE IF mode = "continue" /\ unread THEN <<recv>> ELSE <<>>
Status == CASE Running -> "busy"
            [] mode = "idle" /\ stack = <<>> -> "new"
            [] OTHER -> mode
Broken == failed \/ ProgramOf[script].parse # "ok"
Meant(l) == D!Value(script[l], D!ExpressionAt(script[l]))

(* The steps of Dialogue in these terms. *)
LEMMA LineIs ==
    ASSUME NEW l, Todo # <<>>, Head(Todo) = l
    PROVE  /\ D!Line = script[l] /\ D!Result = Meant(l)
           /\ \A w : Status = "busy" /\ script[l][1] = w => D!Does(w)
BY DEF D!Line, D!Result, D!Does, Todo, Status, Meant

LEMMA AskIs ==
    ASSUME NEW m \in Messages, Status \in {"new", "idle"}, Status' = "busy", Inbox' = <<m>>,
           Todo' = IF Status = "new" THEN D!Main(script) ELSE Todo,
           script' = script, vars' = vars, send' = send, Broken' = Broken
    PROVE  D!Ask(m)
BY DEF D!Ask, Todo, Status, Inbox, Broken

LEMMA DefineIs ==
    ASSUME NEW l, Status = "busy", Todo # <<>>, Head(Todo) = l, script[l][1] \in {"VAR", "SET"},
           Printable(Meant(l)), SetVariable(script[l][2], Meant(l)), Todo' = Tail(Todo),
           script' = script, send' = send, Inbox' = Inbox, Status' = Status, Broken' = Broken
    PROVE  D!Define
<1>1. D!Does("VAR") \/ D!Does("SET")
  BY LineIs
<1>2. D!Printable(D!Result) /\ D!Put(D!Line[2], D!Result)
  BY LineIs, SameValues DEF D!Put, SetVariable
<1>3. LinesLeft(stack)' = Tail(LinesLeft(stack))
  BY DEF Todo
<1> QED
  BY <1>1, <1>2, <1>3 DEF D!Define, Inbox, Status, Broken

LEMMA SendIs ==
    ASSUME NEW l, Status = "busy", Todo # <<>>, Head(Todo) = l, script[l][1] = "SEND",
           Printable(Meant(l)), send' = Printed(Meant(l)), Todo' = Tail(Todo),
           script' = script, vars' = vars, Inbox' = Inbox, Status' = Status, Broken' = Broken
    PROVE  D!Send
<1>1. D!Does("SEND")
  BY LineIs
<1>2. D!Printable(D!Result) /\ send' = D!Printed(D!Result)
  BY LineIs, SameValues
<1>3. LinesLeft(stack)' = Tail(LinesLeft(stack))
  BY DEF Todo
<1> QED
  BY <1>1, <1>2, <1>3 DEF D!Send, Inbox, Status, Broken

LEMMA ReceiveIs ==
    ASSUME NEW l, Status = "busy", Todo # <<>>, Head(Todo) = l, script[l][1] = "RECV",
           NEW v, Inbox = <<v>>, SetVariable(script[l][2], ReadValue(v)), Todo' = Tail(Todo),
           script' = script, send' = send, Inbox' = <<>>, Status' = Status, Broken' = Broken
    PROVE  D!Receive
<1>1. D!Does("RECV")
  BY LineIs
<1>2. Inbox # <<>> /\ Inbox[1] = v
  OBVIOUS
<1>3. D!Put(D!Line[2], D!ReadValue(Inbox[1]))
  BY <1>2, LineIs, SameValues DEF D!Put, SetVariable
<1>4. LinesLeft(stack)' = Tail(LinesLeft(stack))
  BY DEF Todo
<1> QED
  BY <1>1, <1>2, <1>3, <1>4 DEF D!Receive, Inbox, Status, Broken

LEMMA IfIs ==
    ASSUME NEW l, Status = "busy", Todo # <<>>, Head(Todo) = l, script[l][1] = "IF",
           Meant(l).type = "BOOL",
           Todo' = (IF Meant(l).bool THEN D!Body(script, l) ELSE <<>>) \o Tail(Todo),
           script' = script, vars' = vars, send' = send,
           Inbox' = Inbox, Status' = Status, Broken' = Broken
    PROVE  D!If
<1>1. D!Does("IF") /\ D!Result = Meant(l)
  BY LineIs
<1>2. LinesLeft(stack)' = (IF D!Result.bool THEN D!Body(script, Head(LinesLeft(stack))) ELSE <<>>)
                            \o Tail(LinesLeft(stack))
  BY <1>1 DEF Todo
<1> QED
  BY <1>1, <1>2 DEF D!If, Inbox, Status, Broken

LEMMA CallIs ==
    ASSUME NEW l, Status = "busy", Todo # <<>>, Head(Todo) = l, script[l][1] = "CALL",
           NEW f \in D!Function(script, script[l][2]),
           Todo' = D!Body(script, f) \o Tail(Todo),
           script' = script, vars' = vars, send' = send,
           Inbox' = Inbox, Status' = Status, Broken' = Broken
    PROVE  D!Call
<1>1. D!Does("CALL") /\ D!Line = script[l]
  BY LineIs
<1>2. LinesLeft(stack)' = D!Body(script, f) \o Tail(LinesLeft(stack))
  BY DEF Todo
<1>3. f \in D!Function(script, D!Line[2])
  BY <1>1
<1> QED
  BY <1>1, <1>2, <1>3 DEF D!Call, Inbox, Status, Broken

LEMMA EndIs ==
    ASSUME Status = "busy", Todo = <<>>, Status' = "over", Inbox' = <<>>, Todo' = Todo,
           script' = script, vars' = vars, send' = send, Broken' = Broken
    PROVE  D!Answer
BY DEF D!Answer, Todo, Inbox, Status, Broken

LEMMA WaitsIs ==
    ASSUME NEW l, Status = "busy", Todo # <<>>, Head(Todo) = l, script[l][1] = "RECV",
           Inbox = <<>>, Status' = "idle", Inbox' = <<>>, Todo' = Todo,
           script' = script, vars' = vars, send' = send, Broken' = Broken
    PROVE  D!Answer
<1>1. D!Does("RECV")
  BY LineIs
<1> QED
  BY <1>1 DEF D!Answer, Todo, Inbox, Status, Broken

LEMMA MeaninglessIs ==
    ASSUME NEW l, Status = "busy", Todo # <<>>, Head(Todo) = l, Broken', script' = script,
           \/ script[l][1] \in {"VAR", "SET", "SEND"} /\ ~Printable(Meant(l))
           \/ script[l][1] = "IF" /\ Meant(l).type # "BOOL"
           \/ script[l][1] = "CALL" /\ D!Function(script, script[l][2]) = {}
    PROVE  D!Meaningless
<1>1. /\ D!Line = script[l] /\ D!Result = Meant(l) /\ D!Does(script[l][1])
      /\ D!Printable(Meant(l)) <=> Printable(Meant(l))
  BY LineIs, SameValues
<1>2. \/ (D!Does("VAR") \/ D!Does("SET") \/ D!Does("SEND")) /\ ~D!Printable(D!Result)
      \/ D!Does("IF") /\ D!Result.type # "BOOL"
      \/ D!Does("CALL") /\ D!Function(script, D!Line[2]) = {}
  BY <1>1
<1> QED
  BY <1>2 DEF D!Meaningless, Broken

LEMMA StutterIs ==
    ASSUME script' = script, Todo' = Todo, vars' = vars, send' = send, Inbox' = Inbox,
           Status' = Status, Broken' = Broken
    PROVE  UNCHANGED D!state
BY DEF D!state, Todo, Inbox, Status, Broken

LEMMA UnpromisedIs ==
    ASSUME (Broken /\ Broken') \/ ~D!Grammatical(script), script' = script
    PROVE  D!Unpromised
BY DEF D!Unpromised, Broken

LEMMA LeftNext == ASSUME script' = script PROVE Todo' = LinesLeft(stack')
BY DEF Todo, LinesLeft, LinesOf, Kind, Kids, Ast

LEMMA StatusIs ==
    /\ Running => Status = "busy"
    /\ mode = "idle" /\ stack = <<>> => Status = "new"
    /\ mode = "idle" /\ stack # <<>> => Status = "idle"
    /\ mode = "over" => Status = "over"
BY DEF Status, Running

LEMMA StatusNext ==
    /\ mode' \in {"run", "continue"} => Status' = "busy"
    /\ mode' = "idle" /\ stack' # <<>> => Status' = "idle"
    /\ mode' = "over" => Status' = "over"
BY DEF Status, Running

-----------------------------------------------------------------------------
(* What a step does to the lines that are left. *)
Going == Parsed /\ TypeOK /\ UseInv /\ ~failed /\ DocOf(stack, fresh, cell, mode, unread)

LEMMA TopStatement ==
    ASSUME Going, stack # <<>>, Kind(Top) \in Statements, ~(Kind(Top) = "CALL" /\ stack[1].done)
    PROVE  \E l \in 1..Len(script) :
                /\ Stating(l) /\ Top = <<l, 1>> /\ script[l][1] = Kind(Top)
                /\ LinesOf(stack[1]) = <<l>> /\ Todo # <<>> /\ Head(Todo) = l
                /\ Tail(Todo) = LinesLeft(Tail(stack))
<1>1. stack \in Seq(StackEntries) /\ stack[1] \in StackEntries /\ Top = stack[1].node /\ Parsed
  BY TopTyped DEF Top, Going
<1>2. PICK l \in 1..Len(script) :
            /\ Stating(l) /\ Top = <<l, 1>> /\ script[l][1] = Kind(Top)
            /\ LinesOf(stack[1]) = <<l>>
  BY <1>1, StatementLine
<1> QED
  BY <1>1, <1>2, LeftHead DEF Todo

LEMMA TopSpent ==
    ASSUME Going, stack # <<>>, LinesOf(stack[1]) = <<>>
    PROVE  Todo = LinesLeft(Tail(stack))
<1>1. stack \in Seq(StackEntries) /\ Parsed
  BY TopTyped DEF Going
<1> QED
  BY <1>1, LeftPop DEF Todo

(* The word that a statement names. *)
LEMMA NamedIs ==
    ASSUME Parsed, NEW l \in 1..Len(script), Stating(l)
    PROVE  script[l][1] \in {"VAR", "SET", "CALL", "RECV"} => Arg(<<l, 1>>) = script[l][2]
<1> SUFFICES ASSUME script[l][1] \in {"VAR", "SET", "CALL", "RECV"}
             PROVE  Arg(<<l, 1>>) = script[l][2]
  OBVIOUS
<1>1. Arg(<<l, 1>>) = Token(script[l], 2)
  BY StatementNode
<1>2. Sequence(script[l]) /\ Len(script[l]) \in Nat /\ script[l] # <<>>
  BY ScriptIs, Elems DEF Stating, Lines
<1>3. Len(script[l]) >= 2
  <2>1. CASE script[l][1] \in {"VAR", "SET"}
    <3>1. Valued(l)
      BY <2>1 DEF Stating, Valued, Lines
    <3> QED
      BY <2>1, <3>1, QuotedIs
  <2>2. CASE script[l][1] \in {"CALL", "RECV"}
    BY <1>2, <2>2, ScriptIs DEF D!Formed
  <2> QED
    BY <2>1, <2>2
<1>4. 2 \in 1..Len(script[l])
  BY <1>2, <1>3
<1> QED
  BY <1>1, <1>2, <1>4, TokenIs

LEMMA OperandMeans ==
    ASSUME Going, AtDone, NEW l \in 1..Len(script), Top = <<l, 1>>, Stating(l),
           script[l][1] \in {"VAR", "SET", "SEND", "IF"}
    PROVE  Operand(Top, 1) = Meant(l)
<1>1. Parsed /\ TypeOK /\ UseInv /\ ~failed /\ CachedIn(fresh, cell)
  BY DEF Going, DocOf
<1>2. Valued(l) /\ Kind(Top) \in Consumers
  <2>1. Valued(l)
    BY DEF Stating, Valued, Lines
  <2>2. Kind(Top) = script[l][1]
    BY <1>1, StatementNode
  <2> QED
    BY <2>1, <2>2 DEF Consumers
<1>3. PICK k : /\ KidSet(Top) = {k} /\ Kids(Top)[1] = k
               /\ Means(k) = D!Value(script[l], D!ExpressionAt(script[l]))
  BY <1>1, <1>2, WholeStatement
<1>4. k \in fresh
  BY <1>1, <1>2, <1>3, UseGives DEF OperandsFresh
<1>5. cell[k] = Means(k)
  BY <1>1, <1>4 DEF CachedIn
<1> QED
  BY <1>3, <1>5 DEF Operand, Meant

(* The functions of the script. *)
LEMMA FunctionIs ==
    ASSUME Parsed, NEW x
    PROVE  /\ x \in DOMAIN Functions <=> D!Function(script, x) # {}
           /\ x \in DOMAIN Functions =>
                \E f \in D!Function(script, x) :
                    f \in 1..Len(script) /\ Opener(f) /\ Functions[x] = <<f, 0>>
<1> DEFINE F == {l \in Lines(script, {"FUNC"}) : script[l][2] = x}
<1>1. DOMAIN script = 1..Len(script) /\ Len(script) \in Nat
  BY ScriptIs
<1>2. F = D!Function(script, x)
  BY DEF Lines, D!Function, D!Is
<1>3. F \subseteq 1..Len(script)
  BY <1>1 DEF Lines
<1>4. \A l \in F : Opener(l)
  BY DEF Lines, Opener
<1>5. x \in DOMAIN Functions <=> F # {}
  BY ProgramIs
<1>6. x \in DOMAIN Functions => Functions[x] = <<Max(F), 0>>
  BY ProgramIs
<1> HIDE DEF F
<1>7. F # {} => Max(F) \in F
  <2> SUFFICES ASSUME F # {} PROVE Max(F) \in F
    OBVIOUS
  <2>1. PICK m \in F : \A y \in F : y <= m
    <3>1. Len(script) \in Nat /\ F \subseteq 0..Len(script)
      BY <1>1, <1>3
    <3> QED
      BY <3>1, Greatest
  <2>2. Max(F) = CHOOSE y \in F : \A z \in F : y >= z
    BY DEF Max
  <2>3. \A y \in F : m >= y
    BY <1>1, <1>3, <2>1
  <2> QED
    BY <2>2, <2>3
<1> QED
  BY <1>2, <1>3, <1>4, <1>5, <1>6, <1>7

(* An expression that has no value is part of the next line's. *)
LEMMA FaultLine ==
    ASSUME Going, AtDone, Kind(Top) \in Expressions, ValueOf(Top) = Error
    PROVE  \E l \in 1..Len(script) :
                /\ Todo # <<>> /\ Head(Todo) = l
                /\ script[l][1] \in {"VAR", "SET", "SEND", "IF"} /\ Meant(l) = Error
<1>1. /\ Parsed /\ TypeOK /\ UseInv /\ ~failed /\ CachedIn(fresh, cell) /\ Wholes(stack)
      /\ UseOf(stack, fresh) /\ stack # <<>>
  BY DEF Going, DocOf, UseInv, AtDone
<1>2. /\ stack \in Seq(StackEntries) /\ Len(stack) \in Nat /\ Len(stack) >= 1
      /\ Top = stack[1].node /\ \A i \in 1..Len(stack) : stack[i] \in StackEntries
      /\ \A i \in 1..Len(stack) : stack[i].node \in DOMAIN Ast
  BY <1>1, TopTyped, PopStack, Elements, NodesTyped DEF Top
<1> DEFINE P == {i \in 1..Len(stack) : IsExp(stack[i]) /\ Means(stack[i].node) = Error}
<1>3. 1 \in P
  <2>1. IsExp(stack[1]) /\ 1 \in 1..Len(stack)
    BY <1>2 DEF IsExp
  <2>2. Whole(Top)
    BY <1>1, <1>2, <2>1 DEF Wholes
  <2>3. Means(Top) = Error
    BY <1>1, <2>2, ValueMeans
  <2> QED
    BY <1>2, <2>1, <2>3
<1>4. PICK i \in P : \A h \in P : h <= i
  <2>1. Len(stack) \in Nat /\ P \subseteq 0..Len(stack) /\ P # {}
    BY <1>2, <1>3
  <2> HIDE DEF P
  <2> QED
    BY <2>1, Greatest
<1>5. i \in 1..Len(stack) /\ IsExp(stack[i]) /\ Means(stack[i].node) = Error
  OBVIOUS
<1>6. PICK j \in 1..Len(stack) : j > i /\ Hungry(stack[j]) /\ stack[i].node \in KidSet(stack[j].node)
  BY <1>1, <1>5 DEF UseOf, Fed
<1>7. j \notin P
  BY <1>2, <1>4, <1>6
<1>8. Kind(stack[j].node) # "OP"
  <2> SUFFICES ASSUME Kind(stack[j].node) = "OP" PROVE FALSE
    OBVIOUS
  <2>1. IsExp(stack[j])
    BY DEF IsExp, Expressions
  <2>2. Whole(stack[j].node)
    BY <1>1, <2>1 DEF Wholes
  <2>3. PICK n : n = stack[j].node
    OBVIOUS
  <2>4. /\ KidSet(n) = {Kids(n)[1], Kids(n)[2]}
        /\ Means(n) = IF Error \in {Means(Kids(n)[1]), Means(Kids(n)[2])} THEN Error
                      ELSE Apply(Arg(n), Means(Kids(n)[1]), Means(Kids(n)[2]))
    BY <1>1, <2>2, <2>3, WholeOp
  <2>5. stack[i].node = Kids(n)[1] \/ stack[i].node = Kids(n)[2]
    BY <1>6, <2>3, <2>4
  <2>6. Means(n) = Error
    BY <1>5, <2>4, <2>5
  <2> QED
    BY <1>7, <2>1, <2>3, <2>6
<1>9. Kind(stack[j].node) \in {"VAR", "SET", "SEND", "IF"}
  BY <1>6, <1>8 DEF Hungry, Consumers
<1>10. Kind(stack[j].node) \in Statements /\ Kind(stack[j].node) # "CALL"
  BY <1>9 DEF Statements
<1>11. PICK l \in 1..Len(script) :
            /\ Stating(l) /\ stack[j].node = <<l, 1>> /\ script[l][1] = Kind(stack[j].node)
            /\ LinesOf(stack[j]) = <<l>>
  BY <1>1, <1>2, <1>10, StatementLine
<1>12. \A h \in 1..j - 1 : LinesOf(stack[h]) = <<>>
  <2> TAKE h \in 1..j - 1
  <2>1. h \in 1..Len(stack) /\ h < j
    BY <1>2
  <2>2. IsExp(stack[h])
    BY <1>1, <1>6, <2>1 DEF UseOf, Above
  <2> QED
    BY <2>2, LinesOfIs DEF IsExp
<1>13. Todo # <<>> /\ Head(Todo) = l
  BY <1>1, <1>2, <1>11, <1>12, LeftPast DEF Todo
<1>14. Valued(l)
  BY <1>9, <1>11 DEF Stating, Valued, Lines
<1>15. PICK k : KidSet(<<l, 1>>) = {k} /\ Means(k) = D!Value(script[l], D!ExpressionAt(script[l]))
  BY <1>1, <1>14, WholeStatement
<1>16. stack[i].node = k
  BY <1>6, <1>11, <1>15
<1>17. Meant(l) = Error
  BY <1>5, <1>15, <1>16 DEF Meant
<1> QED
  BY <1>9, <1>11, <1>13, <1>17

LEMMA FaultMaps == ASSUME Going, Fault PROVE D!Meaningless
<1>1. /\ Parsed /\ TypeOK /\ script' = script /\ failed' = TRUE /\ Running /\ stack # <<>>
  BY DEF Going, Fault, AtDone, AtOpen
<1>2. Status = "busy" /\ Broken'
  BY <1>1, StatusIs DEF Broken
<1>3. CASE AtDone /\ Throws(Top)
  <2>1. CASE Kind(Top) \in Expressions /\ ValueOf(Top) = Error
    <3>1. PICK l \in 1..Len(script) :
                /\ Todo # <<>> /\ Head(Todo) = l
                /\ script[l][1] \in {"VAR", "SET", "SEND", "IF"} /\ Meant(l) = Error
      BY <1>3, <2>1, FaultLine
    <3>2. ~Printable(Meant(l)) /\ Meant(l).type # "BOOL"
      BY <3>1 DEF Printable, Error
    <3> QED
      BY <1>1, <1>2, <3>1, <3>2, MeaninglessIs
  <2>2. CASE \/ Kind(Top) \in {"VAR", "SET", "SEND"} /\ ~Printable(Operand(Top, 1))
             \/ Kind(Top) = "IF" /\ Operand(Top, 1).type # "BOOL"
    <3>1. Kind(Top) \in Statements /\ Kind(Top) # "CALL"
      BY <2>2 DEF Statements
    <3>2. PICK l \in 1..Len(script) :
                /\ Stating(l) /\ Top = <<l, 1>> /\ script[l][1] = Kind(Top)
                /\ Todo # <<>> /\ Head(Todo) = l
      BY <1>1, <3>1, TopStatement
    <3>3. Operand(Top, 1) = Meant(l)
      BY <1>3, <2>2, <3>2, OperandMeans
    <3> QED
      BY <1>1, <1>2, <2>2, <3>2, <3>3, MeaninglessIs
  <2> QED
    BY <1>3, <2>1, <2>2 DEF Throws
<1>4. CASE AtOpen /\ Kind(Top) = "CALL" /\ Arg(Top) \notin DOMAIN Functions
  <2>1. Kind(Top) \in Statements /\ ~stack[1].done
    BY <1>4 DEF Statements, AtOpen
  <2>2. PICK l \in 1..Len(script) :
              /\ Stating(l) /\ Top = <<l, 1>> /\ script[l][1] = Kind(Top)
              /\ Todo # <<>> /\ Head(Todo) = l
    BY <1>1, <2>1, TopStatement
  <2>3. Arg(Top) = script[l][2]
    BY <1>1, <1>4, <2>2, NamedIs
  <2>4. D!Function(script, script[l][2]) = {}
    BY <1>1, <1>4, <2>3, FunctionIs
  <2> QED
    BY <1>1, <1>2, <1>4, <2>2, <2>4, MeaninglessIs
<1> QED
  BY <1>3, <1>4 DEF Fault

-----------------------------------------------------------------------------
(* Each step is one of Dialogue's, or changes nothing in it. *)
LEMMA StartMaps ==
    ASSUME Going, NEW m \in Messages, Start(m) PROVE D!Ask(m)
<1>1. Parsed /\ TypeOK
  BY DEF Going
<1>2. /\ mode = "idle" /\ stack = <<>> /\ stack' = <<Entry(Root, FALSE)>> /\ mode' = "run"
      /\ msg' = m /\ script' = script /\ vars' = vars /\ send' = send /\ failed' = failed
  BY <1>1 DEF Start, Parsed
<1>3. Status = "new" /\ Status' = "busy" /\ Inbox' = <<m>> /\ Broken' = Broken
  BY <1>2, StatusIs, StatusNext DEF Inbox, Broken
<1>4. Root \in DOMAIN Ast
  BY <1>1, Shape DEF Parsed
<1>5. Todo' = D!Main(script)
  <2>1. PICK e \in StackEntries : e = Entry(Root, FALSE)
    BY <1>4, EntryTyped
  <2>2. LinesLeft(<<e>>) = LinesOf(e)
    BY <1>1, LeftOne
  <2>3. Todo' = LinesLeft(<<e>>)
    BY <1>2, <2>1, LeftNext
  <2> QED
    BY <1>1, <2>1, <2>2, <2>3, MainSequence
<1> QED
  BY <1>2, <1>3, <1>5, AskIs

LEMMA ResumeMaps ==
    ASSUME Going, NEW m \in Messages, Resume(m) PROVE D!Ask(m)
<1>1. /\ mode = "idle" /\ stack # <<>> /\ stack' = stack /\ mode' = "continue"
      /\ recv' = m /\ unread' = TRUE /\ script' = script /\ vars' = vars /\ send' = send
      /\ failed' = failed
  BY DEF Resume
<1>2. Status = "idle" /\ Status' = "busy" /\ Inbox' = <<m>> /\ Broken' = Broken
  BY <1>1, StatusIs, StatusNext DEF Inbox, Broken
<1>3. Todo' = Todo
  BY <1>1, LeftNext DEF Todo
<1> QED
  BY <1>1, <1>2, <1>3, AskIs

LEMMA FinishedMaps ==
    ASSUME Going, Finished PROVE D!Answer \/ UNCHANGED D!state
<1>1. /\ Running /\ stack = <<>> /\ stack' = stack /\ script' = script /\ vars' = vars
      /\ send' = send /\ failed' = failed /\ LeaveLoop /\ mode \in {"run", "continue"}
  BY DEF Finished, Running
<1>2. Todo' = Todo /\ Status = "busy" /\ Broken' = Broken
  BY <1>1, LeftNext, StatusIs DEF Todo, Broken
<1>3. CASE mode = "run"
  <2>1. mode' = "continue" /\ recv' = msg /\ unread' = TRUE
    BY <1>1, <1>3 DEF LeaveLoop
  <2>2. Inbox' = Inbox /\ Status' = "busy"
    BY <1>3, <2>1, StatusNext DEF Inbox
  <2> QED
    BY <1>1, <1>2, <2>2, StutterIs
<1>4. CASE mode = "continue"
  <2>1. mode' = "over" /\ unread' = FALSE
    BY <1>1, <1>4 DEF LeaveLoop
  <2>2. Inbox' = <<>> /\ Status' = "over"
    BY <2>1, StatusNext DEF Inbox
  <2>3. Todo = <<>>
    BY <1>1, LeftEmpty DEF Todo
  <2> QED
    BY <1>1, <1>2, <2>2, <2>3, EndIs
<1> QED
  BY <1>1, <1>3, <1>4

LEMMA SuspendMaps ==
    ASSUME Going, Suspend PROVE D!Answer \/ UNCHANGED D!state
<1>1. /\ Running /\ stack # <<>> /\ ~stack[1].done /\ Kind(Top) = "RECV" /\ script' = script
      /\ stack' = <<Entry(Top, TRUE)>> \o Tail(stack) /\ LeaveLoop
      /\ vars' = vars /\ send' = send /\ failed' = failed /\ mode \in {"run", "continue"}
  BY DEF Suspend, AtOpen, Running
<1>2. /\ Parsed /\ TypeOK /\ Told(stack, mode, unread)
  BY DEF Going, DocOf
<1>3. /\ Top \in DOMAIN Ast /\ stack \in Seq(StackEntries) /\ Tail(stack) \in Seq(StackEntries)
      /\ Kind(Top) \in Statements
  BY <1>1, <1>2, TopTyped DEF Statements
<1>4. PICK l \in 1..Len(script) :
            /\ Stating(l) /\ Top = <<l, 1>> /\ script[l][1] = "RECV"
            /\ LinesOf(stack[1]) = <<l>> /\ Todo # <<>> /\ Head(Todo) = l
            /\ Tail(Todo) = LinesLeft(Tail(stack))
  BY <1>1, <1>3, TopStatement
<1>5. PICK e \in StackEntries, s \in Seq(StackEntries) : e = Entry(Top, TRUE) /\ s = Tail(stack)
  BY <1>3, EntryTyped
<1>6. LinesOf(e) = <<l>>
  <2>1. Top[1] = l
    BY <1>4
  <2> QED
    BY <1>1, <1>3, <1>5, <2>1, EntryLines
<1>7. Todo' = Todo
  <2>1. LinesLeft(<<e>> \o s) = Cat(LinesOf(e), LinesLeft(s))
    BY <1>2, LeftPut
  <2>2. LinesLeft(stack) = Cat(LinesOf(stack[1]), LinesLeft(s))
    BY <1>1, <1>2, <1>3, <1>5, LeftTop
  <2>3. Todo' = LinesLeft(stack') /\ stack' = <<e>> \o s
    BY <1>1, <1>5, LeftNext
  <2> QED
    BY <1>4, <1>6, <2>1, <2>2, <2>3 DEF Todo
<1>8. Status = "busy" /\ Broken' = Broken /\ stack' # <<>>
  <2>1. <<e>> \o s # <<>>
    OBVIOUS
  <2> QED
    BY <1>1, <1>5, <2>1, StatusIs DEF Broken
<1>9. CASE mode = "run"
  <2>1. mode' = "continue" /\ recv' = msg /\ unread' = TRUE
    BY <1>1, <1>9 DEF LeaveLoop
  <2>2. Inbox' = Inbox /\ Status' = "busy"
    BY <1>9, <2>1, StatusNext DEF Inbox
  <2> QED
    BY <1>1, <1>7, <1>8, <2>2, StutterIs
<1>10. CASE mode = "continue"
  <2>1. ~unread
    BY <1>1, <1>2, <1>10 DEF Told
  <2>2. mode' = "idle"
    BY <1>1, <1>8, <1>10 DEF LeaveLoop
  <2>3. Inbox = <<>> /\ Inbox' = <<>> /\ Status' = "idle"
    BY <1>8, <1>10, <2>1, <2>2, StatusNext DEF Inbox
  <2> QED
    BY <1>1, <1>4, <1>7, <1>8, <2>3, WaitsIs
<1> QED
  BY <1>1, <1>9, <1>10

(* What a step that stays in the loop leaves as it is. *)
LEMMA LoopKeeps ==
    ASSUME Running, mode' = mode, msg' = msg, recv' = recv, script' = script, failed' = failed
    PROVE  /\ Status = "busy" /\ Status' = Status /\ Broken' = Broken
           /\ unread' = unread => Inbox' = Inbox
<1>1. mode \in {"run", "continue"}
  BY DEF Running
<1> QED
  BY <1>1, StatusIs, StatusNext DEF Inbox, Broken

LEMMA OpenMaps == ASSUME Going, Open PROVE UNCHANGED D!state
<1>1. /\ AtOpen /\ Running /\ Kind(Top) \notin {"RECV", "CALL"} /\ Push(Top)
      /\ mode' = mode /\ msg' = msg /\ recv' = recv /\ unread' = unread /\ script' = script
      /\ failed' = failed /\ vars' = vars /\ send' = send
  BY DEF Open, AtOpen, said
<1>2. LinesLeft(stack') = LinesLeft(stack)
  <2>1. LinesLeft(Entries(Kids(Top)) \o <<Entry(Top, TRUE)>> \o Tail(stack)) = LinesLeft(stack)
    BY <1>1, OpenLeaves DEF Going
  <2>2. PICK t : t = Entries(Kids(Top)) \o <<Entry(Top, TRUE)>> \o Tail(stack)
    OBVIOUS
  <2>3. stack' = t
    BY <1>1, <2>2, Zenon DEF Push
  <2> QED
    BY <2>1, <2>2, <2>3
<1>3. Todo' = Todo
  BY <1>1, <1>2, LeftNext DEF Todo
<1> QED
  BY <1>1, <1>3, LoopKeeps, StutterIs

LEMMA OpenCallMaps == ASSUME Going, OpenCall PROVE D!Call
<1>1. /\ Running /\ stack # <<>> /\ ~stack[1].done /\ Kind(Top) = "CALL"
      /\ Arg(Top) \in DOMAIN Functions
      /\ stack' = <<Entry(Functions[Arg(Top)], FALSE)>> \o (<<Entry(Top, TRUE)>> \o Tail(stack))
      /\ mode' = mode /\ msg' = msg /\ recv' = recv /\ unread' = unread /\ script' = script
      /\ failed' = failed /\ vars' = vars /\ send' = send
  BY DEF OpenCall, AtOpen, said
<1>2. Parsed /\ TypeOK
  BY DEF Going
<1>3. /\ Top \in DOMAIN Ast /\ stack \in Seq(StackEntries) /\ Tail(stack) \in Seq(StackEntries)
      /\ Kind(Top) \in Statements
  BY <1>1, <1>2, TopTyped DEF Statements
<1>4. PICK l \in 1..Len(script) :
            /\ Stating(l) /\ Top = <<l, 1>> /\ script[l][1] = "CALL"
            /\ Todo # <<>> /\ Head(Todo) = l /\ Tail(Todo) = LinesLeft(Tail(stack))
  BY <1>1, <1>3, TopStatement
<1>5. Arg(Top) = script[l][2]
  BY <1>2, <1>4, NamedIs
<1>6. PICK f \in D!Function(script, script[l][2]) :
            f \in 1..Len(script) /\ Opener(f) /\ Functions[Arg(Top)] = <<f, 0>>
  BY <1>1, <1>2, <1>5, FunctionIs
<1>7. <<f, 0>> \in DOMAIN Ast /\ LinesOf(Entry(<<f, 0>>, FALSE)) = D!Body(script, f)
  BY <1>2, <1>6, NodesAre, BodySequence
<1>8. PICK x \in StackEntries, y \in StackEntries, s \in Seq(StackEntries) :
            x = Entry(<<f, 0>>, FALSE) /\ y = Entry(Top, TRUE) /\ s = Tail(stack)
  BY <1>3, <1>7, EntryTyped
<1>9. PICK u \in Seq(StackEntries) : u = <<y>> \o s
  <2>1. <<y>> \o s \in Seq(StackEntries)
    BY SeqPrefix
  <2> QED
    BY <2>1
<1>10. LinesLeft(u) = LinesLeft(s)
  <2>1. LinesOf(y) = <<>>
    BY <1>1, <1>8, EntryLines
  <2>2. LinesLeft(<<y>> \o s) = Cat(LinesOf(y), LinesLeft(s))
    BY <1>2, LeftPut
  <2>3. PICK v : v = LinesLeft(s) /\ Sequence(v)
    BY <1>2, LeftTyped
  <2>4. Cat(<<>>, v) = v
    BY <2>3, CatEmpty DEF Cat
  <2> QED
    BY <1>9, <2>1, <2>2, <2>3, <2>4
<1>11. stack' = <<x>> \o u
  BY <1>1, <1>6, <1>8, <1>9
<1>12. LinesLeft(<<x>> \o u) = Cat(D!Body(script, f), LinesLeft(s))
  BY <1>2, <1>7, <1>8, <1>10, LeftPut
<1>13. Todo' = D!Body(script, f) \o Tail(Todo)
  BY <1>1, <1>4, <1>8, <1>11, <1>12, LeftNext DEF Cat
<1> QED
  BY <1>1, <1>4, <1>13, LoopKeeps, CallIs

LEMMA EvaluateMaps == ASSUME Going, Evaluate PROVE UNCHANGED D!state
<1>1. /\ Running /\ stack # <<>> /\ Kind(Top) \in Expressions /\ stack' = Tail(stack)
      /\ mode' = mode /\ msg' = msg /\ recv' = recv /\ unread' = unread /\ script' = script
      /\ failed' = failed /\ vars' = vars /\ send' = send
  BY DEF Evaluate, AtDone, said
<1>2. LinesOf(stack[1]) = <<>>
  BY <1>1, LinesOfIs DEF Top
<1>3. Todo' = Todo
  BY <1>1, <1>2, TopSpent, LeftNext
<1> QED
  BY <1>1, <1>3, LoopKeeps, StutterIs

LEMMA LeaveMaps == ASSUME Going, Leave PROVE UNCHANGED D!state
<1>1. /\ Running /\ stack # <<>> /\ stack[1].done /\ Kind(Top) \in {"BLOCK", "CALL"}
      /\ stack' = Tail(stack)
      /\ mode' = mode /\ msg' = msg /\ recv' = recv /\ unread' = unread /\ script' = script
      /\ failed' = failed /\ vars' = vars /\ send' = send
  BY DEF Leave, AtDone, said
<1>2. LinesOf(stack[1]) = <<>>
  BY <1>1, LinesOfIs DEF Top
<1>3. Todo' = Todo
  BY <1>1, <1>2, TopSpent, LeftNext
<1> QED
  BY <1>1, <1>3, LoopKeeps, StutterIs

LEMMA AssignMaps == ASSUME Going, Assign PROVE D!Define
<1>1. /\ AtDone /\ Running /\ stack # <<>> /\ Kind(Top) \in {"VAR", "SET"}
      /\ Printable(Operand(Top, 1)) /\ SetVariable(Arg(Top), Operand(Top, 1))
      /\ stack' = Tail(stack)
      /\ mode' = mode /\ msg' = msg /\ recv' = recv /\ unread' = unread /\ script' = script
      /\ failed' = failed /\ send' = send
  BY DEF Assign, AtDone, said
<1>2. Parsed /\ Kind(Top) \in Statements /\ Kind(Top) # "CALL"
  BY <1>1 DEF Going, Statements
<1>3. PICK l \in 1..Len(script) :
            /\ Stating(l) /\ Top = <<l, 1>> /\ script[l][1] = Kind(Top)
            /\ Todo # <<>> /\ Head(Todo) = l /\ Tail(Todo) = LinesLeft(Tail(stack))
  BY <1>1, <1>2, TopStatement
<1>4. Operand(Top, 1) = Meant(l)
  BY <1>1, <1>3, OperandMeans
<1>5. Arg(Top) = script[l][2]
  BY <1>1, <1>2, <1>3, NamedIs
<1>6. Todo' = Tail(Todo)
  BY <1>1, <1>3, LeftNext
<1>7. /\ Status = "busy" /\ Status' = Status /\ Broken' = Broken /\ Inbox' = Inbox
  BY <1>1, LoopKeeps
<1>8. /\ script[l][1] \in {"VAR", "SET"} /\ Printable(Meant(l)) /\ SetVariable(script[l][2], Meant(l))
  BY <1>1, <1>3, <1>4, <1>5
<1> QED
  BY <1>1, <1>3, <1>6, <1>7, <1>8, DefineIs

LEMMA SendOutMaps == ASSUME Going, SendOut PROVE D!Send
<1>1. /\ AtDone /\ Running /\ stack # <<>> /\ Kind(Top) = "SEND"
      /\ Printable(Operand(Top, 1)) /\ send' = Printed(Operand(Top, 1))
      /\ stack' = Tail(stack)
      /\ mode' = mode /\ msg' = msg /\ recv' = recv /\ unread' = unread /\ script' = script
      /\ failed' = failed /\ vars' = vars
  BY DEF SendOut, AtDone, said
<1>2. Kind(Top) \in Statements /\ Kind(Top) # "CALL"
  BY <1>1 DEF Statements
<1>3. PICK l \in 1..Len(script) :
            /\ Stating(l) /\ Top = <<l, 1>> /\ script[l][1] = "SEND"
            /\ Todo # <<>> /\ Head(Todo) = l /\ Tail(Todo) = LinesLeft(Tail(stack))
  BY <1>1, <1>2, TopStatement
<1>4. Operand(Top, 1) = Meant(l)
  BY <1>1, <1>3, OperandMeans
<1>5. Todo' = Tail(Todo)
  BY <1>1, <1>3, LeftNext
<1>6. /\ Status = "busy" /\ Status' = Status /\ Broken' = Broken /\ Inbox' = Inbox
  BY <1>1, LoopKeeps
<1>7. Printable(Meant(l)) /\ send' = Printed(Meant(l))
  BY <1>1, <1>4
<1> QED
  BY <1>1, <1>3, <1>5, <1>6, <1>7, SendIs

LEMMA ReceiveMaps == ASSUME Going, Receive PROVE D!Receive
<1>1. /\ Running /\ stack # <<>> /\ stack[1].done /\ Kind(Top) = "RECV"
      /\ SetVariable(Arg(Top), ReadValue(recv)) /\ stack' = Tail(stack) /\ unread' = FALSE
      /\ mode' = mode /\ msg' = msg /\ recv' = recv /\ script' = script
      /\ failed' = failed /\ send' = send
  BY DEF Receive, AtDone
<1>2. Parsed /\ TypeOK /\ Kind(Top) \in Statements /\ Kind(Top) # "CALL" /\ Told(stack, mode, unread)
  BY <1>1 DEF Going, DocOf, Statements
<1>3. mode = "continue" /\ unread
  <2>1. Len(stack) \in Nat /\ Len(stack) >= 1
    BY <1>1, <1>2, TopTyped, PopStack
  <2> QED
    BY <1>1, <1>2, <2>1 DEF Told, Top, Running
<1>4. PICK l \in 1..Len(script) :
            /\ Stating(l) /\ Top = <<l, 1>> /\ script[l][1] = "RECV"
            /\ Todo # <<>> /\ Head(Todo) = l /\ Tail(Todo) = LinesLeft(Tail(stack))
  BY <1>1, <1>2, TopStatement
<1>5. Arg(Top) = script[l][2]
  BY <1>2, <1>4, NamedIs
<1>6. Todo' = Tail(Todo)
  BY <1>1, <1>4, LeftNext
<1>7. /\ Status = "busy" /\ Status' = Status /\ Broken' = Broken
      /\ Inbox = <<recv>> /\ Inbox' = <<>>
  BY <1>1, <1>3, LoopKeeps DEF Inbox
<1>8. SetVariable(script[l][2], ReadValue(recv))
  BY <1>1, <1>5
<1> QED
  BY <1>1, <1>4, <1>6, <1>7, <1>8, ReceiveIs

LEMMA BranchMaps == ASSUME Going, Branch PROVE D!If
<1>1. /\ AtDone /\ Running /\ stack # <<>> /\ Kind(Top) = "IF" /\ Operand(Top, 1).type = "BOOL"
      /\ stack' = IF Operand(Top, 1).bool
                  THEN <<Entry(Ast[Top].then, FALSE)>> \o Tail(stack) ELSE Tail(stack)
      /\ mode' = mode /\ msg' = msg /\ recv' = recv /\ unread' = unread /\ script' = script
      /\ failed' = failed /\ vars' = vars /\ send' = send
  BY DEF Branch, AtDone, said
<1>2. Parsed /\ TypeOK /\ Kind(Top) \in Statements /\ Kind(Top) # "CALL"
  BY <1>1 DEF Going, Statements
<1>3. PICK l \in 1..Len(script) :
            /\ Stating(l) /\ Top = <<l, 1>> /\ script[l][1] = "IF"
            /\ Todo # <<>> /\ Head(Todo) = l /\ Tail(Todo) = LinesLeft(Tail(stack))
  BY <1>1, <1>2, TopStatement
<1>4. Operand(Top, 1) = Meant(l)
  BY <1>1, <1>3, OperandMeans
<1>5. Ast[Top].then = <<l, 0>> /\ Opener(l)
  BY <1>2, <1>3, StatementNode
<1>6. <<l, 0>> \in DOMAIN Ast /\ LinesOf(Entry(<<l, 0>>, FALSE)) = D!Body(script, l)
  BY <1>2, <1>5, NodesAre, BodySequence
<1>7. PICK e \in StackEntries, s \in Seq(StackEntries) : e = Entry(<<l, 0>>, FALSE) /\ s = Tail(stack)
  BY <1>1, <1>2, <1>6, EntryTyped, TopTyped
<1>8. Todo' = (IF Meant(l).bool THEN D!Body(script, l) ELSE <<>>) \o Tail(Todo)
  <2>1. PICK v : v = LinesLeft(s) /\ Sequence(v)
    BY <1>2, LeftTyped
  <2>2. Tail(Todo) = v
    BY <1>3, <1>7, <2>1
  <2>3. CASE Meant(l).bool
    <3>1. stack' = <<e>> \o s
      BY <1>1, <1>4, <1>5, <1>7, <2>3
    <3>2. LinesLeft(<<e>> \o s) = Cat(D!Body(script, l), v)
      BY <1>2, <1>6, <1>7, <2>1, LeftPut
    <3>3. Todo' = D!Body(script, l) \o v
      BY <1>1, <3>1, <3>2, LeftNext DEF Cat
    <3> QED
      BY <2>2, <2>3, <3>3
  <2>4. CASE ~Meant(l).bool
    <3>1. stack' = s
      BY <1>1, <1>4, <1>7, <2>4
    <3>2. Todo' = v
      BY <1>1, <2>1, <3>1, LeftNext
    <3>3. <<>> \o v = v
      BY <2>1, CatEmpty
    <3> QED
      BY <2>2, <2>4, <3>2, <3>3
  <2> QED
    BY <2>3, <2>4
<1>9. /\ Status = "busy" /\ Status' = Status /\ Broken' = Broken /\ Inbox' = Inbox
  BY <1>1, LoopKeeps
<1>10. Meant(l).type = "BOOL"
  BY <1>1, <1>4
<1> QED
  BY <1>1, <1>3, <1>8, <1>9, <1>10, IfIs

LEMMA InitMaps == Init => D!Init
<1> SUFFICES ASSUME Init PROVE D!Init
  OBVIOUS
<1>1. /\ script \in Scripts /\ stack = <<>> /\ vars = [x \in {} |-> None] /\ send = <<>>
      /\ mode = "idle" /\ failed \in BOOLEAN
  BY DEF Init
<1>2. LinesLeft(stack) = <<>>
  BY <1>1, LeftEmpty
<1>3. Status = "new" /\ Inbox = <<>> /\ Broken \in BOOLEAN
  BY <1>1, StatusIs DEF Inbox, Broken
<1>4. vars = [x \in {} |-> D!None]
  BY <1>1
<1> QED
  BY <1>1, <1>2, <1>3, <1>4 DEF D!Init, Status, Inbox, Broken

LEMMA StepMaps ==
    TypeOK /\ UseInv /\ DocInv /\ [Next]_state => [D!Next]_(D!state)
<1> SUFFICES ASSUME TypeOK, UseInv, DocInv, [Next]_state PROVE D!Next \/ UNCHANGED D!state
  OBVIOUS
<1>1. script' = script /\ script \in Scripts /\ (failed => failed')
  BY DEF TypeOK, Next, Step, Start, Resume, Finished, Suspend, Open, OpenCall, Evaluate,
         Assign, SendOut, Branch, Receive, Leave, Fault, Stopped, state
<1>2. CASE Broken
  <2>1. Broken'
    BY <1>1, <1>2 DEF Broken
  <2>2. D!Unpromised
    BY <1>1, <1>2, <2>1, UnpromisedIs
  <2> QED
    BY <2>2 DEF D!Next
<1>3. CASE ~D!Grammatical(script)
  <2>1. D!Unpromised
    BY <1>1, <1>3, UnpromisedIs
  <2> QED
    BY <2>1 DEF D!Next
<1>4. CASE ~Broken /\ D!Grammatical(script)
  <2>1. Going
    BY <1>1, <1>4 DEF Broken, Going, Parsed, DocInv
  <2>2. ASSUME NEW m \in Messages, Start(m) \/ Resume(m) PROVE D!Next
    <3>1. D!Ask(m)
      BY <2>1, <2>2, StartMaps, ResumeMaps
    <3> QED
      BY <3>1 DEF D!Next
  <2>3. ASSUME Finished \/ Suspend PROVE D!Next \/ UNCHANGED D!state
    <3>1. D!Answer \/ UNCHANGED D!state
      BY <2>1, <2>3, FinishedMaps, SuspendMaps
    <3> QED
      BY <3>1 DEF D!Next
  <2>4. ASSUME Open \/ Evaluate \/ Leave PROVE UNCHANGED D!state
    BY <2>1, <2>4, OpenMaps, EvaluateMaps, LeaveMaps
  <2>5. ASSUME OpenCall PROVE D!Next
    BY <2>1, <2>5, OpenCallMaps DEF D!Next
  <2>6. ASSUME Assign PROVE D!Next
    BY <2>1, <2>6, AssignMaps DEF D!Next
  <2>7. ASSUME SendOut PROVE D!Next
    BY <2>1, <2>7, SendOutMaps DEF D!Next
  <2>8. ASSUME Branch PROVE D!Next
    BY <2>1, <2>8, BranchMaps DEF D!Next
  <2>9. ASSUME Receive PROVE D!Next
    BY <2>1, <2>9, ReceiveMaps DEF D!Next
  <2>10. ASSUME Fault PROVE D!Next
    BY <2>1, <2>10, FaultMaps DEF D!Next
  <2>11. ASSUME Stopped \/ UNCHANGED state PROVE UNCHANGED D!state
    <3>1. /\ stack' = stack /\ vars' = vars /\ send' = send /\ mode' = mode /\ msg' = msg
          /\ recv' = recv /\ unread' = unread /\ failed' = failed
      BY <2>11 DEF Stopped, state
    <3>2. Todo' = Todo
      BY <1>1, <3>1, LeftNext DEF Todo
    <3>3. Inbox' = Inbox /\ Status' = Status /\ Broken' = Broken
      BY <1>1, <3>1 DEF Inbox, Status, Running, Broken
    <3> QED
      BY <1>1, <3>1, <3>2, <3>3, StutterIs
  <2> QED
    BY <2>2, <2>3, <2>4, <2>5, <2>6, <2>7, <2>8, <2>9, <2>10, <2>11 DEF Next, Step
<1> QED
  BY <1>2, <1>3, <1>4

(* docs/intepreter.md, for every script that the parser accepts as one of the
   language and every client: as long as the language gives the lines a meaning,
   the stack of nodes does what a reader of the lines does. *)
THEOREM DocumentedHolds == Spec => Documented
<1>1. Init => D!Init
  BY InitMaps
<1>2. TypeOK /\ UseInv /\ DocInv /\ [Next]_state => [D!Next]_(D!state)
  BY StepMaps
<1> QED
  BY <1>1, <1>2, InitTyped, StepTyped, InitUse, StepUse, InitDoc, StepDoc, PTL
     DEF Spec, Documented, D!Spec
=============================================================================
