------------------------------- MODULE Interp -------------------------------
(***************************************************************************)
(* Interpreter::run and continue_run on a stack of nodes, with the         *)
(* Environment and the execute() of every node (src/src/interpreter),      *)
(* driven by ChatHandler::handle_chat: each request feeds one message to a *)
(* run that is suspended at a RECV.  Dialogue is what the language         *)
(* promises.                                                               *)
(***************************************************************************)
EXTENDS Syntax

CONSTANTS
    Scripts,    \* the script files
    Messages,   \* what a client says
    MaxAsks     \* bound: requests of one session

ASSUME BoundAssumption == MaxAsks \in Nat
ASSUME ScriptAssumption == Scripts \subseteq Seq(Seq(STRING))

ProgramOf == [s \in Scripts |-> Program(s)]

Expressions == {"OP", "STR", "NUM", "VARIANT"}
Consumers   == {"OP", "VAR", "SET", "SEND", "IF"}     \* execute() reads children
Blocks      == {"BLOCK"}
Statements  == {"VAR", "SET", "SEND", "IF", "CALL", "RECV"}

VARIABLES
    script,     \* the file
    stack,      \* Environment::m_stack and m_state_stack, the top first
    cell,       \* node -> ASTNode::m_type and m_value: its value, cached
    vars,       \* Environment::m_variables and m_types
    recv,       \* Environment::m_recv_msg
    send,       \* Environment::m_send_msg
    mode,       \* where handle_chat is: in run() or in continue_run()
    msg,        \* the message of the request being handled
    asked,      \* number of requests
    failed,     \* history: a node has thrown
    fresh,      \* history: the operands evaluated since their consumer was opened
    unread      \* history: recv has been set and no RECV has taken it
state == <<script, stack, cell, vars, recv, send, mode, msg, asked, failed, fresh, unread>>
said  == <<recv, mode, msg, asked, unread>>

Ast          == ProgramOf[script].ast
Functions    == ProgramOf[script].fun
Kind(n)      == Ast[n].kind
Arg(n)       == Ast[n].arg
Kids(n)      == Ast[n].kids
Entry(n, d)  == [node |-> n, done |-> d]
Entries(ns)  == [i \in DOMAIN ns |-> Entry(ns[i], FALSE)]
Top          == stack[1].node
KidSet(n)    == {Kids(n)[i] : i \in DOMAIN Kids(n)}

Init ==
    /\ script \in Scripts
    /\ stack = <<>> /\ cell = [n \in DOMAIN ProgramOf[script].ast |-> None]
    /\ vars = [x \in {} |-> None]
    /\ recv = <<>> /\ send = <<>> /\ msg = <<>>
    /\ mode = "idle" /\ asked = 0
    /\ failed = FALSE /\ fresh = {} /\ unread = FALSE

-----------------------------------------------------------------------------
(* handle_chat.  A first request parses and runs the script; its message is
   put in only after run() has come to the first RECV. *)
Start(m) ==
    /\ mode = "idle" /\ stack = <<>> /\ asked < MaxAsks
    /\ asked' = asked + 1
    /\ CASE ProgramOf[script].parse = "ok" ->
                /\ stack' = <<Entry(Root, FALSE)>> /\ mode' = "run" /\ msg' = m
         [] ProgramOf[script].parse = "throws" -> UNCHANGED <<stack, mode, msg>>
         [] OTHER -> mode' = "hung" /\ UNCHANGED <<stack, msg>>
    /\ UNCHANGED <<script, cell, vars, recv, send, failed, fresh, unread>>

Resume(m) ==
    /\ mode = "idle" /\ stack # <<>> /\ asked < MaxAsks
    /\ asked' = asked + 1 /\ mode' = "continue" /\ msg' = m
    /\ recv' = m /\ unread' = TRUE
    /\ UNCHANGED <<script, stack, cell, vars, send, failed, fresh>>

(* A faulty LeaveLoop: the message that started the dialogue is not put in. *)
LeaveLoopUnfed ==
    /\ IF mode = "run"
       THEN mode' = "continue" /\ UNCHANGED <<recv, unread>>
       ELSE /\ mode' = (IF stack' = <<>> THEN "over" ELSE "idle")
            /\ unread' = FALSE /\ UNCHANGED recv
    /\ UNCHANGED <<msg, asked>>

(* The loop of continue_run is left: within run() handle_chat goes on with
   input() and continue_run(), afterwards it answers; a session whose stack is
   empty is removed. *)
LeaveLoop ==
    /\ IF mode = "run"
       THEN mode' = "continue" /\ recv' = msg /\ unread' = TRUE
       ELSE /\ mode' = (IF stack' = <<>> THEN "over" ELSE "idle")
            /\ unread' = FALSE /\ UNCHANGED recv
    /\ UNCHANGED <<msg, asked>>

Running == mode \in {"run", "continue"}
AtOpen  == Running /\ stack # <<>> /\ ~stack[1].done
AtDone  == Running /\ stack # <<>> /\ stack[1].done

Finished ==
    /\ Running /\ stack = <<>>
    /\ UNCHANGED <<script, stack, cell, vars, send, failed, fresh>>
    /\ LeaveLoop

(* A RECV that has not been seen suspends the run. *)
Suspend ==
    /\ AtOpen /\ Kind(Top) = "RECV"
    /\ stack' = <<Entry(Top, TRUE)>> \o Tail(stack)
    /\ LeaveLoop
    /\ UNCHANGED <<script, cell, vars, send, failed, fresh>>

(* A faulty Push: the node above its children. *)
PushAbove(n) ==
    stack' = <<Entry(n, TRUE)>> \o Entries(Kids(n)) \o Tail(stack)

Push(n) ==
    stack' = Entries(Kids(n)) \o <<Entry(n, TRUE)>> \o Tail(stack)

Open ==
    /\ AtOpen /\ Kind(Top) \notin {"RECV", "CALL"}
    /\ Push(Top)
    /\ fresh' = fresh \ {Top}
    /\ UNCHANGED <<script, cell, vars, send, failed, said>>

OpenCall ==
    /\ AtOpen /\ Kind(Top) = "CALL" /\ Arg(Top) \in DOMAIN Functions
    /\ stack' = <<Entry(Functions[Arg(Top)], FALSE)>>
                    \o (<<Entry(Top, TRUE)>> \o Tail(stack))
    /\ UNCHANGED <<script, cell, vars, send, failed, fresh, said>>

-----------------------------------------------------------------------------
(* execute() of the nodes. *)
Operand(n, i) == cell[Kids(n)[i]]

ValueOf(n) ==
    CASE Kind(n) = "OP" -> Apply(Arg(n), Operand(n, 1), Operand(n, 2))
      [] Kind(n) = "VARIANT" -> IF Arg(n) \in DOMAIN vars THEN vars[Arg(n)] ELSE Error
      [] OTHER -> Ast[n].value

Evaluate ==
    /\ AtDone /\ Kind(Top) \in Expressions /\ ValueOf(Top) # Error
    /\ cell' = [cell EXCEPT ![Top] = ValueOf(Top)]
    /\ stack' = Tail(stack)
    /\ fresh' = (fresh \ KidSet(Top)) \cup {Top}
    /\ UNCHANGED <<script, vars, send, failed, said>>

(* Environment::set_variable: there is one scope. *)
SetVariable(x, v) ==
    vars' = [y \in DOMAIN vars \cup {x} |-> IF y = x THEN v ELSE vars[y]]

(* A faulty Assign: booleans are let through. *)
AssignAny ==
    /\ AtDone /\ Kind(Top) \in {"VAR", "SET"}
    /\ SetVariable(Arg(Top), Operand(Top, 1))
    /\ stack' = Tail(stack)
    /\ fresh' = fresh \ KidSet(Top)
    /\ UNCHANGED <<script, cell, send, failed, said>>

Assign ==
    /\ AtDone /\ Kind(Top) \in {"VAR", "SET"} /\ Printable(Operand(Top, 1))
    /\ SetVariable(Arg(Top), Operand(Top, 1))
    /\ stack' = Tail(stack)
    /\ fresh' = fresh \ KidSet(Top)
    /\ UNCHANGED <<script, cell, send, failed, said>>

SendOut ==
    /\ AtDone /\ Kind(Top) = "SEND" /\ Printable(Operand(Top, 1))
    /\ send' = Printed(Operand(Top, 1))
    /\ stack' = Tail(stack)
    /\ fresh' = fresh \ KidSet(Top)
    /\ UNCHANGED <<script, cell, vars, failed, said>>

(* A faulty Branch: the IF stays below its block. *)
BranchAgain ==
    /\ AtDone /\ Kind(Top) = "IF" /\ Operand(Top, 1).type = "BOOL"
    /\ stack' = IF Operand(Top, 1).bool
                THEN <<Entry(Ast[Top].then, FALSE)>> \o stack
                ELSE Tail(stack)
    /\ fresh' = fresh \ KidSet(Top)
    /\ UNCHANGED <<script, cell, vars, send, failed, said>>

Branch ==
    /\ AtDone /\ Kind(Top) = "IF" /\ Operand(Top, 1).type = "BOOL"
    /\ stack' = IF Operand(Top, 1).bool
                THEN <<Entry(Ast[Top].then, FALSE)>> \o Tail(stack)
                ELSE Tail(stack)
    /\ fresh' = fresh \ KidSet(Top)
    /\ UNCHANGED <<script, cell, vars, send, failed, said>>

Receive ==
    /\ AtDone /\ Kind(Top) = "RECV"
    /\ SetVariable(Arg(Top), ReadValue(recv))
    /\ stack' = Tail(stack)
    /\ unread' = FALSE
    /\ UNCHANGED <<script, cell, send, recv, mode, msg, asked, failed, fresh>>

(* A block or a call has been executed. *)
Leave ==
    /\ AtDone /\ Kind(Top) \in {"BLOCK", "CALL"}
    /\ stack' = Tail(stack)
    /\ UNCHANGED <<script, cell, vars, send, failed, fresh, said>>

(* An exception.  run() catches it and handle_chat goes on; continue_run()
   does not, and the client is told that its request was bad.  What lay below
   the node on the stack is still there for the next request. *)
Throws(n) ==
    \/ Kind(n) \in Expressions /\ ValueOf(n) = Error
    \/ Kind(n) \in {"VAR", "SET", "SEND"} /\ ~Printable(Operand(n, 1))
    \/ Kind(n) = "IF" /\ Operand(n, 1).type # "BOOL"

Fault ==
    /\ \/ AtDone /\ Throws(Top) /\ stack' = Tail(stack)
       \/ /\ AtOpen /\ Kind(Top) = "CALL" /\ Arg(Top) \notin DOMAIN Functions
          /\ stack' = <<Entry(Top, TRUE)>> \o Tail(stack)
    /\ failed' = TRUE
    /\ IF mode = "run" THEN mode' = "continue" /\ recv' = msg /\ unread' = TRUE
                       ELSE mode' = "idle" /\ UNCHANGED <<recv, unread>>
    /\ UNCHANGED <<script, cell, vars, send, msg, asked, fresh>>

Step ==
    \/ Finished \/ Suspend \/ Open \/ OpenCall
    \/ Evaluate \/ Assign \/ SendOut \/ Branch \/ Receive \/ Leave
    \/ Fault

(* The session is removed with its dialogue, and the client has said enough;
   or the parser never comes back. *)
Stopped ==
    /\ mode \in {"over", "hung"} \/ (mode = "idle" /\ asked = MaxAsks)
    /\ UNCHANGED state

Next ==
    \/ \E m \in Messages : Start(m) \/ Resume(m)
    \/ Step
    \/ Stopped

(* The worker that has a request runs. *)
Spec == Init /\ [][Next]_state /\ WF_state(Step)

-----------------------------------------------------------------------------
(* Where the nodes of a program hang together: what the parser builds, and
   what the stack machine relies on. *)
ChildrenOf(p, n)  == {p.ast[n].kids[i] : i \in DOMAIN p.ast[n].kids}

ShapeOf(p) ==
    /\ Root \in DOMAIN p.ast /\ p.ast[Root].kind = "BLOCK"
    /\ \A x \in DOMAIN p.fun : p.fun[x] \in DOMAIN p.ast /\ p.ast[p.fun[x]].kind = "BLOCK"
    /\ \A n \in DOMAIN p.ast :
        /\ p.ast[n].kind \in Expressions \cup Statements \cup Blocks
        /\ p.ast[n].kids \in Seq(DOMAIN p.ast)
        /\ p.ast[n].kind = "OP" => p.ast[n].arg \in Operators
        /\ p.ast[n].kind \in {"STR", "NUM"} => Printable(p.ast[n].value)
        /\ p.ast[n].kind \in Consumers =>
                /\ \A k \in ChildrenOf(p, n) : p.ast[k].kind \in Expressions
                /\ p.ast[n].then \in DOMAIN p.ast /\ p.ast[p.ast[n].then].kind = "BLOCK"
                /\ Len(p.ast[n].kids) = (IF p.ast[n].kind = "OP" THEN 2 ELSE 1)
                /\ \A i, j \in DOMAIN p.ast[n].kids :
                        p.ast[n].kids[i] = p.ast[n].kids[j] => i = j
        /\ p.ast[n].kind = "BLOCK" =>
                \A k \in ChildrenOf(p, n) : p.ast[k].kind \in Statements
        /\ p.ast[n].kind \notin Consumers \cup Blocks => p.ast[n].kids = <<>>
    /\ \A m, n \in DOMAIN p.ast : \A k \in ChildrenOf(p, m) \cap ChildrenOf(p, n) :
            p.ast[k].kind \in Expressions => m = n

ASSUME WellShaped == \A s \in Scripts : ShapeOf(ProgramOf[s])

(* The types of the variables: a cached value is a value, and a variable has a
   number or a string (VARnode and SETnode refuse the others). *)
TypeOK ==
    /\ script \in Scripts
    /\ stack \in Seq([node : DOMAIN Ast, done : BOOLEAN])
    /\ DOMAIN cell = DOMAIN Ast
    /\ \A n \in DOMAIN cell : cell[n].type \in {"NONE", "NUMBER", "STRING", "BOOL"}
    /\ \A x \in DOMAIN vars : Printable(vars[x])
    /\ mode \in {"idle", "run", "continue", "over", "hung"}
    /\ asked \in 0..MaxAsks
    /\ failed \in BOOLEAN /\ unread \in BOOLEAN
    /\ fresh \subseteq DOMAIN Ast

(* interpreter.cpp:242, ASTNode::m_value: a node reads the values that its
   operands have left in themselves.  As long as nothing has thrown, each of
   them was evaluated after the node was opened and for it alone, through every
   suspension, branch and recursive call in between. *)
OperandsFresh ==
    (~failed /\ AtDone /\ Kind(Top) \in Consumers) => KidSet(Top) \subseteq fresh

(* chat_handler.cpp:79: a request that has got past the parser comes to its end:
   every script of the run waits for the client, ends or fails. *)
AskAnswered == Running ~> ~Running

-----------------------------------------------------------------------------
(* What a stack leaves to do: the lines of the statements on it that have not
   been executed, and those of a block that has not been opened. *)
LinesOf(e) ==
    CASE Kind(e.node) = "BLOCK" /\ ~e.done ->
            [i \in DOMAIN Kids(e.node) |-> Kids(e.node)[i][1]]
      [] Kind(e.node) \in Statements /\ ~(Kind(e.node) = "CALL" /\ e.done) -> <<e.node[1]>>
      [] OTHER -> <<>>

LinesLeft(s) ==
    LET lines[i \in 1..Len(s) + 1] ==
            IF i > Len(s) THEN <<>> ELSE LinesOf(s[i]) \o lines[i + 1]
    IN lines[1]

D == INSTANCE Dialogue WITH
        todo   <- LinesLeft(stack),
        store  <- vars,
        out    <- send,
        inbox  <- IF mode = "run" THEN <<msg>>
                  ELSE IF mode = "continue" /\ unread THEN <<recv>> ELSE <<>>,
        status <- CASE Running -> "busy"
                    [] mode = "idle" /\ stack = <<>> -> "new"
                    [] OTHER -> mode,
        broken <- failed \/ ProgramOf[script].parse # "ok"

(* docs/intepreter.md: the stack of nodes with cached values, which is left at
   every RECV and taken up again by another request, goes through the script as
   a reader goes through its lines; every message is received once and in its
   order, and the answer is what was sent last. *)
Documented == D!Spec
=============================================================================
