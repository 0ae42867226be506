------------------------------- MODULE Syntax -------------------------------
(***************************************************************************)
(* Interpreter::parse (src/src/interpreter/interpreter.cpp): from the      *)
(* lines of a script to the nodes that the interpreter executes.  A script *)
(* is a sequence of lines, a line a sequence of tokens.                    *)
(*                                                                         *)
(* A node is <<line, token>>: token 0 is the block that the line opens, 1  *)
(* its statement, and a later one the expression that begins there.        *)
(***************************************************************************)
EXTENDS Values
LOCAL INSTANCE FiniteSetsExt

CONSTANTS
    Opening,    \* tokens that begin with a quotation mark
    Closing,    \* tokens that end with one
    Bare        \* such a token -> the word without its marks

Keywords == {"VAR", "SET", "CALL", "IF", "ENDIF", "SEND", "RECV", "FUNC", "ENDFUNC"}

ASSUME OpeningAssumption == Opening \cap (Operators \cup {""}) = {}

Root     == <<0, 0>>

-----------------------------------------------------------------------------
(* parse_expression: a prefix expression is read off the tokens of a line. *)
Token(line, p) == IF p <= Len(line) THEN line[p] ELSE ""

LiteralEnd(line, p) == Min({q \in p..Len(line) : line[q] \in Closing})
Literal(line, p) ==
    [i \in 1..LiteralEnd(line, p) - p + 1 |->
        LET t == line[p + i - 1] IN IF t \in DOMAIN Bare THEN Bare[t] ELSE t]

(* Where the expression ends that begins at a token. *)
After(line) ==
    LET after[p \in 1..Len(line) + 1] ==
            IF Token(line, p) \in Operators THEN after[after[p + 1]]
            ELSE IF Token(line, p) \in Opening THEN LiteralEnd(line, p) + 1
            ELSE IF p > Len(line) THEN p ELSE p + 1
    IN after

Leaf(kind, arg, value) ==
    [kind |-> kind, arg |-> arg, value |-> value, kids |-> <<>>, then |-> Root]

Expression(line, l, p) ==
    LET token == Token(line, p) IN
    IF token \in Operators
    THEN [Leaf("OP", token, None) EXCEPT
            !.kids = <<<<l, p + 1>>, <<l, After(line)[p + 1]>>>>]
    ELSE IF token \in Opening THEN Leaf("STR", "", String(Literal(line, p)))
    ELSE IF token \in DOMAIN Numerals THEN Leaf("NUM", "", Number(Numerals[token]))
    ELSE Leaf("VARIANT", token, None)

FirstToken(line) == IF line[1] \in {"VAR", "SET"} THEN 3 ELSE 2

-----------------------------------------------------------------------------
(* parse_lines.  Blank lines are skipped; a null pointer ends the block that
   is being read, and not only ENDIF and ENDFUNC give one but FUNC as well. *)
Ends(line)      == line[1] \in {"ENDIF", "ENDFUNC"}
LineFrom(s, k)  == Min({j \in k..Len(s) : s[j] # <<>>})

(* The statements of the block whose lines begin at k, and the line after it. *)
BlockFrom(s) ==
    LET block[k \in 1..Len(s) + 1] ==
            IF k > Len(s) THEN [nodes |-> <<>>, next |-> k]
            ELSE LET j    == LineFrom(s, k)
                     rest == block[IF s[j][1] = "IF" THEN block[j + 1].next ELSE j + 1]
                 IN IF Ends(s[j]) THEN [nodes |-> <<>>, next |-> j + 1]
                    ELSE IF s[j][1] = "FUNC"
                         THEN [nodes |-> <<>>, next |-> block[j + 1].next]
                    ELSE [nodes |-> <<j>> \o rest.nodes, next |-> rest.next]
    IN block

(* parse: the statements outside of functions; here a null pointer ends
   nothing. *)
MainBlock(s) ==
    LET main[k \in 1..Len(s) + 1] ==
            IF k > Len(s) THEN <<>>
            ELSE LET j == LineFrom(s, k) IN
                 IF Ends(s[j]) THEN main[j + 1]
                 ELSE IF s[j][1] = "FUNC" THEN main[BlockFrom(s)[j + 1].next]
                 ELSE <<j>> \o main[IF s[j][1] = "IF" THEN BlockFrom(s)[j + 1].next
                                                      ELSE j + 1]
    IN main[1]

Block(lines) ==
    [Leaf("BLOCK", "", None) EXCEPT !.kids = [i \in DOMAIN lines |-> <<lines[i], 1>>]]

Statement(line, l) ==
    LET node == Leaf(line[1], Token(line, 2), None) IN
    IF line[1] \in {"CALL", "RECV"} THEN node
    ELSE [node EXCEPT !.kids = <<<<l, FirstToken(line)>>>>,
                      !.then = IF line[1] = "IF" THEN <<l, 0>> ELSE Root]

Lines(s, keywords) == {l \in DOMAIN s : s[l] # <<>> /\ s[l][1] \in keywords}

NodeIds(s) ==
    {Root}
    \cup {<<l, 0>> : l \in Lines(s, {"IF", "FUNC"})}
    \cup {<<l, 1>> : l \in Lines(s, Keywords \ {"FUNC", "ENDIF", "ENDFUNC"})}
    \cup UNION {{<<l, p>> : p \in FirstToken(s[l])..Len(s[l])} :
                    l \in Lines(s, {"VAR", "SET", "IF", "SEND"})}

NodeAt(s, l, p) ==
    IF <<l, p>> = Root THEN Block(MainBlock(s))
    ELSE IF p = 0 THEN Block(BlockFrom(s)[l + 1].nodes)
    ELSE IF p = 1 THEN Statement(s[l], l)
    ELSE Expression(s[l], l, p)

(* A keyword that is not one is an exception; at the end of the file, if that is
   reached, the search for a line that is not blank goes on for ever. *)
ParseOf(s) ==
    IF \E l \in DOMAIN s : s[l] # <<>> /\ s[l][1] \notin Keywords THEN "throws"
    ELSE IF s # <<>> /\ s[Len(s)] = <<>> THEN "hangs"
    ELSE "ok"

Program(s) ==
    LET funs == {s[l][2] : l \in Lines(s, {"FUNC"})}
        line(name) == Max({l \in Lines(s, {"FUNC"}) : s[l][2] = name})
        good == ParseOf(s) = "ok"
    IN [src |-> s,
        parse |-> ParseOf(s),
        ast |-> IF good THEN [n \in NodeIds(s) |-> NodeAt(s, n[1], n[2])]
                        ELSE [n \in {Root} |-> Leaf("BLOCK", "", None)],
        fun |-> IF good THEN [name \in funs |-> <<line(name), 0>>]
                        ELSE [name \in {} |-> Root]]
=============================================================================
