------------------------------- MODULE Values -------------------------------
(***************************************************************************)
(* The values of the script language (src/src/interpreter): numbers,       *)
(* strings and the booleans that comparisons give, and the ten operators   *)
(* of OPnode.  A string is a sequence of words.                            *)
(***************************************************************************)
EXTENDS Integers, Sequences

CONSTANTS
    Numerals,           \* std::stod: the words that begin with a number -> the number
    Decimal(_),         \* std::to_string: the word a number is written as
    Quotient(_, _),     \* the division of doubles
    Precedes(_, _)      \* operator< of std::string

None      == [type |-> "NONE"]       \* a node that has not been executed
Error     == [type |-> "ERROR"]      \* no value: an exception
Number(x) == [type |-> "NUMBER", num |-> x]
String(t) == [type |-> "STRING", text |-> t]
Bool(b)   == [type |-> "BOOL", bool |-> b]

(* A message or a token that begins with a number is that number. *)
ReadValue(text) ==
    IF text # <<>> /\ text[1] \in DOMAIN Numerals
    THEN Number(Numerals[text[1]]) ELSE String(text)

Printable(v) == v.type \in {"NUMBER", "STRING"}
Printed(v)   == IF v.type = "NUMBER" THEN <<Decimal(v.num)>> ELSE v.text

-----------------------------------------------------------------------------
Numbers(l, r)    == l.type = "NUMBER" /\ r.type = "NUMBER"
Comparable(l, r) == Printable(l) /\ l.type = r.type
Before(l, r)     == IF l.type = "NUMBER" THEN l.num < r.num
                                         ELSE Precedes(l.text, r.text)

Sum(l, r) ==
    IF Numbers(l, r) THEN Number(l.num + r.num)
    ELSE IF Printable(l) /\ Printable(r) THEN String(Printed(l) \o Printed(r))
    ELSE Error

Difference(l, r) == IF Numbers(l, r) THEN Number(l.num - r.num) ELSE Error
Product(l, r)    == IF Numbers(l, r) THEN Number(l.num * r.num) ELSE Error
Ratio(l, r)      == IF Numbers(l, r) THEN Number(Quotient(l.num, r.num)) ELSE Error

(* Of two types, or of booleans, everything compares as different. *)
Equal(l, r)   == Comparable(l, r) /\ l = r
Less(l, r)    == Comparable(l, r) /\ Before(l, r)
Greater(l, r) == Comparable(l, r) /\ Before(r, l)
AtMost(l, r)  == Comparable(l, r) /\ (l = r \/ Before(l, r))
AtLeast(l, r) == Comparable(l, r) /\ (l = r \/ Before(r, l))
Differ(l, r)  == Comparable(l, r) => l # r

Operators == {"ADD", "SUB", "MUL", "DIV", "EQ", "LS", "GT", "LE", "GE", "NE"}

Apply(op, l, r) ==
    CASE op = "ADD" -> Sum(l, r)
      [] op = "SUB" -> Difference(l, r)
      [] op = "MUL" -> Product(l, r)
      [] op = "DIV" -> Ratio(l, r)
      [] op = "EQ" -> Bool(Equal(l, r))
      [] op = "LS" -> Bool(Less(l, r))
      [] op = "GT" -> Bool(Greater(l, r))
      [] op = "LE" -> Bool(AtMost(l, r))
      [] op = "GE" -> Bool(AtLeast(l, r))
      [] op = "NE" -> Bool(Differ(l, r))
=============================================================================
