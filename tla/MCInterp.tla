------------------------------ MODULE MCInterp ------------------------------
(* Scripts for Interp: a short form of src/scripts/script_store.txt, every    *)
(* script that can be put together from a few pieces, and bad ones.           *)
EXTENDS Interp, TLC

MCNumerals == [t \in {"0", "1", "2", "3"} |->
                CASE t = "0" -> 0 [] t = "1" -> 1 [] t = "2" -> 2 [] t = "3" -> 3]
MCDecimal(x)     == ToString(x) \o ".000000"
MCQuotient(x, y) == IF y = 0 THEN 0 ELSE x \div y
Rank(t)          == IF t = <<"quit">> THEN 2 ELSE IF t = <<"charge">> THEN 1 ELSE 0
MCPrecedes(a, b) == Rank(a) < Rank(b)
MCOpening        == {"\"quit\"", "\"charge\"", "\"balance", "\"bye\""}
MCClosing        == {"\"quit\"", "\"charge\"", "is\"", "\"bye\""}
MCBare           == [t \in {"\"quit\"", "\"charge\"", "\"balance", "is\"", "\"bye\""} |->
                        CASE t = "\"quit\"" -> "quit" [] t = "\"charge\"" -> "charge"
                          [] t = "\"balance" -> "balance" [] t = "is\"" -> "is"
                          [] t = "\"bye\"" -> "bye"]
MCMessages       == {<<"1">>, <<"charge">>, <<"quit">>}

Store == <<
    <<"VAR", "money", "0">>,
    <<>>,
    <<"FUNC", "start">>,
    <<"RECV", "input">>,
    <<"IF", "NE", "input", "\"quit\"">>,
        <<"IF", "EQ", "\"charge\"", "input">>,
            <<"CALL", "charge">>,
        <<"ENDIF">>,
        <<"SEND", "ADD", "\"balance", "is\"", "MUL", "money", "SUB", "3", "1">>,
        <<"CALL", "start">>,
    <<"ENDIF">>,
    <<"IF", "EQ", "input", "\"quit\"">>,
        <<"SEND", "\"bye\"">>,
        <<"SET", "input", "0">>,
    <<"ENDIF">>,
    <<"ENDFUNC">>,
    <<"FUNC", "charge">>,
    <<"RECV", "input">>,
    <<"IF", "GE", "input", "0">>,
        <<"SET", "money", "ADD", "money", "input">>,
    <<"ENDIF">>,
    <<"ENDFUNC">>,
    <<"CALL", "start">> >>

(* A message that is not a number: SUB throws, and the SET is left behind. *)
Stale == << <<"RECV", "x">>, <<"SET", "y", "SUB", "x", "1">>, <<"SEND", "y">>,
            <<"RECV", "x">>, <<"SET", "y", "SUB", "x", "y">>, <<"SEND", "y">> >>

Missing == { << <<"RECV", "x">>, <<"CALL", "nobody">>, <<"SEND", "x">> >>,
             << <<"SEND", "y">>, <<"RECV", "y">>, <<"SEND", "y">> >>,
             << <<"IF", "1">>, <<"SEND", "2">>, <<"ENDIF">>, <<"RECV", "y">> >>,
             << <<"VAR", "x", "EQ", "1", "2">>, <<"SEND", "LS", "1", "2">> >> }

Unparsed == { << <<"SEND", "1">>, <<>> >>, << <<"SEND", "1">>, <<"WAIT">> >> }

(* All programs of up to three pieces, with a function that calls itself. *)
Prelude == << <<"VAR", "x", "0">>,
              <<"FUNC", "f">>, <<"RECV", "x">>, <<"IF", "LE", "x", "2">>,
              <<"SEND", "ADD", "x", "x">>, <<"CALL", "f">>, <<"ENDIF">>, <<"ENDFUNC">> >>
Pieces == { << <<"RECV", "x">> >>, << <<"CALL", "f">> >>,
            << <<"SEND", "ADD", "\"bye\"", "x">> >>,
            << <<"IF", "LS", "x", "\"quit\"">>, <<"RECV", "x">>, <<"SET", "x", "DIV", "2", "1">>,
               <<"IF", "GT", "x", "1">>, <<"CALL", "f">>, <<"ENDIF">>, <<"ENDIF">> >> }
Built == {Prelude \o a \o b \o c : a, b, c \in Pieces}

MCScripts == {Store, Stale} \cup Missing \cup Unparsed \cup Built
=============================================================================
