----------------------------- MODULE MCExchange -----------------------------
(* Exchange with requests of three to nine symbols, one behind the other, and
   buffers that have to grow for them. *)
EXTENDS Exchange, TLC

MCHandlers ==
    "chat" :> [status |-> "200", content |-> <<"c1", "c2", "c3", "c4">>]
    @@ "away" :> [status |-> "302", content |-> <<>>]
MCPaths ==
    "page" :> "page.html" @@ "old" :> "page.html" @@ "none" :> "none.html"
    @@ "secret" :> "secret.html" @@ "empty" :> "empty.html"
MCOld == {"old"}
File(s, o) == [bytes |-> s, open |-> o]
MCDisk ==
    "page.html" :> File(<<"f1", "f2">>, TRUE) @@ "404.html" :> File(<<"f4">>, TRUE)
    @@ "secret.html" :> File(<<"f3">>, FALSE) @@ "empty.html" :> File(<<>>, TRUE)

Plain(l)     == <<l, "crlf", "crlf">>
With(l, h)   == <<l, "crlf", h, "crlf", "crlf">>
Common == {Plain("page"), Plain("chat"), With("chat", "length2") \o <<"b", "b">>}
Rare ==
    {   Plain("away"), Plain("none"), Plain("secret"), Plain("empty"), Plain("old"), Plain("junk"),
        With("old", "keep"), With("page", "close"), With("page", "mark"), With("page", "short"),
        With("page", "lengthX"), With("chat", "length1") \o <<"b">>, <<"crlf">> \o Plain("page"),
        <<"chat", "crlf", "length2", "crlf", "close", "crlf", "crlf", "b", "b">>    }
Partial == {<<"page">>, With("page", "length1")}

MCScripts ==
    {x \o y : x \in Common \cup Rare, y \in Common \cup Partial}
    \cup {x \o y \o z : x, y \in Common, z \in Common}
=============================================================================
