------------------------------ MODULE Exchange ------------------------------
(***************************************************************************)
(* One connection in edge-triggered mode: HTTPConnection with its buffers, *)
(* HTTPRequest, Router and HTTPResponse.  What comes in is a sequence of   *)
(* symbols: lines without their ends, ends of lines, and bytes of bodies;  *)
(* what goes out is made of symbols too.  Which worker does it, and when,  *)
(* is the business of Reactor.                                             *)
(***************************************************************************)
EXTENDS ByteBuffer

CONSTANTS
    InitSize,   \* the buffers' size at the start (1024)
    AuxSize,    \* the array on the stack of Buffer::read (65535)
    Window,     \* bound: what a client has sent and no request has taken out yet
    Scripts,    \* what a client may send: sequences of symbols
    Handlers,   \* request line -> the status and content of its handler's reply
    Paths,      \* request line -> the file that default_handler is asked for
    OldLines,   \* the request lines of HTTP/1.0
    Disk        \* file -> its bytes, and whether all may read it

(* "mark" is a header without a colon, "short" one that ends with it, "lengthX"
   a Content-Length that std::stoi refuses. *)
Length(h) == CASE h = "length1" -> 1 [] h = "length2" -> 2 [] OTHER -> 0
Lengths   == {"length1", "length2", "lengthX"}
Bytes == {"crlf", "junk", "b", "keep", "close", "mark", "short"} \cup Lengths
         \cup DOMAIN Handlers \cup DOMAIN Paths
Elements(s) == {s[i] : i \in DOMAIN s}
Pieces == {"400", "403", "404", "200", "length", "end", "sorry"}
          \cup UNION {{h.status} \cup Elements(h.content) : h \in {Handlers[l] : l \in DOMAIN Handlers}}
          \cup UNION {Elements(Disk[f].bytes) : f \in DOMAIN Disk}

ASSUME SizesAssumption ==
    InitSize \in Nat /\ InitSize > 3 /\ AuxSize \in Nat \ {0} /\ Window \in Nat
ASSUME ScriptsAssumption == Scripts \subseteq Seq(Bytes)
ASSUME HandlersAssumption ==
    \A l \in DOMAIN Handlers : Handlers[l].content \in Seq(Pieces)
ASSUME DiskAssumption == \A f \in DOMAIN Disk : Disk[f].bytes \in Seq(Pieces)

-----------------------------------------------------------------------------
(* HTTPRequest::parse.  The request is there when an empty line is, and as many
   bytes behind it as the last Content-Length says.  A line is known if it is
   one symbol; neither a bad request line nor a bad header ends the parser, and
   nobody looks at INVALID but the log.  substr and stoi throw. *)
Lowest(S)  == CHOOSE i \in S : \A j \in S : i <= j
Highest(S) == CHOOSE i \in S : \A j \in S : j <= i

LineEnds(s) == {i \in DOMAIN s : s[i] = "crlf"}
Complete(s) == {i \in LineEnds(s) : i + 1 \in LineEnds(s)}
HeadEnd(s)  == Lowest(Complete(s))
RequestLine(s) == IF Lowest(LineEnds(s)) = 2 THEN s[1] ELSE "junk"

HeaderAt(s, i) == IF i + 1 \in LineEnds(s) THEN s[i] ELSE "mark"
Given(s, kinds) ==
    {i \in 2..HeadEnd(s) - 1 : i - 1 \in LineEnds(s) /\ HeaderAt(s, i) \in kinds}
LastOf(s, kinds) == IF Given(s, kinds) = {} THEN "none" ELSE s[Highest(Given(s, kinds))]

IsKeepAlive(s) ==
    LET connection == LastOf(s, {"keep", "close"}) IN
    IF RequestLine(s) \in OldLines THEN connection = "keep" ELSE connection # "close"

Consumed(s) == HeadEnd(s) + 1 + Length(LastOf(s, Lengths))
ParseState(s) ==
    CASE Complete(s) = {} -> "incomplete"
      [] Complete(s) # {} /\ (Given(s, {"short"}) # {} \/ LastOf(s, Lengths) = "lengthX") -> "throws"
      [] OTHER -> IF Len(s) < Consumed(s) THEN "incomplete" ELSE "parsed"

-----------------------------------------------------------------------------
(* HTTPResponse: init, set_file, get_response; Router::route with the handler of
   the exceptions in process. *)
InitReply(status, content) ==
    [status |-> status, sized |-> content # <<>>, content |-> content,
     file |-> <<>>, mapped |-> "no"]

(* An empty file cannot be mapped: m_data is MAP_FAILED, which is not nullptr. *)
SetFile(reply, path) ==
    LET known  == path \in DOMAIN Disk
        page   == IF ~known THEN "404.html" ELSE IF ~Disk[path].open THEN "403.html" ELSE path
        status == IF ~known THEN "404" ELSE IF ~Disk[path].open THEN "403" ELSE reply.status
        lost   == [reply EXCEPT !.status = "404", !.content = <<"sorry">>]
    IN  IF page \notin DOMAIN Disk THEN lost
        ELSE IF Disk[page].bytes = <<>> THEN [lost EXCEPT !.mapped = "failed"]
        ELSE [reply EXCEPT !.status = status, !.sized = TRUE,
                           !.file = Disk[page].bytes, !.mapped = "yes"]

DefaultHandler(line) == SetFile(InitReply("200", <<>>), Paths[line])

Route(line) ==
    IF line \in DOMAIN Handlers THEN InitReply(Handlers[line].status, Handlers[line].content)
    ELSE IF line \in DOMAIN Paths THEN DefaultHandler(line)
    ELSE InitReply("400", <<"sorry">>)

HeadOf(reply) == <<reply.status>> \o (IF reply.sized THEN <<"length">> ELSE <<>>) \o <<"end">>

(* get_response puts in one piece after the other. *)
GetResponse(reply, b) ==
    LET status == PushBack(b, <<reply.status>>)
        sized  == IF reply.sized THEN PushBack(status, <<"length">>) ELSE status
        head   == PushBack(sized, <<"end">>)
    IN  IF reply.content = <<>> THEN head ELSE PushBack(head, reply.content)

-----------------------------------------------------------------------------
VARIABLES
    script,     \* what the client sends
    sent,       \* how much of it the client has sent
    arrived,    \* what of that is in the socket
    mode,       \* what the connection is doing
    rbuf, wbuf, \* m_read_buf, m_write_buf
    keepAlive,  \* is_keep_alive of the request that is answered
    reply,      \* m_response
    head, tail, \* m_iovec: what is left of the write buffer and of the file
    got         \* history: what the client has received
vars == <<script, sent, arrived, mode, rbuf, wbuf, keepAlive, reply, head, tail, got>>

Init ==
    /\ script \in Scripts /\ sent = 0 /\ arrived = <<>>
    /\ mode = "waiting"
    /\ rbuf = NewBuffer(InitSize) /\ wbuf = NewBuffer(InitSize)
    /\ keepAlive = FALSE /\ reply = InitReply("400", <<>>)
    /\ head = 0 /\ tail = 0 /\ got = <<>>

Send(n) ==
    /\ sent + n <= Len(script)
    /\ Len(rbuf.data) + Len(arrived) + n <= Window
    /\ sent' = sent + n
    /\ arrived' = arrived \o SubSeq(script, sent + 1, sent + n)
    /\ UNCHANGED <<script, mode, rbuf, wbuf, keepAlive, reply, head, tail, got>>

(* One round of HTTPConnection::read: readv takes what there is and there is
   room for. *)
Read ==
    /\ mode \in {"waiting", "reading"} /\ arrived # <<>>
    /\ LET most == Room(rbuf) + AuxSize
           n    == IF Len(arrived) < most THEN Len(arrived) ELSE most
       IN  /\ rbuf' = Fill(rbuf, SubSeq(arrived, 1, n))
           /\ arrived' = SubSeq(arrived, n + 1, Len(arrived))
    /\ mode' = "reading"
    /\ UNCHANGED <<script, sent, wbuf, keepAlive, reply, head, tail, got>>

(* process.  An exception of the parser ends the task, and nobody looks at the
   connection any more until its timer does. *)
Await ==
    /\ ParseState(rbuf.data) = "incomplete"
    /\ mode' = "waiting"
    /\ UNCHANGED <<rbuf, wbuf, keepAlive, reply, head, tail>>

Abandon ==
    /\ ParseState(rbuf.data) = "throws"
    /\ mode' = "abandoned"
    /\ UNCHANGED <<rbuf, wbuf, keepAlive, reply, head, tail>>

(* has_mmap: the second entry of m_iovec is the mapped file; after MAP_FAILED it
   is that address and no bytes. *)
MakeResponse ==
    /\ wbuf' = GetResponse(reply', wbuf)
    /\ head' = Len(wbuf'.data) /\ tail' = Len(reply'.file)

Answer ==
    /\ ParseState(rbuf.data) = "parsed"
    /\ mode' = "writing"
    /\ rbuf' = PopFront(rbuf, Consumed(rbuf.data))
    /\ keepAlive' = IsKeepAlive(rbuf.data)
    /\ reply' = Route(RequestLine(rbuf.data))
    /\ MakeResponse

Process == Await \/ Abandon \/ Answer

(* The end of process_read: EAGAIN. *)
ReadAll ==
    /\ mode = "reading" /\ arrived = <<>>
    /\ Process
    /\ UNCHANGED <<script, sent, arrived, got>>

(* One round of HTTPConnection::write: writev has written n bytes. *)
Written(n) ==
    LET h == IF n < head THEN n ELSE head
        at == Len(reply.file) - tail
    IN  /\ head' = head - h /\ tail' = tail - (n - h)
        /\ got' = got \o SubSeq(wbuf.data, 1, h) \o SubSeq(reply.file, at + 1, at + n - h)

(* A faulty Write: a response stays in the buffer once it is written. *)
WriteKeeping(n) ==
    /\ mode = "writing" /\ n <= head + tail /\ reply.mapped # "failed"
    /\ Written(n)
    /\ UNCHANGED <<script, sent, arrived, mode, rbuf, wbuf, keepAlive, reply>>

Write(n) ==
    /\ mode = "writing" /\ n <= head + tail /\ reply.mapped # "failed"
    /\ Written(n)
    /\ wbuf' = PopFront(wbuf, head - head')
    /\ UNCHANGED <<script, sent, arrived, mode, rbuf, keepAlive, reply>>

(* writev refuses the address MAP_FAILED with EFAULT, and process_write closes the
   connection. *)
WriteFails ==
    /\ mode = "writing" /\ reply.mapped = "failed"
    /\ mode' = "closed"
    /\ UNCHANGED <<script, sent, arrived, rbuf, wbuf, keepAlive, reply, head, tail, got>>

(* A faulty end of process_write: it waits for more to read although the next
   request may have been read. *)
WroteAllAndWaits ==
    /\ mode = "writing" /\ head + tail = 0
    /\ mode' = IF keepAlive THEN "waiting" ELSE "closed"
    /\ UNCHANGED <<rbuf, wbuf, keepAlive, reply, head, tail, script, sent, arrived, got>>

(* The end of process_write; with less than all written it waits for EPOLLOUT
   and goes on there. *)
WroteAll ==
    /\ mode = "writing" /\ head + tail = 0
    /\ \/ keepAlive /\ Process
       \/ /\ ~keepAlive /\ mode' = "closed"
          /\ UNCHANGED <<rbuf, wbuf, keepAlive, reply, head, tail>>
    /\ UNCHANGED <<script, sent, arrived, got>>

(* The server has nothing to do, and the client sends no more. *)
Rest ==
    /\ mode # "reading" /\ mode # "writing"
    /\ mode = "waiting" => arrived = <<>>
    /\ UNCHANGED vars

Next ==
    \/ \E n \in 1..Len(script) : Send(n)
    \/ Read \/ ReadAll
    \/ \E n \in 1..head + tail : Write(n)
    \/ WriteFails \/ WroteAll
    \/ Rest

Spec == Init /\ [][Next]_vars

-----------------------------------------------------------------------------
(* What should be answered to s: the replies to its requests, one behind the
   other, up to one that ends the connection. *)
Whole(r) == HeadOf(r) \o r.content \o r.file
Answers(s) ==
    LET rest(p) == SubSeq(s, p + 1, Len(s))
        from[p \in 0..Len(s)] ==
            IF ParseState(rest(p)) # "parsed" THEN <<>>
            ELSE Whole(Route(RequestLine(rest(p))))
                 \o (IF IsKeepAlive(rest(p)) THEN from[p + Consumed(rest(p))] ELSE <<>>)
    IN  from[0]
Owed == Answers(SubSeq(script, 1, sent))

(* The types of the variables; a buffer's positions fit its vector, with room
   for the zero that is written behind the data (buffer.cpp:27, 66). *)
TypeOK ==
    /\ script \in Scripts /\ sent \in 0..Len(script) /\ arrived \in Seq(Bytes)
    /\ mode \in {"waiting", "reading", "writing", "closed", "abandoned"}
    /\ BufferOK(rbuf, Bytes) /\ BufferOK(wbuf, Pieces)
    /\ keepAlive \in BOOLEAN
    /\ reply \in [status : Pieces, sized : BOOLEAN, content : Seq(Pieces), file : Seq(Pieces),
                 mapped : {"no", "yes", "failed"}]
    /\ head = Len(wbuf.data) /\ tail \in 0..Len(reply.file)
    /\ head + tail = 0 \/ mode = "writing" \/ (mode = "closed" /\ reply.mapped = "failed")

(* buffer.cpp:53: in whatever pieces the bytes come, what is in the buffer and in
   the socket is what the client has sent, without the requests that are taken
   out, also when the buffer moves its data or grows for them.  This is so while
   Window < 2 * InitSize, when a buffer grows no more than once: the next resize
   copies only the bytes before the vector's size (buffer.cpp:96). *)
ReadIntact == \E n \in 0..sent : rbuf.data \o arrived = SubSeq(script, n + 1, sent)

(* http_connection.cpp:50: in whatever pieces the requests come and the responses
   go, what the client gets is the beginning of the answers to its requests, in
   their order (while Window < 2 * InitSize, as above). *)
RepliesIntact == \E n \in 0..Len(Owed) : got = SubSeq(Owed, 1, n)

(* serverbase.cpp:372: when the server waits with nothing left in the socket, or
   is done with the connection, it has answered all it could (while Window <
   2 * InitSize).  Not so after an empty file, whose 404 page is never sent. *)
NothingOwed ==
    /\ mode \in {"closed", "abandoned"} \/ (mode = "waiting" /\ arrived = <<>>)
    /\ reply.mapped # "failed"
    => got = Owed
=============================================================================
