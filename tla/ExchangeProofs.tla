--------------------------- MODULE ExchangeProofs ---------------------------
(***************************************************************************)
(* Theorems about Exchange, for every size of the buffers, every script    *)
(* and every way in which it comes in.                                     *)
(***************************************************************************)
EXTENDS Exchange, Induction, SequenceTheorems, TLAPS

-----------------------------------------------------------------------------
(* What the operations of a buffer keep.  readv may fill it up to its capacity,
   so that for a moment there is no room for the zero. *)
Bytelike(B) == B \cup {Nul}
Shape(B)    == [size : Nat \ {0}, cap : Nat, from : Nat, data : Seq(Bytelike(B))]
Fits(b, B) ==
    /\ b \in Shape(B)
    /\ b.size <= b.cap /\ End(b) <= b.cap

LEMMA Changed ==
  ASSUME NEW B, NEW b \in Shape(B), NEW f \in Nat, NEW d \in Seq(Bytelike(B)),
         NEW c, c = [size |-> b.size, cap |-> b.cap, from |-> f, data |-> d]
  PROVE  /\ c \in Shape(B) /\ c.size = b.size /\ c.cap = b.cap /\ c.from = f /\ c.data = d
         /\ c.size \in Nat \ {0} /\ c.cap \in Nat
<1> b.size \in Nat \ {0} /\ b.cap \in Nat
  BY DEF Shape
<1> QED
  BY DEF Shape

LEMMA OKFits == ASSUME NEW B, NEW b, BufferOK(b, B) PROVE Fits(b, B)
BY LenProperties DEF BufferOK, Fits, End, Bytelike, Shape

LEMMA ExpandFits ==
  ASSUME NEW B, NEW b, Fits(b, B), NEW n \in Nat \ {0}
  PROVE  /\ Fits(Expand(b, n), B) /\ n <= Room(Expand(b, n))
         /\ Len(Expand(b, n).data) = Len(b.data)
<1> DEFINE a == Adjust(b)
           c == Resize(a, a.cap + n)
<1>1. /\ Fits(a, B) /\ a.from = 0 /\ a.data = b.data /\ a.cap = b.cap /\ a.size = b.size
      /\ Len(a.data) \in Nat /\ a.cap \in Nat /\ a.size \in Nat \ {0}
  BY LenProperties DEF Fits, Adjust, End, Shape
<1>2. /\ c.data \in Seq(Bytelike(B)) /\ Len(c.data) = Len(a.data)
  <2>1. c.data \in [1..Len(a.data) -> Bytelike(B)]
    BY <1>1, ElementOfSeq DEF Resize, Bytelike, Fits, Shape
  <2> QED
    BY <1>1, <2>1, LenProperties, SeqDef
<1>3. /\ c.size = a.cap + n /\ c.from = 0 /\ c.cap \in Nat /\ c.cap >= a.cap + n
  BY <1>1 DEF Resize
<1>4. Fits(c, B) /\ n <= Room(c)
  <2>1. c = [size |-> c.size, cap |-> c.cap, from |-> c.from, data |-> c.data]
    BY DEF Resize
  <2> HIDE DEF c, a
  <2> QED
    BY <1>1, <1>2, <1>3, <2>1 DEF Fits, End, Room, Shape
<1> HIDE DEF a, c
<1>5. Expand(b, n) = IF n > Room(a) THEN c ELSE a
  BY DEF Expand, a, c
<1>6. Room(a) \in Int
  BY <1>1 DEF Room, End
<1> QED
  BY <1>1, <1>2, <1>4, <1>5, <1>6

LEMMA PushBackOK ==
  ASSUME NEW B, NEW b, Fits(b, B), NEW s \in Seq(Bytelike(B))
  PROVE  BufferOK(PushBack(b, s), B) /\ Len(PushBack(b, s).data) = Len(b.data) + Len(s)
<1> DEFINE a == IF Len(s) + 1 > Room(b) THEN Expand(b, Len(s) + 1) ELSE b
<1>1. Len(s) \in Nat
  BY LenProperties
<1>2. /\ Fits(a, B) /\ Len(s) + 1 <= Room(a) /\ Len(a.data) = Len(b.data)
  <2>1. Room(b) \in Int
    BY LenProperties DEF Fits, Room, End, Shape
  <2> QED
    BY <1>1, <2>1, ExpandFits
<1> HIDE DEF a
<1>3. PushBack(b, s) = [a EXCEPT !.data = a.data \o s]
  BY DEF PushBack, a
<1>4. a.data \o s \in Seq(Bytelike(B)) /\ Len(a.data \o s) = Len(a.data) + Len(s)
  <2> DEFINE S == Bytelike(B)
             e == a.data
  <2>1. e \in Seq(S) /\ s \in Seq(S)
    BY <1>2 DEF Fits, Shape
  <2> HIDE DEF S, e
  <2>2. e \o s \in Seq(S) /\ Len(e \o s) = Len(e) + Len(s)
    BY <2>1, ConcatProperties
  <2> QED
    BY <2>2 DEF S, e
<1> DEFINE c == PushBack(b, s)
           d == a.data \o s
<1>5. a \in Shape(B) /\ a.from \in Nat /\ c = [size |-> a.size, cap |-> a.cap, from |-> a.from, data |-> d]
  BY <1>2, <1>3 DEF Fits, Shape
<1>9. d \in Seq(Bytelike(B)) /\ Len(d) = Len(a.data) + Len(s)
  BY <1>4
<1> HIDE DEF c, d
<1>6. /\ c \in Shape(B) /\ c.size = a.size /\ c.cap = a.cap /\ c.from = a.from /\ c.data = d
      /\ c.cap \in Nat
  BY <1>5, <1>9, Changed
<1>7. /\ a.size <= a.cap /\ Len(s) + 1 <= a.cap - (a.from + Len(a.data))
      /\ a.from \in Nat /\ Len(a.data) \in Nat
  BY <1>2, LenProperties DEF Fits, Room, End, Shape
<1> QED
  BY <1>1, <1>2, <1>6, <1>7, <1>9 DEF BufferOK, Shape, End, Bytelike, c

LEMMA PopFrontOK ==
  ASSUME NEW B, NEW b, BufferOK(b, B), NEW n
  PROVE  /\ BufferOK(PopFront(b, n), B)
         /\ n \in 0..Len(b.data) => Len(PopFront(b, n).data) = Len(b.data) - n
<1> DEFINE d == SubSeq(b.data, n + 1, Len(b.data))
<1>1. b.data \in Seq(Bytelike(B)) /\ Len(b.data) \in Nat
  BY LenProperties DEF BufferOK, Bytelike
<1>2. CASE n \in 0..Len(b.data)
  <2>1. d \in Seq(Bytelike(B)) /\ Len(d) = Len(b.data) - n
    BY <1>1, <1>2, SubSeqProperties
  <2> DEFINE c == PopFront(b, n)
  <2>2. b \in Shape(B) /\ b.from + n \in Nat /\ b.from \in Nat
    BY <1>2 DEF BufferOK, Shape, Bytelike
  <2>3. c = [size |-> b.size, cap |-> b.cap, from |-> b.from + n, data |-> d]
    BY <1>2, <2>2 DEF PopFront, Shape
  <2> HIDE DEF d, c
  <2>4. /\ c \in Shape(B) /\ c.size = b.size /\ c.cap = b.cap
        /\ c.from = b.from + n /\ c.data = d
    BY <2>1, <2>2, <2>3, Changed
  <2>5. b.size <= b.cap /\ b.from + Len(b.data) < b.cap
    BY DEF BufferOK, End
  <2> QED
    BY <1>1, <1>2, <2>1, <2>2, <2>4, <2>5 DEF BufferOK, Shape, End, Bytelike, c
<1> QED
  BY <1>2 DEF PopFront

LEMMA FillOK ==
  ASSUME NEW B, NEW b, BufferOK(b, B), NEW s \in Seq(Bytelike(B))
  PROVE  BufferOK(Fill(b, s), B)
<1> DEFINE r == Room(b)
           first == SubSeq(s, 1, r)
           rest  == SubSeq(s, r + 1, Len(s))
           more  == b.data \o first
           full  == [b EXCEPT !.data = more]
<1>1. /\ b.data \in Seq(Bytelike(B)) /\ Len(b.data) \in Nat /\ Len(s) \in Nat
      /\ r \in Nat /\ r = b.cap - (b.from + Len(b.data))
  BY LenProperties DEF BufferOK, Bytelike, Room, End
<1>0. /\ b \in Shape(B) /\ b.from \in Nat /\ b.size \in Nat /\ b.cap \in Nat
      /\ b.size <= b.cap
  BY DEF BufferOK, Shape, Bytelike
<1>2. CASE Len(s) < r
  <2>1. b.data \o s \in Seq(Bytelike(B)) /\ Len(b.data \o s) = Len(b.data) + Len(s)
    BY <1>1, ConcatProperties
  <2> DEFINE c == Fill(b, s)
             d == b.data \o s
  <2>2. c = [size |-> b.size, cap |-> b.cap, from |-> b.from, data |-> d]
    BY <1>0, <1>2 DEF Fill, Shape
  <2>4. d \in Seq(Bytelike(B)) /\ Len(d) = Len(b.data) + Len(s)
    BY <2>1
  <2> HIDE DEF d, c, r
  <2>3. /\ c \in Shape(B) /\ c.size = b.size /\ c.cap = b.cap
        /\ c.from = b.from /\ c.data = d
    BY <1>0, <2>2, <2>4, Changed
  <2> QED
    BY <1>0, <1>1, <1>2, <2>3, <2>4 DEF BufferOK, Shape, End, Bytelike, c
<1>3. CASE ~(Len(s) < r)
  <2>1. first \in Seq(Bytelike(B)) /\ Len(first) = r
    BY <1>1, <1>3, SubSeqProperties
  <2>2. rest \in Seq(Bytelike(B))
    BY <1>1, <1>3, SubSeqProperties
  <2>3. b.data \o first \in Seq(Bytelike(B)) /\ Len(b.data \o first) = Len(b.data) + r
    BY <1>1, <2>1, ConcatProperties
  <2>4. Fill(b, s) = PushBack(full, rest)
    BY <1>3 DEF Fill
  <2>5. Fits(full, B)
    <3>1. more \in Seq(Bytelike(B)) /\ Len(more) = Len(b.data) + r
      BY <2>3
    <3> HIDE DEF more, r
    <3>2. full = [size |-> b.size, cap |-> b.cap, from |-> b.from, data |-> more]
      BY <1>0 DEF Shape
    <3> HIDE DEF full
    <3>3. /\ full \in Shape(B) /\ full.size = b.size /\ full.cap = b.cap
          /\ full.from = b.from /\ full.data = more
      BY <1>0, <3>1, <3>2, Changed
    <3> QED
      BY <1>0, <1>1, <3>1, <3>3, SMTT(60) DEF Fits, End
  <2> HIDE DEF full, rest
  <2> QED
    BY <2>2, <2>4, <2>5, PushBackOK
<1> QED
  BY <1>2, <1>3

LEMMA NewOK == \A B : BufferOK(NewBuffer(InitSize), B)
BY SizesAssumption, EmptySeq DEF BufferOK, NewBuffer, End

-----------------------------------------------------------------------------
(* Type correctness. *)
Replies == [status : Pieces, sized : BOOLEAN, content : Seq(Pieces), file : Seq(Pieces),
            mapped : {"no", "yes", "failed"}]

LEMMA InitReplyOK ==
  ASSUME NEW status \in Pieces, NEW content \in Seq(Pieces)
  PROVE  InitReply(status, content) \in Replies
BY EmptySeq DEF InitReply, Replies

LEMMA FixedPieces ==
  /\ {"400", "403", "404", "200", "length", "end", "sorry"} \subseteq Pieces
  /\ \A l \in DOMAIN Handlers : Handlers[l].status \in Pieces
  /\ <<"sorry">> \in Seq(Pieces) /\ <<>> \in Seq(Pieces)
<1>1. {"400", "403", "404", "200", "length", "end", "sorry"} \subseteq Pieces
  BY DEF Pieces
<1>2. ASSUME NEW l \in DOMAIN Handlers PROVE Handlers[l].status \in Pieces
  <2> DEFINE h == Handlers[l]
             S == {{g.status} \cup Elements(g.content) : g \in {Handlers[k] : k \in DOMAIN Handlers}}
  <2>1. {h.status} \cup Elements(h.content) \in S
    OBVIOUS
  <2>2. h.status \in UNION S
    BY <2>1
  <2> QED
    BY <2>2 DEF Pieces
<1>3. <<>> \in Seq(Pieces)
  BY EmptySeq
<1>4. \A x \in Pieces : <<x>> \in Seq(Pieces)
  OBVIOUS
<1> QED
  BY <1>1, <1>2, <1>3, <1>4

LEMMA SetFileOK ==
  ASSUME NEW r \in Replies, NEW path
  PROVE  SetFile(r, path) \in Replies
<1> DEFINE known  == path \in DOMAIN Disk
           page   == IF ~known THEN "404.html" ELSE IF ~Disk[path].open THEN "403.html" ELSE path
           status == IF ~known THEN "404" ELSE IF ~Disk[path].open THEN "403" ELSE r.status
           found  == [r EXCEPT !.status = status, !.sized = TRUE,
                               !.file = Disk[page].bytes, !.mapped = "yes"]
           lost   == [r EXCEPT !.status = "404", !.content = <<"sorry">>]
           empty  == [lost EXCEPT !.mapped = "failed"]
<1>1. status \in Pieces
  BY FixedPieces DEF Replies
<1>2. lost \in Replies
  BY FixedPieces DEF Replies
<1>5. empty \in Replies
  <2> HIDE DEF lost
  <2> QED
    BY <1>2 DEF Replies
<1> HIDE DEF status
<1>3. ASSUME page \in DOMAIN Disk PROVE found \in Replies
  <2>1. Disk[page].bytes \in Seq(Pieces)
    BY <1>3, DiskAssumption
  <2> HIDE DEF page
  <2> QED
    BY <1>1, <2>1 DEF Replies
<1>4. SetFile(r, path) = IF page \notin DOMAIN Disk THEN lost
                         ELSE IF Disk[page].bytes = <<>> THEN empty ELSE found
  BY DEF SetFile, status
<1> HIDE DEF found, lost, empty, page
<1> QED
  BY <1>2, <1>3, <1>4, <1>5

LEMMA RouteOK == ASSUME NEW line PROVE Route(line) \in Replies
<1>1. CASE line \in DOMAIN Handlers
  <2>1. InitReply(Handlers[line].status, Handlers[line].content) \in Replies
    BY <1>1, HandlersAssumption, FixedPieces, InitReplyOK
  <2> QED
    BY <1>1, <2>1 DEF Route
<1>2. CASE line \notin DOMAIN Handlers /\ line \in DOMAIN Paths
  <2>1. InitReply("200", <<>>) \in Replies
    BY FixedPieces, InitReplyOK
  <2> QED
    BY <1>2, <2>1, SetFileOK DEF Route, DefaultHandler
<1>3. CASE line \notin DOMAIN Handlers /\ line \notin DOMAIN Paths
  <2>1. InitReply("400", <<"sorry">>) \in Replies
    BY FixedPieces, InitReplyOK
  <2> QED
    BY <1>3, <2>1 DEF Route
<1> QED
  BY <1>1, <1>2, <1>3

LEMMA PutsOK ==
  ASSUME NEW b, BufferOK(b, Pieces), NEW s \in Seq(Pieces)
  PROVE  BufferOK(PushBack(b, s), Pieces)
<1>1. s \in Seq(Bytelike(Pieces))
  BY ElementOfSeq, LenProperties, SeqDef DEF Bytelike
<1> QED
  BY <1>1, OKFits, PushBackOK

LEMMA GetResponseOK ==
  ASSUME NEW b, BufferOK(b, Pieces), NEW r \in Replies
  PROVE  BufferOK(GetResponse(r, b), Pieces)
<1> DEFINE status == PushBack(b, <<r.status>>)
           sized  == IF r.sized THEN PushBack(status, <<"length">>) ELSE status
           hd     == PushBack(sized, <<"end">>)
<1>1. r.status \in Pieces /\ r.content \in Seq(Pieces)
  BY DEF Replies
<1>2. <<r.status>> \in Seq(Pieces) /\ <<"length">> \in Seq(Pieces) /\ <<"end">> \in Seq(Pieces)
  BY <1>1, FixedPieces
<1>3. BufferOK(status, Pieces)
  BY <1>2, PutsOK
<1> HIDE DEF status
<1>4. BufferOK(sized, Pieces)
  BY <1>2, <1>3, PutsOK
<1> HIDE DEF sized
<1>5. BufferOK(hd, Pieces)
  BY <1>2, <1>4, PutsOK
<1> HIDE DEF hd
<1>6. GetResponse(r, b) = IF r.content = <<>> THEN hd ELSE PushBack(hd, r.content)
  BY DEF GetResponse, status, sized, hd
<1> QED
  BY <1>1, <1>5, <1>6, PutsOK

(* A part of a sequence, of no matter what, is one of its elements' kind. *)
LEMMA PartOK ==
  ASSUME NEW S, NEW s \in Seq(S), NEW m \in 1..Len(s) + 1, NEW n \in 0..Len(s)
  PROVE  /\ SubSeq(s, m, n) \in Seq(S)
         /\ Len(SubSeq(s, m, n)) = IF m <= n THEN n - m + 1 ELSE 0
<1>1. Len(s) \in Nat
  BY LenProperties
<1>2. \A i \in m..n : s[i] \in S
  BY <1>1, ElementOfSeq
<1> QED
  BY <1>1, <1>2, SubSeqProperties

LEMMA SplitAt ==
  ASSUME NEW S, NEW s \in Seq(S), NEW r \in 0..Len(s)
  PROVE  SubSeq(s, 1, r) \o SubSeq(s, r + 1, Len(s)) = s
<1>1. Len(s) \in Nat
  BY LenProperties
<1>2. 1 \in 1..Len(s) + 1 /\ r \in 1 - 1..Len(s) /\ Len(s) \in r..Len(s)
  BY <1>1
<1>3. SubSeq(s, 1, r) \o SubSeq(s, r + 1, Len(s)) = SubSeq(s, 1, Len(s))
  BY <1>2, ConcatAdjacentSubSeq
<1> QED
  BY <1>3, SubSeqFull

LEMMA TypeInit == Init => TypeOK
<1> SUFFICES ASSUME Init PROVE TypeOK
  OBVIOUS
<1>1. BufferOK(rbuf, Bytes) /\ BufferOK(wbuf, Pieces)
  BY NewOK DEF Init
<1>2. reply \in Replies /\ reply.file = <<>>
  BY FixedPieces, InitReplyOK DEF Init, InitReply
<1>3. wbuf.data = <<>>
  BY DEF Init, NewBuffer
<1>4. script \in Seq(Bytes) /\ Len(script) \in Nat
  BY ScriptsAssumption, LenProperties DEF Init
<1>5. arrived \in Seq(Bytes)
  BY EmptySeq DEF Init
<1>6. Len(wbuf.data) = 0 /\ Len(reply.file) = 0
  BY <1>2, <1>3, EmptySeq
<1>7. /\ script \in Scripts /\ sent = 0 /\ mode = "waiting" /\ keepAlive = FALSE
      /\ head = 0 /\ tail = 0
  BY DEF Init
<1>8. sent \in 0..Len(script) /\ tail \in 0..Len(reply.file) /\ head + tail = 0
  BY <1>4, <1>6, <1>7
<1> QED
  BY <1>1, <1>2, <1>5, <1>6, <1>7, <1>8 DEF TypeOK, Replies

LEMMA TypeSend == ASSUME TypeOK, NEW n \in 1..Len(script), Send(n) PROVE TypeOK'
<1>1. /\ script \in Seq(Bytes) /\ Len(script) \in Nat /\ arrived \in Seq(Bytes)
      /\ sent \in 0..Len(script)
  BY ScriptsAssumption, LenProperties DEF TypeOK
<1>2. sent' = sent + n /\ sent + n <= Len(script)
  BY DEF Send
<1>3. SubSeq(script, sent + 1, sent + n) \in Seq(Bytes)
  BY <1>1, <1>2, PartOK
<1>4. arrived' \in Seq(Bytes)
  BY <1>1, <1>3, ConcatProperties DEF Send
<1>5. sent' \in 0..Len(script)
  BY <1>1, <1>2
<1> QED
  BY <1>4, <1>5 DEF TypeOK, Send

(* What a read takes, and what it leaves. *)
LEMMA ReadSplit ==
  ASSUME TypeOK, Read
  PROVE  \E n \in 0..Len(arrived) :
            /\ rbuf' = Fill(rbuf, SubSeq(arrived, 1, n))
            /\ arrived' = SubSeq(arrived, n + 1, Len(arrived))
            /\ SubSeq(arrived, 1, n) \in Seq(Bytes) /\ Len(SubSeq(arrived, 1, n)) = n
            /\ arrived' \in Seq(Bytes)
<1> DEFINE most == Room(rbuf) + AuxSize
           n    == IF Len(arrived) < most THEN Len(arrived) ELSE most
<1>1. arrived \in Seq(Bytes) /\ Len(arrived) \in Nat
  BY LenProperties DEF TypeOK
<1>2. most \in Nat
  <2>1. Fits(rbuf, Bytes)
    BY OKFits DEF TypeOK
  <2> QED
    BY <2>1, LenProperties, SizesAssumption DEF Fits, Room, End, Shape
<1>3. /\ rbuf' = Fill(rbuf, SubSeq(arrived, 1, n))
      /\ arrived' = SubSeq(arrived, n + 1, Len(arrived))
  BY DEF Read
<1> HIDE DEF most
<1>4. n \in 0..Len(arrived)
  BY <1>1, <1>2
<1> HIDE DEF n
<1>5. /\ SubSeq(arrived, 1, n) \in Seq(Bytes) /\ Len(SubSeq(arrived, 1, n)) = n
      /\ SubSeq(arrived, n + 1, Len(arrived)) \in Seq(Bytes)
  BY <1>1, <1>4, PartOK
<1> QED
  BY <1>3, <1>4, <1>5

LEMMA BytesWide == \A B, s : s \in Seq(B) => s \in Seq(Bytelike(B))
BY ElementOfSeq, LenProperties, SeqDef DEF Bytelike

LEMMA TypeRead == ASSUME TypeOK, Read PROVE TypeOK'
<1> PICK n \in 0..Len(arrived) :
            /\ rbuf' = Fill(rbuf, SubSeq(arrived, 1, n))
            /\ SubSeq(arrived, 1, n) \in Seq(Bytes)
            /\ arrived' \in Seq(Bytes)
  BY ReadSplit
<1>1. BufferOK(rbuf', Bytes)
  BY BytesWide, FillOK DEF TypeOK
<1> QED
  BY <1>1 DEF TypeOK, Read

LEMMA TypeProcess ==
  ASSUME TypeOK, Process, UNCHANGED <<script, sent>>, arrived' = arrived, head + tail = 0
  PROVE  TypeOK'
<1>1. CASE Await
  BY <1>1 DEF TypeOK, Await
<1>2. CASE Abandon
  BY <1>2 DEF TypeOK, Abandon
<1>3. CASE Answer
  <2>1. BufferOK(rbuf', Bytes)
    BY <1>3, PopFrontOK DEF TypeOK, Answer
  <2>2. reply' \in Replies
    BY <1>3, RouteOK DEF Answer
  <2>3. BufferOK(wbuf', Pieces)
    BY <1>3, <2>2, GetResponseOK DEF TypeOK, Answer, MakeResponse
  <2>4. keepAlive' \in BOOLEAN
    BY <1>3 DEF Answer, IsKeepAlive
  <2>5. head' = Len(wbuf'.data) /\ tail' \in 0..Len(reply'.file) /\ mode' = "writing"
    <3>1. reply'.file \in Seq(Pieces)
      BY <2>2 DEF Replies
    <3> QED
      BY <1>3, <3>1, LenProperties DEF Answer, MakeResponse
  <2> QED
    BY <2>1, <2>2, <2>3, <2>4, <2>5 DEF TypeOK, Replies
<1> QED
  BY <1>1, <1>2, <1>3 DEF Process

LEMMA TypeWrite == ASSUME TypeOK, NEW n \in 1..head + tail, Write(n) PROVE TypeOK'
<1> DEFINE h == IF n < head THEN n ELSE head
<1>1. /\ head = Len(wbuf.data) /\ head \in Nat /\ BufferOK(wbuf, Pieces)
      /\ reply.file \in Seq(Pieces) /\ tail \in 0..Len(reply.file) /\ Len(reply.file) \in Nat
  BY LenProperties DEF TypeOK, BufferOK
<1>2. head' = head - h /\ tail' = tail - (n - h) /\ n <= head + tail
  BY DEF Write, Written
<1>3. h \in 0..head /\ n - h \in 0..tail
  BY <1>1, <1>2
<1>4. wbuf' = PopFront(wbuf, head - head')
  BY DEF Write
<1> HIDE DEF h
<1>5. head - head' = h
  BY <1>1, <1>2, <1>3
<1>6. BufferOK(wbuf', Pieces) /\ Len(wbuf'.data) = head'
  BY <1>1, <1>2, <1>3, <1>4, <1>5, PopFrontOK
<1>7. tail' \in 0..Len(reply.file)
  BY <1>1, <1>2, <1>3
<1> QED
  BY <1>6, <1>7 DEF TypeOK, Write

LEMMA TypeStep == TypeOK /\ [Next]_vars => TypeOK'
<1> SUFFICES ASSUME TypeOK, [Next]_vars PROVE TypeOK'
  OBVIOUS
<1>1. ASSUME NEW n \in 1..Len(script), Send(n) PROVE TypeOK'
  BY <1>1, TypeSend
<1>2. CASE Read
  BY <1>2, TypeRead
<1>3. CASE ReadAll
  BY <1>3, TypeProcess DEF ReadAll, TypeOK
<1>4. ASSUME NEW n \in 1..head + tail, Write(n) PROVE TypeOK'
  BY <1>4, TypeWrite
<1>5. CASE WroteAll
  <2>1. CASE keepAlive /\ Process
    BY <1>5, <2>1, TypeProcess DEF WroteAll
  <2>2. CASE ~keepAlive /\ mode' = "closed" /\ UNCHANGED <<rbuf, wbuf, keepAlive, reply, head, tail>>
    BY <1>5, <2>2 DEF WroteAll, TypeOK
  <2> QED
    BY <1>5, <2>1, <2>2 DEF WroteAll
<1>6. CASE WriteFails
  BY <1>6 DEF WriteFails, TypeOK
<1>7. CASE UNCHANGED vars
  BY <1>7 DEF TypeOK, vars
<1> QED
  BY <1>1, <1>2, <1>3, <1>4, <1>5, <1>6, <1>7 DEF Next, Rest

(* The buffers' positions always fit their vectors, with room for the zero that is
   written behind the data (buffer.cpp:27, 66, 108), and m_iovec fits the write
   buffer and the file (http_connection.cpp:40). *)
THEOREM TypeCorrect == Spec => []TypeOK
BY TypeInit, TypeStep, PTL DEF Spec

-----------------------------------------------------------------------------
(* A buffer that has grown at most once keeps its bytes as long as they are fewer
   than twice its first size. *)
Steady(b) == (b.size = InitSize /\ b.cap = InitSize) \/ b.cap >= 2 * InitSize

LEMMA Twice ==
  \A x, y, z \in Nat : x + y < 2 * z => x + (y + 1) <= 2 * z /\ y + 1 \in Nat \ {0}
OBVIOUS

LEMMA Regroup ==
  \A x, y, z, w \in Nat : (x + y) + z <= w <=> x + (y + z) <= w
OBVIOUS

LEMMA ExpandKeeps ==
  ASSUME NEW B, NEW b, Fits(b, B), Steady(b), NEW n \in Nat \ {0},
         Len(b.data) + n <= 2 * InitSize
  PROVE  Expand(b, n).data = b.data /\ Steady(Expand(b, n))
<1> DEFINE a == Adjust(b)
           c == Resize(a, a.cap + n)
<1>1. /\ a.from = 0 /\ a.data = b.data /\ a.cap = b.cap /\ a.size = b.size
      /\ b.data \in Seq(Bytelike(B)) /\ Len(b.data) \in Nat
      /\ b.cap \in Nat /\ b.size \in Nat \ {0} /\ Len(b.data) <= b.cap
  BY LenProperties DEF Fits, Adjust, End, Shape
<1>2. Expand(b, n) = IF n > b.cap - Len(b.data) THEN c ELSE a
  BY <1>1 DEF Expand, Room, End
<1>3. CASE ~(n > b.cap - Len(b.data))
  <2> HIDE DEF a, c
  <2> QED
    BY <1>1, <1>2, <1>3 DEF Steady
<1>4. CASE n > b.cap - Len(b.data)
  <2>1. b.size = InitSize /\ b.cap = InitSize
    BY <1>1, <1>4, SizesAssumption DEF Steady
  <2>2. c.data = [i \in 1..Len(b.data) |-> b.data[i]]
    BY <1>1, <2>1, SizesAssumption DEF Resize
  <2>3. c.data = b.data
    BY <1>1, <2>2, LenProperties
  <2>4. c.cap >= 2 * InitSize
    <3>1. c.cap = IF a.cap + n > 2 * a.size THEN a.cap + n ELSE 2 * a.size
      BY DEF Resize
    <3> HIDE DEF a, c
    <3> QED
      BY <1>1, <2>1, <3>1, SizesAssumption
  <2> HIDE DEF c
  <2> QED
    BY <1>2, <1>4, <2>3, <2>4 DEF Steady
<1> QED
  BY <1>3, <1>4

LEMMA PushBackKeeps ==
  ASSUME NEW B, NEW b, Fits(b, B), Steady(b), NEW s \in Seq(Bytelike(B)),
         Len(b.data) + Len(s) < 2 * InitSize
  PROVE  PushBack(b, s).data = b.data \o s /\ Steady(PushBack(b, s))
<1> DEFINE a == IF Len(s) + 1 > Room(b) THEN Expand(b, Len(s) + 1) ELSE b
<1>1. Len(s) \in Nat /\ Len(b.data) \in Nat /\ Room(b) \in Int /\ InitSize \in Nat
  BY LenProperties, SizesAssumption DEF Fits, Shape, Room, End
<1>2. Len(s) + 1 \in Nat \ {0} /\ Len(b.data) + (Len(s) + 1) <= 2 * InitSize
  BY <1>1, Twice, Zenon
<1>3. a.data = b.data /\ Steady(a) /\ Fits(a, B)
  BY <1>2, ExpandKeeps, ExpandFits
<1> HIDE DEF a
<1>4. PushBack(b, s) = [a EXCEPT !.data = a.data \o s]
  BY DEF PushBack, a
<1> DEFINE d == a.data \o s
           c == PushBack(b, s)
<1>5. c = [size |-> a.size, cap |-> a.cap, from |-> a.from, data |-> d]
  BY <1>3, <1>4 DEF Fits, Shape
<1>6. d = b.data \o s
  BY <1>3
<1> HIDE DEF c, d
<1>7. c.size = a.size /\ c.cap = a.cap /\ c.data = d
  BY <1>5
<1> QED
  BY <1>3, <1>6, <1>7 DEF Steady, c

LEMMA FillKeeps ==
  ASSUME NEW B, NEW b, BufferOK(b, B), Steady(b), NEW s \in Seq(Bytelike(B)),
         Len(b.data) + Len(s) < 2 * InitSize
  PROVE  Fill(b, s).data = b.data \o s /\ Steady(Fill(b, s))
<1> DEFINE r == Room(b)
           first == SubSeq(s, 1, r)
           rest  == SubSeq(s, r + 1, Len(s))
           more  == b.data \o first
           full  == [b EXCEPT !.data = more]
<1>0. /\ b \in Shape(B) /\ b.from \in Nat /\ b.size \in Nat /\ b.cap \in Nat
      /\ b.size <= b.cap
  BY DEF BufferOK, Shape, Bytelike
<1>1. /\ b.data \in Seq(Bytelike(B)) /\ Len(b.data) \in Nat /\ Len(s) \in Nat
      /\ r \in Nat /\ r = b.cap - (b.from + Len(b.data)) /\ InitSize \in Nat
  BY LenProperties, SizesAssumption DEF BufferOK, Bytelike, Room, End
<1>2. CASE Len(s) < r
  <2> DEFINE c == Fill(b, s)
             d == b.data \o s
  <2>1. c = [size |-> b.size, cap |-> b.cap, from |-> b.from, data |-> d]
    BY <1>0, <1>2 DEF Fill, Shape
  <2> HIDE DEF c, d
  <2>2. c.size = b.size /\ c.cap = b.cap /\ c.data = d
    BY <2>1
  <2> QED
    BY <2>2 DEF Steady, c, d
<1>3. CASE ~(Len(s) < r)
  <2>1. first \in Seq(Bytelike(B)) /\ Len(first) = r
    BY <1>1, <1>3, PartOK
  <2>2. rest \in Seq(Bytelike(B)) /\ Len(rest) = Len(s) - r
    BY <1>1, <1>3, PartOK
  <2>3. first \o rest = s
    <3>1. r \in 0..Len(s)
      BY <1>1, <1>3
    <3> HIDE DEF r
    <3> QED
      BY <3>1, SplitAt
  <2>4. more \in Seq(Bytelike(B)) /\ Len(more) = Len(b.data) + r
    BY <1>1, <2>1, ConcatProperties
  <2>5. Fill(b, s) = PushBack(full, rest)
    BY <1>3 DEF Fill
  <2>6. more \o rest = b.data \o s
    <3> HIDE DEF first, rest, r
    <3> DEFINE S == Bytelike(B)
               d == b.data
    <3>1. d \in Seq(S) /\ first \in Seq(S) /\ rest \in Seq(S)
      BY <1>1, <2>1, <2>2
    <3> HIDE DEF d, S
    <3>2. (d \o first) \o rest = d \o (first \o rest)
      BY <3>1, ConcatAssociative, SMTT(60)
    <3> QED
      BY <2>3, <3>2 DEF d
  <2> HIDE DEF r, first, rest, more
  <2>7. full = [size |-> b.size, cap |-> b.cap, from |-> b.from, data |-> more]
    BY <1>0 DEF Shape
  <2> HIDE DEF full
  <2>8. /\ full \in Shape(B) /\ full.size = b.size /\ full.cap = b.cap
        /\ full.from = b.from /\ full.data = more
    BY <1>0, <2>4, <2>7, Changed
  <2>9. Fits(full, B) /\ Steady(full) /\ Len(full.data) + Len(rest) < 2 * InitSize
    <3>1. Len(full.data) = Len(b.data) + r /\ r <= b.cap - (b.from + Len(b.data))
      BY <1>1, <2>4, <2>8
    <3>2. full.from + Len(full.data) <= full.cap
      BY <1>0, <1>1, <2>8, <3>1
    <3>3. Fits(full, B)
      BY <1>0, <2>8, <3>2 DEF Fits, End
    <3>4. Steady(full)
      BY <2>8 DEF Steady
    <3>5. Len(full.data) + Len(rest) = Len(b.data) + Len(s)
      BY <1>1, <2>2, <3>1
    <3> QED
      BY <3>3, <3>4, <3>5
  <2>10. PushBack(full, rest).data = full.data \o rest /\ Steady(PushBack(full, rest))
    BY <2>2, <2>9, PushBackKeeps
  <2> QED
    BY <2>5, <2>6, <2>8, <2>10
<1> QED
  BY <1>2, <1>3

-----------------------------------------------------------------------------
(* What is in the buffer and in the socket, for a client that never has twice the
   first size on its way. *)
Narrow    == Window < 2 * InitSize
Unread(n) == rbuf.data \o arrived = SubSeq(script, n + 1, sent)
Amount    == Len(rbuf.data) + Len(arrived)
ReadInv   == TypeOK /\ (Narrow => Steady(rbuf) /\ Amount <= Window /\ \E n \in 0..sent : Unread(n))

LEMMA ReadInit == Init => ReadInv
<1> SUFFICES ASSUME Init PROVE ReadInv
  OBVIOUS
<1>1. rbuf.data = <<>> /\ arrived = <<>> /\ sent = 0 /\ Steady(rbuf)
  BY DEF Init, NewBuffer, Steady
<1>2. rbuf.data \o arrived = <<>> /\ SubSeq(script, 0 + 1, 0) = <<>>
  <2>1. <<>> \in Seq(Bytes)
    BY EmptySeq
  <2> QED
    BY <1>1, <2>1, ConcatEmptySeq, SubSeqEmpty
<1>3. 0 \in 0..sent /\ Unread(0)
  BY <1>1, <1>2 DEF Unread
<1>4. Amount <= Window
  BY <1>1, EmptySeq, SizesAssumption DEF Amount
<1> QED
  BY <1>1, <1>3, <1>4, TypeInit DEF ReadInv

(* The types that the steps below rest on. *)
LEMMA ReadTypes ==
  ASSUME TypeOK
  PROVE  /\ script \in Seq(Bytelike(Bytes)) /\ arrived \in Seq(Bytelike(Bytes))
         /\ rbuf.data \in Seq(Bytelike(Bytes))
         /\ Len(script) \in Nat /\ Len(arrived) \in Nat /\ Len(rbuf.data) \in Nat
         /\ sent \in 0..Len(script)
<1>1. script \in Seq(Bytes) /\ arrived \in Seq(Bytes) /\ sent \in 0..Len(script)
  BY ScriptsAssumption DEF TypeOK
<1>2. rbuf.data \in Seq(Bytelike(Bytes))
  BY DEF TypeOK, BufferOK, Bytelike
<1> QED
  BY <1>1, <1>2, BytesWide, LenProperties

LEMMA ReadSend ==
  ASSUME ReadInv, Narrow, NEW m \in 0..sent, Unread(m), NEW n \in 1..Len(script), Send(n)
  PROVE  ReadInv' /\ m \in 0..sent' /\ Unread(m)'
<1>1. TypeOK'
  BY TypeSend DEF ReadInv
<1>2. sent' = sent + n /\ sent + n <= Len(script) /\ script' = script /\ rbuf' = rbuf
  BY DEF Send
<1> DEFINE S == Seq(Bytelike(Bytes))
           d == rbuf.data
           new == SubSeq(script, sent + 1, sent + n)
<1>3. /\ d \in S /\ arrived \in S /\ script \in S /\ Len(script) \in Nat
      /\ sent \in 0..Len(script)
  BY ReadTypes DEF ReadInv
<1>4. new \in S
  <2>1. sent + 1 \in 1..Len(script) + 1 /\ sent + n \in 0..Len(script)
    BY <1>2, <1>3
  <2> QED
    BY <1>3, <2>1, PartOK
<1>5. arrived' = arrived \o new
  BY DEF Send
<1>6. SubSeq(script, m + 1, sent) \o new = SubSeq(script, m + 1, sent + n)
  <2>1. /\ m + 1 \in 1..Len(script) + 1 /\ sent \in (m + 1) - 1..Len(script)
        /\ sent + n \in sent..Len(script)
    BY <1>2, <1>3
  <2> QED
    BY <1>3, <2>1, ConcatAdjacentSubSeq
<1> DEFINE B == Bytelike(Bytes)
<1>10. d \in Seq(B) /\ arrived \in Seq(B) /\ new \in Seq(B)
  BY <1>3, <1>4
<1> HIDE DEF new, d, B, S
<1>7. (d \o arrived) \o new = d \o (arrived \o new)
  BY <1>10, ConcatAssociative
<1>8. m \in 0..sent' /\ Unread(m)'
  <2>1. m \in 0..sent'
    BY <1>2, <1>3
  <2>2. d' = d
    BY <1>2 DEF d
  <2>3. d \o arrived = SubSeq(script, m + 1, sent)
    BY DEF Unread, d
  <2>4. d' \o arrived' = SubSeq(script', m + 1, sent')
    BY <1>2, <1>5, <1>6, <1>7, <2>2, <2>3
  <2> QED
    BY <2>1, <2>4 DEF Unread, d
<1>9. Steady(rbuf)'
  BY <1>2 DEF ReadInv, Steady
<1>11. Amount' <= Window
  <2>1. Len(new) = n
    <3>1. sent + 1 \in 1..Len(script) + 1 /\ sent + n \in 0..Len(script)
      BY <1>2, <1>3
    <3>2. Len(new) = IF sent + 1 <= sent + n THEN sent + n - (sent + 1) + 1 ELSE 0
      BY <1>3, <3>1, PartOK DEF new, S
    <3> QED
      BY <1>3, <3>2
  <2>2. Len(arrived') = Len(arrived) + n
    BY <1>5, <1>10, <2>1, ConcatProperties
  <2>3. Len(rbuf.data) + Len(arrived) + n <= Window /\ Len(rbuf.data) \in Nat /\ Len(arrived) \in Nat
    BY ReadTypes DEF Send, ReadInv
  <2>4. Len(rbuf'.data) = Len(rbuf.data) /\ n \in Nat /\ Window \in Nat
    BY <1>2, <1>3, SizesAssumption
  <2> HIDE DEF d, new, S, B
  <2>5. Len(rbuf.data) + (Len(arrived) + n) <= Window
    BY <2>3, <2>4, Regroup, Zenon
  <2>6. Len(rbuf'.data) + Len(arrived') <= Window
    BY <2>2, <2>4, <2>5, Zenon
  <2> QED
    BY <2>6, Zenon DEF Amount
<1> QED
  BY <1>1, <1>8, <1>9, <1>11 DEF ReadInv

LEMMA ReadRead ==
  ASSUME ReadInv, Narrow, NEW m \in 0..sent, Unread(m), Read
  PROVE  ReadInv' /\ m \in 0..sent' /\ Unread(m)'
<1>1. TypeOK'
  BY TypeRead DEF ReadInv
<1> PICK n \in 0..Len(arrived) :
            /\ rbuf' = Fill(rbuf, SubSeq(arrived, 1, n))
            /\ arrived' = SubSeq(arrived, n + 1, Len(arrived))
            /\ SubSeq(arrived, 1, n) \in Seq(Bytes) /\ Len(SubSeq(arrived, 1, n)) = n
            /\ arrived' \in Seq(Bytes)
  BY ReadSplit DEF ReadInv
<1> DEFINE S == Seq(Bytelike(Bytes))
           d == rbuf.data
           taken == SubSeq(arrived, 1, n)
           left  == SubSeq(arrived, n + 1, Len(arrived))
<1>2. /\ d \in S /\ arrived \in S /\ script \in S /\ Len(script) \in Nat
      /\ sent \in 0..Len(script) /\ Len(arrived) \in Nat /\ Len(d) \in Nat
  BY ReadTypes DEF ReadInv
<1>3. taken \in S /\ left \in S /\ Len(taken) = n
  BY BytesWide
<1>4. taken \o left = arrived
  BY <1>2, SplitAt
<1>5. Len(d) + Len(arrived) <= Window
  BY DEF ReadInv, Amount
<1>6. script' = script /\ sent' = sent /\ arrived' = left /\ rbuf' = Fill(rbuf, taken)
  BY DEF Read
<1>12. d \in S /\ taken \in S /\ left \in S
  BY <1>2, <1>3
<1> HIDE DEF taken, left
<1>7. Fill(rbuf, taken).data = d \o taken /\ Steady(Fill(rbuf, taken))
  <2>1. Len(d) + Len(taken) < 2 * InitSize
    <3>1. InitSize \in Nat /\ n \in Nat /\ n <= Len(arrived) /\ Window \in Nat /\ Window < 2 * InitSize
      BY <1>2, SizesAssumption DEF Narrow
    <3> HIDE DEF d
    <3> QED
      BY <1>2, <1>3, <1>5, <3>1, SMTT(60)
  <2>2. BufferOK(rbuf, Bytes) /\ Steady(rbuf)
    BY DEF ReadInv, TypeOK
  <2> QED
    BY <1>3, <2>1, <2>2, FillKeeps
<1> HIDE DEF d
<1>8. (d \o taken) \o left = d \o arrived
  <2> DEFINE B == Bytelike(Bytes)
  <2>2. d \in Seq(B) /\ taken \in Seq(B) /\ left \in Seq(B)
    BY <1>12
  <2> HIDE DEF B, S
  <2>1. (d \o taken) \o left = d \o (taken \o left)
    BY <2>2, ConcatAssociative
  <2> QED
    BY <1>4, <2>1
<1>9. rbuf'.data \o arrived' = SubSeq(script', m + 1, sent')
  <2>1. d \o arrived = SubSeq(script, m + 1, sent)
    BY DEF Unread, d
  <2> QED
    BY <1>6, <1>7, <1>8, <2>1
<1>10. Steady(rbuf)'
  <2>1. Steady(rbuf')
    BY <1>6, <1>7
  <2> QED
    BY <2>1 DEF Steady
<1>11. m \in 0..sent' /\ Unread(m)'
  BY <1>6, <1>9 DEF Unread
<1>13. Amount' <= Window
  <2>1. Len(d \o taken) = Len(d) + Len(taken) /\ Len(arrived) = Len(taken) + Len(left)
    BY <1>4, <1>12, ConcatProperties
  <2>2. Len(d) \in Nat /\ Len(taken) \in Nat /\ Len(left) \in Nat
    BY <1>12, LenProperties
  <2>3. Len(rbuf'.data) = Len(d) + Len(taken) /\ Len(arrived') = Len(left)
    BY <1>6, <1>7, <2>1
  <2>4. Len(d) + (Len(taken) + Len(left)) <= Window /\ Window \in Nat
    BY <1>5, <2>1, SizesAssumption
  <2>5. (Len(d) + Len(taken)) + Len(left) <= Window
    <3>1. Len(d) \in Nat /\ Len(d) + (Len(taken) + Len(left)) <= Window
      BY <1>12, <2>4, LenProperties
    <3> QED
      BY <2>2, <2>4, <3>1, Regroup, Zenon
  <2>6. Len(rbuf'.data) + Len(arrived') <= Window
    BY <2>3, <2>5, Zenon
  <2> QED
    BY <2>6, Zenon DEF Amount
<1> QED
  BY <1>1, <1>10, <1>11, <1>13 DEF ReadInv

(* To take something out at the front is to begin later. *)
LEMMA DropFront ==
  ASSUME NEW S, NEW d \in Seq(S), NEW a \in Seq(S), NEW s \in Seq(S), NEW m \in Nat,
         NEW e \in m..Len(s), d \o a = SubSeq(s, m + 1, e), NEW k \in 0..Len(d)
  PROVE  /\ SubSeq(d, k + 1, Len(d)) \o a = SubSeq(s, (m + k) + 1, e)
         /\ m + k <= e
<1> DEFINE t == SubSeq(d, k + 1, Len(d))
           u == t \o a
           v == SubSeq(s, (m + k) + 1, e)
           w == SubSeq(s, m + 1, e)
<1>1. Len(d) \in Nat /\ Len(a) \in Nat /\ Len(s) \in Nat /\ e \in Nat
  BY LenProperties
<1>2. w \in Seq(S) /\ Len(w) = e - m /\ \A i \in 1..e - m : w[i] = s[m + i]
  <2>1. \A i \in m + 1..e : s[i] \in S
    BY <1>1, ElementOfSeq
  <2>2. /\ w \in Seq(S) /\ Len(w) = IF m + 1 <= e THEN e - (m + 1) + 1 ELSE 0
        /\ \A i \in 1..e - (m + 1) + 1 : w[i] = s[(m + 1) + i - 1]
    BY <1>1, <2>1, SubSeqProperties
  <2> QED
    BY <1>1, <2>2
<1>3. Len(d) + Len(a) = e - m /\ \A i \in 1..e - m : w[i] = IF i <= Len(d) THEN d[i] ELSE a[i - Len(d)]
  <2>1. /\ Len(d \o a) = Len(d) + Len(a)
        /\ \A i \in 1..Len(d) + Len(a) : (d \o a)[i] = IF i <= Len(d) THEN d[i] ELSE a[i - Len(d)]
    BY ConcatProperties
  <2> QED
    BY <1>2, <2>1
<1>4. /\ t \in Seq(S) /\ Len(t) = Len(d) - k
      /\ \A i \in 1..Len(d) - k : t[i] = d[k + i]
  <2>1. \A i \in k + 1..Len(d) : d[i] \in S
    BY <1>1, ElementOfSeq
  <2>2. /\ t \in Seq(S) /\ Len(t) = IF k + 1 <= Len(d) THEN Len(d) - (k + 1) + 1 ELSE 0
        /\ \A i \in 1..Len(d) - (k + 1) + 1 : t[i] = d[(k + 1) + i - 1]
    BY <1>1, <2>1, SubSeqProperties
  <2> QED
    BY <1>1, <2>2
<1>5. m + k <= e
  BY <1>1, <1>3
<1>6. /\ v \in Seq(S) /\ Len(v) = e - (m + k)
      /\ \A i \in 1..e - (m + k) : v[i] = s[(m + k) + i]
  <2> PICK p \in Nat : p = m + k
    BY <1>1
  <2>1. \A i \in p + 1..e : s[i] \in S
    BY <1>1, ElementOfSeq
  <2>2. /\ SubSeq(s, p + 1, e) \in Seq(S)
        /\ Len(SubSeq(s, p + 1, e)) = IF p + 1 <= e THEN e - (p + 1) + 1 ELSE 0
        /\ \A i \in 1..e - (p + 1) + 1 : SubSeq(s, p + 1, e)[i] = s[(p + 1) + i - 1]
    BY <1>1, <2>1, SubSeqProperties
  <2>3. p <= e
    BY <1>5
  <2>4. /\ SubSeq(s, p + 1, e) \in Seq(S) /\ Len(SubSeq(s, p + 1, e)) = e - p
        /\ \A i \in 1..e - p : SubSeq(s, p + 1, e)[i] = s[p + i]
    BY <1>1, <2>2, <2>3
  <2> QED
    BY <2>4
<1> HIDE DEF t, v, w
<1>7. /\ u \in Seq(S) /\ Len(u) = Len(t) + Len(a)
      /\ \A i \in 1..Len(t) + Len(a) : u[i] = IF i <= Len(t) THEN t[i] ELSE a[i - Len(t)]
  BY <1>4, ConcatProperties
<1> HIDE DEF u
<1>8. Len(u) = Len(v) /\ Len(v) = e - (m + k)
  BY <1>1, <1>3, <1>4, <1>6, <1>7
<1>9. ASSUME NEW i \in 1..Len(u) PROVE u[i] = v[i]
  <2>1. /\ i \in 1..e - (m + k) /\ k + i \in 1..e - m /\ i \in 1..Len(t) + Len(a)
    BY <1>1, <1>3, <1>4, <1>8
  <2>2. v[i] = s[(m + k) + i] /\ w[k + i] = s[m + (k + i)]
    BY <1>2, <1>6, <2>1
  <2>3. v[i] = w[k + i]
    BY <1>1, <2>1, <2>2
  <2>4. CASE i <= Len(t)
    <3>1. u[i] = t[i]
      BY <1>7, <2>1, <2>4
    <3>2. i \in 1..Len(d) - k /\ k + i <= Len(d)
      BY <1>1, <1>4, <2>1, <2>4
    <3>3. t[i] = d[k + i]
      BY <1>4, <3>2
    <3>4. w[k + i] = d[k + i]
      BY <1>3, <2>1, <3>2
    <3> QED
      BY <2>3, <3>1, <3>3, <3>4
  <2>5. CASE ~(i <= Len(t))
    <3>1. u[i] = a[i - Len(t)]
      BY <1>7, <2>1, <2>5
    <3>2. w[k + i] = a[(k + i) - Len(d)]
      BY <1>1, <1>3, <1>4, <2>1, <2>5
    <3>3. (k + i) - Len(d) = i - Len(t)
      BY <1>1, <1>4, <2>1
    <3> QED
      BY <2>3, <3>1, <3>2, <3>3
  <2> QED
    BY <2>4, <2>5
<1>10. u = v
  BY <1>6, <1>7, <1>8, <1>9, SeqEqual
<1> QED
  BY <1>5, <1>10 DEF u, v, t

LEMMA ReadPop ==
  ASSUME ReadInv, Narrow, TypeOK', UNCHANGED <<script, sent, arrived>>,
         NEW m \in 0..sent, Unread(m),
         NEW k \in 0..Len(rbuf.data), rbuf' = PopFront(rbuf, k)
  PROVE  ReadInv' /\ m + k \in 0..sent' /\ Unread(m + k)'
<1> DEFINE S == Bytelike(Bytes)
           d == rbuf.data
           left == SubSeq(d, k + 1, Len(d))
<1>1. /\ d \in Seq(S) /\ arrived \in Seq(S) /\ script \in Seq(S) /\ Len(script) \in Nat
      /\ sent \in 0..Len(script) /\ Len(d) \in Nat
  BY ReadTypes DEF ReadInv
<1>2. rbuf' = [rbuf EXCEPT !.from = rbuf.from + k, !.data = left]
  BY DEF PopFront
<1>3. rbuf \in Shape(Bytes)
  BY DEF ReadInv, TypeOK, BufferOK, Shape, Bytelike
<1>4. d \o arrived = SubSeq(script, m + 1, sent) /\ k \in 0..Len(d)
  BY DEF Unread
<1> HIDE DEF left
<1>5. rbuf'.size = rbuf.size /\ rbuf'.cap = rbuf.cap /\ rbuf'.data = left
  BY <1>2, <1>3 DEF Shape
<1> HIDE DEF d, S
<1>6. m \in Nat /\ sent \in m..Len(script)
  BY <1>1
<1>7. left \o arrived = SubSeq(script, (m + k) + 1, sent) /\ m + k <= sent
  BY <1>1, <1>4, <1>6, DropFront DEF left
<1>8. m + k \in 0..sent' /\ Unread(m + k)'
  BY <1>1, <1>4, <1>5, <1>6, <1>7 DEF Unread
<1>9. Steady(rbuf)'
  BY <1>5 DEF ReadInv, Steady
<1>10. Amount' <= Window
  <2>1. Len(left) = IF k + 1 <= Len(d) THEN Len(d) - (k + 1) + 1 ELSE 0
    <3>1. k + 1 \in 1..Len(d) + 1 /\ Len(d) \in 0..Len(d)
      BY <1>1, <1>4
    <3> QED
      BY <1>1, <3>1, PartOK DEF left
  <2>2. Len(d) + Len(arrived) <= Window /\ Window \in Nat /\ Len(arrived) \in Nat
    BY ReadTypes, SizesAssumption DEF ReadInv, Amount, d
  <2>3. Len(left) <= Len(d) /\ Len(left) \in Nat
    BY <1>1, <1>4, <2>1
  <2>4. Len(rbuf'.data) = Len(left) /\ Len(arrived') = Len(arrived)
    BY <1>5
  <2> QED
    BY <1>1, <2>2, <2>3, <2>4 DEF Amount
<1> QED
  BY <1>8, <1>9, <1>10 DEF ReadInv

LEMMA ReadProcess ==
  ASSUME ReadInv, Narrow, TypeOK', Process, UNCHANGED <<script, sent, arrived>>
  PROVE  ReadInv'
<1> PICK m \in 0..sent : Unread(m)
  BY DEF ReadInv
<1>1. CASE rbuf' = rbuf
  BY <1>1 DEF ReadInv, Unread, Steady, Amount
<1>2. CASE rbuf' # rbuf
  <2> PICK k \in 0..Len(rbuf.data) : rbuf' = PopFront(rbuf, k)
    BY <1>2 DEF Process, Await, Abandon, Answer, PopFront
  <2> QED
    BY ReadPop
<1> QED
  BY <1>1, <1>2

LEMMA ReadStep == ReadInv /\ [Next]_vars => ReadInv'
<1> SUFFICES ASSUME ReadInv, [Next]_vars PROVE ReadInv'
  OBVIOUS
<1>0. TypeOK'
  BY TypeStep DEF ReadInv
<1>2. CASE ~Narrow
  BY <1>0, <1>2 DEF ReadInv
<1>3. CASE Narrow
  <2> PICK m \in 0..sent : Unread(m)
    BY <1>3 DEF ReadInv
  <2>1. ASSUME NEW n \in 1..Len(script), Send(n) PROVE ReadInv'
    BY <1>3, <2>1, ReadSend
  <2>2. CASE Read
    BY <1>3, <2>2, ReadRead
  <2>3. CASE ReadAll
    BY <1>0, <1>3, <2>3, ReadProcess DEF ReadAll
  <2>4. ASSUME NEW n \in 1..head + tail, Write(n) PROVE ReadInv'
    BY <1>0, <2>4 DEF Write, ReadInv, Unread, Steady, Amount
  <2>5. CASE WroteAll
    <3>1. CASE keepAlive /\ Process
      BY <1>0, <1>3, <2>5, <3>1, ReadProcess DEF WroteAll
    <3>2. CASE ~keepAlive /\ mode' = "closed" /\ UNCHANGED <<rbuf, wbuf, keepAlive, reply, head, tail>>
      BY <1>0, <2>5, <3>2 DEF WroteAll, ReadInv, Unread, Steady, Amount
    <3> QED
      BY <2>5, <3>1, <3>2 DEF WroteAll
  <2>6. CASE WriteFails
    BY <1>0, <2>6 DEF WriteFails, ReadInv, Unread, Steady, Amount
  <2>7. CASE UNCHANGED vars
    BY <1>0, <2>7 DEF vars, ReadInv, Unread, Steady, Amount
  <2> QED
    BY <2>1, <2>2, <2>3, <2>4, <2>5, <2>6, <2>7 DEF Next, Rest
<1> QED
  BY <1>2, <1>3

(* Buffer::read and expand lose, double or reorder no byte of what the client sends,
   however long it goes on and however the bytes are cut up, if the client never has
   twice the first size on its way: the buffer grows once then, and moves its data as
   often as it likes (buffer.cpp:53, 91).  With more on the way bytes are lost. *)
THEOREM ReadIntactHolds ==
  ASSUME Window < 2 * InitSize
  PROVE  Spec => []ReadIntact
<1>1. ReadInv => ReadIntact
  BY DEF ReadInv, ReadIntact, Unread, Narrow
<1> QED
  BY <1>1, ReadInit, ReadStep, PTL DEF Spec

-----------------------------------------------------------------------------
(* The parser looks no further than the request goes: what it finds in a sequence
   it finds in every longer one that begins with it. *)
LEMMA LowestOf ==
  ASSUME NEW T, T \subseteq Nat, T # {}
  PROVE  Lowest(T) \in T /\ \A y \in T : Lowest(T) <= y
BY Least DEF Lowest

LEMMA HighestOf ==
  ASSUME NEW n \in Nat, NEW T, T \subseteq 0..n, T # {}
  PROVE  Highest(T) \in T
BY Greatest DEF Highest

Extends(d, e) == Len(d) <= Len(e) /\ \A i \in 1..Len(d) : e[i] = d[i]

LEMMA HeadEnds ==
  ASSUME NEW S, NEW d \in Seq(S), Complete(d) # {}
  PROVE  /\ HeadEnd(d) \in 1..Len(d) - 1
         /\ HeadEnd(d) \in LineEnds(d) /\ HeadEnd(d) + 1 \in LineEnds(d)
         /\ \A i \in Complete(d) : HeadEnd(d) <= i
<1>1. Len(d) \in Nat /\ DOMAIN d = 1..Len(d)
  BY LenProperties
<1>2. LineEnds(d) \subseteq 1..Len(d)
  BY <1>1 DEF LineEnds
<1>3. Complete(d) \subseteq Nat
  BY <1>1, <1>2 DEF Complete
<1>4. HeadEnd(d) \in Complete(d) /\ \A i \in Complete(d) : HeadEnd(d) <= i
  BY <1>3, LowestOf DEF HeadEnd
<1> QED
  BY <1>1, <1>2, <1>4 DEF Complete

LEMMA SameEnds ==
  ASSUME NEW S, NEW d \in Seq(S), NEW e \in Seq(S), Extends(d, e), NEW i \in 1..Len(d)
  PROVE  i \in LineEnds(e) <=> i \in LineEnds(d)
<1>1. /\ Len(d) \in Nat /\ DOMAIN d = 1..Len(d)
      /\ Len(e) \in Nat /\ DOMAIN e = 1..Len(e)
  BY LenProperties
<1> QED
  BY <1>1 DEF LineEnds, Extends

LEMMA SameHead ==
  ASSUME NEW S, NEW d \in Seq(S), NEW e \in Seq(S), Extends(d, e), Complete(d) # {}
  PROVE  /\ Complete(e) # {} /\ HeadEnd(e) = HeadEnd(d)
         /\ RequestLine(e) = RequestLine(d)
<1> DEFINE h == HeadEnd(d)
           g == HeadEnd(e)
<1>1. /\ Len(d) \in Nat /\ DOMAIN d = 1..Len(d)
      /\ Len(e) \in Nat /\ DOMAIN e = 1..Len(e) /\ Len(d) <= Len(e)
  BY LenProperties DEF Extends
<1>2. /\ h \in 1..Len(d) - 1 /\ h \in LineEnds(d) /\ h + 1 \in LineEnds(d)
      /\ \A i \in Complete(d) : h <= i
  BY HeadEnds
<1>3. h \in LineEnds(e) /\ h + 1 \in LineEnds(e)
  BY <1>1, <1>2, SameEnds
<1>4. h \in Complete(e)
  BY <1>3 DEF Complete
<1>5. /\ g \in 1..Len(e) - 1 /\ g \in LineEnds(e) /\ g + 1 \in LineEnds(e)
      /\ \A i \in Complete(e) : g <= i
  BY <1>4, HeadEnds
<1> HIDE DEF g, h
<1>6. g <= h
  BY <1>4, <1>5
<1>7. g \in LineEnds(d) /\ g + 1 \in LineEnds(d)
  <2>1. g \in 1..Len(d) /\ g + 1 \in 1..Len(d)
    BY <1>1, <1>2, <1>5, <1>6
  <2> QED
    BY <1>5, <2>1, SameEnds
<1>8. g = h
  <2>1. g \in Complete(d)
    BY <1>7 DEF Complete
  <2> QED
    BY <1>1, <1>2, <1>5, <1>6, <2>1
<1>9. RequestLine(e) = RequestLine(d)
  <2> DEFINE l == Lowest(LineEnds(d))
             k == Lowest(LineEnds(e))
  <2>0. LineEnds(d) \subseteq Nat /\ LineEnds(e) \subseteq Nat
    BY <1>1 DEF LineEnds
  <2>1. l \in LineEnds(d) /\ \A y \in LineEnds(d) : l <= y
    BY <1>2, <2>0, LowestOf
  <2>2. k \in LineEnds(e) /\ \A y \in LineEnds(e) : k <= y
    BY <1>3, <2>0, LowestOf
  <2>3. l \in 1..Len(d) /\ k \in 1..Len(e)
    BY <1>1, <2>1, <2>2 DEF LineEnds
  <2> HIDE DEF k, l
  <2>4. l \in LineEnds(e) /\ k <= l
    BY <2>1, <2>2, <2>3, SameEnds
  <2>5. k \in LineEnds(d)
    <3>1. k \in 1..Len(d)
      BY <1>1, <2>3, <2>4
    <3> QED
      BY <2>2, <3>1, SameEnds
  <2>6. k = l
    BY <2>1, <2>3, <2>4, <2>5
  <2>7. e[1] = d[1]
    <3>1. 1 \in 1..Len(d)
      BY <1>1, <2>3
    <3> QED
      BY <3>1 DEF Extends
  <2> QED
    BY <2>6, <2>7 DEF RequestLine, k, l
<1> QED
  BY <1>4, <1>8, <1>9 DEF g, h

LEMMA SameHeaders ==
  ASSUME NEW S, NEW d \in Seq(S), NEW e \in Seq(S), Extends(d, e), Complete(d) # {},
         NEW kinds
  PROVE  Given(e, kinds) = Given(d, kinds) /\ LastOf(e, kinds) = LastOf(d, kinds)
<1> DEFINE h == HeadEnd(d)
<1>1. Len(d) \in Nat
  BY LenProperties
<1>2. h \in 1..Len(d) - 1 /\ HeadEnd(e) = h
  BY HeadEnds, SameHead
<1> HIDE DEF h
<1>3. ASSUME NEW i \in 2..h - 1
      PROVE  /\ i - 1 \in LineEnds(e) <=> i - 1 \in LineEnds(d)
             /\ HeaderAt(e, i) = HeaderAt(d, i) /\ e[i] = d[i]
  <2>1. i \in 1..Len(d) /\ i + 1 \in 1..Len(d) /\ i - 1 \in 1..Len(d)
    BY <1>1, <1>2
  <2>2. e[i] = d[i]
    BY <2>1 DEF Extends
  <2>3. /\ i + 1 \in LineEnds(e) <=> i + 1 \in LineEnds(d)
        /\ i - 1 \in LineEnds(e) <=> i - 1 \in LineEnds(d)
    BY <2>1, SameEnds
  <2> QED
    BY <2>2, <2>3 DEF HeaderAt
<1>4. Given(e, kinds) = Given(d, kinds)
  BY <1>2, <1>3 DEF Given, h
<1>5. CASE Given(d, kinds) = {}
  BY <1>4, <1>5 DEF LastOf
<1>6. CASE Given(d, kinds) # {}
  <2> DEFINE T == Given(d, kinds)
  <2>1. T \subseteq 2..h - 1
    BY DEF Given, h
  <2>2. T \subseteq 0..Len(d)
    BY <1>1, <1>2, <2>1
  <2> HIDE DEF T
  <2>3. T # {}
    BY <1>6 DEF T
  <2>4. Highest(T) \in T
    BY <1>1, <2>2, <2>3, HighestOf
  <2>5. e[Highest(T)] = d[Highest(T)]
    BY <1>3, <2>1, <2>4
  <2> QED
    BY <1>4, <1>6, <2>5 DEF LastOf, T
<1> QED
  BY <1>4, <1>5, <1>6

LEMMA LengthRange == \A h : Length(h) \in 0..2
BY DEF Length

LEMMA ConsumedRange ==
  ASSUME NEW S, NEW d \in Seq(S), Complete(d) # {}
  PROVE  Consumed(d) \in Nat \ {0}
<1>1. HeadEnd(d) \in 1..Len(d) - 1 /\ Len(d) \in Nat
  BY HeadEnds, LenProperties
<1> QED
  BY <1>1, LengthRange DEF Consumed

(* What is parsed is there. *)
LEMMA ParsedFits ==
  ASSUME NEW S, NEW d \in Seq(S), ParseState(d) = "parsed"
  PROVE  Complete(d) # {} /\ Consumed(d) \in 1..Len(d)
<1>1. Complete(d) # {} /\ ~(Len(d) < Consumed(d))
  BY DEF ParseState
<1> QED
  BY <1>1, ConsumedRange, LenProperties

LEMMA SameParse ==
  ASSUME NEW S, NEW d \in Seq(S), NEW e \in Seq(S), Extends(d, e)
  PROVE  /\ ParseState(d) = "throws" => ParseState(e) = "throws"
         /\ ParseState(d) = "parsed" =>
               /\ ParseState(e) = "parsed" /\ Consumed(e) = Consumed(d)
               /\ RequestLine(e) = RequestLine(d) /\ IsKeepAlive(e) = IsKeepAlive(d)
<1>1. CASE Complete(d) = {}
  BY <1>1 DEF ParseState
<1>2. CASE Complete(d) # {}
  <2>1. Complete(e) # {} /\ HeadEnd(e) = HeadEnd(d) /\ RequestLine(e) = RequestLine(d)
    BY <1>2, SameHead
  <2>2. \A kinds : Given(e, kinds) = Given(d, kinds) /\ LastOf(e, kinds) = LastOf(d, kinds)
    BY <1>2, SameHeaders
  <2>3. IsKeepAlive(e) = IsKeepAlive(d) /\ Consumed(e) = Consumed(d)
    BY <2>1, <2>2, Zenon DEF IsKeepAlive, Consumed
  <2>4. ASSUME ParseState(d) = "throws" PROVE ParseState(e) = "throws"
    BY <1>2, <2>1, <2>2, <2>4 DEF ParseState
  <2>5. ASSUME ParseState(d) = "parsed" PROVE ParseState(e) = "parsed"
    <3>1. ~(Given(d, {"short"}) # {} \/ LastOf(d, Lengths) = "lengthX") /\ ~(Len(d) < Consumed(d))
      BY <1>2, <2>5 DEF ParseState
    <3>2. /\ Len(d) \in Nat /\ Len(e) \in Nat /\ Consumed(d) \in Nat /\ Len(d) <= Len(e)
      BY <1>2, ConsumedRange, LenProperties DEF Extends
    <3>3. ~(Len(e) < Consumed(e))
      BY <2>3, <3>1, <3>2
    <3> QED
      BY <2>1, <2>2, <3>1, <3>3, Zenon DEF ParseState
  <2> QED
    BY <2>1, <2>3, <2>4, <2>5
<1> QED
  BY <1>1, <1>2

-----------------------------------------------------------------------------
(* What is owed to a request and to those behind it. *)
Behind(s, p) == SubSeq(s, p + 1, Len(s))
Part(s, f, p) ==
    IF ParseState(Behind(s, p)) # "parsed" THEN <<>>
    ELSE Whole(Route(RequestLine(Behind(s, p))))
         \o (IF IsKeepAlive(Behind(s, p)) THEN f[p + Consumed(Behind(s, p))] ELSE <<>>)
AnswersFrom(s) == CHOOSE f : f = [p \in 0..Len(s) |-> Part(s, f, p)]

LEMMA RestOK ==
  ASSUME NEW S, NEW s \in Seq(S), NEW p \in 0..Len(s)
  PROVE  /\ Behind(s, p) \in Seq(S) /\ Len(Behind(s, p)) = Len(s) - p
         /\ \A i \in 1..Len(s) - p : Behind(s, p)[i] = s[p + i]
<1>1. Len(s) \in Nat
  BY LenProperties
<1>2. \A i \in p + 1..Len(s) : s[i] \in S
  BY <1>1, ElementOfSeq
<1>3. /\ SubSeq(s, p + 1, Len(s)) \in Seq(S)
      /\ Len(SubSeq(s, p + 1, Len(s))) = IF p + 1 <= Len(s) THEN Len(s) - (p + 1) + 1 ELSE 0
      /\ \A i \in 1..Len(s) - (p + 1) + 1 : SubSeq(s, p + 1, Len(s))[i] = s[p + 1 + i - 1]
  BY <1>1, <1>2, SubSeqProperties
<1> QED
  BY <1>1, <1>3 DEF Behind

LEMMA WholeOK ==
  ASSUME NEW r \in Replies
  PROVE  /\ HeadOf(r) \in Seq(Pieces) /\ r.content \in Seq(Pieces) /\ r.file \in Seq(Pieces)
         /\ HeadOf(r) \o r.content \in Seq(Pieces)
         /\ Whole(r) = (HeadOf(r) \o r.content) \o r.file /\ Whole(r) \in Seq(Pieces)
<1>1. r.status \in Pieces /\ r.content \in Seq(Pieces) /\ r.file \in Seq(Pieces)
  BY DEF Replies
<1> DEFINE a == <<r.status>>
           b == IF r.sized THEN <<"length">> ELSE <<>>
           c == <<"end">>
<1>2. a \in Seq(Pieces) /\ b \in Seq(Pieces) /\ c \in Seq(Pieces)
  BY <1>1, FixedPieces
<1>3. HeadOf(r) = a \o b \o c
  BY DEF HeadOf
<1> HIDE DEF a, b, c
<1>4. HeadOf(r) \in Seq(Pieces)
  BY <1>2, <1>3, ConcatProperties
<1>5. HeadOf(r) \o r.content \in Seq(Pieces)
  BY <1>1, <1>4, ConcatProperties
<1>6. (HeadOf(r) \o r.content) \o r.file \in Seq(Pieces)
  BY <1>1, <1>5, ConcatProperties
<1> QED
  BY <1>1, <1>4, <1>5, <1>6 DEF Whole

(* A part is made of pieces, and of what is owed behind it only. *)
LEMMA PartOf ==
  ASSUME NEW s \in Seq(Bytes), NEW p \in 0..Len(s), NEW f,
         \A q \in p + 1..Len(s) : f[q] \in Seq(Pieces)
  PROVE  /\ Part(s, f, p) \in Seq(Pieces)
         /\ \A g : (\A q \in p + 1..Len(s) : g[q] = f[q]) => Part(s, g, p) = Part(s, f, p)
<1> DEFINE r == Behind(s, p)
           q == p + Consumed(r)
           w == Whole(Route(RequestLine(r)))
<1>1. CASE ParseState(r) # "parsed"
  BY <1>1, EmptySeq DEF Part
<1>2. CASE ParseState(r) = "parsed"
  <2>1. r \in Seq(Bytes) /\ Len(r) = Len(s) - p /\ Len(s) \in Nat
    BY RestOK, LenProperties
  <2>2. Consumed(r) \in 1..Len(r)
    BY <1>2, <2>1, ParsedFits
  <2>3. q \in p + 1..Len(s)
    BY <2>1, <2>2
  <2>4. w \in Seq(Pieces) /\ <<>> \in Seq(Pieces)
    BY RouteOK, WholeOK, EmptySeq
  <2>5. \A g : Part(s, g, p) = w \o (IF IsKeepAlive(r) THEN g[q] ELSE <<>>)
    BY <1>2 DEF Part
  <2> HIDE DEF q, w, r
  <2>6. f[q] \in Seq(Pieces)
    BY <2>3
  <2>7. w \o f[q] \in Seq(Pieces) /\ w \o <<>> \in Seq(Pieces)
    BY <2>4, <2>6, ConcatProperties
  <2> QED
    BY <2>3, <2>5, <2>7
<1> QED
  BY <1>1, <1>2

LEMMA Fixpoint ==
  ASSUME NEW s \in Seq(Bytes)
  PROVE  \E f : f = [p \in 0..Len(s) |-> Part(s, f, p)]
<1> DEFINE n == Len(s)
           F == [0..n -> Seq(Pieces)]
           K == {k \in Nat : \E f \in F : \A p \in 0..n : p >= n - k => f[p] = Part(s, f, p)}
<1>1. n \in Nat
  BY LenProperties
<1> HIDE DEF n
<1>2. 0 \in K
  <2> DEFINE f == [p \in 0..n |-> <<>>]
  <2>1. f \in F
    BY EmptySeq
  <2>2. Part(s, f, n) = <<>>
    <3>1. Behind(s, n) \in Seq(Bytes) /\ Len(Behind(s, n)) = 0
      BY <1>1, RestOK DEF n
    <3>2. ParseState(Behind(s, n)) # "parsed"
      <4> SUFFICES ASSUME ParseState(Behind(s, n)) = "parsed" PROVE FALSE
        OBVIOUS
      <4>1. Consumed(Behind(s, n)) \in 1..Len(Behind(s, n))
        BY <3>1, ParsedFits
      <4> QED
        BY <3>1, <4>1
    <3> QED
      BY <3>2 DEF Part
  <2>3. \A p \in 0..n : p >= n - 0 => f[p] = Part(s, f, p)
    BY <1>1, <2>2
  <2> QED
    BY <2>1, <2>3
<1>3. ASSUME NEW k \in Nat, k \in K PROVE k + 1 \in K
  <2>1. PICK f \in F : \A p \in 0..n : p >= n - k => f[p] = Part(s, f, p)
    BY <1>3
  <2>2. CASE k >= n
    BY <1>1, <2>1, <2>2
  <2>3. CASE ~(k >= n)
    <3> DEFINE m == n - k - 1
               g == [f EXCEPT ![m] = Part(s, f, m)]
    <3>1. m \in 0..n
      BY <1>1, <2>3
    <3>2. Part(s, f, m) \in Seq(Pieces)
      <4>1. \A q \in m + 1..n : f[q] \in Seq(Pieces)
        BY <1>1, <3>1
      <4> QED
        BY <3>1, <4>1, PartOf DEF n
    <3>3. g \in F /\ \A q \in 0..n : g[q] = IF q = m THEN Part(s, f, m) ELSE f[q]
      BY <3>1, <3>2
    <3> HIDE DEF g
    <3>4. ASSUME NEW p \in 0..n, p >= m PROVE g[p] = Part(s, g, p)
      <4>1. \A q \in p + 1..n : f[q] \in Seq(Pieces) /\ g[q] = f[q]
        BY <1>1, <3>1, <3>3, <3>4
      <4>2. Part(s, g, p) = Part(s, f, p)
        BY <4>1, PartOf DEF n
      <4>3. CASE p = m
        BY <3>1, <3>3, <4>2, <4>3
      <4>4. CASE p # m
        <5>1. p >= n - k
          BY <1>1, <3>4, <4>4
        <5> QED
          BY <2>1, <3>3, <4>2, <4>4, <5>1
      <4> QED
        BY <4>3, <4>4
    <3>5. \A p \in 0..n : p >= n - (k + 1) => g[p] = Part(s, g, p)
      BY <1>1, <3>4
    <3>6. \E u \in F : \A p \in 0..n : p >= n - (k + 1) => u[p] = Part(s, u, p)
      BY <3>3, <3>5
    <3> HIDE DEF F
    <3> QED
      BY <3>6
  <2> QED
    BY <2>2, <2>3
<1>4. n \in K
  <2> HIDE DEF K
  <2>1. Nat \subseteq K
    BY <1>2, <1>3, NatInd
  <2> QED
    BY <1>1, <2>1
<1>5. PICK f \in F : \A p \in 0..n : f[p] = Part(s, f, p)
  <2>1. PICK f \in F : \A p \in 0..n : p >= n - n => f[p] = Part(s, f, p)
    BY <1>4
  <2> HIDE DEF F
  <2>2. \A p \in 0..n : p >= n - n
    BY <1>1
  <2> QED
    BY <2>1, <2>2
<1>6. f = [p \in 0..n |-> Part(s, f, p)]
  BY <1>5
<1> QED
  BY <1>6 DEF n

LEMMA AnswersUnfold ==
  ASSUME NEW s \in Seq(Bytes)
  PROVE  /\ Answers(s) = AnswersFrom(s)[0]
         /\ AnswersFrom(s) \in [0..Len(s) -> Seq(Pieces)]
         /\ \A p \in 0..Len(s) : AnswersFrom(s)[p] = Part(s, AnswersFrom(s), p)
<1> DEFINE g == AnswersFrom(s)
           n == Len(s)
<1>1. Answers(s) = g[0]
  BY DEF Answers, AnswersFrom, Part, Behind
<1>2. g = [p \in 0..n |-> Part(s, g, p)]
  <2>1. \E f : f = [p \in 0..Len(s) |-> Part(s, f, p)]
    BY Fixpoint
  <2> QED
    BY <2>1, Zenon DEF AnswersFrom
<1> HIDE DEF g
<1>3. \A p \in 0..n : g[p] = Part(s, g, p)
  BY <1>2, Zenon
<1>4. n \in Nat
  BY LenProperties
<1> HIDE DEF n
<1> DEFINE K == {k \in Nat : \A p \in 0..n : p > n - k => g[p] \in Seq(Pieces)}
<1>5. 0 \in K
  BY <1>4
<1>6. ASSUME NEW k \in Nat, k \in K PROVE k + 1 \in K
  <2>1. ASSUME NEW p \in 0..n, p > n - (k + 1) PROVE g[p] \in Seq(Pieces)
    <3>1. \A q \in p + 1..n : g[q] \in Seq(Pieces)
      BY <1>4, <1>6, <2>1
    <3>2. Part(s, g, p) \in Seq(Pieces)
      BY <3>1, PartOf DEF n
    <3> QED
      BY <1>3, <3>2
  <2> QED
    BY <2>1
<1>7. n + 1 \in K
  <2> HIDE DEF K
  <2>1. Nat \subseteq K
    BY <1>5, <1>6, NatInd
  <2> QED
    BY <1>4, <2>1
<1>8. \A p \in 0..n : g[p] \in Seq(Pieces)
  BY <1>4, <1>7
<1>9. g \in [0..n -> Seq(Pieces)]
  <2>1. [p \in 0..n |-> Part(s, g, p)] \in [0..n -> Seq(Pieces)]
    BY <1>3, <1>8
  <2> QED
    BY <1>2, <2>1, Zenon
<1> QED
  BY <1>1, <1>3, <1>9 DEF g, n

-----------------------------------------------------------------------------
(* The write buffer is empty when a response is put into it, and holds no more than
   the status, the length and the end when it grows for the content: it never grows
   over its size, and loses nothing. *)
LEMMA ExpandWhole ==
  ASSUME NEW B, NEW b, Fits(b, B), NEW n \in Nat \ {0}, Len(b.data) <= b.size
  PROVE  Expand(b, n).data = b.data /\ Expand(b, n).size >= b.size
<1> DEFINE a == Adjust(b)
           c == Resize(a, a.cap + n)
<1>1. /\ a.from = 0 /\ a.data = b.data /\ a.cap = b.cap /\ a.size = b.size
      /\ b.data \in Seq(Bytelike(B)) /\ Len(b.data) \in Nat
      /\ b.cap \in Nat /\ b.size \in Nat \ {0} /\ b.size <= b.cap
  BY LenProperties DEF Fits, Adjust, End, Shape
<1>2. Expand(b, n) = IF n > Room(a) THEN c ELSE a
  BY DEF Expand
<1>3. c.data = b.data /\ c.size = b.cap + n
  <2>1. c.data = [i \in 1..Len(b.data) |-> b.data[i]]
    BY <1>1 DEF Resize
  <2>2. b.data = [i \in 1..Len(b.data) |-> b.data[i]]
    BY <1>1, LenProperties
  <2> QED
    BY <1>1, <2>1, <2>2 DEF Resize
<1> HIDE DEF a, c
<1>4. c.size >= b.size
  BY <1>1, <1>3
<1> QED
  BY <1>1, <1>2, <1>3, <1>4

LEMMA PushBackWhole ==
  ASSUME NEW B, NEW b, BufferOK(b, B), NEW s \in Seq(Bytelike(B)), Len(b.data) <= b.size
  PROVE  /\ PushBack(b, s).data = b.data \o s /\ PushBack(b, s).size >= b.size
         /\ BufferOK(PushBack(b, s), B)
<1> DEFINE a == IF Len(s) + 1 > Room(b) THEN Expand(b, Len(s) + 1) ELSE b
<1>1. Fits(b, B) /\ Len(s) \in Nat /\ b.size \in Nat
  BY OKFits, LenProperties DEF BufferOK
<1>2. Len(s) + 1 \in Nat \ {0}
  BY <1>1
<1>3. a.data = b.data /\ a.size >= b.size /\ Fits(a, B)
  BY <1>1, <1>2, ExpandWhole, ExpandFits
<1> HIDE DEF a
<1>4. PushBack(b, s) = [a EXCEPT !.data = a.data \o s]
  BY DEF PushBack, a
<1> DEFINE d == a.data \o s
           c == PushBack(b, s)
<1>5. c = [size |-> a.size, cap |-> a.cap, from |-> a.from, data |-> d]
  BY <1>3, <1>4 DEF Fits, Shape
<1>6. d = b.data \o s
  BY <1>3
<1>7. BufferOK(c, B)
  BY <1>1, PushBackOK
<1> HIDE DEF c, d
<1>8. c.size = a.size /\ c.data = d
  BY <1>5
<1> QED
  BY <1>3, <1>6, <1>7, <1>8 DEF c

LEMMA GetResponseWhole ==
  ASSUME NEW b, BufferOK(b, Pieces), b.data = <<>>, b.size >= InitSize, NEW r \in Replies
  PROVE  /\ GetResponse(r, b).data = HeadOf(r) \o r.content
         /\ GetResponse(r, b).size >= InitSize
<1> DEFINE P == Bytelike(Pieces)
           s1 == <<r.status>>
           s2 == <<"length">>
           s3 == <<"end">>
           b1 == PushBack(b, s1)
           b2 == IF r.sized THEN PushBack(b1, s2) ELSE b1
           b3 == PushBack(b2, s3)
           h2 == <<r.status>> \o (IF r.sized THEN <<"length">> ELSE <<>>)
<1>1. r.status \in Pieces /\ r.content \in Seq(Pieces) /\ r.sized \in BOOLEAN
  BY DEF Replies
<1>2. s1 \in Seq(P) /\ s2 \in Seq(P) /\ s3 \in Seq(P) /\ r.content \in Seq(P)
  <2>1. s1 \in Seq(Pieces) /\ s2 \in Seq(Pieces) /\ s3 \in Seq(Pieces)
    BY <1>1, FixedPieces
  <2> HIDE DEF s1, s2, s3
  <2> QED
    BY <1>1, <2>1, BytesWide
<1>3. InitSize \in Nat /\ InitSize > 3 /\ b.size \in Nat
  BY SizesAssumption DEF BufferOK
<1>4. b1.data = <<r.status>> /\ b1.size >= b.size /\ BufferOK(b1, Pieces) /\ b1.size \in Nat
  <2>1. Len(b.data) <= b.size
    BY <1>3, EmptySeq
  <2>2. <<>> \o s1 = s1
    BY <1>2, ConcatEmptySeq
  <2> HIDE DEF s1
  <2>3. b1.data = s1 /\ b1.size >= b.size /\ BufferOK(b1, Pieces)
    BY <1>2, <2>1, <2>2, PushBackWhole
  <2> QED
    BY <2>3 DEF BufferOK, s1
<1> HIDE DEF b1
<1>5. b2.data = h2 /\ b2.size >= b.size /\ BufferOK(b2, Pieces) /\ b2.size \in Nat
  <2>1. CASE r.sized
    <3>1. Len(b1.data) <= b1.size
      BY <1>3, <1>4
    <3> DEFINE c == PushBack(b1, s2)
    <3>2. c.data = b1.data \o s2 /\ c.size >= b1.size /\ BufferOK(c, Pieces)
      BY <1>2, <1>4, <3>1, PushBackWhole
    <3>3. b1.data \o s2 = h2
      BY <1>4, <2>1
    <3>4. c.size \in Nat
      BY <3>2 DEF BufferOK
    <3>5. b2 = c
      BY <2>1
    <3> HIDE DEF c, b2, h2
    <3> QED
      BY <1>3, <1>4, <3>2, <3>3, <3>4, <3>5
  <2>2. CASE ~r.sized
    <3>1. s1 \o <<>> = s1
      BY <1>2, ConcatEmptySeq
    <3> QED
      BY <1>4, <2>2, <3>1
  <2> QED
    BY <2>1, <2>2
<1> HIDE DEF b2
<1>6. b3.data = HeadOf(r) /\ b3.size >= b.size /\ BufferOK(b3, Pieces) /\ b3.size \in Nat
  <2>1. Len(b2.data) <= b2.size
    BY <1>3, <1>5
  <2>2. b3.data = b2.data \o s3 /\ b3.size >= b2.size /\ BufferOK(b3, Pieces)
    BY <1>2, <1>5, <2>1, PushBackWhole
  <2>3. b2.data \o s3 = HeadOf(r)
    BY <1>5, Zenon DEF HeadOf
  <2>4. b3.size \in Nat
    BY <2>2 DEF BufferOK
  <2> HIDE DEF b3
  <2> QED
    BY <1>3, <1>5, <2>2, <2>3, <2>4
<1> HIDE DEF b3
<1>7. GetResponse(r, b) = IF r.content = <<>> THEN b3 ELSE PushBack(b3, r.content)
  BY DEF GetResponse, b1, b2, b3
<1>8. Len(b3.data) <= b3.size
  BY <1>3, <1>6 DEF HeadOf
<1>9. CASE r.content = <<>>
  <2>1. HeadOf(r) \o <<>> = HeadOf(r)
    BY WholeOK, ConcatEmptySeq
  <2> QED
    BY <1>3, <1>6, <1>7, <1>9, <2>1
<1>10. CASE r.content # <<>>
  <2> DEFINE c == PushBack(b3, r.content)
  <2>1. c.data = b3.data \o r.content /\ c.size >= b3.size /\ BufferOK(c, Pieces)
    BY <1>2, <1>6, <1>8, PushBackWhole
  <2>2. c.size \in Nat
    BY <2>1 DEF BufferOK
  <2>3. GetResponse(r, b) = c
    BY <1>7, <1>10
  <2> HIDE DEF c
  <2> QED
    BY <1>3, <1>6, <2>1, <2>2, <2>3
<1> QED
  BY <1>9, <1>10

-----------------------------------------------------------------------------
(* What the client has got, what is still to be written, and what is owed to the
   requests that are not parsed yet are together the answers to all it has sent,
   and to all that it may have sent by the time the next request is parsed. *)
Text(f)     == SubSeq(script, 1, f)
Left        == wbuf.data \o SubSeq(reply.file, Len(reply.file) - tail + 1, Len(reply.file))
GoesOn ==
    \/ mode \in {"waiting", "reading"}
    \/ keepAlive /\ (mode = "writing" \/ (mode = "closed" /\ reply.mapped = "failed"))
Ahead(f, n) == IF GoesOn THEN AnswersFrom(Text(f))[n] ELSE <<>>
Ledger(n)   == \A f \in sent..Len(script) : Answers(Text(f)) = got \o (Left \o Ahead(f, n))
ReplyInv ==
    /\ ReadInv
    /\ got \in Seq(Bytelike(Pieces)) /\ wbuf.size >= InitSize
    /\ mode = "waiting" => ParseState(rbuf.data) = "incomplete"
    /\ Narrow => \E n \in 0..sent : Unread(n) /\ Ledger(n)

LEMMA TextOK ==
  ASSUME TypeOK, NEW f \in 0..Len(script)
  PROVE  /\ Text(f) \in Seq(Bytes) /\ Len(Text(f)) = f /\ Len(script) \in Nat
         /\ \A i \in 1..f : Text(f)[i] = script[i]
<1>1. script \in Seq(Bytes) /\ Len(script) \in Nat
  BY ScriptsAssumption, LenProperties DEF TypeOK
<1>2. \A i \in 1..f : script[i] \in Bytes
  BY <1>1, ElementOfSeq
<1>3. /\ SubSeq(script, 1, f) \in Seq(Bytes)
      /\ Len(SubSeq(script, 1, f)) = IF 1 <= f THEN f - 1 + 1 ELSE 0
      /\ \A i \in 1..f - 1 + 1 : SubSeq(script, 1, f)[i] = script[1 + i - 1]
  BY <1>2, SubSeqProperties
<1> QED
  BY <1>1, <1>3 DEF Text

(* What is in the buffer is the beginning of what is behind the last request. *)
LEMMA BufferedIsBehind ==
  ASSUME TypeOK, NEW n \in 0..sent, Unread(n), NEW f \in sent..Len(script)
  PROVE  /\ Behind(Text(f), n) \in Seq(Bytelike(Bytes)) /\ rbuf.data \in Seq(Bytelike(Bytes))
         /\ Text(f) \in Seq(Bytes) /\ n \in 0..Len(Text(f))
         /\ Extends(rbuf.data, Behind(Text(f), n))
         /\ f = sent /\ arrived = <<>> => rbuf.data = Behind(Text(f), n)
<1> DEFINE S == Bytelike(Bytes)
           d == rbuf.data
           e == Behind(Text(f), n)
           t == SubSeq(script, n + 1, sent)
<1>1. /\ d \in Seq(S) /\ arrived \in Seq(S) /\ script \in Seq(S) /\ Len(script) \in Nat
      /\ sent \in 0..Len(script) /\ Len(d) \in Nat /\ Len(arrived) \in Nat
  BY ReadTypes
<1>2. f \in 0..Len(script) /\ n \in 0..f
  BY <1>1
<1>3. /\ Text(f) \in Seq(Bytes) /\ Len(Text(f)) = f
      /\ \A i \in 1..f : Text(f)[i] = script[i]
  BY <1>2, TextOK
<1>4. e \in Seq(Bytes) /\ Len(e) = f - n /\ \A i \in 1..f - n : e[i] = Text(f)[n + i]
  <2> DEFINE T == Text(f)
  <2>1. T \in Seq(Bytes) /\ Len(T) = f /\ n \in 0..Len(T)
    BY <1>2, <1>3
  <2> HIDE DEF T
  <2>2. Behind(T, n) \in Seq(Bytes) /\ Len(Behind(T, n)) = f - n /\ \A i \in 1..f - n : Behind(T, n)[i] = T[n + i]
    BY <2>1, RestOK
  <2> QED
    BY <2>2 DEF T
<1>5. e \in Seq(S)
  BY <1>4, BytesWide
<1> HIDE DEF e, S
<1>6. \A i \in 1..f - n : e[i] = script[n + i]
  <2>1. \A i \in 1..f - n : n + i \in 1..f
    BY <1>1, <1>2
  <2> QED
    BY <1>3, <1>4, <2>1
<1>7. Len(t) = sent - n /\ \A i \in 1..sent - n : t[i] = script[n + i]
  <2>1. \A i \in n + 1..sent : script[i] \in S
    BY <1>1, ElementOfSeq
  <2>2. /\ Len(t) = IF n + 1 <= sent THEN sent - (n + 1) + 1 ELSE 0
        /\ \A i \in 1..sent - (n + 1) + 1 : t[i] = script[n + 1 + i - 1]
    BY <1>1, <2>1, SubSeqProperties
  <2> QED
    BY <1>1, <2>2
<1>8. d \o arrived = t
  BY DEF Unread
<1> HIDE DEF t, d
<1>9. /\ Len(t) = Len(d) + Len(arrived)
      /\ \A i \in 1..Len(d) : t[i] = d[i]
  <2>1. /\ Len(d \o arrived) = Len(d) + Len(arrived)
        /\ \A i \in 1..Len(d) + Len(arrived) : (d \o arrived)[i] = IF i <= Len(d) THEN d[i] ELSE arrived[i - Len(d)]
    BY <1>1, ConcatProperties
  <2> QED
    BY <1>1, <1>8, <2>1
<1>10. Len(d) <= Len(e)
  BY <1>1, <1>2, <1>4, <1>7, <1>9
<1>11. \A i \in 1..Len(d) : e[i] = d[i]
  BY <1>1, <1>2, <1>6, <1>7, <1>9
<1>12. ASSUME f = sent, arrived = <<>> PROVE d = e
  <2>1. Len(d) = Len(e)
    BY <1>1, <1>4, <1>7, <1>9, <1>12, EmptySeq
  <2> QED
    BY <1>1, <1>5, <1>11, <2>1, SeqEqual
<1> QED
  BY <1>1, <1>2, <1>3, <1>5, <1>10, <1>11, <1>12 DEF Extends, d, e, S

LEMMA AheadOK ==
  ASSUME TypeOK, NEW n \in 0..sent, NEW f \in sent..Len(script)
  PROVE  /\ Ahead(f, n) \in Seq(Pieces) /\ Answers(Text(f)) \in Seq(Pieces)
         /\ AnswersFrom(Text(f))[n] \in Seq(Pieces)
<1>1. sent \in 0..Len(script) /\ Len(script) \in Nat
  BY ReadTypes
<1>2. f \in 0..Len(script) /\ n \in 0..f /\ 0 \in 0..f
  BY <1>1
<1>3. Text(f) \in Seq(Bytes) /\ Len(Text(f)) = f
  BY <1>2, TextOK
<1>4. AnswersFrom(Text(f)) \in [0..f -> Seq(Pieces)] /\ Answers(Text(f)) = AnswersFrom(Text(f))[0]
  BY <1>3, AnswersUnfold
<1> QED
  BY <1>2, <1>4, EmptySeq DEF Ahead

LEMMA LeftOK ==
  ASSUME TypeOK
  PROVE  /\ Left \in Seq(Bytelike(Pieces)) /\ wbuf.data \in Seq(Bytelike(Pieces))
         /\ head + tail = 0 => Left = <<>>
<1> DEFINE P == Bytelike(Pieces)
           w == wbuf.data
           F == reply.file
           L == Len(F)
           rest == SubSeq(F, L - tail + 1, L)
<1>1. w \in Seq(P) /\ F \in Seq(Pieces) /\ head = Len(w) /\ tail \in 0..L
  BY DEF TypeOK, BufferOK, Bytelike
<1>2. F \in Seq(P) /\ L \in Nat /\ Len(w) \in Nat
  BY <1>1, BytesWide, LenProperties
<1>3. rest \in Seq(P)
  <2>1. L - tail + 1 \in 1..L + 1 /\ L \in 0..L
    BY <1>1, <1>2
  <2> HIDE DEF P
  <2> QED
    BY <1>2, <2>1, PartOK
<1> HIDE DEF P, w
<1>4. w \o rest \in Seq(P)
  BY <1>1, <1>3, ConcatProperties
<1>5. ASSUME head + tail = 0 PROVE Left = <<>>
  <2>1. Len(w) = 0 /\ tail = 0
    BY <1>1, <1>2, <1>5
  <2>2. rest = <<>>
    <3>1. L < L - tail + 1 /\ L - tail + 1 \in Int
      BY <1>2, <2>1
    <3> QED
      BY <1>2, <3>1, SubSeqEmpty
  <2>3. w = <<>>
    BY <1>1, <2>1, EmptySeq
  <2> HIDE DEF rest
  <2>4. w \o rest = <<>>
    BY <1>1, <2>2, <2>3, ConcatEmptySeq
  <2> QED
    BY <2>4 DEF Left, rest, w
<1> QED
  BY <1>1, <1>4, <1>5 DEF Left, P, w

LEMMA ReplyInit == Init => ReplyInv
<1> SUFFICES ASSUME Init PROVE ReplyInv
  OBVIOUS
<1>1. ReadInv /\ TypeOK
  BY ReadInit DEF ReadInv
<1>2. /\ rbuf.data = <<>> /\ arrived = <<>> /\ sent = 0 /\ mode = "waiting" /\ got = <<>>
      /\ wbuf.size = InitSize /\ head + tail = 0
  BY DEF Init, NewBuffer
<1>3. got \in Seq(Bytelike(Pieces)) /\ wbuf.size >= InitSize
  BY <1>2, EmptySeq, SizesAssumption
<1>4. ParseState(rbuf.data) = "incomplete"
  <2>1. DOMAIN rbuf.data = {}
    <3>1. rbuf.data \in Seq(Bytes) /\ Len(rbuf.data) = 0
      BY <1>2, EmptySeq
    <3>2. DOMAIN rbuf.data = 1..Len(rbuf.data)
      BY <3>1, LenProperties
    <3> QED
      BY <3>1, <3>2
  <2>2. Complete(rbuf.data) = {}
    BY <2>1 DEF Complete, LineEnds
  <2> QED
    BY <2>2 DEF ParseState
<1>5. 0 \in 0..sent /\ Unread(0)
  <2>1. rbuf.data \o arrived = <<>> /\ SubSeq(script, 0 + 1, 0) = <<>>
    <3>1. <<>> \in Seq(Bytes)
      BY EmptySeq
    <3> QED
      BY <1>2, <3>1, ConcatEmptySeq, SubSeqEmpty
  <2> QED
    BY <1>2, <2>1 DEF Unread
<1>6. Ledger(0)
  <2>1. ASSUME NEW f \in sent..Len(script)
        PROVE  Answers(Text(f)) = got \o (Left \o Ahead(f, 0))
    <3>1. f \in 0..Len(script)
      BY <1>2
    <3>2. Answers(Text(f)) = AnswersFrom(Text(f))[0]
      BY <1>1, <3>1, TextOK, AnswersUnfold
    <3>3. Ahead(f, 0) = Answers(Text(f))
      BY <1>2, <3>2 DEF Ahead, GoesOn
    <3>4. Ahead(f, 0) \in Seq(Pieces)
      BY <1>1, <1>5, AheadOK
    <3>5. Left = <<>>
      BY <1>1, <1>2, LeftOK
    <3> QED
      BY <1>2, <3>3, <3>4, <3>5, ConcatEmptySeq
  <2> QED
    BY <2>1 DEF Ledger
<1> QED
  BY <1>1, <1>3, <1>4, <1>5, <1>6 DEF ReplyInv

(* What does not touch the books keeps them. *)
LEMMA LedgerKept ==
  ASSUME NEW m, Ledger(m), sent \in Nat, sent' \in Nat, sent <= sent',
         script' = script, got' = got, Left' = Left, GoesOn' = GoesOn
  PROVE  Ledger(m)'
<1>1. ASSUME NEW f \in sent'..Len(script)
      PROVE  Answers(Text(f)') = got' \o (Left' \o Ahead(f, m)')
  <2>1. Text(f)' = Text(f)
    BY DEF Text
  <2>2. Ahead(f, m)' = Ahead(f, m)
    BY <2>1 DEF Ahead
  <2>3. f \in sent..Len(script)
    BY <1>1
  <2>4. Answers(Text(f)) = got \o (Left \o Ahead(f, m))
    BY <2>3 DEF Ledger
  <2> QED
    BY <2>1, <2>2, <2>4
<1> QED
  BY <1>1 DEF Ledger

LEMMA ReplySend ==
  ASSUME ReplyInv, NEW n \in 1..Len(script), Send(n), ReadInv' PROVE ReplyInv'
<1>1. /\ script' = script /\ got' = got /\ Left' = Left /\ GoesOn' = GoesOn
      /\ mode' = mode /\ rbuf' = rbuf /\ wbuf' = wbuf
  BY DEF Send, Left, GoesOn
<1>2. ASSUME Narrow PROVE \E m \in 0..sent' : Unread(m)' /\ Ledger(m)'
  <2> PICK m \in 0..sent : Unread(m) /\ Ledger(m)
    BY <1>2 DEF ReplyInv
  <2>1. m \in 0..sent' /\ Unread(m)'
    BY <1>2, ReadSend DEF ReplyInv
  <2>2. sent \in Nat /\ sent' \in Nat /\ sent <= sent'
    BY DEF ReplyInv, ReadInv, TypeOK, Send
  <2> QED
    BY <1>1, <2>1, <2>2, LedgerKept
<1> QED
  BY <1>1, <1>2 DEF ReplyInv

LEMMA ReplyRead == ASSUME ReplyInv, Read, ReadInv' PROVE ReplyInv'
<1>1. /\ script' = script /\ got' = got /\ Left' = Left /\ GoesOn' = GoesOn
      /\ mode' = "reading" /\ wbuf' = wbuf /\ sent' = sent
  BY DEF Read, Left, GoesOn
<1>2. ASSUME Narrow PROVE \E m \in 0..sent' : Unread(m)' /\ Ledger(m)'
  <2> PICK m \in 0..sent : Unread(m) /\ Ledger(m)
    BY <1>2 DEF ReplyInv
  <2>1. m \in 0..sent' /\ Unread(m)'
    BY <1>2, ReadRead DEF ReplyInv
  <2>2. sent \in Nat /\ sent' \in Nat /\ sent <= sent'
    BY <1>1 DEF ReplyInv, ReadInv, TypeOK
  <2> QED
    BY <1>1, <2>1, <2>2, LedgerKept
<1> QED
  BY <1>1, <1>2 DEF ReplyInv

(* The request that is answered is the next one, and its reply the next that is owed. *)
LEMMA NextPart ==
  ASSUME TypeOK, NEW m \in 0..sent, Unread(m), NEW f \in sent..Len(script)
  PROVE  /\ ParseState(rbuf.data) = "throws" => AnswersFrom(Text(f))[m] = <<>>
         /\ ParseState(rbuf.data) = "parsed" =>
               AnswersFrom(Text(f))[m] =
                   Whole(Route(RequestLine(rbuf.data)))
                   \o (IF IsKeepAlive(rbuf.data)
                       THEN AnswersFrom(Text(f))[m + Consumed(rbuf.data)] ELSE <<>>)
<1> DEFINE d == rbuf.data
           T == Text(f)
           e == Behind(T, m)
<1>1. /\ e \in Seq(Bytelike(Bytes)) /\ d \in Seq(Bytelike(Bytes))
      /\ T \in Seq(Bytes) /\ m \in 0..Len(T) /\ Extends(d, e)
  BY BufferedIsBehind
<1>2. AnswersFrom(T)[m] = Part(T, AnswersFrom(T), m)
  BY <1>1, AnswersUnfold
<1>3. /\ ParseState(d) = "throws" => ParseState(e) = "throws"
      /\ ParseState(d) = "parsed" =>
            /\ ParseState(e) = "parsed" /\ Consumed(e) = Consumed(d)
            /\ RequestLine(e) = RequestLine(d) /\ IsKeepAlive(e) = IsKeepAlive(d)
  BY <1>1, SameParse
<1>4. Part(T, AnswersFrom(T), m) =
        IF ParseState(e) # "parsed" THEN <<>>
        ELSE Whole(Route(RequestLine(e)))
             \o (IF IsKeepAlive(e) THEN AnswersFrom(T)[m + Consumed(e)] ELSE <<>>)
  BY DEF Part
<1> HIDE DEF d, e, T
<1>5. ASSUME ParseState(d) = "throws" PROVE AnswersFrom(T)[m] = <<>>
  BY <1>2, <1>3, <1>4, <1>5
<1>6. ASSUME ParseState(d) = "parsed"
      PROVE  AnswersFrom(T)[m] =
               Whole(Route(RequestLine(d)))
               \o (IF IsKeepAlive(d) THEN AnswersFrom(T)[m + Consumed(d)] ELSE <<>>)
  BY <1>2, <1>3, <1>4, <1>6
<1> QED
  BY <1>5, <1>6 DEF d, T

LEMMA ReplyAnswer ==
  ASSUME ReplyInv, ReadInv', Narrow, Answer, UNCHANGED <<script, sent, arrived, got>>,
         GoesOn, head + tail = 0
  PROVE  ReplyInv'
<1> DEFINE d == rbuf.data
           r == Route(RequestLine(d))
<1> PICK m \in 0..sent : Unread(m) /\ Ledger(m)
  BY DEF ReplyInv
<1>0. TypeOK /\ TypeOK' /\ ReadInv
  BY DEF ReplyInv, ReadInv
<1> PICK k \in Nat : k = Consumed(d) /\ k \in 1..Len(d) /\ ParseState(d) = "parsed"
  <2>1. d \in Seq(Bytelike(Bytes)) /\ ParseState(d) = "parsed"
    BY <1>0, ReadTypes DEF Answer
  <2>2. Consumed(d) \in 1..Len(d) /\ Len(d) \in Nat
    BY <2>1, ParsedFits, LenProperties
  <2> HIDE DEF d
  <2> QED
    BY <2>1, <2>2
<1>2. /\ mode' = "writing" /\ rbuf' = PopFront(rbuf, k)
      /\ keepAlive' = IsKeepAlive(d) /\ reply' = r
      /\ wbuf' = GetResponse(r, wbuf) /\ tail' = Len(r.file)
  BY DEF Answer, MakeResponse
<1>3. m + k \in 0..sent' /\ Unread(m + k)'
  <2>1. k \in 0..Len(rbuf.data)
    OBVIOUS
  <2>2. UNCHANGED <<script, sent, arrived>>
    OBVIOUS
  <2> QED
    BY <1>0, <1>2, <2>1, <2>2, ReadPop
<1>4. r \in Replies
  BY RouteOK
<1>5. wbuf'.data = HeadOf(r) \o r.content /\ wbuf'.size >= InitSize
  <2>1. wbuf.data = <<>>
    BY <1>0, EmptySeq, LenProperties DEF TypeOK, BufferOK
  <2>2. BufferOK(wbuf, Pieces) /\ wbuf.size >= InitSize
    BY <1>0 DEF TypeOK, ReplyInv
  <2> HIDE DEF r
  <2> QED
    BY <1>2, <1>4, <2>1, <2>2, GetResponseWhole
<1> HIDE DEF r
<1>6. Left' = Whole(r) /\ Whole(r) \in Seq(Pieces)
  <2>1. r.file \in Seq(Pieces) /\ Len(r.file) \in Nat
    BY <1>4, WholeOK, LenProperties
  <2>2. SubSeq(r.file, Len(r.file) - tail' + 1, Len(r.file)) = r.file
    <3>1. Len(r.file) - tail' + 1 = 1
      BY <1>2, <2>1
    <3> QED
      BY <2>1, <3>1, SubSeqFull
  <2> QED
    BY <1>2, <1>4, <1>5, <2>2, WholeOK DEF Left
<1>7. Left = <<>>
  BY <1>0, LeftOK
<1>8. ASSUME NEW f \in sent..Len(script)
      PROVE  Answers(Text(f)) = got \o (Left' \o Ahead(f, m + k)')
  <2> DEFINE A == AnswersFrom(Text(f))
             z == IF IsKeepAlive(d) THEN A[m + k] ELSE <<>>
  <2>1. Answers(Text(f)) = got \o (<<>> \o A[m])
    BY <1>7 DEF Ledger, Ahead
  <2>2. A[m] \in Seq(Pieces)
    BY <1>0, AheadOK
  <2>3. A[m] = Whole(r) \o z
    BY <1>0, NextPart DEF r
  <2>4. Ahead(f, m + k)' = z
    <3>1. Text(f)' = Text(f)
      BY DEF Text
    <3>2. Ahead(f, m + k)' = IF GoesOn' THEN AnswersFrom(Text(f)')[m + k] ELSE <<>>
      BY DEF Ahead
    <3>3. GoesOn' <=> IsKeepAlive(d)
      BY <1>2 DEF GoesOn
    <3> HIDE DEF d
    <3> QED
      BY <3>1, <3>2, <3>3
  <2>5. <<>> \o A[m] = A[m]
    BY <2>2, ConcatEmptySeq
  <2> HIDE DEF A, z
  <2> QED
    BY <1>6, <2>1, <2>3, <2>4, <2>5
<1>9. Ledger(m + k)'
  BY <1>8 DEF Ledger, Text
<1>10. got' \in Seq(Bytelike(Pieces))
  BY DEF ReplyInv
<1> QED
  BY <1>2, <1>3, <1>5, <1>9, <1>10 DEF ReplyInv

LEMMA ReplyProcess ==
  ASSUME ReplyInv, ReadInv', Process, UNCHANGED <<script, sent, arrived, got>>,
         GoesOn, head + tail = 0
  PROVE  ReplyInv'
<1>0. TypeOK
  BY DEF ReplyInv, ReadInv
<1>1. CASE Await
  <2>1. /\ mode' = "waiting" /\ rbuf' = rbuf /\ wbuf' = wbuf /\ GoesOn' = GoesOn /\ Left' = Left
        /\ ParseState(rbuf.data) = "incomplete"
    BY <1>1 DEF Await, GoesOn, Left
  <2>2. ASSUME Narrow PROVE \E m \in 0..sent' : Unread(m)' /\ Ledger(m)'
    <3> PICK m \in 0..sent : Unread(m) /\ Ledger(m)
      BY <2>2 DEF ReplyInv
    <3>1. m \in 0..sent' /\ Unread(m)' /\ script' = script /\ got' = got
      BY <2>1 DEF Unread
    <3>2. sent \in Nat /\ sent' \in Nat /\ sent <= sent'
      BY <1>0 DEF TypeOK
    <3> QED
      BY <2>1, <3>1, <3>2, LedgerKept
  <2> QED
    BY <1>0, <2>1, <2>2 DEF ReplyInv
<1>2. CASE Abandon
  <2>1. /\ mode' = "abandoned" /\ rbuf' = rbuf /\ wbuf' = wbuf /\ Left' = Left
        /\ ParseState(rbuf.data) = "throws"
    BY <1>2 DEF Abandon, Left
  <2>2. ASSUME Narrow PROVE \E m \in 0..sent' : Unread(m)' /\ Ledger(m)'
    <3> PICK m \in 0..sent : Unread(m) /\ Ledger(m)
      BY <2>2 DEF ReplyInv
    <3>1. m \in 0..sent' /\ Unread(m)'
      BY <2>1 DEF Unread
    <3>2. ASSUME NEW f \in sent..Len(script)
          PROVE  Answers(Text(f))' = got' \o (Left' \o Ahead(f, m)')
      <4>1. Answers(Text(f)) = got \o (Left \o Ahead(f, m))
        BY DEF Ledger
      <4>2. Ahead(f, m) = <<>>
        BY <1>0, <2>1, NextPart DEF Ahead
      <4>3. Ahead(f, m)' = <<>>
        BY <2>1 DEF Ahead, GoesOn
      <4>4. Text(f)' = Text(f)
        BY DEF Text
      <4> QED
        BY <2>1, <4>1, <4>2, <4>3, <4>4
    <3>3. Ledger(m)'
      BY <3>2 DEF Ledger
    <3> QED
      BY <3>1, <3>3
  <2> QED
    BY <1>0, <2>1, <2>2 DEF ReplyInv
<1>3. CASE Answer
  <2>1. CASE Narrow
    BY <1>3, <2>1, ReplyAnswer
  <2>2. CASE ~Narrow
    <3>1. wbuf'.size >= InitSize
      <4>1. wbuf.data = <<>>
        BY <1>0, EmptySeq, LenProperties DEF TypeOK, BufferOK
      <4>2. BufferOK(wbuf, Pieces) /\ wbuf.size >= InitSize
        BY <1>0 DEF TypeOK, ReplyInv
      <4>3. wbuf' = GetResponse(Route(RequestLine(rbuf.data)), wbuf)
        BY <1>3 DEF Answer, MakeResponse
      <4>4. Route(RequestLine(rbuf.data)) \in Replies
        BY RouteOK
      <4> QED
        BY <4>1, <4>2, <4>3, <4>4, GetResponseWhole
    <3> QED
      BY <1>0, <1>3, <2>2, <3>1 DEF ReplyInv, Answer
  <2> QED
    BY <2>1, <2>2
<1> QED
  BY <1>1, <1>2, <1>3 DEF Process

(* Concatenation as an operator of its own: the provers lose themselves in long
   concatenations as soon as they look into them. *)
Cat(s, t) == s \o t

LEMMA CatSeq ==
  ASSUME NEW S, NEW s \in Seq(S), NEW t \in Seq(S)
  PROVE  Cat(s, t) \in Seq(S)
BY ConcatProperties DEF Cat

LEMMA CatAssoc ==
  ASSUME NEW S, NEW s \in Seq(S), NEW t \in Seq(S), NEW u \in Seq(S)
  PROVE  Cat(Cat(s, t), u) = Cat(s, Cat(t, u))
BY ConcatAssociative DEF Cat

LEMMA CatEmpty ==
  ASSUME NEW S, NEW s \in Seq(S)
  PROVE  Cat(s, <<>>) = s /\ Cat(<<>>, s) = s
BY ConcatEmptySeq DEF Cat

(* To move what is at the front of the rest to the end of what is done. *)
LEMMA MoveOver ==
  ASSUME NEW S, NEW g \in Seq(S), NEW a \in Seq(S), NEW b \in Seq(S), NEW c \in Seq(S),
         NEW d \in Seq(S), NEW z \in Seq(S), b = <<>> \/ c = <<>>
  PROVE  Cat(Cat(Cat(g, a), b), Cat(Cat(c, d), z)) = Cat(g, Cat(Cat(Cat(a, c), Cat(b, d)), z))
<1>1. CASE b = <<>>
  BY <1>1, CatSeq, CatAssoc, CatEmpty
<1>2. CASE c = <<>>
  BY <1>2, CatSeq, CatAssoc, CatEmpty
<1> QED
  BY <1>1, <1>2

LEMMA ReplyWrite ==
  ASSUME ReplyInv, NEW n \in 1..head + tail, Write(n), ReadInv' PROVE ReplyInv'
<1> DEFINE P == Bytelike(Pieces)
           h == IF n < head THEN n ELSE head
           w == wbuf.data
           F == reply.file
           L == Len(F)
           at == L - tail
           a == SubSeq(w, 1, h)
           c == SubSeq(w, h + 1, Len(w))
           b == SubSeq(F, at + 1, at + n - h)
           e == SubSeq(F, at + n - h + 1, L)
<1>1. /\ head = Len(w) /\ head \in Nat /\ BufferOK(wbuf, Pieces) /\ w \in Seq(P)
      /\ F \in Seq(P) /\ tail \in 0..L /\ L \in Nat /\ n \in Nat /\ n <= head + tail
  <2>1. /\ head = Len(w) /\ BufferOK(wbuf, Pieces) /\ w \in Seq(P)
        /\ F \in Seq(Pieces) /\ tail \in 0..L
    BY DEF ReplyInv, ReadInv, TypeOK, BufferOK, Bytelike
  <2>2. Len(w) \in Nat /\ L \in Nat
    BY <2>1, LenProperties
  <2>3. n \in Nat /\ n <= head + tail
    BY <2>1, <2>2
  <2> QED
    BY <2>1, <2>2, <2>3, BytesWide
<1>2. /\ head' = head - h /\ tail' = tail - (n - h) /\ got' = (got \o a) \o b
      /\ wbuf' = PopFront(wbuf, head - head')
      /\ UNCHANGED <<script, sent, arrived, mode, rbuf, keepAlive, reply>>
  BY DEF Write, Written
<1>3. h \in 0..head /\ n - h \in 0..tail /\ (n = h \/ h = head) /\ head - head' = h
  BY <1>1, <1>2
<1> HIDE DEF h, P
<1>4. wbuf'.data = c /\ wbuf'.size >= InitSize
  <2>1. wbuf' = [wbuf EXCEPT !.from = wbuf.from + h, !.data = c]
    BY <1>1, <1>2, <1>3 DEF PopFront
  <2>2. wbuf \in Shape(Pieces)
    BY <1>1 DEF BufferOK, Shape, Bytelike
  <2> HIDE DEF c
  <2>3. wbuf'.data = c /\ wbuf'.size = wbuf.size
    BY <2>1, <2>2 DEF Shape
  <2> QED
    BY <2>3 DEF ReplyInv
<1>5. at \in 0..L /\ at + n - h \in at..L /\ L - tail' + 1 = at + n - h + 1
  BY <1>1, <1>2, <1>3
<1>6. /\ a \in Seq(P) /\ c \in Seq(P) /\ a \o c = w /\ (h = head => c = <<>>)
  <2>1. h \in 0..Len(w) /\ h + 1 \in 1..Len(w) + 1 /\ Len(w) \in 0..Len(w) /\ 1 \in 1..Len(w) + 1
    BY <1>1, <1>3
  <2>2. a \in Seq(P) /\ c \in Seq(P) /\ a \o c = w
    BY <1>1, <2>1, PartOK, SplitAt
  <2>3. ASSUME h = head PROVE c = <<>>
    <3>1. Len(w) < h + 1 /\ h + 1 \in Int /\ Len(w) \in Int
      BY <1>1, <2>1, <2>3
    <3> QED
      BY <3>1, SubSeqEmpty
  <2> QED
    BY <2>2, <2>3
<1>7. /\ b \in Seq(P) /\ e \in Seq(P) /\ b \o e = SubSeq(F, at + 1, L) /\ (n = h => b = <<>>)
  <2> DEFINE u == at + n - h
  <2>1. /\ at + 1 \in 1..L + 1 /\ u \in 0..L /\ u + 1 \in 1..L + 1 /\ L \in 0..L
        /\ u \in (at + 1) - 1..L /\ L \in u..L
    BY <1>1, <1>5
  <2>2. n = h => u < at + 1 /\ at + 1 \in Int /\ u \in Int
    BY <1>1, <1>3, <2>1
  <2> HIDE DEF u, L, at
  <2>3. SubSeq(F, at + 1, u) \in Seq(P) /\ SubSeq(F, u + 1, L) \in Seq(P)
    BY <1>1, <2>1, PartOK DEF L
  <2>4. SubSeq(F, at + 1, u) \o SubSeq(F, u + 1, L) = SubSeq(F, at + 1, L)
    BY <1>1, <2>1, ConcatAdjacentSubSeq DEF L
  <2>5. n = h => SubSeq(F, at + 1, u) = <<>>
    BY <2>2, SubSeqEmpty
  <2> QED
    BY <2>3, <2>4, <2>5 DEF u
<1>8. Left = (a \o c) \o (b \o e) /\ Left' = c \o e
  <2>1. Left = w \o SubSeq(F, at + 1, L)
    BY DEF Left
  <2>2. Left' = wbuf'.data \o SubSeq(F, L - tail' + 1, L)
    BY <1>2 DEF Left
  <2> HIDE DEF w, F, L, at, a, b, c
  <2> QED
    BY <1>4, <1>5, <1>6, <1>7, <2>1, <2>2
<1>9. got \in Seq(P) /\ (b = <<>> \/ c = <<>>)
  BY <1>3, <1>6, <1>7 DEF ReplyInv, P
<1> HIDE DEF a, b, c, e, w, F, L, at
<1>10. got' \in Seq(P)
  <2>1. got \o a \in Seq(P)
    BY <1>6, <1>9, ConcatProperties
  <2>2. (got \o a) \o b \in Seq(P)
    BY <1>7, <2>1, ConcatProperties
  <2> QED
    BY <1>2, <2>2
<1>11. ASSUME Narrow PROVE \E m \in 0..sent' : Unread(m)' /\ Ledger(m)'
  <2> PICK m \in 0..sent : Unread(m) /\ Ledger(m)
    BY <1>11 DEF ReplyInv
  <2>1. m \in 0..sent' /\ Unread(m)'
    BY <1>2 DEF Unread
  <2>2. ASSUME NEW f \in sent..Len(script)
        PROVE  Answers(Text(f))' = got' \o (Left' \o Ahead(f, m)')
    <3>1. Answers(Text(f)) = got \o (Left \o Ahead(f, m))
      BY DEF Ledger
    <3>2. Text(f)' = Text(f) /\ Ahead(f, m)' = Ahead(f, m)
      BY <1>2 DEF Text, Ahead, GoesOn
    <3>3. Ahead(f, m) \in Seq(P)
      BY AheadOK, BytesWide DEF ReplyInv, ReadInv, P
    <3> DEFINE z == Ahead(f, m)
    <3> HIDE DEF z
    <3>4. z \in Seq(P)
      BY <3>3 DEF z
    <3>5. ((got \o a) \o b) \o ((c \o e) \o z) = got \o (((a \o c) \o (b \o e)) \o z)
      <4>1. /\ got \in Seq(P) /\ a \in Seq(P) /\ b \in Seq(P) /\ c \in Seq(P) /\ e \in Seq(P)
            /\ z \in Seq(P) /\ (b = <<>> \/ c = <<>>)
        BY <1>6, <1>7, <1>9, <3>4
      <4>2. Cat(Cat(Cat(got, a), b), Cat(Cat(c, e), z))
              = Cat(got, Cat(Cat(Cat(a, c), Cat(b, e)), z))
        BY <4>1, MoveOver
      <4> QED
        BY <4>2 DEF Cat
    <3> QED
      BY <1>2, <1>8, <3>1, <3>2, <3>5 DEF z
  <2>3. Ledger(m)'
    BY <1>2, <2>2 DEF Ledger
  <2> QED
    BY <2>1, <2>3
<1> QED
  BY <1>2, <1>4, <1>10, <1>11 DEF ReplyInv, P

LEMMA ReplyStep == ReplyInv /\ [Next]_vars => ReplyInv'
<1> SUFFICES ASSUME ReplyInv, [Next]_vars PROVE ReplyInv'
  OBVIOUS
<1>0. ReadInv' /\ TypeOK
  BY ReadStep DEF ReplyInv, ReadInv
<1>1. ASSUME NEW n \in 1..Len(script), Send(n) PROVE ReplyInv'
  BY <1>0, <1>1, ReplySend
<1>2. CASE Read
  BY <1>0, <1>2, ReplyRead
<1>3. CASE ReadAll
  <2>1. Process /\ GoesOn /\ UNCHANGED <<script, sent, arrived, got>>
    BY <1>3 DEF ReadAll, GoesOn
  <2>2. head + tail = 0
    BY <1>0, <1>3 DEF ReadAll, TypeOK
  <2> QED
    BY <1>0, <2>1, <2>2, ReplyProcess
<1>4. ASSUME NEW n \in 1..head + tail, Write(n) PROVE ReplyInv'
  BY <1>0, <1>4, ReplyWrite
<1>5. CASE WroteAll
  <2>1. /\ mode = "writing" /\ head + tail = 0 /\ UNCHANGED <<script, sent, arrived, got>>
    BY <1>5 DEF WroteAll
  <2>2. CASE keepAlive /\ Process
    BY <1>0, <2>1, <2>2, ReplyProcess DEF GoesOn
  <2>3. CASE ~keepAlive /\ mode' = "closed" /\ UNCHANGED <<rbuf, wbuf, keepAlive, reply, head, tail>>
    <3>1. GoesOn' = GoesOn /\ Left' = Left /\ sent \in Nat /\ sent' = sent
      BY <1>0, <2>1, <2>3 DEF GoesOn, Left, TypeOK
    <3>2. ASSUME Narrow PROVE \E m \in 0..sent' : Unread(m)' /\ Ledger(m)'
      <4> PICK m \in 0..sent : Unread(m) /\ Ledger(m)
        BY <3>2 DEF ReplyInv
      <4>1. m \in 0..sent' /\ Unread(m)'
        BY <2>1, <2>3 DEF Unread
      <4> QED
        BY <2>1, <3>1, <4>1, LedgerKept
    <3> QED
      BY <1>0, <2>1, <2>3, <3>2 DEF ReplyInv
  <2> QED
    BY <1>5, <2>2, <2>3 DEF WroteAll
<1>6. CASE WriteFails
  <2>1. /\ GoesOn' = GoesOn /\ Left' = Left /\ sent \in Nat /\ sent' = sent
        /\ script' = script /\ got' = got /\ \A m : Unread(m)' = Unread(m)
    BY <1>0, <1>6 DEF WriteFails, GoesOn, Left, TypeOK, Unread
  <2>2. ASSUME Narrow PROVE \E m \in 0..sent' : Unread(m)' /\ Ledger(m)'
    <3> PICK m \in 0..sent : Unread(m) /\ Ledger(m)
      BY <2>2 DEF ReplyInv
    <3> QED
      BY <2>1, LedgerKept
  <2> QED
    BY <1>0, <1>6, <2>2 DEF WriteFails, ReplyInv
<1>7. CASE UNCHANGED vars
  <2>1. /\ GoesOn' = GoesOn /\ Left' = Left /\ sent \in Nat /\ sent' = sent
        /\ \A m : Unread(m)' = Unread(m)
    BY <1>0, <1>7 DEF vars, GoesOn, Left, TypeOK, Unread
  <2>2. ASSUME Narrow PROVE \E m \in 0..sent' : Unread(m)' /\ Ledger(m)'
    <3> PICK m \in 0..sent : Unread(m) /\ Ledger(m)
      BY <2>2 DEF ReplyInv
    <3> QED
      BY <1>7, <2>1, LedgerKept DEF vars
  <2> QED
    BY <1>0, <1>7, <2>2 DEF ReplyInv, vars
<1> QED
  BY <1>1, <1>2, <1>3, <1>4, <1>5, <1>6, <1>7 DEF Next, Rest

(* What is owed begins with what the client has got; nothing else is owed where the
   parser stops and nothing more has come. *)
LEMMA LedgerRead ==
  ASSUME ReplyInv, Narrow
  PROVE  /\ \E n \in 0..Len(Owed) : got = SubSeq(Owed, 1, n)
         /\ /\ mode \in {"closed", "abandoned"} \/ (mode = "waiting" /\ arrived = <<>>)
            /\ reply.mapped # "failed"
            => got = Owed
<1> DEFINE P == Bytelike(Pieces)
<1> PICK m \in 0..sent : Unread(m) /\ Ledger(m)
  BY DEF ReplyInv
<1>0. TypeOK
  BY DEF ReplyInv, ReadInv
<1>1. sent \in sent..Len(script) /\ sent \in 0..Len(script)
  BY <1>0, ReadTypes
<1>2. Owed = got \o (Left \o Ahead(sent, m))
  BY <1>1 DEF Ledger, Owed, Text
<1>3. got \in Seq(P) /\ Left \in Seq(P) /\ Ahead(sent, m) \in Seq(P)
  BY <1>0, <1>1, AheadOK, BytesWide, LeftOK DEF ReplyInv
<1> DEFINE x == Left \o Ahead(sent, m)
<1> HIDE DEF P
<1>4. x \in Seq(P)
  BY <1>3, ConcatProperties
<1>5. Len(got) \in 0..Len(Owed) /\ got = SubSeq(Owed, 1, Len(got))
  <2> HIDE DEF x
  <2>1. Owed = got \o x
    BY <1>2 DEF x
  <2>2. /\ got \o x \in Seq(P) /\ Len(got \o x) = Len(got) + Len(x)
        /\ \A i \in 1..Len(got) + Len(x) : (got \o x)[i] = IF i <= Len(got) THEN got[i] ELSE x[i - Len(got)]
    BY <1>3, <1>4, ConcatProperties
  <2>3. Len(got) \in Nat /\ Len(x) \in Nat
    BY <1>3, <1>4, LenProperties
  <2> DEFINE o == Owed
             s == SubSeq(o, 1, Len(got))
  <2>4. /\ o \in Seq(P) /\ Len(got) \in 0..Len(o) /\ \A i \in 1..Len(got) : o[i] = got[i]
    BY <2>1, <2>2, <2>3
  <2> HIDE DEF o
  <2>5. /\ s \in Seq(P) /\ Len(s) = Len(got) /\ \A i \in 1..Len(got) : s[i] = o[i]
    <3>1. \A i \in 1..Len(got) : o[i] \in P
      BY <1>3, <2>4, ElementOfSeq
    <3>2. /\ s \in Seq(P) /\ Len(s) = IF 1 <= Len(got) THEN Len(got) - 1 + 1 ELSE 0
          /\ \A i \in 1..Len(got) - 1 + 1 : s[i] = o[1 + i - 1]
      BY <2>3, <3>1, SubSeqProperties
    <3> HIDE DEF s
    <3> QED
      BY <2>3, <3>2
  <2> HIDE DEF s
  <2>6. s = got
    BY <1>3, <2>4, <2>5, SeqEqual
  <2> QED
    BY <2>4, <2>6 DEF o, s
<1>6. ASSUME mode \in {"closed", "abandoned"} \/ (mode = "waiting" /\ arrived = <<>>),
             reply.mapped # "failed"
      PROVE  got = Owed
  <2>1. Left = <<>>
    <3>1. head + tail = 0
      BY <1>0, <1>6 DEF TypeOK
    <3> QED
      BY <1>0, <3>1, LeftOK
  <2>2. Ahead(sent, m) = <<>>
    <3>1. CASE mode \in {"closed", "abandoned"}
      BY <1>6, <3>1 DEF Ahead, GoesOn
    <3>2. CASE mode = "waiting" /\ arrived = <<>>
      <4> DEFINE T == Text(sent)
      <4>1. T \in Seq(Bytes) /\ m \in 0..Len(T) /\ rbuf.data = Behind(T, m)
        BY <1>0, <1>1, <3>2, BufferedIsBehind
      <4>2. ParseState(Behind(T, m)) # "parsed"
        BY <3>2, <4>1 DEF ReplyInv
      <4> HIDE DEF T
      <4>3. AnswersFrom(T)[m] = <<>>
        BY <4>1, <4>2, AnswersUnfold DEF Part
      <4> QED
        BY <4>3 DEF Ahead, T
    <3> QED
      BY <1>6, <3>1, <3>2
  <2> QED
    BY <1>2, <1>3, <2>1, <2>2, ConcatEmptySeq
<1> QED
  BY <1>5, <1>6

(* In whatever pieces the requests come and the responses go, what the client gets is
   the beginning of the answers to its requests, in their order: no response is lost,
   doubled, mixed with another or sent twice (http_connection.cpp:50, 60), if the
   client never has twice the first size of a buffer on its way. *)
THEOREM RepliesIntactHolds ==
  ASSUME Window < 2 * InitSize
  PROVE  Spec => []RepliesIntact
<1>1. ReplyInv => RepliesIntact
  BY LedgerRead DEF RepliesIntact, Narrow
<1> QED
  BY <1>1, ReplyInit, ReplyStep, PTL DEF Spec

(* When the server waits with nothing left in the socket, or is done with the
   connection for another reason than an empty file, it has answered all it could: no
   request that is complete stays in the buffer unanswered, in edge-triggered mode too
   (serverbase.cpp:372), if the client never has twice the first size of a buffer on
   its way. *)
THEOREM NothingOwedHolds ==
  ASSUME Window < 2 * InitSize
  PROVE  Spec => []NothingOwed
<1>1. ReplyInv => NothingOwed
  BY LedgerRead DEF NothingOwed, Narrow
<1> QED
  BY <1>1, ReplyInit, ReplyStep, PTL DEF Spec
=============================================================================
