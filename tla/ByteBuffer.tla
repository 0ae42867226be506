----------------------------- MODULE ByteBuffer -----------------------------
(***************************************************************************)
(* Buffer (src/src/lib/buffer.cpp): a vector of bytes with a position to   *)
(* read from and one to write to.  The bytes between them are the data; no *)
(* other byte is ever read, so that the vector is its size, its capacity,  *)
(* the first position and the data.                                        *)
(***************************************************************************)
EXTENDS Integers, Sequences

Nul == "nul"    \* the byte that resize fills with

NewBuffer(n) == [size |-> n, cap |-> n, from |-> 0, data |-> <<>>]

End(b)  == b.from + Len(b.data)     \* m_write_pos
Room(b) == b.cap - End(b)           \* capacity()

PopFront(b, n) ==
    IF n \in 0..Len(b.data)
    THEN [b EXCEPT !.from = @ + n, !.data = SubSeq(@, n + 1, Len(@))]
    ELSE b

Adjust(b) == [b EXCEPT !.from = 0]

(* vector::resize beyond the capacity: the new one is at least twice the size;
   the elements are copied, which is what is before the old size. *)
Resize(b, n) ==
    [size |-> n,
     cap  |-> IF n > 2 * b.size THEN n ELSE 2 * b.size,
     from |-> b.from,
     data |-> [i \in 1..Len(b.data) |->
                  IF b.from + i <= b.size THEN b.data[i] ELSE Nul]]

Expand(b, n) ==
    LET a == Adjust(b) IN IF n > Room(a) THEN Resize(a, a.cap + n) ELSE a

(* A faulty PushBack: it forgets the zero that goes behind the data. *)
PushBackTight(b, s) ==
    LET a == IF Len(s) > Room(b) THEN Expand(b, Len(s)) ELSE b IN
    [a EXCEPT !.data = @ \o s]

PushBack(b, s) ==
    LET a == IF Len(s) + 1 > Room(b) THEN Expand(b, Len(s) + 1) ELSE b IN
    [a EXCEPT !.data = @ \o s]

(* A faulty Fill: what is in the array on the stack is forgotten. *)
FillShort(b, s) ==
    IF Len(s) < Room(b) THEN [b EXCEPT !.data = @ \o s]
    ELSE PushBack([b EXCEPT !.data = @ \o SubSeq(s, 1, Room(b))], <<>>)

(* readv has put s into the room and what was too much for it into the array
   on the stack. *)
Fill(b, s) ==
    IF Len(s) < Room(b) THEN [b EXCEPT !.data = @ \o s]
    ELSE PushBack([b EXCEPT !.data = @ \o SubSeq(s, 1, Room(b))],
                  SubSeq(s, Room(b) + 1, Len(s)))

(* Sizes and positions fit, and there is a byte for the zero behind the data. *)
BufferOK(b, B) ==
    /\ b \in [size : Nat \ {0}, cap : Nat, from : Nat, data : Seq(B \cup {Nul})]
    /\ b.size <= b.cap /\ End(b) < b.cap
=============================================================================
