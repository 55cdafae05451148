------------------------------- MODULE Buffer -------------------------------
(***************************************************************************)
(* buffer_t of buffer.c: the bytes read from a connection and not parsed   *)
(* yet, in one block of cap bytes of which the ones from front up to rear  *)
(* are buffered, and the bytes to be written.                              *)
(***************************************************************************)
EXTENDS Integers, Sequences, SequencesExt

CONSTANT Garbage   \* what a byte of malloc's block holds before it is written

-----------------------------------------------------------------------------
(* The read side *)

New(cap) == [cap |-> cap, len |-> 0, front |-> 0, rear |-> 0,
             buf |-> [i \in 0 .. cap - 1 |-> Garbage]]

\* buffer_buffered, buffer_avaliable
Buffered(b)  == b.len
Available(b) == b.cap - b.len

\* The bytes from front to rear.
Content(b) == [i \in 1 .. b.rear - b.front |-> b.buf[b.front + i - 1]]

\* memcpy(buf, buf + front, len). Where the two ranges overlap C leaves the outcome
\* open; this is what a memcpy does that copies from the bottom up.
Moved(b) == [i \in DOMAIN b.buf |-> IF i < b.len THEN b.buf[b.front + i] ELSE b.buf[i]]

\* Mutant of Adjust: rear stays where it was.
AdjustKeepsRear(b) ==
    IF b.front = 0 THEN b
    ELSE [b EXCEPT !.buf = Moved(b), !.front = 0]

Adjust(b) ==
    IF b.front = 0 THEN b
    ELSE [b EXCEPT !.buf = Moved(b), !.rear = b.len, !.front = 0]

\* what read stores at rear
Filled(b, bytes) ==
    [b EXCEPT !.buf = [i \in DOMAIN b.buf |->
                          IF i \in b.rear .. b.rear + Len(bytes) - 1
                          THEN bytes[i - b.rear + 1] ELSE b.buf[i]],
              !.rear = @ + Len(bytes),
              !.len = @ + Len(bytes)]

Drop(b, size) ==
    LET n == IF b.len < size THEN b.len ELSE size
    IN [b EXCEPT !.front = @ + n, !.len = @ - n]

\* the first n buffered bytes
Copy(b, n) == [i \in 1 .. n |-> b.buf[b.front + i - 1]]

-----------------------------------------------------------------------------
(* The write side: pending is wbuf up to wbuf_len. *)

\* Mutants of WriteOut: a piece that just fits is written out; the piece overtakes what is
\* pending.
WriteOutOffByOne(pending, cap, piece) ==
    IF Len(pending) + Len(piece) >= cap
    THEN [writes |-> <<pending, piece>>, pending |-> <<>>]
    ELSE [writes |-> <<>>, pending |-> pending \o piece]
WriteOutOvertakes(pending, cap, piece) ==
    IF Len(pending) + Len(piece) > cap
    THEN [writes |-> <<piece, pending>>, pending |-> <<>>]
    ELSE [writes |-> <<>>, pending |-> pending \o piece]

\* buffer_write: what is passed to conn_write, in order, and what stays in wbuf; a
\* piece that does not fit is written past the buffer, after what is in it
WriteOut(pending, cap, piece) ==
    IF Len(pending) + Len(piece) > cap
    THEN [writes |-> <<pending, piece>>, pending |-> <<>>]
    ELSE [writes |-> <<>>, pending |-> pending \o piece]

\* buffer_flush
FlushOut(pending) == [writes |-> <<pending>>, pending |-> <<>>]
=============================================================================
