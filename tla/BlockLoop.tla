----------------------------- MODULE BlockLoop -----------------------------
(***************************************************************************)
(* The loops that move a file over a socket, which A3 and the chat room    *)
(* have copies of: whole blocks of SOCKETIO_BUFFER_SIZE bytes, then a rest.*)
(*                                                                         *)
(* A stream is what one end sent and the other has not received: headers,  *)
(* each received whole, and single bytes, of which recv takes as many as   *)
(* it likes.  A byte is named by what it is part of and its place there;   *)
(* Junk is a byte nobody chose, of fresh memory or of memory beside the    *)
(* buffer.                                                                 *)
(***************************************************************************)
EXTENDS Naturals, Integers, Sequences

CONSTANT Block            \* SOCKETIO_BUFFER_SIZE

Junk == <<>>
Fresh(size) == [k \in 1 .. size |-> Junk]

IsHeader(unit) == Len(unit) = 3
Command(header) == header[1]
FileName(header) == header[2]
DataSize(header) == header[3]

Blocks(data) == Len(data) \div Block
Rest(data) == Len(data) % Block

\* One end is corrected: the rest is sent from its own place.
Sent_Right(data) == data

\* The rest is not sent.
Sent_Blocks(data) == SubSeq(data, 1, Blocks(data) * Block)

\* The blocks, then the rest, which is sent from one block too early.
Sent(data) ==
    SubSeq(data, 1, Blocks(data) * Block) \o
    [k \in 1 .. Rest(data) |->
        IF Blocks(data) = 0 THEN Junk ELSE data[(Blocks(data) - 1) * Block + k]]

\* buf after part is received to its i-th block.
Stored(buf, i, part) ==
    [k \in DOMAIN buf |-> IF k - i * Block \in DOMAIN part
                             THEN part[k - i * Block] ELSE buf[k]]

\* How much a recv of n bytes may take from a stream: nothing at its end, or
\* something as soon as there is something.  A recv of 0 bytes, which the
\* loops make after a file of whole blocks, waits for that as well.
Lengths(stream, n, ended) ==
    IF stream = <<>> THEN IF ended THEN {0} ELSE {}
    ELSE IF n = 0 THEN {0}
    ELSE {m \in 1 .. n : m <= Len(stream)}

\* It may run into a header.
MeetsHeader(stream, n) == \E k \in 1 .. n : k <= Len(stream) /\ IsHeader(stream[k])

After(stream, m) == SubSeq(stream, m + 1, Len(stream))
=============================================================================
