------------------------------ MODULE Checksum ------------------------------
(***************************************************************************)
(* in_cksum, the checksum of traceroute's echo requests, over words of any *)
(* width, and what the receiver of a request makes of it.  A request has   *)
(* the words type, id and sequence number beside the checksum.  The code   *)
(* adds them as signed numbers, where the protocol's sum is unsigned.      *)
(***************************************************************************)
EXTENDS Integers

CONSTANT Word             \* the number of values of a word, 2^16 in the code:
                          \* even and greater than ICMP_ECHO

ICMP_ECHO == 8

Signed(w) == IF w < Word \div 2 THEN w ELSE w - Word

\* sum >> 16 of a negative sum rounds down, as \div does.
AddHighToLow(sum) == (sum \div Word) + (sum % Word)
AddCarry(sum) == sum + (sum \div Word)

\* The complement is left out.
in_cksum_Plain(id, seq) ==
    AddCarry(AddHighToLow(Signed(ICMP_ECHO) + Signed(id) + Signed(seq))) % Word

\* The complement is cut to one word.
in_cksum(id, seq) ==
    (-1 - AddCarry(AddHighToLow(Signed(ICMP_ECHO) + Signed(id) + Signed(seq)))) % Word

\* The sum with the carry added at the other end, which the receiver expects
\* to be all ones.
EndAround(n) == IF n = 0 THEN 0 ELSE 1 + ((n - 1) % (Word - 1))

Valid(id, seq, cksum) == EndAround(ICMP_ECHO + id + seq + cksum) = Word - 1
=============================================================================
