-------------------------- MODULE TracerouteProofs --------------------------
(***************************************************************************)
(* What holds of Traceroute for every number of hops, process ids, foreign *)
(* packets and duplicates.                                                 *)
(***************************************************************************)
EXTENDS Traceroute, SequenceTheorems, TLAPS

(***************************************************************************)
(* The checksum.  What in_cksum computes with words of 16 bits: a request  *)
(* with a process id that is positive as a signed word is valid, any other *)
(* is not.                                                                 *)
(***************************************************************************)
\* The remainder of a small negative number.
LEMMA NegativeRemainder ==
    ASSUME NEW k \in Int, k < 0, k >= -65536
    PROVE  k % 65536 = k + 65536
  BY SMT

LEMMA Complement ==
    ASSUME NEW n \in Int, 0 <= n, n < 65536
    PROVE  (-1 - n) % 65536 = 65535 - n
<1> DEFINE k == -1 - n
<1>1. k \in Int /\ k < 0 /\ k >= -65536
  BY SMT
<1>2. k + 65536 = 65535 - n
  BY SMT
<1> HIDE DEF k
<1>3. k % 65536 = 65535 - n
  BY <1>1, <1>2, NegativeRemainder, SMT
<1> QED
  BY <1>3 DEF k

\* The checksum of a sum that is itself a word: nothing is folded.
LEMMA SumIsWord ==
    ASSUME Word = 65536, NEW n \in Int, 0 <= n, n < 65536
    PROVE  (-1 - Check!AddCarry(Check!AddHighToLow(n))) % Word = 65535 - n
<1>1. n \div 65536 = 0 /\ n % 65536 = n
  BY SMT
<1>2. Check!AddHighToLow(n) = n
  BY <1>1, SMT DEF Check!AddHighToLow
<1>3. Check!AddCarry(n) = n
  BY <1>1, SMT DEF Check!AddCarry
<1> QED
  BY <1>2, <1>3, Complement, SMT

\* The checksum of a negative sum: what is folded is one less than a word.
LEMMA SumIsNegative ==
    ASSUME Word = 65536, NEW n \in Int, -65536 < n, n < 0
    PROVE  (-1 - Check!AddCarry(Check!AddHighToLow(n))) % Word = -n
<1>1. n \div 65536 = -1 /\ n % 65536 = n + 65536
  BY SMT
<1> DEFINE m == n + 65535
<1>2. Check!AddHighToLow(n) = m
  BY <1>1, SMT DEF Check!AddHighToLow
<1>3. m \in Int /\ 0 <= m /\ m < 65536 /\ 65535 - m = -n
  BY SMT
<1>4. m \div 65536 = 0
  BY SMT
<1>5. Check!AddCarry(m) = m
  BY <1>4, SMT DEF Check!AddCarry
<1> HIDE DEF m
<1>6. (-1 - m) % 65536 = -n
  BY <1>3, Complement, SMT
<1> QED
  BY <1>2, <1>5, <1>6, SMT

LEMMA Halves ==
    ASSUME Word = 65536
    PROVE  \A w \in Int : /\ w < 32768 => Check!Signed(w) = w
                          /\ w >= 32768 => Check!Signed(w) = w - 65536
<1>1. 65536 \div 2 = 32768
  BY SMT
<1> QED
  BY <1>1, SMT DEF Check!Signed

\* A request whose process id is positive as a signed word carries a checksum
\* its receiver accepts: adding the words as signed numbers does no harm to
\* it, for every hop the program can ask for.
THEOREM PositiveIdsAreValid ==
    ASSUME Word = 65536,
           NEW id \in Int, 0 <= id, id < 32768,
           NEW seq \in Int, 0 <= seq, seq < 256
    PROVE  Check!Valid(id, seq, Check!in_cksum(id, seq))
<1> DEFINE n == 8 + id + seq
<1>1. n \in Int /\ 0 <= n /\ n < 65536
  BY SMT
<1>2. Check!Signed(8) + Check!Signed(id) + Check!Signed(seq) = n
  BY Halves, SMT
<1>3. Check!in_cksum(id, seq) = 65535 - n
  <2> HIDE DEF n
  <2> QED
    BY <1>1, <1>2, SumIsWord DEF Check!in_cksum, Check!ICMP_ECHO
<1>4. Check!EndAround(65535) = 65535
  BY SMT DEF Check!EndAround
<1>5. 8 + id + seq + (65535 - n) = 65535
  BY SMT
<1> QED
  BY <1>3, <1>4, <1>5, SMT DEF Check!Valid, Check!ICMP_ECHO

\* With a larger one the carry is taken off instead of added, and no receiver
\* accepts the request: the target of such a trace never answers.
THEOREM NegativeIdsAreNot ==
    ASSUME Word = 65536,
           NEW id \in Int, 32768 <= id, id < 65536,
           NEW seq \in Int, 0 < seq, seq < 256
    PROVE  ~Check!Valid(id, seq, Check!in_cksum(id, seq))
<1> DEFINE n == 8 + id + seq - 65536
<1>1. n \in Int /\ -65536 < n /\ n < 65536
  BY SMT
<1>2. Check!Signed(8) + Check!Signed(id) + Check!Signed(seq) = n
  BY Halves, SMT
<1>3. Check!in_cksum(id, seq) = (-1 - Check!AddCarry(Check!AddHighToLow(n))) % Word
  BY <1>2, SMT DEF Check!in_cksum, Check!ICMP_ECHO
<1>4. CASE n < 0
  <2>1. Check!in_cksum(id, seq) = -n
    <3> HIDE DEF n
    <3> QED
      BY <1>1, <1>3, <1>4, SumIsNegative
  <2>2. 8 + id + seq + (-n) = 65536
    BY SMT
  <2>3. Check!EndAround(65536) = 1
    BY SMT DEF Check!EndAround
  <2> HIDE DEF n
  <2>4. Check!EndAround(8 + id + seq + Check!in_cksum(id, seq)) = 1
    BY <2>1, <2>2, <2>3, SMT
  <2> QED
    BY <2>4, SMT DEF Check!Valid, Check!ICMP_ECHO
<1>5. CASE n >= 0
  <2>1. Check!in_cksum(id, seq) = 65535 - n
    <3> HIDE DEF n
    <3> QED
      BY <1>1, <1>3, <1>5, SumIsWord
  <2>2. 8 + id + seq + (65535 - n) = 131071
    BY SMT
  <2>3. Check!EndAround(131071) = 1
    BY SMT DEF Check!EndAround
  <2> HIDE DEF n
  <2>4. Check!EndAround(8 + id + seq + Check!in_cksum(id, seq)) = 1
    BY <2>1, <2>2, <2>3, SMT
  <2> QED
    BY <2>4, SMT DEF Check!Valid, Check!ICMP_ECHO
<1> QED
  BY <1>1, <1>4, <1>5, SMT

(***************************************************************************)
(* The program's state.                                                    *)
(***************************************************************************)
LEMMA Bounds == MaxHops \in Nat \ {0} /\ MaxStray \in Nat /\ MaxCopies \in Nat
  BY TraceAssumption

LEMMA HopIsNat == \A t : t \in Hop <=> t \in Nat /\ 1 <= t /\ t <= MaxHops
  BY Bounds DEF Hop

\* The lines that show the packet they are about.
Entry == {line \in Line : Shows(line, line[1])}

LEMMA EntryLine ==
    ASSUME NEW t \in Hop, NEW w \in {"complete", "partial"}, NEW m \in Number(t)
    PROVE  <<t, w, m>> \in Entry
  BY Bounds, HopIsNat DEF Entry, Line, Number, Shows

LEMMA EntryStar ==
    ASSUME NEW t \in Hop
    PROVE  <<t, "star", t>> \in Entry
  BY Bounds, HopIsNat DEF Entry, Line, Shows

LEMMA EntryParts ==
    ASSUME NEW line \in Entry
    PROVE  /\ line \in Line /\ line[1] \in Hop /\ line = <<line[1], line[2], line[3]>>
           /\ line[3] = line[1] \/ line[1] = MaxHops
  BY DEF Entry, Line, Shows

\* The types, without the ranges that follow from what is counted.
Time == Hop \X Nat
Scalars == /\ distance \in 1 .. MaxHops + 1
           /\ pid \in Pid
           /\ phase \in {"send", "receive", "done"}
           /\ ttl \in 1 .. MaxHops + 1
           /\ phase = "receive" => ttl \in Hop
           /\ i \in Nat
           /\ strays \in 0 .. MaxStray
           /\ copies \in 0 .. MaxCopies
Arrays == /\ came \in [Hop -> Int]
          /\ way \in [Hop -> Nat]
          /\ used \in [Hop -> Seq(Time)]
          /\ lines \in Seq(Entry)
          /\ late \subseteq Hop
Types == Scalars /\ Arrays

(***************************************************************************)
(* What an answer does: it only advances the index, or it is counted, and  *)
(* then it may be the third.                                               *)
(***************************************************************************)
Taken(seq) == /\ phase = "receive"
              /\ way[seq] > 0
              /\ way' = [way EXCEPT ![seq] = @ - 1]
              /\ late' = IF seq = ttl THEN late ELSE late \cup {ttl}
              /\ UNCHANGED net

Ignored(seq) == /\ seq # ttl
                /\ i' = i + 1
                /\ UNCHANGED <<came, used, lines, phase, ttl>>

Counted(seq) == /\ seq = ttl \/ seq >= distance
                /\ came' = [came EXCEPT ![seq] = @ + 1]
                /\ used' = [used EXCEPT ![seq] = Append(@, <<ttl, i>>)]

GoesOn(seq) == /\ came[seq] + 1 # 3
               /\ i' = i + 1
               /\ UNCHANGED <<lines, phase, ttl>>

Completes(seq) == /\ came[seq] + 1 = 3
                  /\ \E line \in Entry : /\ line[1] = seq /\ line[2] = "complete"
                                          /\ lines' = Append(lines, line)
                  /\ i' = i
                  /\ \/ seq = ttl /\ seq < distance /\ phase' = "send" /\ ttl' = ttl + 1
                     \/ seq >= distance /\ phase' = "done" /\ ttl' = ttl

Answer(seq) == /\ Taken(seq)
               /\ \/ Ignored(seq)
                  \/ Counted(seq) /\ (GoesOn(seq) \/ Completes(seq))

LEMMA AnswerSteps ==
    ASSUME Types, NEW seq \in Hop, TimeExceeded(seq) \/ EchoReply(seq)
    PROVE  Answer(seq)
<1>1. Taken(seq)
  BY DEF TimeExceeded, EchoReply, Receive, Note, Taken
<1>2. processPacket(seq) => came'[seq] = came[seq] + 1
  BY DEF processPacket, Types, Arrays
<1>3. CASE TimeExceeded(seq) /\ seq # ttl
  BY <1>1, <1>3 DEF TimeExceeded, Ignored, Answer
<1>4. CASE TimeExceeded(seq) /\ seq = ttl
  <2>1. Counted(seq) /\ processPacket(seq) /\ seq < distance
    BY <1>4 DEF TimeExceeded, Counted, processPacket
  <2>2. CASE came[seq] + 1 = 3
    <3>1. isFull(came'[seq])
      BY <1>2, <2>1, <2>2 DEF isFull
    <3>2. print(seq, came'[seq]) /\ NextRound
      BY <1>4, <3>1 DEF TimeExceeded
    <3>3. PICK m \in Number(seq) : lines' = Append(lines, <<seq, "complete", m>>)
      BY <3>1, <3>2 DEF print
    <3>4. <<seq, "complete", m>> \in Entry
      BY EntryLine
    <3> QED BY <1>1, <1>4, <2>1, <2>2, <3>2, <3>3, <3>4 DEF NextRound, Completes, Answer
  <2>3. CASE came[seq] + 1 # 3
    <3>1. ~isFull(came'[seq])
      BY <1>2, <2>1, <2>3 DEF isFull
    <3>2. i' = i + 1 /\ UNCHANGED <<phase, ttl, lines>>
      BY <1>4, <3>1 DEF TimeExceeded
    <3> QED BY <1>1, <2>1, <2>3, <3>2 DEF GoesOn, Answer
  <2> QED BY <2>2, <2>3
<1>5. CASE EchoReply(seq)
  <2>1. Counted(seq) /\ processPacket(seq) /\ seq >= distance
    BY <1>5 DEF EchoReply, Counted, processPacket
  <2>2. CASE came[seq] + 1 = 3
    <3>1. isFull(came'[seq])
      BY <1>2, <2>1, <2>2 DEF isFull
    <3>2. print(seq, came'[seq]) /\ phase' = "done" /\ UNCHANGED <<ttl, i>>
      BY <1>5, <3>1 DEF EchoReply
    <3>3. PICK m \in Number(seq) : lines' = Append(lines, <<seq, "complete", m>>)
      BY <3>1, <3>2 DEF print
    <3>4. <<seq, "complete", m>> \in Entry
      BY EntryLine
    <3> QED BY <1>1, <2>1, <2>2, <3>2, <3>3, <3>4 DEF Completes, Answer
  <2>3. CASE came[seq] + 1 # 3
    <3>1. ~isFull(came'[seq])
      BY <1>2, <2>1, <2>3 DEF isFull
    <3>2. i' = i + 1 /\ UNCHANGED <<phase, ttl, lines>>
      BY <1>5, <3>1 DEF EchoReply
    <3> QED BY <1>1, <2>1, <2>3, <3>2 DEF GoesOn, Answer
  <2> QED BY <2>2, <2>3
<1> QED BY <1>3, <1>4, <1>5

\* What a round that ends by the clock writes.
LEMMA TimeoutLine ==
    ASSUME Timeout, ttl \in Hop
    PROVE  \E line \in Entry : /\ line[1] = ttl
                               /\ line[2] = "complete" => came[ttl] = 3
                               /\ lines' = Append(lines, line)
<1>1. CASE isFilled(came[ttl])
  <2> DEFINE w == IF isFull(came[ttl]) THEN "complete" ELSE "partial"
  <2>1. PICK m \in Number(ttl) : lines' = Append(lines, <<ttl, w, m>>)
    BY <1>1 DEF Timeout, print
  <2>2. w \in {"complete", "partial"} /\ (w = "complete" => came[ttl] = 3)
    BY DEF isFull
  <2> HIDE DEF w
  <2>3. <<ttl, w, m>> \in Entry
    BY <2>2, EntryLine
  <2> QED BY <2>1, <2>2, <2>3
<1>2. CASE ~isFilled(came[ttl])
  BY <1>2, EntryStar DEF Timeout
<1> QED BY <1>1, <1>2

LEMMA NextCases ==
    ASSUME Types, Next
    PROVE  \/ Probe \/ End \/ Timeout \/ Stray
           \/ \E seq \in Hop : Answer(seq) \/ NotOurs(seq) \/ Copy(seq)
  BY AnswerSteps DEF Next, Step

-----------------------------------------------------------------------------
LEMMA TypesInit == Init => Types
<1> SUFFICES ASSUME Init PROVE Types
  OBVIOUS
<1>1. Scalars
  BY Bounds, HopIsNat DEF Init, Scalars
<1>2. came \in [Hop -> Int]
  BY DEF Init, Unset
<1>3. way \in [Hop -> Nat] /\ used \in [Hop -> Seq(Time)] /\ lines \in Seq(Entry) /\ late \subseteq Hop
  BY DEF Init
<1> QED BY <1>1, <1>2, <1>3 DEF Types, Arrays

LEMMA ScalarsKept ==
    ASSUME Types, Next
    PROVE  Scalars'
<1> USE Bounds, HopIsNat DEF Scalars
<1>0. Scalars
  BY DEF Types
<1>1. CASE Probe
  BY <1>0, <1>1 DEF Probe, net
<1>2. CASE End
  BY <1>0, <1>2 DEF End, net
<1>3. CASE Stray
  BY <1>0, <1>3 DEF Stray, main
<1>4. CASE Timeout
  BY <1>0, <1>4 DEF Timeout, NextRound, net
<1>5. ASSUME NEW seq \in Hop, Answer(seq)
      PROVE  Scalars'
  BY <1>0, <1>5 DEF Answer, Taken, Ignored, GoesOn, Completes, net
<1>6. ASSUME NEW seq \in Hop, NotOurs(seq)
      PROVE  Scalars'
  BY <1>0, <1>6 DEF NotOurs, net, main
<1>7. ASSUME NEW seq \in Hop, Copy(seq)
      PROVE  Scalars'
  BY <1>0, <1>7 DEF Copy, main
<1> QED BY <1>1, <1>2, <1>3, <1>4, <1>5, <1>6, <1>7, NextCases

LEMMA ArraysKept ==
    ASSUME Types, Next
    PROVE  Arrays'
<1> USE DEF Arrays
<1>0. Arrays /\ Scalars
  BY DEF Types
<1>1. CASE Probe
  <2>1. way' \in [Hop -> Nat]
    BY <1>0, <1>1 DEF Probe
  <2> QED BY <1>0, <1>1, <2>1 DEF Probe
<1>2. CASE End \/ Stray
  BY <1>0, <1>2 DEF End, Stray, main
<1>3. CASE Timeout
  <2>1. ttl \in Hop
    BY <1>0, <1>3 DEF Timeout, Scalars
  <2>2. PICK line \in Entry : lines' = Append(lines, line)
    BY <1>3, <2>1, TimeoutLine
  <2>3. lines' \in Seq(Entry)
    BY <1>0, <2>2
  <2> QED BY <1>0, <1>3, <2>3 DEF Timeout
<1>4. ASSUME NEW seq \in Hop, Answer(seq)
      PROVE  Arrays'
  <2>1. Taken(seq) /\ ttl \in Hop
    BY <1>0, <1>4 DEF Answer, Taken, Scalars
  <2>2. way' \in [Hop -> Nat] /\ late' \subseteq Hop
    BY <1>0, <2>1 DEF Taken
  <2>3. came' \in [Hop -> Int]
    BY <1>0, <1>4 DEF Answer, Ignored, Counted
  <2>4. used' \in [Hop -> Seq(Time)]
    <3>1. <<ttl, i>> \in Time
      BY <1>0, <2>1 DEF Scalars, Time
    <3>2. Append(used[seq], <<ttl, i>>) \in Seq(Time)
      BY <1>0, <3>1
    <3>3. CASE Ignored(seq)
      BY <1>0, <3>3 DEF Ignored
    <3>4. CASE Counted(seq)
      BY <1>0, <3>2, <3>4 DEF Counted
    <3> QED BY <1>4, <3>3, <3>4 DEF Answer
  <2>5. lines' \in Seq(Entry)
    <3>2. CASE UNCHANGED lines
      BY <1>0, <3>2
    <3>3. CASE Completes(seq)
      BY <1>0, <3>3 DEF Completes
    <3> QED BY <1>4, <3>2, <3>3 DEF Answer, Ignored, GoesOn
  <2> QED BY <2>2, <2>3, <2>4, <2>5
<1>5. ASSUME NEW seq \in Hop, NotOurs(seq) \/ Copy(seq)
      PROVE  Arrays'
  <2>1. way' \in [Hop -> Nat]
    BY <1>0, <1>5 DEF NotOurs, Copy, Receive
  <2> QED BY <1>0, <1>5, <2>1 DEF NotOurs, Copy, main
<1> QED BY <1>1, <1>2, <1>3, <1>4, <1>5, NextCases

LEMMA TypesKept ==
    ASSUME Types, Next
    PROVE  Types'
  BY ScalarsKept, ArraysKept DEF Types

-----------------------------------------------------------------------------
(***************************************************************************)
(* What is counted.  Nothing has been asked of the hops ahead; an answer   *)
(* is on its way or taken, never both; a hop but the last is never counted *)
(* beyond three, since the third answer ends its round or the trace.       *)
(***************************************************************************)
Ahead(t) == t > ttl \/ (t = ttl /\ phase = "send")

Untouched == \A t \in Hop : Ahead(t) =>
                 way[t] = 0 /\ used[t] = <<>> /\ came[t] <= 3 /\ (t < MaxHops => came[t] = 0)
Balance == \A t \in Hop : /\ came[t] >= -1
                          /\ way[t] <= 3 + copies
                          /\ came[t] + way[t] <= 6 + copies
Room(t) == came[t] \in 0 .. 3 /\ came[t] = Len(used[t])
Over(t) == came[t] = 3 => phase = "done" \/ (t < distance /\ t < ttl)
Full == \A t \in Hop : t < MaxHops => Room(t) /\ Over(t)
Flag == undisturbed \in BOOLEAN
Counts == Untouched /\ Balance /\ Full

LEMMA CountsInit == Init => Counts
<1> SUFFICES ASSUME Init PROVE Counts
  OBVIOUS
<1>0. Types
  BY TypesInit
<1>1. \A t \in Hop : came[t] \in -1 .. 3 /\ way[t] = 0 /\ used[t] = <<>> /\ (t < MaxHops => came[t] = 0)
  BY DEF Init, Unset
<1>2. Untouched
  BY <1>1 DEF Untouched
<1>3. Balance
  BY <1>1 DEF Init, Balance
<1>4. Full
  BY <1>1 DEF Full, Room, Over
<1> QED BY <1>2, <1>3, <1>4 DEF Counts

LEMMA AheadShrinks ==
    ASSUME Types, Next, NEW t \in Hop, Ahead(t)'
    PROVE  Ahead(t)
<1> USE HopIsNat DEF Ahead
<1>0. Scalars
  BY DEF Types
<1>1. CASE Probe
  BY <1>0, <1>1 DEF Probe, Scalars
<1>2. CASE End
  BY <1>0, <1>2 DEF End, Scalars
<1>3. CASE Stray
  BY <1>0, <1>3 DEF Stray, main, Scalars
<1>4. CASE Timeout
  BY <1>0, <1>4 DEF Timeout, NextRound, Scalars
<1>5. ASSUME NEW seq \in Hop, Answer(seq)
      PROVE  Ahead(t)
  BY <1>0, <1>5 DEF Answer, Taken, Ignored, GoesOn, Completes, Scalars
<1>6. ASSUME NEW seq \in Hop, NotOurs(seq)
      PROVE  Ahead(t)
  BY <1>0, <1>6 DEF NotOurs, main, Scalars
<1>7. ASSUME NEW seq \in Hop, Copy(seq)
      PROVE  Ahead(t)
  BY <1>0, <1>7 DEF Copy, main, Scalars
<1> QED BY <1>1, <1>2, <1>3, <1>4, <1>5, <1>6, <1>7, NextCases

LEMMA UntouchedKept ==
    ASSUME Types, Counts, Next
    PROVE  Untouched'
<1>0. Arrays /\ Scalars /\ Untouched
  BY DEF Types, Counts
<1> SUFFICES ASSUME NEW t \in Hop, Ahead(t)'
             PROVE  way'[t] = 0 /\ used'[t] = <<>> /\ came'[t] <= 3 /\ (t < MaxHops => came'[t] = 0)
  BY DEF Untouched
<1>1. Ahead(t)
  BY AheadShrinks
<1>2. way[t] = 0 /\ used[t] = <<>> /\ came[t] <= 3 /\ (t < MaxHops => came[t] = 0)
  BY <1>0, <1>1 DEF Untouched
<1>3. CASE Probe
  <2>1. t # ttl
    BY <1>0, <1>3, HopIsNat DEF Probe, Ahead, Scalars
  <2> QED BY <1>0, <1>2, <1>3, <2>1 DEF Probe, Arrays
<1>4. CASE End \/ Stray \/ Timeout
  BY <1>2, <1>4 DEF End, Stray, Timeout, main
<1>5. ASSUME NEW seq \in Hop, Answer(seq)
      PROVE  way'[t] = 0 /\ used'[t] = <<>> /\ came'[t] <= 3 /\ (t < MaxHops => came'[t] = 0)
  <2>1. t # seq
    BY <1>2, <1>5 DEF Answer, Taken
  <2>2. way'[t] = way[t]
    BY <1>0, <1>5, <2>1 DEF Answer, Taken, Arrays
  <2>3. used'[t] = used[t] /\ came'[t] = came[t]
    BY <1>0, <1>5, <2>1 DEF Answer, Ignored, Counted, Arrays
  <2> QED BY <1>2, <2>2, <2>3
<1>6. ASSUME NEW seq \in Hop, NotOurs(seq) \/ Copy(seq)
      PROVE  way'[t] = 0 /\ used'[t] = <<>> /\ came'[t] <= 3 /\ (t < MaxHops => came'[t] = 0)
  <2>1. t # seq
    BY <1>2, <1>6 DEF NotOurs, Receive, Copy
  <2> QED BY <1>0, <1>2, <1>6, <2>1 DEF NotOurs, Receive, Copy, main, Arrays
<1> QED BY <1>3, <1>4, <1>5, <1>6, NextCases

LEMMA BalanceKept ==
    ASSUME Types, Counts, Next
    PROVE  Balance'
<1>0. Arrays /\ Scalars /\ Balance /\ Untouched
  BY DEF Types, Counts
<1> SUFFICES ASSUME NEW t \in Hop
             PROVE  /\ came'[t] >= -1
                    /\ way'[t] <= 3 + copies'
                    /\ came'[t] + way'[t] <= 6 + copies'
  BY DEF Balance
<1>1. came[t] \in Int /\ way[t] \in Nat /\ copies \in Nat
  BY <1>0, Bounds DEF Arrays, Scalars
<1>2. came[t] >= -1 /\ way[t] <= 3 + copies /\ came[t] + way[t] <= 6 + copies
  BY <1>0 DEF Balance
<1>3. CASE Probe
  <2>1. CASE t = ttl
    <3>1. came[t] <= 3 /\ way[t] = 0
      BY <1>0, <1>3, <2>1 DEF Probe, Untouched, Ahead
    <3>2. way'[t] \in {0, 3} /\ came'[t] = came[t] /\ copies' = copies
      BY <1>0, <1>3, <2>1, <3>1 DEF Probe, net, Arrays
    <3> QED BY <1>1, <1>2, <3>1, <3>2
  <2>2. CASE t # ttl
    <3>1. way'[t] = way[t] /\ came'[t] = came[t] /\ copies' = copies
      BY <1>0, <1>3, <2>2 DEF Probe, net, Arrays
    <3> QED BY <1>1, <1>2, <3>1
  <2> QED BY <2>1, <2>2
<1>4. CASE End \/ Stray \/ Timeout
  BY <1>2, <1>4 DEF End, Stray, Timeout, main, net
<1>5. ASSUME NEW seq \in Hop, Answer(seq)
      PROVE  /\ came'[t] >= -1
             /\ way'[t] <= 3 + copies'
             /\ came'[t] + way'[t] <= 6 + copies'
  <2>1. copies' = copies
    BY <1>5 DEF Answer, Taken, net
  <2>2. way'[t] = IF t = seq THEN way[t] - 1 ELSE way[t]
    BY <1>0, <1>5 DEF Answer, Taken, Arrays
  <2>3. came'[t] = came[t] \/ (t = seq /\ came'[t] = came[t] + 1)
    <3>1. CASE Ignored(seq)
      BY <3>1 DEF Ignored
    <3>2. CASE Counted(seq)
      BY <1>0, <3>2 DEF Counted, Arrays
    <3> QED BY <1>5, <3>1, <3>2 DEF Answer
  <2> QED BY <1>1, <1>2, <2>1, <2>2, <2>3
<1>6. ASSUME NEW seq \in Hop, NotOurs(seq)
      PROVE  /\ came'[t] >= -1
             /\ way'[t] <= 3 + copies'
             /\ came'[t] + way'[t] <= 6 + copies'
  <2>1. copies' = copies /\ came' = came
    BY <1>6 DEF NotOurs, main, net
  <2>2. way'[t] = IF t = seq THEN way[t] - 1 ELSE way[t]
    BY <1>0, <1>6 DEF NotOurs, Receive, Arrays
  <2> QED BY <1>1, <1>2, <2>1, <2>2
<1>7. ASSUME NEW seq \in Hop, Copy(seq)
      PROVE  /\ came'[t] >= -1
             /\ way'[t] <= 3 + copies'
             /\ came'[t] + way'[t] <= 6 + copies'
  <2>1. copies' = copies + 1 /\ came' = came
    BY <1>7 DEF Copy, main
  <2>2. way'[t] = IF t = seq THEN way[t] + 1 ELSE way[t]
    BY <1>0, <1>7 DEF Copy, Arrays
  <2> QED BY <1>1, <1>2, <2>1, <2>2
<1> QED BY <1>3, <1>4, <1>5, <1>6, <1>7, NextCases

\* An answer that is counted finds room.
LEMMA CountedIsNew ==
    ASSUME Types, Counts, NEW seq \in Hop, seq < MaxHops, Taken(seq), Counted(seq)
    PROVE  came[seq] \in 0 .. 2 /\ came[seq] = Len(used[seq])
<1>1. came[seq] \in 0 .. 3 /\ came[seq] = Len(used[seq])
  BY DEF Counts, Full, Room
<1>2. came[seq] # 3
  <2>1. Over(seq)
    BY DEF Counts, Full
  <2> QED BY <2>1, HopIsNat DEF Over, Taken, Counted, Types, Scalars
<1> QED BY <1>1, <1>2

LEMMA FullKept ==
    ASSUME Types, Counts, Next
    PROVE  Full'
<1>0. Arrays /\ Scalars /\ Full
  BY DEF Types, Counts
<1>00. ttl \in Nat /\ distance \in Nat
  BY <1>0, Bounds DEF Scalars
<1> SUFFICES ASSUME NEW t \in Hop, t < MaxHops
             PROVE  Room(t)' /\ Over(t)'
  BY DEF Full
<1>1. Room(t) /\ Over(t) /\ t \in Nat /\ came[t] \in Int
  BY <1>0, HopIsNat DEF Full, Arrays
\* As long as the hop's answers stay the same, only the end of its round counts.
<1>2. ASSUME came'[t] = came[t], used'[t] = used[t], distance' = distance,
             phase # "done", phase' = "done" \/ ttl' = ttl \/ ttl' = ttl + 1
      PROVE  Room(t)' /\ Over(t)'
  <2>1. Room(t)'
    BY <1>1, <1>2 DEF Room
  <2>2. Over(t)'
    BY <1>00, <1>1, <1>2 DEF Over
  <2> QED BY <2>1, <2>2
<1>3. CASE Probe
  BY <1>2, <1>3 DEF Probe, net
<1>4. CASE End
  BY <1>2, <1>4 DEF End, net
<1>5. CASE Stray
  BY <1>2, <1>5 DEF Stray, main
<1>6. CASE Timeout
  BY <1>2, <1>6 DEF Timeout, NextRound, net
<1>7. ASSUME NEW seq \in Hop, Answer(seq)
      PROVE  Room(t)' /\ Over(t)'
  <2>0. Taken(seq) /\ distance' = distance /\ phase # "done"
    BY <1>7 DEF Answer, Taken, net
  <2>1. phase' = "done" \/ ttl' = ttl \/ ttl' = ttl + 1
    BY <1>7 DEF Answer, Ignored, GoesOn, Completes
  <2>2. CASE seq = t /\ Counted(seq)
    <3>1. came[t] \in 0 .. 2 /\ came[t] = Len(used[t])
      BY <2>0, <2>2, CountedIsNew
    <3>2. came'[t] = came[t] + 1
      BY <1>0, <2>2 DEF Counted, Arrays
    <3>3. used[t] \in Seq(Time) /\ used'[t] = Append(used[t], <<ttl, i>>)
      BY <1>0, <2>2 DEF Counted, Arrays
    <3>4. Len(used'[t]) = Len(used[t]) + 1
      BY <3>3
    <3>5. Room(t)'
      <4>1. came'[t] \in 0 .. 3
        <5>1. came[t] \in {0, 1, 2}
          BY <3>1
        <5> QED BY <3>2, <5>1
      <4>2. came'[t] = Len(used'[t])
        BY <3>1, <3>2, <3>4
      <4> QED BY <4>1, <4>2 DEF Room
    <3>6. ASSUME GoesOn(seq)
          PROVE  Over(t)'
      BY <2>2, <3>2, <3>6 DEF GoesOn, Over
    <3>7. ASSUME Completes(seq)
          PROVE  Over(t)'
      <4>1. phase' = "done" \/ (t < distance /\ ttl = t /\ ttl' = ttl + 1)
        BY <2>2, <3>7 DEF Completes
      <4> QED BY <1>00, <2>0, <4>1 DEF Over
    <3>8. GoesOn(seq) \/ Completes(seq) \/ Ignored(seq)
      BY <1>7 DEF Answer
    <3>9. ~Ignored(seq)
      BY <1>1, <2>2, <3>2 DEF Ignored
    <3> QED BY <3>5, <3>6, <3>7, <3>8, <3>9
  <2>3. CASE Ignored(seq) \/ (seq # t /\ Counted(seq))
    <3>1. came'[t] = came[t] /\ used'[t] = used[t]
      BY <1>0, <2>3 DEF Ignored, Counted, Arrays
    <3> QED BY <3>1, <1>2, <2>0, <2>1
  <2> QED BY <1>7, <2>2, <2>3 DEF Answer
<1>8. ASSUME NEW seq \in Hop, NotOurs(seq)
      PROVE  Room(t)' /\ Over(t)'
  BY <1>2, <1>8 DEF NotOurs, Receive, main, net
<1>9. ASSUME NEW seq \in Hop, Copy(seq)
      PROVE  Room(t)' /\ Over(t)'
  BY <1>2, <1>9 DEF Copy, main
<1> QED BY <1>3, <1>4, <1>5, <1>6, <1>7, <1>8, <1>9, NextCases

LEMMA FlagKept ==
    ASSUME Types, Flag, Next
    PROVE  Flag'
<1>1. CASE Probe \/ End \/ Stray
  BY <1>1 DEF Probe, End, Stray, Flag
<1>2. CASE Timeout
  BY <1>2 DEF Timeout, Flag
<1>3. ASSUME NEW seq \in Hop, NotOurs(seq) \/ Copy(seq)
      PROVE  Flag'
  BY <1>3 DEF NotOurs, Copy, Flag
<1>4. ASSUME NEW seq \in Hop, TimeExceeded(seq) \/ EchoReply(seq)
      PROVE  Flag'
  BY <1>4 DEF TimeExceeded, EchoReply, Note, Flag
<1> QED BY <1>1, <1>2, <1>3, <1>4 DEF Next, Step

-----------------------------------------------------------------------------
(***************************************************************************)
(* The output.  The rounds write one line each; an answer that ends the    *)
(* trace adds one more, for a hop that is the target or behind it.         *)
(***************************************************************************)
Written == \A k \in DOMAIN lines : k < ttl => lines[k][1] = k
Rounds == phase # "done" => Len(lines) = ttl - 1
Final == phase = "done" /\ Len(lines) >= ttl =>
             Len(lines) = ttl /\ lines[ttl][1] >= distance /\ lines[ttl][2] = "complete"
Order == Written /\ Rounds /\ Final


LEMMA LinesInit == Init => Order
<1> SUFFICES ASSUME Init PROVE Order
  OBVIOUS
<1>1. lines = <<>> /\ ttl = 1 /\ phase = "send"
  BY DEF Init
<1> QED BY <1>1 DEF Order, Written, Rounds, Final

\* A line is written at the end of a round.
LEMMA LineWritten ==
    ASSUME Types, Order, phase # "done", NEW line \in Entry, line[1] = ttl,
           lines' = Append(lines, line), phase' # "done", ttl' = ttl + 1
    PROVE  Order'
<1>1. lines \in Seq(Entry) /\ ttl \in Nat
  BY Bounds DEF Types, Arrays, Scalars
<1>2. Len(lines) = ttl - 1 /\ Written
  BY DEF Order, Rounds
<1>3. Len(lines') = ttl /\ DOMAIN lines' = 1 .. ttl
  BY <1>1, <1>2
<1>4. ASSUME NEW k \in DOMAIN lines' PROVE lines'[k][1] = k
  <2>1. CASE k = ttl
    BY <1>1, <1>2, <2>1
  <2>2. CASE k # ttl
    <3>1. k \in DOMAIN lines /\ k < ttl
      BY <1>1, <1>2, <1>3, <2>2
    <3>2. lines'[k] = lines[k]
      BY <1>1, <1>2, <3>1
    <3> QED BY <1>2, <3>1, <3>2 DEF Written
  <2> QED BY <2>1, <2>2
<1>5. Written'
  BY <1>4 DEF Written
<1>6. Rounds'
  BY <1>1, <1>3 DEF Rounds
<1>7. Final'
  BY DEF Final
<1> QED BY <1>5, <1>6, <1>7 DEF Order

LEMMA LinesKept ==
    ASSUME Types, Order, Next
    PROVE  Order'
<1>0. Arrays /\ Scalars /\ ttl \in Nat /\ lines \in Seq(Entry)
  BY Bounds DEF Types, Arrays, Scalars
<1>1. ASSUME UNCHANGED <<lines, ttl, distance>>, phase # "done", phase' # "done"
      PROVE  Order'
  BY <1>1 DEF Order, Written, Rounds, Final
<1>2. CASE Probe
  BY <1>1, <1>2 DEF Probe, net
<1>3. CASE End
  <2>1. Len(lines) = ttl - 1 /\ Written
    BY <1>3 DEF End, Order, Rounds
  <2>2. lines' = lines /\ ttl' = ttl /\ phase' = "done"
    BY <1>3 DEF End
  <2> QED BY <1>0, <2>1, <2>2 DEF Order, Written, Rounds, Final
<1>4. CASE Stray
  BY <1>1, <1>4 DEF Stray, main
<1>5. CASE Timeout
  <2>1. ttl \in Hop /\ phase # "done" /\ phase' # "done" /\ ttl' = ttl + 1
    BY <1>0, <1>5 DEF Timeout, NextRound, Scalars
  <2>2. PICK line \in Entry : line[1] = ttl /\ lines' = Append(lines, line)
    BY <1>5, <2>1, TimeoutLine
  <2> QED BY <2>1, <2>2, LineWritten
<1>6. ASSUME NEW seq \in Hop, Answer(seq)
      PROVE  Order'
  <2>1. phase = "receive" /\ distance' = distance
    BY <1>6 DEF Answer, Taken, net
  <2>2. CASE Ignored(seq) \/ GoesOn(seq)
    BY <1>1, <2>1, <2>2 DEF Ignored, GoesOn
  <2>3. CASE Completes(seq) /\ ttl' = ttl + 1
    <3>1. seq = ttl /\ phase' = "send"
      BY <1>0, <2>3 DEF Completes
    <3>2. PICK line \in Entry : line[1] = ttl /\ lines' = Append(lines, line)
      BY <2>3, <3>1 DEF Completes
    <3> QED BY <2>1, <2>3, <3>1, <3>2, LineWritten
  <2>4. CASE Completes(seq) /\ phase' = "done" /\ ttl' = ttl /\ seq >= distance
    <3>1. Len(lines) = ttl - 1 /\ Written
      BY <2>1 DEF Order, Rounds
    <3>2. PICK line \in Entry : /\ line[1] = seq /\ line[2] = "complete"
                                /\ lines' = Append(lines, line)
      BY <2>4 DEF Completes
    <3>4. Len(lines') = ttl /\ lines'[ttl] = line /\ DOMAIN lines' = 1 .. ttl
      BY <1>0, <3>1, <3>2
    <3>5. ASSUME NEW k \in DOMAIN lines', k < ttl PROVE lines'[k][1] = k
      <4>1. k \in DOMAIN lines
        BY <1>0, <3>1, <3>4, <3>5
      <4>2. lines'[k] = lines[k]
        BY <1>0, <3>1, <3>2, <4>1
      <4> QED BY <3>1, <3>5, <4>1, <4>2 DEF Written
    <3>6. Written'
      BY <2>4, <3>5 DEF Written
    <3>7. Final'
      BY <2>1, <2>4, <3>2, <3>4 DEF Final
    <3>8. Rounds'
      BY <2>4 DEF Rounds
    <3> QED BY <3>6, <3>7, <3>8 DEF Order, Written, Rounds, Final
  <2> QED BY <1>6, <2>2, <2>3, <2>4 DEF Answer, Completes
<1>7. ASSUME NEW seq \in Hop, NotOurs(seq)
      PROVE  Order'
  BY <1>1, <1>7 DEF NotOurs, Receive, main, net
<1>8. ASSUME NEW seq \in Hop, Copy(seq)
      PROVE  Order'
  BY <1>1, <1>8 DEF Copy, main
<1> QED BY <1>2, <1>3, <1>4, <1>5, <1>6, <1>7, <1>8, NextCases

-----------------------------------------------------------------------------
(***************************************************************************)
(* The times.  A late answer marks the round that receives it; until then  *)
(* the hop's answers and the index go together.                            *)
(***************************************************************************)
LateSoFar == \A t \in late : ~Ahead(t)
OwnSoFar == \A t \in Hop : t < MaxHops /\ late \cap (t .. ttl) = {} =>
                \A k \in 1 .. Len(used[t]) : used[t][k] = <<t, k - 1>>
Index == phase = "receive" /\ ttl \notin late /\ ttl < MaxHops => i = Len(used[ttl])
Complete == \A k \in DOMAIN lines :
                lines[k][2] = "complete" /\ lines[k][1] < MaxHops => came[lines[k][1]] = 3
Times == LateSoFar /\ OwnSoFar /\ Index /\ Complete

LEMMA TimesInit == Init => Times
<1> SUFFICES ASSUME Init PROVE Times
  OBVIOUS
<1>1. late = {} /\ lines = <<>> /\ phase = "send"
  BY DEF Init
<1>2. \A t \in Hop : used[t] = <<>>
  BY DEF Init
<1>3. LateSoFar /\ Index /\ Complete
  BY <1>1 DEF LateSoFar, Index, Complete
<1>4. OwnSoFar
  BY <1>2 DEF OwnSoFar
<1> QED BY <1>3, <1>4 DEF Times

LEMMA LateKept ==
    ASSUME Types, Times, Next
    PROVE  LateSoFar'
<1>0. Scalars /\ Arrays /\ LateSoFar
  BY DEF Types, Times
<1> SUFFICES ASSUME NEW t \in late', Ahead(t)' PROVE FALSE
  BY DEF LateSoFar
<1>1. CASE late' = late
  <2>1. t \in Hop /\ ~Ahead(t)
    BY <1>0, <1>1 DEF Arrays, LateSoFar
  <2> QED BY <2>1, AheadShrinks
<1>2. ASSUME NEW seq \in Hop, Answer(seq)
      PROVE  FALSE
  <2>1. CASE t \in late
    <3>1. t \in Hop /\ ~Ahead(t)
      BY <1>0, <2>1 DEF Arrays, LateSoFar
    <3> QED BY <3>1, AheadShrinks
  <2>2. CASE t = ttl
    <3>1. ttl \in Hop /\ phase = "receive"
      BY <1>0, <1>2 DEF Answer, Taken, Scalars
    <3>2. ~Ahead(t)
      BY <2>2, <3>1, HopIsNat DEF Ahead
    <3> QED BY <2>2, <3>1, <3>2, AheadShrinks
  <2> QED BY <1>2, <2>1, <2>2 DEF Answer, Taken
<1>3. Probe \/ End \/ Timeout \/ Stray => late' = late
  BY DEF Probe, End, Timeout, Stray
<1>4. ASSUME NEW seq \in Hop, NotOurs(seq) \/ Copy(seq)
      PROVE  late' = late
  BY <1>4 DEF NotOurs, Copy
<1> QED BY <1>1, <1>2, <1>3, <1>4, NextCases

\* Of a hop that was not counted for, nothing changes.
LEMMA OwnShrinks ==
    ASSUME Types, Times, NEW t \in Hop, used'[t] = used[t],
           late \subseteq late', ttl' = ttl \/ ttl' = ttl + 1,
           t < MaxHops, late' \cap (t .. ttl') = {}
    PROVE  \A k \in 1 .. Len(used'[t]) : used'[t][k] = <<t, k - 1>>
<1>1. ttl \in Nat /\ t \in Nat
  BY Bounds, HopIsNat DEF Types, Scalars
<1>2. late \cap (t .. ttl) = {}
  BY <1>1
<1> QED BY <1>2 DEF Times, OwnSoFar

LEMMA OwnKept ==
    ASSUME Types, Counts, Times, Next
    PROVE  OwnSoFar'
<1>0. Scalars /\ Arrays /\ ttl \in Nat
  BY Bounds DEF Types, Scalars
<1> SUFFICES ASSUME NEW t \in Hop, t < MaxHops, late' \cap (t .. ttl') = {}
             PROVE  \A k \in 1 .. Len(used'[t]) : used'[t][k] = <<t, k - 1>>
  BY DEF OwnSoFar
<1>1. CASE Probe
  BY <1>1, OwnShrinks DEF Probe
<1>2. CASE End
  BY <1>2, OwnShrinks DEF End
<1>3. CASE Stray
  BY <1>3, OwnShrinks DEF Stray, main
<1>4. CASE Timeout
  BY <1>4, OwnShrinks DEF Timeout, NextRound
<1>5. ASSUME NEW seq \in Hop, Answer(seq)
      PROVE  \A k \in 1 .. Len(used'[t]) : used'[t][k] = <<t, k - 1>>
  <2>1. Taken(seq) /\ phase = "receive" /\ ttl \in Hop /\ late \subseteq late' /\ way[seq] > 0
    BY <1>0, <1>5 DEF Answer, Taken, Scalars
  <2>2. ttl' = ttl \/ ttl' = ttl + 1
    BY <1>5 DEF Answer, Ignored, GoesOn, Completes
  <2>3. CASE used'[t] = used[t]
    BY <2>1, <2>2, <2>3, OwnShrinks
  <2>4. CASE seq = t /\ Counted(seq)
    <3>1. ~Ahead(t) /\ t \in Nat
      BY <2>1, <2>4, HopIsNat DEF Counts, Untouched
    <3>2. t <= ttl
      BY <1>0, <3>1 DEF Ahead
    <3>3. ttl \in t .. ttl'
      BY <1>0, <2>2, <3>1, <3>2
    <3>4. ttl \notin late'
      BY <3>3
    <3>5. seq = ttl /\ late' = late
      BY <2>1, <3>4 DEF Taken
    <3>6. i = Len(used[ttl]) /\ used[ttl] \in Seq(Time)
      BY <1>0, <2>1, <2>4, <3>4, <3>5 DEF Times, Index, Arrays
    <3>7. late \cap (ttl .. ttl) = {}
      BY <2>4, <3>4, <3>5, <1>0
    <3>8. \A k \in 1 .. Len(used[ttl]) : used[ttl][k] = <<ttl, k - 1>>
      BY <2>1, <2>4, <3>5, <3>7 DEF Times, OwnSoFar
    <3>9. used'[ttl] = Append(used[ttl], <<ttl, i>>) /\ <<ttl, i>> \in Time
      BY <1>0, <2>1, <2>4, <3>5 DEF Counted, Arrays, Scalars, Time
    <3>10. Len(used'[ttl]) = i + 1 /\ used'[ttl][i + 1] = <<ttl, i>>
      BY <3>6, <3>9
    <3>11. i \in Nat
      BY <1>0 DEF Scalars
    <3>12. ASSUME NEW k \in 1 .. i + 1
           PROVE  used'[ttl][k] = <<ttl, k - 1>>
      <4>1. CASE k = i + 1
        BY <3>10, <3>11, <4>1
      <4>2. CASE k # i + 1
        <5>1. k \in 1 .. Len(used[ttl])
          BY <3>6, <3>11, <4>2
        <5>2. used'[ttl][k] = used[ttl][k]
          BY <3>6, <3>9, <5>1
        <5> QED BY <3>8, <5>1, <5>2
      <4> QED BY <4>1, <4>2
    <3> QED BY <2>4, <3>5, <3>10, <3>12
  <2>5. CASE Ignored(seq) \/ (seq # t /\ Counted(seq))
    BY <1>0, <2>3, <2>5 DEF Ignored, Counted, Arrays
  <2> QED BY <1>5, <2>4, <2>5 DEF Answer
<1>6. ASSUME NEW seq \in Hop, NotOurs(seq)
      PROVE  \A k \in 1 .. Len(used'[t]) : used'[t][k] = <<t, k - 1>>
  BY <1>6, OwnShrinks DEF NotOurs, main
<1>7. ASSUME NEW seq \in Hop, Copy(seq)
      PROVE  \A k \in 1 .. Len(used'[t]) : used'[t][k] = <<t, k - 1>>
  BY <1>7, OwnShrinks DEF Copy, main
<1> QED BY <1>1, <1>2, <1>3, <1>4, <1>5, <1>6, <1>7, NextCases

LEMMA IndexKept ==
    ASSUME Types, Counts, Times, Next
    PROVE  Index'
<1>0. Scalars /\ Arrays /\ Index
  BY DEF Types, Times
<1>1. ASSUME UNCHANGED <<phase, ttl, late, i, used>>
      PROVE  Index'
  BY <1>0, <1>1 DEF Index
<1>2. CASE Probe
  <2>1. used'[ttl] = <<>> /\ ttl' = ttl /\ i' = 0
    BY <1>0, <1>2, HopIsNat DEF Probe, Counts, Untouched, Ahead, Scalars
  <2> QED BY <2>1 DEF Index
<1>3. CASE End \/ Timeout
  BY <1>3 DEF End, Timeout, NextRound, Index
<1>4. CASE Stray
  BY <1>1, <1>4 DEF Stray, main
<1>5. ASSUME NEW seq \in Hop, Answer(seq)
      PROVE  Index'
  <2>1. CASE Completes(seq)
    BY <2>1 DEF Completes, Index
  <2>2. CASE seq # ttl /\ ttl' = ttl
    BY <1>5, <2>2 DEF Answer, Taken, Index
  <2>3. CASE seq = ttl /\ Counted(seq) /\ GoesOn(seq)
    <3>1. late' = late /\ phase' = phase /\ ttl' = ttl /\ i' = i + 1
      BY <1>5, <2>3 DEF Answer, Taken, GoesOn
    <3>2. used'[ttl] = Append(used[ttl], <<ttl, i>>) /\ used[ttl] \in Seq(Time)
      BY <1>0, <2>3 DEF Counted, Arrays
    <3>3. Len(used'[ttl]) = Len(used[ttl]) + 1
      BY <3>2
    <3> QED BY <1>0, <3>1, <3>3 DEF Index
  <2> QED BY <1>5, <2>1, <2>2, <2>3 DEF Answer, Ignored, GoesOn
<1>6. ASSUME NEW seq \in Hop, NotOurs(seq)
      PROVE  Index'
  BY <1>1, <1>6 DEF NotOurs, main
<1>7. ASSUME NEW seq \in Hop, Copy(seq)
      PROVE  Index'
  BY <1>1, <1>7 DEF Copy, main
<1> QED BY <1>2, <1>3, <1>4, <1>5, <1>6, <1>7, NextCases

\* A line that is written is complete only if its hop has three answers.
LEMMA CompleteWritten ==
    ASSUME Types, Complete, NEW line \in Entry, lines' = Append(lines, line),
           \A t \in Hop : t < MaxHops /\ came[t] = 3 => came'[t] = 3,
           line[2] = "complete" /\ line[1] < MaxHops => came'[line[1]] = 3
    PROVE  Complete'
<1>1. lines \in Seq(Entry)
  BY DEF Types, Arrays
<1>2. SUFFICES ASSUME NEW k \in DOMAIN lines',
                      lines'[k][2] = "complete", lines'[k][1] < MaxHops
               PROVE  came'[lines'[k][1]] = 3
  BY DEF Complete
<1>3. CASE k = Len(lines) + 1
  BY <1>1, <1>2, <1>3
<1>4. CASE k # Len(lines) + 1
  <2>1. k \in DOMAIN lines /\ lines'[k] = lines[k]
    BY <1>1, <1>4
  <2>2. lines[k] \in Entry
    BY <1>1, <2>1
  <2>3. lines[k][1] \in Hop
    BY <2>2, EntryParts
  <2>4. came[lines[k][1]] = 3
    BY <1>2, <2>1 DEF Complete
  <2> QED BY <1>2, <2>1, <2>3, <2>4
<1> QED BY <1>3, <1>4

LEMMA CompleteKept ==
    ASSUME Types, Counts, Times, Next
    PROVE  Complete'
<1>0. Scalars /\ Arrays /\ Complete
  BY DEF Types, Times
<1>1. CASE Probe \/ End \/ Stray
  BY <1>0, <1>1 DEF Probe, End, Stray, main, Complete
<1>2. CASE Timeout
  <2>1. came' = came /\ ttl \in Hop
    BY <1>0, <1>2 DEF Timeout, Scalars
  <2>2. PICK line \in Entry : /\ line[1] = ttl
                              /\ line[2] = "complete" => came[ttl] = 3
                              /\ lines' = Append(lines, line)
    BY <1>2, <2>1, TimeoutLine
  <2> QED BY <1>0, <2>1, <2>2, CompleteWritten
<1>3. ASSUME NEW seq \in Hop, Answer(seq)
      PROVE  Complete'
  <2>1. \A t \in Hop : t < MaxHops /\ came[t] = 3 => came'[t] = 3
    <3>1. CASE Ignored(seq)
      BY <3>1 DEF Ignored
    <3>2. CASE Counted(seq)
      <4>1. seq < MaxHops => came[seq] # 3
        BY <1>3, <3>2, CountedIsNew DEF Answer
      <4> QED BY <1>0, <3>2, <4>1 DEF Counted, Arrays
    <3> QED BY <1>3, <3>1, <3>2 DEF Answer
  <2>2. CASE lines' = lines
    <3>1. \A k \in DOMAIN lines : lines[k][1] \in Hop
      <4>1. \A k \in DOMAIN lines : lines[k] \in Entry
        BY <1>0 DEF Arrays
      <4> QED BY <4>1, EntryParts
    <3> QED BY <1>0, <2>1, <2>2, <3>1 DEF Complete
  <2>3. CASE Completes(seq) /\ Counted(seq)
    <3>1. PICK line \in Entry : line[1] = seq /\ lines' = Append(lines, line)
      BY <2>3 DEF Completes
    <3>2. came'[seq] = 3
      BY <1>0, <2>3 DEF Completes, Counted, Arrays
    <3> QED BY <1>0, <2>1, <3>1, <3>2, CompleteWritten
  <2> QED BY <1>3, <2>2, <2>3 DEF Answer, Ignored, GoesOn
<1>4. ASSUME NEW seq \in Hop, NotOurs(seq) \/ Copy(seq)
      PROVE  Complete'
  BY <1>0, <1>4 DEF NotOurs, Copy, main, Complete
<1> QED BY <1>1, <1>2, <1>3, <1>4, NextCases

-----------------------------------------------------------------------------
IInv == Types /\ Flag /\ Counts /\ Order /\ Times

LEMMA Invariance == Spec => []IInv
<1>1. Init => IInv
  <2>1. Init => Flag
    BY DEF Init, Flag
  <2> QED BY <2>1, TypesInit, CountsInit, LinesInit, TimesInit DEF IInv
<1>2. IInv /\ [Next]_vars => IInv'
  <2> SUFFICES ASSUME IInv, [Next]_vars PROVE IInv'
    OBVIOUS
  <2>1. CASE Next
    <3>1. Types' /\ Flag' /\ Order'
      BY <2>1, TypesKept, FlagKept, LinesKept DEF IInv
    <3>2. Counts'
      BY <2>1, UntouchedKept, BalanceKept, FullKept DEF IInv, Counts
    <3>3. Times'
      BY <2>1, LateKept, OwnKept, IndexKept, CompleteKept DEF IInv, Times
    <3> QED BY <3>1, <3>2, <3>3 DEF IInv
  <2>2. CASE UNCHANGED vars
    <3> USE <2>2 DEF vars, net, main
    <3>1. Types'
      BY DEF IInv, Types, Scalars, Arrays
    <3>2. Flag'
      BY DEF IInv, Flag
    <3>3. Counts'
      BY DEF IInv, Counts, Untouched, Balance, Full, Room, Over, Ahead
    <3>4. Order'
      BY DEF IInv, Order, Written, Rounds, Final
    <3>5. Times'
      BY DEF IInv, Times, LateSoFar, OwnSoFar, Index, Complete, Ahead
    <3> QED BY <3>1, <3>2, <3>3, <3>4, <3>5 DEF IInv
  <2> QED BY <2>1, <2>2
<1> QED BY <1>1, <1>2, PTL DEF Spec

\* Whatever the network does, a hop but the last is never counted beyond
\* three answers, and no hop beyond its requests and the duplicates: the
\* counts and times packets[] of main keep stay in their ranges.
THEOREM TypeCorrect == Spec => []TypeOK
<1>1. IInv => TypeOK
  <2> SUFFICES ASSUME IInv PROVE TypeOK
    OBVIOUS
  <2>1. Scalars /\ Arrays /\ Flag /\ Balance /\ Full
    BY DEF IInv, Types, Counts
  <2>2. ASSUME NEW t \in Hop
        PROVE  came[t] \in -1 .. 6 + MaxCopies /\ way[t] \in 0 .. 3 + MaxCopies
    <3>1. came[t] \in Int /\ way[t] \in Nat
      BY <2>1 DEF Arrays
    <3>2. copies \in Nat /\ copies <= MaxCopies /\ MaxCopies \in Nat
      BY <2>1, Bounds DEF Scalars
    <3>3. came[t] >= -1 /\ way[t] <= 3 + copies /\ came[t] + way[t] <= 6 + copies
      BY <2>1 DEF Balance
    <3> QED BY <3>1, <3>2, <3>3
  <2>3. came \in [Hop -> -1 .. 6 + MaxCopies] /\ way \in [Hop -> 0 .. 3 + MaxCopies]
    BY <2>1, <2>2 DEF Arrays
  <2>4. \A t \in Hop : t < MaxHops => came[t] \in 0 .. 3
    BY <2>1 DEF Full, Room
  <2>5. used \in [Hop -> Seq(Hop \X Nat)] /\ lines \in Seq(Line) /\ late \subseteq Hop
    <3>1. Entry \subseteq Line
      BY EntryParts
    <3>2. Seq(Entry) \subseteq Seq(Line)
      BY <3>1
    <3> QED BY <2>1, <3>2 DEF Arrays, Time
  <2>6. undisturbed \in BOOLEAN
    BY <2>1 DEF Flag
  <2> QED BY <2>1, <2>3, <2>4, <2>5, <2>6 DEF TypeOK, Scalars
<1> QED BY <1>1, Invariance, PTL

\* The output of main is one line for each hop traced so far, in order and
\* with its number, whatever is lost, late, doubled or not ours; but the line
\* of a last hop that answered has whatever number ttl of packets[maxhops],
\* which nothing sets, happens to hold.
THEOREM LinesAreInOrder == Spec => []LinesInOrder
<1>1. IInv => LinesInOrder
  <2> SUFFICES ASSUME IInv PROVE LinesInOrder
    OBVIOUS
  <2>1. Order /\ lines \in Seq(Entry) /\ ttl \in Nat /\ distance \in Nat
    BY Bounds DEF IInv, Types, Arrays, Scalars
  <2>2. \A k \in DOMAIN lines : lines[k][1] \in Hop /\ Shows(lines[k], lines[k][1])
    <3>1. \A k \in DOMAIN lines : lines[k] \in Entry
      BY <2>1
    <3> QED BY <3>1, EntryParts DEF Entry
  <2>3. \A k \in DOMAIN lines : k < ttl => Shows(lines[k], k)
    BY <2>1, <2>2 DEF Order, Written
  <2>4. ASSUME phase = "done", Len(lines) >= ttl
        PROVE  /\ Len(lines) = ttl /\ lines[ttl][2] = "complete"
               /\ \E t \in Hop : t >= distance /\ Shows(lines[ttl], t)
    <3>1. Len(lines) = ttl /\ lines[ttl][1] >= distance /\ lines[ttl][2] = "complete"
      BY <2>1, <2>4 DEF Order, Final
    <3>2. ttl \in DOMAIN lines
      <4>1. ttl >= 1
        BY Bounds DEF IInv, Types, Scalars
      <4> QED BY <2>1, <3>1, <4>1
    <3> QED BY <2>2, <3>1, <3>2
  <2> QED BY <2>1, <2>3, <2>4 DEF LinesInOrder, Order, Rounds
<1> QED BY <1>1, Invariance, PTL

\* The mean time main prints for a hop is that of its own three requests,
\* each used once, unless a late answer came in its round or a later one.
THEOREM TimesAreOwn == Spec => []OwnTimes
<1>1. IInv => OwnTimes
  <2> SUFFICES ASSUME IInv, NEW k \in DOMAIN lines, NEW t, t = lines[k][1],
                      lines[k][2] = "complete", t < MaxHops, late \cap (t .. ttl) = {}
               PROVE  used[t] = <<<<t, 0>>, <<t, 1>>, <<t, 2>>>>
    BY DEF OwnTimes
  <2>1. t \in Hop
    <3>1. lines[k] \in Entry
      BY DEF IInv, Types, Arrays
    <3> QED BY <3>1, EntryParts
  <2>2. came[t] = 3
    BY DEF IInv, Times, Complete
  <2>3. used[t] \in Seq(Time) /\ Len(used[t]) = 3
    BY <2>1, <2>2 DEF IInv, Counts, Full, Room, Types, Arrays
  <2>4. \A n \in 1 .. 3 : used[t][n] = <<t, n - 1>>
    BY <2>1, <2>3 DEF IInv, Times, OwnSoFar
  <2>5. used[t][1] = <<t, 0>> /\ used[t][2] = <<t, 1>> /\ used[t][3] = <<t, 2>>
    <3>1. 1 - 1 = 0 /\ 2 - 1 = 1 /\ 3 - 1 = 2
      OBVIOUS
    <3>2. used[t][1] = <<t, 1 - 1>> /\ used[t][2] = <<t, 2 - 1>> /\ used[t][3] = <<t, 3 - 1>>
      BY <2>4
    <3> QED BY <3>1, <3>2
  <2> DEFINE own == <<<<t, 0>>, <<t, 1>>, <<t, 2>>>>
  <2>6. own \in Seq(Time) /\ Len(own) = 3
    BY <2>1 DEF Time
  <2>7. own[1] = <<t, 0>> /\ own[2] = <<t, 1>> /\ own[3] = <<t, 2>>
    OBVIOUS
  <2> HIDE DEF own
  <2>8. \A n \in 1 .. 3 : used[t][n] = own[n]
    <3>1. \A n \in 1 .. 3 : n = 1 \/ n = 2 \/ n = 3
      OBVIOUS
    <3> QED BY <2>5, <2>7, <3>1
  <2>9. used[t] = own
    BY <2>3, <2>6, <2>8, SeqEqual
  <2> QED BY <2>9 DEF own
<1> QED BY <1>1, Invariance, PTL

-----------------------------------------------------------------------------
(***************************************************************************)
(* The undisturbed trace, with the words of the code.                      *)
(***************************************************************************)
LEMMA SmallIds ==
    ASSUME Word = 65536, NEW p \in Nat, p < Word \div 2
    PROVE  p % Word = p /\ p < 32768
  BY SMT

\* Every request with such an identifier is answered.
LEMMA Answered ==
    ASSUME Word = 65536, MaxHops < 256, Scalars, pid < Word \div 2, NEW t \in Hop
    PROVE  IsAnswered(t) /\ IsOurs
<1>1. pid \in Nat
  BY TraceAssumption DEF Scalars
<1>2. Id = pid /\ pid < 32768
  BY <1>1, SmallIds DEF Id
<1>3. t \in Int /\ 0 <= t /\ t < 256
  BY Bounds, HopIsNat
<1>4. Check!Valid(Id, t, Check!in_cksum(Id, t))
  BY <1>1, <1>2, <1>3, PositiveIdsAreValid
<1> QED BY <1>2, <1>4 DEF IsAnswered, IsOurs

LEMMA UndisturbedSteps ==
    ASSUME Types, Next, undisturbed'
    PROVE  /\ undisturbed
           /\ \/ Probe \/ End \/ Stray
              \/ Timeout /\ way[ttl] = 0
              \/ \E seq \in Hop : NotOurs(seq)
              \/ ttl \in Hop /\ Answer(ttl)
<1>1. CASE Probe \/ End \/ Stray
  BY <1>1 DEF Probe, End, Stray
<1>2. CASE Timeout
  BY <1>2 DEF Timeout
<1>3. ASSUME NEW seq \in Hop, NotOurs(seq)
      PROVE  undisturbed
  BY <1>3 DEF NotOurs
<1>4. ASSUME NEW t \in Hop, Copy(t)
      PROVE  FALSE
  BY <1>4 DEF Copy
<1>5. ASSUME NEW seq \in Hop, TimeExceeded(seq) \/ EchoReply(seq)
      PROVE  undisturbed /\ ttl \in Hop /\ Answer(ttl)
  <2>1. undisturbed /\ seq = ttl
    BY <1>5 DEF TimeExceeded, EchoReply, Note
  <2> QED BY <1>5, <2>1, AnswerSteps
<1> QED BY <1>1, <1>2, <1>3, <1>4, <1>5 DEF Next, Step

\* While nothing goes wrong, no round is left before its three answers have
\* come, and none lies behind the target.
Quiet == undisturbed /\ distance < MaxHops /\ pid < Word \div 2
AllComplete == \A k \in DOMAIN lines : lines[k][2] = "complete"
Upto == ttl <= distance
Waiting == phase = "receive" => came[ttl] + way[ttl] = 3
Reached == phase = "done" => ttl = distance /\ Len(lines) = distance /\ lines[distance][1] = distance
Clean == Quiet => Upto /\ AllComplete /\ Waiting /\ Reached

LEMMA CleanInit == Init => Clean
<1> SUFFICES ASSUME Init PROVE Clean
  OBVIOUS
<1>1. ttl = 1 /\ lines = <<>> /\ phase = "send" /\ distance \in 1 .. MaxHops + 1
  BY DEF Init
<1>2. Upto /\ AllComplete /\ Waiting /\ Reached
  BY <1>1, Bounds DEF Upto, AllComplete, Waiting, Reached
<1> QED BY <1>2 DEF Clean

LEMMA CleanKept ==
    ASSUME Word = 65536, MaxHops < 256, IInv, Clean, Next
    PROVE  Clean'
<1>0. Types /\ Scalars /\ Arrays /\ Counts /\ Order
  BY DEF IInv, Types
<1>00. ttl \in Nat /\ distance \in Nat /\ lines \in Seq(Entry)
  BY <1>0, Bounds DEF Scalars, Arrays
<1> SUFFICES ASSUME Quiet'
             PROVE  Upto' /\ AllComplete' /\ Waiting' /\ Reached'
  BY DEF Clean
<1>1. distance' = distance /\ pid' = pid
  <2>1. CASE Probe \/ End \/ Timeout \/ Stray
    BY <2>1 DEF Probe, End, Timeout, Stray, net
  <2>2. ASSUME NEW seq \in Hop, Answer(seq) \/ NotOurs(seq) \/ Copy(seq)
        PROVE  distance' = distance /\ pid' = pid
    BY <2>2 DEF Answer, Taken, NotOurs, Copy, net
  <2> QED BY <1>0, <2>1, <2>2, NextCases
<1>2. undisturbed /\ distance < MaxHops /\ pid < Word \div 2
  BY <1>0, <1>1, UndisturbedSteps DEF Quiet
<1>3. Upto /\ AllComplete /\ Waiting /\ Reached
  BY <1>2 DEF Clean, Quiet
<1>4. ttl \in Hop /\ ttl < MaxHops /\ ttl <= distance
  BY <1>0, <1>00, <1>2, <1>3, HopIsNat, Bounds DEF Upto, Scalars
<1>5. CASE Probe
  <2>1. phase = "send" /\ phase' = "receive" /\ ttl' = ttl /\ lines' = lines /\ came' = came
    BY <1>5 DEF Probe
  <2>2. IsAnswered(ttl)
    BY <1>0, <1>2, <1>4, Answered
  <2>3. way'[ttl] = 3
    BY <1>0, <1>4, <1>5, <2>2 DEF Probe, Arrays
  <2>4. came[ttl] = 0
    BY <1>0, <1>4, <2>1 DEF Counts, Untouched, Ahead
  <2> QED BY <1>1, <1>3, <2>1, <2>3, <2>4 DEF Upto, AllComplete, Waiting, Reached
<1>6. CASE End
  BY <1>00, <1>4, <1>6, Bounds DEF End
<1>7. CASE Stray
  BY <1>1, <1>3, <1>7 DEF Stray, main, Upto, AllComplete, Waiting, Reached
<1>8. CASE Timeout /\ way[ttl] = 0
  <2>1. phase = "receive" /\ came[ttl] + way[ttl] = 3
    BY <1>3, <1>8 DEF Timeout, Waiting
  <2>2. came[ttl] = 3
    BY <1>0, <1>4, <1>8, <2>1 DEF Arrays
  <2>3. Over(ttl)
    BY <1>0, <1>4 DEF Counts, Full
  <2> QED BY <1>00, <2>1, <2>2, <2>3 DEF Over
<1>9. ASSUME NEW seq \in Hop, NotOurs(seq)
      PROVE  FALSE
  BY <1>0, <1>2, <1>9, Answered DEF NotOurs
<1>10. CASE Answer(ttl)
  <2>1. phase = "receive" /\ way'[ttl] = way[ttl] - 1 /\ Counted(ttl)
    BY <1>0, <1>4, <1>10 DEF Answer, Taken, Ignored, Arrays
  <2>2. came'[ttl] = came[ttl] + 1 /\ came[ttl] \in Int /\ way[ttl] \in Int
    BY <1>0, <1>4, <2>1 DEF Counted, Arrays
  <2>3. came[ttl] + way[ttl] = 3
    BY <1>3, <2>1 DEF Waiting
  <2>4. CASE GoesOn(ttl)
    <3>1. came'[ttl] + way'[ttl] = 3
      BY <2>1, <2>2, <2>3
    <3> QED BY <1>1, <1>3, <2>1, <2>4, <3>1 DEF GoesOn, Upto, AllComplete, Waiting, Reached
  <2>5. CASE Completes(ttl)
    <3>1. PICK line \in Entry : /\ line[1] = ttl /\ line[2] = "complete"
                                /\ lines' = Append(lines, line)
      BY <1>4, <2>5 DEF Completes
    <3>2. Len(lines) = ttl - 1
      BY <1>0, <2>1 DEF Order, Rounds
    <3>3. Len(lines') = ttl /\ lines'[ttl][1] = ttl /\ lines'[ttl][2] = "complete"
      BY <1>00, <3>1, <3>2
    <3>4. ASSUME NEW k \in DOMAIN lines'
          PROVE  lines'[k][2] = "complete"
      <4>1. CASE k = ttl
        BY <3>3, <4>1
      <4>2. CASE k # ttl
        <5>1. k \in DOMAIN lines /\ lines'[k] = lines[k]
          BY <1>00, <3>1, <3>2, <4>2
        <5> QED BY <1>3, <5>1 DEF AllComplete
      <4> QED BY <4>1, <4>2
    <3>5. AllComplete'
      BY <3>4 DEF AllComplete
    <3>6. Waiting'
      BY <2>5 DEF Completes, Waiting
    <3>7. CASE phase' = "send" /\ ttl' = ttl + 1 /\ ttl < distance
      BY <1>00, <1>1, <3>5, <3>6, <3>7 DEF Upto, Reached
    <3>8. CASE phase' = "done" /\ ttl' = ttl /\ ttl >= distance
      <4>1. ttl = distance
        BY <1>00, <1>4, <3>8
      <4>2. Len(lines') = distance /\ lines'[distance][1] = distance
        BY <3>3, <4>1
      <4> QED BY <1>1, <1>4, <3>5, <3>6, <3>8, <4>1, <4>2 DEF Upto, Reached
    <3> QED BY <2>5, <3>7, <3>8 DEF Completes
  <2> QED BY <1>4, <1>10, <2>4, <2>5 DEF Answer, Ignored
<1> QED BY <1>0, <1>5, <1>6, <1>7, <1>8, <1>9, <1>10, UndisturbedSteps DEF Quiet

\* With 16-bit words and a ttl of one byte: if nothing goes wrong in the
\* network and the process id is positive as a signed word, traceroute prints
\* one complete line for each hop up to the target, and stops.
THEOREM UndisturbedIsClean ==
    ASSUME Word = 65536, MaxHops < 256
    PROVE  Spec => []CleanTrace
<1>1. Init => Clean
  BY CleanInit
<1>2. IInv /\ Clean /\ [Next]_vars => Clean'
  <2> SUFFICES ASSUME IInv, Clean, [Next]_vars PROVE Clean'
    OBVIOUS
  <2>1. CASE Next
    BY <2>1, CleanKept
  <2>2. CASE UNCHANGED vars
    BY <2>2 DEF vars, net, main, Clean, Quiet, Upto, AllComplete, Waiting, Reached
  <2> QED BY <2>1, <2>2
<1>3. IInv /\ Clean => CleanTrace
  <2> SUFFICES ASSUME IInv, Clean, Quiet, phase = "done"
               PROVE  lines = [k \in 1 .. distance |-> <<k, "complete", k>>]
    BY DEF CleanTrace, Quiet
  <2>1. distance \in Nat /\ lines \in Seq(Entry)
    BY Bounds DEF IInv, Types, Scalars, Arrays
  <2>2. AllComplete /\ ttl = distance /\ Len(lines) = distance /\ lines[distance][1] = distance
    BY DEF Clean, Reached
  <2>3. ASSUME NEW k \in 1 .. distance
        PROVE  lines[k] = <<k, "complete", k>>
    <3>1. k \in DOMAIN lines /\ lines[k] \in Entry
      BY <2>1, <2>2
    <3>2. lines[k][1] = k
      BY <2>1, <2>2, <3>1 DEF IInv, Order, Written
    <3>3. lines[k][2] = "complete"
      BY <2>2, <3>1 DEF AllComplete
    <3>4. lines[k][3] = k
      <4>1. k < MaxHops
        BY <2>1, Bounds DEF Quiet
      <4> QED BY <3>1, <3>2, <4>1, Bounds, EntryParts
    <3> QED BY <3>1, <3>2, <3>3, <3>4, EntryParts
  <2>4. lines = [k \in 1 .. Len(lines) |-> lines[k]]
    BY <2>1
  <2>5. lines = [k \in 1 .. distance |-> lines[k]]
    BY <2>2, <2>4
  <2>6. [k \in 1 .. distance |-> lines[k]] = [k \in 1 .. distance |-> <<k, "complete", k>>]
    BY <2>3
  <2> QED BY <2>5, <2>6
<1> QED BY <1>1, <1>2, <1>3, Invariance, PTL DEF Spec
=============================================================================
