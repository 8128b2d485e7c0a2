------------------------- MODULE MessagePipeProofs -------------------------
(***************************************************************************)
(* What holds of MessagePipe for every number of client threads, calls,    *)
(* failures and every capacity of the pipe.                                *)
(***************************************************************************)
EXTENDS MessagePipe, SequenceTheorems, TLAPS

(***************************************************************************)
(* The strengthened type invariant: a thread inside putMessage has its     *)
(* call counted, so what it writes is a Message.                           *)
(***************************************************************************)
CallCounted == \A t \in Thread : wpc[t] # "idle" => puts[t] \in 1 .. MaxPut

TInv == TypeOK /\ CallCounted

LEMMA TInvInit == Init => TInv
<1> SUFFICES ASSUME Init PROVE TInv
  OBVIOUS
<1>1. lock \in {"free", "held"}
  BY DEF Init
<1>2. fifo \in Seq(Message) /\ got \in Seq(Message)
  BY DEF Init
<1>3. wpc \in [Thread -> WriterPC] /\ puts \in [Thread -> 0 .. MaxPut]
  BY PipeAssumption DEF Init, WriterPC
<1>4. rpc \in ReaderPC /\ failures \in Nat /\ status \in {"up", "sigpipe", "undefined"}
  BY DEF Init, ReaderPC
<1>5. CallCounted
  BY DEF Init, CallCounted
<1> QED BY <1>1, <1>2, <1>3, <1>4, <1>5 DEF TInv, TypeOK

LEMMA TInvWriter ==
    ASSUME TInv, NEW t \in Thread, WOpen(t) \/ WOpenFails(t) \/ putMessage(t)
    PROVE  TInv'
<1>0. fifo \in Seq(Message)
  BY DEF TInv, TypeOK
<1> USE PipeAssumption DEF TInv, TypeOK, CallCounted, Goto
<1>1. CASE WOpen(t)
  BY <1>1 DEF WOpen, WriterPC, ReaderPC
<1>2. CASE WOpenFails(t)
  <2>1. lock' \in {"free", "held"}
    BY <1>2 DEF WOpenFails
  <2>2. puts' \in [Thread -> 0 .. MaxPut] /\ failures' \in Nat /\ CallCounted'
    BY <1>2 DEF WOpenFails
  <2> QED BY <1>2, <2>1, <2>2 DEF WOpenFails
<1>3. CASE WLock(t)
  BY <1>3 DEF WLock, WriterPC
<1>4. CASE WWrite(t)
  <2>1. <<t, puts[t]>> \in Message
    BY <1>4 DEF WWrite, Message
  <2>2. fifo' \in Seq(Message)
    <3>1. fifo' \in {fifo, Append(fifo, <<t, puts[t]>>)}
      BY <1>4 DEF WWrite
    <3> HIDE DEF TypeOK, CallCounted
    <3> QED BY <1>0, <2>1, <3>1, AppendProperties
  <2>3. wpc' \in [Thread -> WriterPC] /\ CallCounted'
    BY <1>4 DEF WWrite, WriterPC
  <2>4. status' \in {"up", "sigpipe", "undefined"}
    BY <1>4 DEF WWrite
  <2>5. UNCHANGED <<lock, puts, rpc, got, failures>>
    BY <1>4 DEF WWrite
  <2> QED BY <2>2, <2>3, <2>4, <2>5
<1>5. CASE WClose(t)
  <2>1. fifo' \in Seq(Message)
    BY <1>5 DEF WClose
  <2> QED BY <1>5, <2>1 DEF WClose, WriterPC
<1>6. CASE WUnlock(t)
  BY <1>6 DEF WUnlock, WriterPC
<1> QED BY <1>1, <1>2, <1>3, <1>4, <1>5, <1>6 DEF putMessage

LEMMA TInvReader ==
    ASSUME TInv, getMessage \/ ROpenFails
    PROVE  TInv'
<1>0. fifo \in Seq(Message) /\ got \in Seq(Message)
  BY DEF TInv, TypeOK
<1> USE PipeAssumption DEF TInv, TypeOK, CallCounted
<1>1. CASE ROpen
  BY <1>1 DEF ROpen, WriterPC, ReaderPC
<1>2. CASE ROpenFails
  <2>1. lock' \in {"free", "held"}
    BY <1>2 DEF ROpenFails
  <2>2. puts' \in [Thread -> 0 .. MaxPut] /\ failures' \in Nat /\ CallCounted'
    BY <1>2 DEF ROpenFails
  <2> QED BY <1>2, <2>1, <2>2 DEF ROpenFails
<1>3. CASE RLock
  BY <1>3 DEF RLock, ReaderPC
<1>4. CASE RRead
  <2>1. fifo' \in Seq(Message) /\ got' \in Seq(Message)
    <3>2. CASE fifo = <<>>
      BY <1>0, <1>4, <3>2 DEF RRead
    <3>3. CASE fifo # <<>> 
      <4>1. fifo' = Tail(fifo) /\ got' = Append(got, Head(fifo))
        BY <1>4, <3>3 DEF RRead
      <4> QED BY <1>0, <3>3, <4>1, AppendProperties, HeadTailProperties
    <3> QED BY <3>2, <3>3
  <2>2. rpc' \in ReaderPC /\ status' \in {"up", "sigpipe", "undefined"}
    BY <1>4 DEF RRead, ReaderPC
  <2>3. UNCHANGED <<lock, wpc, puts, failures>>
    BY <1>4 DEF RRead
  <2> QED BY <2>1, <2>2, <2>3
<1>5. CASE RClose
  <2>1. fifo' \in Seq(Message)
    BY <1>5 DEF RClose
  <2> QED BY <1>5, <2>1 DEF RClose, ReaderPC
<1>6. CASE RUnlock
  BY <1>6 DEF RUnlock, ReaderPC
<1> QED BY <1>1, <1>2, <1>3, <1>4, <1>5, <1>6 DEF getMessage

LEMMA TInvStep == TInv /\ [Next]_vars => TInv'
<1> SUFFICES ASSUME TInv, [Next]_vars PROVE TInv'
  OBVIOUS
<1>1. CASE UNCHANGED vars
  BY <1>1 DEF TInv, TypeOK, CallCounted, vars
<1>2. CASE getMessage \/ ROpenFails
  BY <1>2, TInvReader
<1>3. ASSUME NEW t \in Thread, WOpen(t) \/ WOpenFails(t) \/ putMessage(t)
      PROVE  TInv'
  BY <1>3, TInvWriter
<1> QED BY <1>1, <1>2, <1>3 DEF Next

LEMMA TInvAlways == Spec => []TInv
BY TInvInit, TInvStep, PTL DEF Spec

\* Every variable of MessagePipe keeps its type: in particular only whole
\* messages some thread started to put are ever in the pipe or returned.
THEOREM TypeCorrect == Spec => []TypeOK
<1>1. TInv => TypeOK
  BY DEF TInv
<1> QED BY <1>1, TInvAlways, PTL

(***************************************************************************)
(* What the lock and the sessions of the pipe guarantee as long as no open *)
(* has failed.  Session relates the two ends: the dispatch thread, once    *)
(* its open has returned and until it has read, has a message in the pipe  *)
(* or a writer that will still put one there; and a thread that has        *)
(* written keeps the lock from the dispatch thread until its own           *)
(* descriptor is closed.                                                   *)
(***************************************************************************)
Exclusive ==
    /\ lock = "held" <=> (ReaderHolds \/ \E t \in Thread : WriterHolds(t))
    /\ \A t \in Thread : WriterHolds(t) =>
           ~ReaderHolds /\ \A u \in Thread : WriterHolds(u) => u = t

ReaderIsFed ==
    rpc \in {"opened", "locked"} =>
        fifo # <<>> \/ \E t \in Thread : wpc[t] \in {"opened", "locked"}

OpensMeet ==
    /\ rpc = "opening" => Writers = {}
    /\ \A t \in Thread : wpc[t] = "opening" => ~HasReader

WrittenIsWaiting ==
    \A t \in Thread : wpc[t] = "written" => rpc = "opened" /\ fifo # <<>>

Session == ReaderIsFed /\ OpensMeet /\ WrittenIsWaiting /\ status # "undefined"

SInv == TInv /\ (failures = 0 => Exclusive /\ Session)

LEMMA SInvInit == Init => SInv
<1> SUFFICES ASSUME Init PROVE Exclusive /\ Session
  BY TInvInit DEF SInv
<1>1. Exclusive
  BY DEF Init, Exclusive, WriterHolds, ReaderHolds
<1>2. Session
  BY DEF Init, Session, ReaderIsFed, OpensMeet, WrittenIsWaiting, HasReader, Writers
<1> QED BY <1>1, <1>2

LEMMA WriterKeepsExclusive ==
    ASSUME TInv, Exclusive, NEW t \in Thread, WOpen(t) \/ putMessage(t)
    PROVE  Exclusive'
<1> USE DEF TInv, TypeOK, Exclusive, WriterHolds, ReaderHolds, Goto
<1>1. CASE WOpen(t)
  BY <1>1 DEF WOpen
<1>2. CASE WLock(t)
  BY <1>2 DEF WLock
<1>3. CASE WWrite(t)
  BY <1>3 DEF WWrite
<1>4. CASE WClose(t)
  BY <1>4 DEF WClose
<1>5. CASE WUnlock(t)
  BY <1>5 DEF WUnlock
<1> QED BY <1>1, <1>2, <1>3, <1>4, <1>5 DEF putMessage

LEMMA ReaderKeepsExclusive ==
    ASSUME TInv, Exclusive, getMessage
    PROVE  Exclusive'
<1> USE DEF TInv, TypeOK, Exclusive, WriterHolds, ReaderHolds
<1>1. CASE ROpen
  BY <1>1 DEF ROpen
<1>2. CASE RLock
  BY <1>2 DEF RLock
<1>3. CASE RRead
  BY <1>3 DEF RRead
<1>4. CASE RClose
  BY <1>4 DEF RClose
<1>5. CASE RUnlock
  BY <1>5 DEF RUnlock
<1> QED BY <1>1, <1>2, <1>3, <1>4, <1>5 DEF getMessage

LEMMA WriterKeepsSession ==
    ASSUME TInv, Exclusive, Session, NEW t \in Thread, WOpen(t) \/ putMessage(t)
    PROVE  Session'
<1> USE DEF TInv, TypeOK, Session, Goto
<1>1. CASE WOpen(t)
  BY <1>1 DEF WOpen, ReaderIsFed, OpensMeet, WrittenIsWaiting, HasReader, Writers
<1>2. CASE WLock(t)
  BY <1>2 DEF WLock, ReaderIsFed, OpensMeet, WrittenIsWaiting, HasReader, Writers
<1>3. CASE WWrite(t)
  <2>1. CASE HasReader
    <3>1. rpc = "opened"
      BY <1>3, <2>1 DEF WWrite, Exclusive, WriterHolds, ReaderHolds, OpensMeet,
         HasReader, Writers
    <3>2. rpc' = rpc /\ status' = status /\ wpc' = [wpc EXCEPT ![t] = "written"]
      BY <1>3, <2>1 DEF WWrite
    <3>3. fifo' # <<>>
      <4>1. fifo \in Seq(Message) /\ fifo' = Append(fifo, <<t, puts[t]>>)
        BY <1>3, <2>1 DEF WWrite
      <4> HIDE DEF TypeOK
      <4> QED BY <4>1
    <3> QED BY <3>1, <3>2, <3>3 DEF ReaderIsFed, OpensMeet, WrittenIsWaiting, HasReader, Writers
  <2>2. CASE ~HasReader
    BY <1>3, <2>2 DEF WWrite, ReaderIsFed, OpensMeet, WrittenIsWaiting, HasReader, Writers
  <2> QED BY <2>1, <2>2
<1>4. CASE WClose(t)
  BY <1>4 DEF WClose, ReaderIsFed, OpensMeet, WrittenIsWaiting, HasReader, Writers
<1>5. CASE WUnlock(t)
  BY <1>5 DEF WUnlock, ReaderIsFed, OpensMeet, WrittenIsWaiting, HasReader, Writers
<1> QED BY <1>1, <1>2, <1>3, <1>4, <1>5 DEF putMessage

LEMMA ReaderKeepsSession ==
    ASSUME TInv, Exclusive, Session, getMessage
    PROVE  Session'
<1> USE DEF TInv, TypeOK, Session
<1>1. CASE ROpen
  BY <1>1 DEF ROpen, ReaderIsFed, OpensMeet, WrittenIsWaiting, HasReader, Writers
<1>2. CASE RLock
  BY <1>2 DEF RLock, Exclusive, WriterHolds, ReaderIsFed, OpensMeet, WrittenIsWaiting, HasReader, Writers
<1>3. CASE RRead
  BY <1>3 DEF RRead, Exclusive, WriterHolds, ReaderHolds, ReaderIsFed, OpensMeet, WrittenIsWaiting, HasReader, Writers
<1>4. CASE RClose
  BY <1>4 DEF RClose, Exclusive, WriterHolds, ReaderHolds, ReaderIsFed, OpensMeet, WrittenIsWaiting, HasReader, Writers
<1>5. CASE RUnlock
  BY <1>5 DEF RUnlock, ReaderIsFed, OpensMeet, WrittenIsWaiting, HasReader, Writers
<1> QED BY <1>1, <1>2, <1>3, <1>4, <1>5 DEF getMessage

LEMMA SInvStep == SInv /\ [Next]_vars => SInv'
<1> SUFFICES ASSUME SInv, [Next]_vars PROVE SInv'
  OBVIOUS
<1>1. TInv'
  BY TInvStep DEF SInv
<1>2. CASE UNCHANGED vars
  BY <1>1, <1>2 DEF SInv, vars, Exclusive, WriterHolds, ReaderHolds, Session,
     ReaderIsFed, OpensMeet, WrittenIsWaiting, HasReader, Writers
<1>3. CASE getMessage
  <2>1. failures' = failures
    BY <1>3 DEF getMessage, ROpen, RLock, RRead, RClose, RUnlock
  <2> QED BY <1>1, <1>3, <2>1, ReaderKeepsExclusive, ReaderKeepsSession DEF SInv
<1>4. ASSUME NEW t \in Thread, WOpen(t) \/ putMessage(t)
      PROVE  SInv'
  <2>1. failures' = failures
    BY <1>4 DEF putMessage, WOpen, WLock, WWrite, WClose, WUnlock
  <2> QED BY <1>1, <1>4, <2>1, WriterKeepsExclusive, WriterKeepsSession DEF SInv
<1>5. ASSUME ROpenFails \/ \E t \in Thread : WOpenFails(t)
      PROVE  SInv'
  <2>1. failures' # 0
    BY <1>5 DEF ROpenFails, WOpenFails, SInv, TInv, TypeOK
  <2> QED BY <1>1, <2>1 DEF SInv
<1> QED BY <1>2, <1>3, <1>4, <1>5 DEF Next

LEMMA SInvAlways == Spec => []SInv
BY SInvInit, SInvStep, PTL DEF Spec

\* The spin lock is exclusive for any number of client threads, as long as
\* no open of the pipe has failed.
THEOREM LockIsExclusive == Spec => []LockExclusive
<1>1. SInv => LockExclusive
  BY DEF SInv, Exclusive, LockExclusive
<1> QED BY <1>1, SInvAlways, PTL

\* getMessage never reads an unset header from a pipe at end of file, as
\* long as no open of the pipe has failed.
THEOREM HeaderIsRead == Spec => []NeverEndOfFile
<1>1. SInv => NeverEndOfFile
  BY DEF SInv, Session, NeverEndOfFile
<1> QED BY <1>1, SInvAlways, PTL

(***************************************************************************)
(* Order.  Read together, the messages handed out and then those in the    *)
(* pipe are in the order each thread put them, and the call a thread is in *)
(* is later than all of them until its message is written.                 *)
(***************************************************************************)
InOrder(s) ==
    \A i, j \in 1 .. Len(s) : i < j /\ s[i][1] = s[j][1] => s[i][2] < s[j][2]

GotPrecedesFifo ==
    \A i \in 1 .. Len(got), j \in 1 .. Len(fifo) :
        got[i][1] = fifo[j][1] => got[i][2] < fifo[j][2]

Unwritten(t) == wpc[t] \in {"opening", "opened", "locked"}

AlreadyPut(msg) == /\ msg[2] <= puts[msg[1]]
                   /\ Unwritten(msg[1]) => msg[2] < puts[msg[1]]

OInv == /\ TInv
        /\ InOrder(got)
        /\ InOrder(fifo)
        /\ GotPrecedesFifo
        /\ \A i \in 1 .. Len(got) : AlreadyPut(got[i])
        /\ \A i \in 1 .. Len(fifo) : AlreadyPut(fifo[i])

\* A prefix of an ordered sequence, and what is put behind it.
LEMMA InOrderAppend ==
    ASSUME NEW s \in Seq(Message), InOrder(s), NEW msg \in Message,
           \A i \in 1 .. Len(s) : s[i][1] = msg[1] => s[i][2] < msg[2]
    PROVE  InOrder(Append(s, msg))
BY AppendProperties DEF InOrder

LEMMA InOrderTail ==
    ASSUME NEW s \in Seq(Message), s # <<>>, InOrder(s)
    PROVE  InOrder(Tail(s))
BY HeadTailProperties DEF InOrder

\* A step that leaves the pipe's contents alone or drops them, hands nothing
\* out and moves a thread's call only forward keeps the order.
LEMMA QuietKeepsOrder ==
    ASSUME OInv, TInv', got' = got, fifo' \in {fifo, <<>>},
           \A msg \in Message : AlreadyPut(msg) => AlreadyPut(msg)'
    PROVE  OInv'
<1>1. got \in Seq(Message) /\ fifo \in Seq(Message)
  BY DEF OInv, TInv, TypeOK
<1>2. \A i \in 1 .. Len(got) : got[i] \in Message
  BY <1>1
<1>3. \A i \in 1 .. Len(fifo) : fifo[i] \in Message
  BY <1>1
<1>4. CASE fifo' = fifo
  BY <1>2, <1>3, <1>4 DEF OInv, InOrder, GotPrecedesFifo, AlreadyPut
<1>5. CASE fifo' = <<>>
  BY <1>2, <1>5 DEF OInv, InOrder, GotPrecedesFifo, AlreadyPut
<1> QED BY <1>4, <1>5

LEMMA OInvInit == Init => OInv
BY TInvInit DEF Init, OInv, InOrder, GotPrecedesFifo

\* The steps other than the write and the read are quiet.
LEMMA WriterKeepsOrder ==
    ASSUME OInv, TInv', NEW t \in Thread,
           WOpen(t) \/ WOpenFails(t) \/ WLock(t) \/ WClose(t) \/ WUnlock(t)
    PROVE  OInv'
<1>1. got' = got /\ fifo' \in {fifo, <<>>}
  BY DEF WOpen, WOpenFails, WLock, WClose, WUnlock
<1>2. ASSUME NEW msg \in Message, AlreadyPut(msg)
      PROVE  AlreadyPut(msg)'
  <2>1. msg[1] \in Thread /\ msg[2] \in Nat /\ puts \in [Thread -> Nat] /\ wpc \in [Thread -> WriterPC]
    BY PipeAssumption DEF Message, OInv, TInv, TypeOK
  <2> QED BY <1>2, <2>1 DEF AlreadyPut, Unwritten, Goto, WOpen, WOpenFails, WLock,
             WClose, WUnlock
<1> QED BY <1>1, <1>2, QuietKeepsOrder

LEMMA ReaderKeepsOrder ==
    ASSUME OInv, TInv', ROpen \/ ROpenFails \/ RLock \/ RClose \/ RUnlock
    PROVE  OInv'
<1>1. got' = got /\ fifo' \in {fifo, <<>>}
  BY DEF ROpen, ROpenFails, RLock, RClose, RUnlock
<1>2. ASSUME NEW msg \in Message, AlreadyPut(msg)
      PROVE  AlreadyPut(msg)'
  <2>1. msg[1] \in Thread /\ wpc \in [Thread -> WriterPC]
    BY DEF Message, OInv, TInv, TypeOK
  <2> QED BY <1>2, <2>1 DEF AlreadyPut, Unwritten, ROpen, ROpenFails, RLock, RClose, RUnlock
<1> QED BY <1>1, <1>2, QuietKeepsOrder

LEMMA WriteKeepsOrder ==
    ASSUME OInv, TInv', NEW t \in Thread, WWrite(t)
    PROVE  OInv'
<1>1. CASE fifo' = fifo /\ wpc' = wpc
  <2>1. UNCHANGED <<got, puts>>
    BY DEF WWrite
  <2> QED BY <1>1, <2>1 DEF OInv, InOrder, GotPrecedesFifo, AlreadyPut, Unwritten
<1>2. CASE fifo' = Append(fifo, <<t, puts[t]>>) /\ wpc' = [wpc EXCEPT ![t] = "written"]
  <2> DEFINE msg == <<t, puts[t]>>
  <2>1. got' = got /\ puts' = puts /\ Unwritten(t)
    BY DEF WWrite, Unwritten
  <2>2. msg \in Message /\ got \in Seq(Message) /\ fifo \in Seq(Message)
    BY <2>1 DEF OInv, TInv, TypeOK, CallCounted, Unwritten, Message
  <2>3. \A m \in Message : AlreadyPut(m) /\ m[1] = t => m[2] < msg[2]
    BY <2>1 DEF AlreadyPut
  <2>4. \A m \in Message : AlreadyPut(m) => AlreadyPut(m)'
    <3>1. wpc \in [Thread -> WriterPC] /\ \A m \in Message : m[1] \in Thread
      BY DEF OInv, TInv, TypeOK, Message
    <3> QED BY <1>2, <2>1, <3>1 DEF AlreadyPut, Unwritten
  <2>5. AlreadyPut(msg)'
    <3>1. wpc'[t] = "written" /\ puts[t] \in Nat
      BY <1>2, PipeAssumption DEF OInv, TInv, TypeOK
    <3> QED BY <2>1, <3>1 DEF AlreadyPut, Unwritten
  <2>6. InOrder(fifo')
    BY <1>2, <2>2, <2>3, InOrderAppend, ElementOfSeq DEF OInv
  <2>7. GotPrecedesFifo'
    <3>1. \A i \in 1 .. Len(got) : got[i][1] = t => got[i][2] < msg[2]
      BY <2>2, <2>3, ElementOfSeq DEF OInv
    <3> QED BY <1>2, <2>1, <2>2, <3>1, AppendProperties DEF OInv, GotPrecedesFifo
  <2>8. ASSUME NEW i \in 1 .. Len(fifo')
        PROVE  AlreadyPut(fifo[i])'
    <3>1. CASE i \in 1 .. Len(fifo)
      <4>1. fifo'[i] = fifo[i] /\ fifo[i] \in Message /\ AlreadyPut(fifo[i])
        BY <1>2, <2>2, <3>1, AppendProperties, ElementOfSeq DEF OInv
      <4> QED BY <2>4, <4>1 DEF AlreadyPut, Unwritten
    <3>2. CASE i = Len(fifo) + 1
      <4>1. fifo'[i] = msg
        BY <1>2, <2>2, <3>2, AppendProperties
      <4> QED BY <2>1, <2>5, <4>1 DEF AlreadyPut, Unwritten
    <3>3. Len(fifo') = Len(fifo) + 1 /\ Len(fifo) \in Nat
      BY <1>2, <2>2, AppendProperties, LenProperties
    <3> QED BY <3>1, <3>2, <3>3
  <2>9. \A i \in 1 .. Len(got') : AlreadyPut(got[i])'
    <3>1. \A i \in 1 .. Len(got) : got[i] \in Message /\ AlreadyPut(got[i])
      BY <2>2, ElementOfSeq DEF OInv
    <3> QED BY <2>1, <2>4, <3>1 DEF AlreadyPut, Unwritten
  <2> QED BY <2>1, <2>6, <2>7, <2>8, <2>9 DEF OInv, InOrder
<1> QED BY <1>1, <1>2 DEF WWrite, Goto

LEMMA ReadKeepsOrder ==
    ASSUME OInv, TInv', RRead
    PROVE  OInv'
<1>1. UNCHANGED <<puts, wpc>>
  BY DEF RRead
<1>2. CASE UNCHANGED <<fifo, got>>
  BY <1>1, <1>2 DEF OInv, InOrder, GotPrecedesFifo, AlreadyPut, Unwritten
<1>3. CASE fifo # <<>> /\ got' = Append(got, Head(fifo)) /\ fifo' = Tail(fifo)
  <2>1. got \in Seq(Message) /\ fifo \in Seq(Message)
    BY DEF OInv, TInv, TypeOK
  <2>2. /\ Head(fifo) = fifo[1]
        /\ fifo[1] \in Message
        /\ 1 \in 1 .. Len(fifo)
        /\ Len(fifo') = Len(fifo) - 1
        /\ \A i \in 1 .. Len(fifo') : fifo'[i] = fifo[i + 1]
    BY <1>3, <2>1, HeadTailProperties
  <2>3. /\ Len(got') = Len(got) + 1
        /\ \A i \in 1 .. Len(got) : got'[i] = got[i]
        /\ got'[Len(got) + 1] = fifo[1]
    BY <1>3, <2>1, <2>2, AppendProperties
  <2>4. InOrder(got')
    BY <1>3, <2>1, <2>2, InOrderAppend DEF OInv, GotPrecedesFifo
  <2>5. InOrder(fifo')
    BY <1>3, <2>1, InOrderTail DEF OInv
  <2>6. GotPrecedesFifo'
    <3> SUFFICES ASSUME NEW i \in 1 .. Len(got'), NEW j \in 1 .. Len(fifo'),
                        got'[i][1] = fifo'[j][1]
                 PROVE  got'[i][2] < fifo'[j][2]
      BY DEF GotPrecedesFifo
    <3>1. fifo'[j] = fifo[j + 1] /\ j + 1 \in 1 .. Len(fifo) /\ 1 < j + 1
      BY <2>1, <2>2
    <3>2. CASE i \in 1 .. Len(got)
      BY <2>3, <3>1, <3>2 DEF OInv, GotPrecedesFifo
    <3>3. CASE i = Len(got) + 1
      BY <2>2, <2>3, <3>1, <3>3 DEF OInv, InOrder
    <3> QED BY <2>1, <2>3, <3>2, <3>3
  <2>7. ASSUME NEW i \in 1 .. Len(got')
        PROVE  AlreadyPut(got[i])'
    <3>1. i \in 1 .. Len(got) \/ i = Len(got) + 1
      BY <2>1, <2>3
    <3>2. AlreadyPut(got'[i])
      BY <2>2, <2>3, <3>1 DEF OInv
    <3> QED BY <1>1, <3>2 DEF AlreadyPut, Unwritten
  <2>8. ASSUME NEW i \in 1 .. Len(fifo')
        PROVE  AlreadyPut(fifo[i])'
    <3>1. fifo'[i] = fifo[i + 1] /\ i + 1 \in 1 .. Len(fifo)
      BY <2>1, <2>2
    <3>2. AlreadyPut(fifo'[i])
      BY <3>1 DEF OInv
    <3> QED BY <1>1, <3>2 DEF AlreadyPut, Unwritten
  <2> QED BY <2>4, <2>5, <2>6, <2>7, <2>8 DEF OInv, InOrder
<1> QED BY <1>2, <1>3 DEF RRead

LEMMA OInvStep == OInv /\ [Next]_vars => OInv'
<1> SUFFICES ASSUME OInv, [Next]_vars PROVE OInv'
  OBVIOUS
<1>1. TInv'
  BY TInvStep DEF OInv
<1>2. CASE UNCHANGED vars
  BY <1>1, <1>2 DEF OInv, vars, InOrder, GotPrecedesFifo, AlreadyPut, Unwritten
<1>3. CASE getMessage \/ ROpenFails
  BY <1>1, <1>3, ReaderKeepsOrder, ReadKeepsOrder DEF getMessage
<1>4. ASSUME NEW t \in Thread, WOpen(t) \/ WOpenFails(t) \/ putMessage(t)
      PROVE  OInv'
  BY <1>1, <1>4, WriterKeepsOrder, WriteKeepsOrder DEF putMessage
<1> QED BY <1>2, <1>3, <1>4 DEF Next

\* The messages of each thread are handed to the dispatch thread in the order
\* that thread put them and none twice, even across failing opens.
THEOREM OrderPerSender == Spec => []PerSenderOrder
<1>1. Spec => []OInv
  BY OInvInit, OInvStep, PTL DEF Spec
<1>2. OInv => PerSenderOrder
  BY DEF OInv, InOrder, PerSenderOrder
<1> QED BY <1>1, <1>2, PTL

-----------------------------------------------------------------------------
LEMMA WriteIsPut ==
    ASSUME TInv, NEW t \in Thread, WWrite(t)
    PROVE  [Poll!Next]_Poll!vars
<1>1. CASE HasReader
  <2>1. fifo' = Append(fifo, <<t, puts[t]>>) /\ got' = got
    BY <1>1 DEF WWrite
  <2>2. <<t, puts[t]>> \in Message
    BY DEF TInv, TypeOK, CallCounted, WWrite, Message
  <2> QED BY <2>1, <2>2 DEF Poll!Next, Poll!putMessage
<1>2. CASE ~HasReader
  BY <1>2 DEF WWrite, Poll!vars
<1> QED BY <1>1, <1>2

\* A MessagePipe is a queue that can only lose everything it holds at once:
\* the write is the put, the read the get, and closing the last end the loss.
THEOREM ImplementsLossyPoll == Spec => IsLossyPoll
<1>1. Init => Poll!Init
  BY DEF Init, Poll!Init
<1>2. TInv /\ [Next]_vars => [Poll!Next \/ Poll!Lose]_Poll!vars
  <2> SUFFICES ASSUME TInv, [Next]_vars, ~ UNCHANGED Poll!vars
               PROVE  Poll!Next \/ Poll!Lose
    OBVIOUS
  <2>1. ASSUME NEW t \in Thread, putMessage(t)
        PROVE  Poll!Next \/ Poll!Lose
    <3>1. CASE WWrite(t)
      BY <3>1, WriteIsPut
    <3>2. CASE WClose(t)
      BY <3>2 DEF WClose, Poll!Lose, Poll!vars
    <3> QED BY <2>1, <3>1, <3>2 DEF putMessage, WLock, WUnlock, Poll!vars
  <2>2. CASE RRead
    BY <2>2 DEF RRead, Poll!Next, Poll!getMessage, Poll!vars
  <2>3. CASE RClose
    BY <2>3 DEF RClose, Poll!Lose, Poll!vars
  <2>4. CASE ROpen \/ RLock \/ RUnlock \/ ROpenFails
    BY <2>4 DEF ROpen, RLock, RUnlock, ROpenFails, Poll!vars
  <2>5. ASSUME NEW t \in Thread, WOpen(t) \/ WOpenFails(t)
        PROVE  Poll!Next \/ Poll!Lose
    BY <2>5 DEF WOpen, WOpenFails, Poll!vars
  <2>6. CASE UNCHANGED vars
    BY <2>6 DEF vars, Poll!vars
  <2> QED BY <2>1, <2>2, <2>3, <2>4, <2>5, <2>6 DEF Next, getMessage
<1> QED BY <1>1, <1>2, TInvAlways, PTL DEF Spec, IsLossyPoll, Poll!LossySpec
=============================================================================
