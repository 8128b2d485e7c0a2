---------------------------- MODULE MessagePipe ----------------------------
(***************************************************************************)
(* MessagePipe<Message>, the transport the Makefile selects                *)
(* (-DMSG_STRATEGY_PIPE): a named pipe guarded by one spin lock.  Every    *)
(* client thread of the server calls putMessage, the dispatch thread calls *)
(* getMessage in a loop.  Each call opens the pipe, takes the lock,        *)
(* transfers one message, closes the pipe and releases the lock.           *)
(*                                                                         *)
(* A message is <<t, n>>, the n-th one thread t puts.  write is atomic     *)
(* because a header and its data (at most MAX_DATA_SIZE) are shorter than  *)
(* PIPE_BUF; the reader's two reads take header and body of one message    *)
(* under the lock and are one step.                                        *)
(***************************************************************************)
EXTENDS Naturals, Sequences

CONSTANTS Thread,         \* the client threads, callers of putMessage
          Capacity,       \* messages the kernel buffers in the pipe
          MaxPut,         \* bound: calls of putMessage per thread
          MaxOpenFailure  \* bound: failing calls of open

ASSUME PipeAssumption == /\ Capacity \in Nat \ {0}
                         /\ MaxPut \in Nat
                         /\ MaxOpenFailure \in Nat

Message == Thread \X (1 .. MaxPut)

VARIABLES lock,           \* the atomic<bool>, "held" for true
          fifo,           \* the messages in the pipe, oldest first
          wpc,            \* where each thread is in putMessage
          puts,           \* calls of putMessage so far, per thread
          rpc,            \* where the dispatch thread is in getMessage
          got,            \* history: the messages getMessage returned
          failures,       \* history: the calls of open that failed
          status          \* the server process

vars == <<lock, fifo, wpc, puts, rpc, got, failures, status>>

(***************************************************************************)
(* The kernel's view.  A process counts as an end of the pipe from the     *)
(* start of open on, even while open still waits for the other end.        *)
(***************************************************************************)
Writers == {t \in Thread : wpc[t] \in {"opening", "opened", "locked", "written"}}
HasReader == rpc \in {"opening", "opened", "locked", "read"}

WriterPC == {"idle", "opening", "opened", "locked", "written", "closed"}
ReaderPC == {"idle", "opening", "opened", "locked", "read", "closed"}

TypeOK == /\ lock \in {"free", "held"}
          /\ fifo \in Seq(Message)
          /\ wpc \in [Thread -> WriterPC]
          /\ puts \in [Thread -> 0 .. MaxPut]
          /\ rpc \in ReaderPC
          /\ got \in Seq(Message)
          /\ failures \in Nat
          /\ status \in {"up", "sigpipe", "undefined"}

Init == /\ lock = "free"
        /\ fifo = <<>>
        /\ wpc = [t \in Thread |-> "idle"]
        /\ puts = [t \in Thread |-> 0]
        /\ rpc = "idle"
        /\ got = <<>>
        /\ failures = 0
        /\ status = "up"

(***************************************************************************)
(* putMessage, called by thread t.                                         *)
(***************************************************************************)
Goto(t, pc) == wpc' = [wpc EXCEPT ![t] = pc]

\* open(O_WRONLY) returns at once if a reader is there and completes a
\* reader's open that waits for a writer.
WOpen(t) ==
    /\ wpc[t] = "idle"
    /\ puts[t] < MaxPut
    /\ puts' = [puts EXCEPT ![t] = @ + 1]
    /\ Goto(t, IF HasReader THEN "opened" ELSE "opening")
    /\ rpc' = IF rpc = "opening" THEN "opened" ELSE rpc
    /\ UNCHANGED <<lock, fifo, got, failures, status>>

\* A failing open clears the lock, whoever holds it, and drops the message.
WOpenFails(t) ==
    /\ wpc[t] = "idle"
    /\ puts[t] < MaxPut
    /\ failures < MaxOpenFailure
    /\ puts' = [puts EXCEPT ![t] = @ + 1]
    /\ failures' = failures + 1
    /\ lock' = "free"
    /\ UNCHANGED <<fifo, wpc, rpc, got, status>>

\* A lock operation that does not look at the lock's old value.
WLock_Blind(t) ==
    /\ wpc[t] = "opened"
    /\ lock' = "held"
    /\ Goto(t, "locked")
    /\ UNCHANGED <<fifo, puts, rpc, got, failures, status>>

WLock(t) ==
    /\ wpc[t] = "opened"
    /\ lock = "free"
    /\ lock' = "held"
    /\ Goto(t, "locked")
    /\ UNCHANGED <<fifo, puts, rpc, got, failures, status>>

\* The message is written twice.
WWrite_Twice(t) ==
    /\ wpc[t] = "locked"
    /\ HasReader
    /\ Len(fifo) < Capacity
    /\ fifo' = fifo \o <<<<t, puts[t]>>, <<t, puts[t]>>>>
    /\ Goto(t, "written")
    /\ UNCHANGED <<lock, puts, rpc, got, failures, status>>

\* The message is written without its body.
WWrite_HeaderOnly(t) ==
    /\ wpc[t] = "locked"
    /\ HasReader
    /\ Len(fifo) < Capacity
    /\ fifo' = Append(fifo, <<t>>)
    /\ Goto(t, "written")
    /\ UNCHANGED <<lock, puts, rpc, got, failures, status>>

\* write blocks on a full pipe and raises SIGPIPE if nobody reads.
WWrite(t) ==
    /\ wpc[t] = "locked"
    /\ \/ /\ HasReader
          /\ Len(fifo) < Capacity
          /\ fifo' = Append(fifo, <<t, puts[t]>>)
          /\ Goto(t, "written")
          /\ UNCHANGED status
       \/ /\ ~HasReader
          /\ status' = "sigpipe"
          /\ UNCHANGED <<fifo, wpc>>
    /\ UNCHANGED <<lock, puts, rpc, got, failures>>

\* The kernel frees the pipe's contents with its last descriptor.
WClose(t) ==
    /\ wpc[t] = "written"
    /\ Goto(t, "closed")
    /\ fifo' = IF HasReader \/ Writers # {t} THEN fifo ELSE <<>>
    /\ UNCHANGED <<lock, puts, rpc, got, failures, status>>

\* The release is forgotten.
WUnlock_Never(t) ==
    /\ wpc[t] = "closed"
    /\ Goto(t, "idle")
    /\ UNCHANGED <<lock, fifo, puts, rpc, got, failures, status>>

WUnlock(t) ==
    /\ wpc[t] = "closed"
    /\ lock' = "free"
    /\ Goto(t, "idle")
    /\ UNCHANGED <<fifo, puts, rpc, got, failures, status>>

(***************************************************************************)
(* getMessage, called by the dispatch thread, which is idle while it sends *)
(* the message on: as long as the addressee's socket has no room, for good *)
(* perhaps.                                                                *)
(***************************************************************************)
\* The pipe is opened without waiting for a writer.
ROpen_NonBlocking ==
    /\ rpc = "idle"
    /\ rpc' = "opened"
    /\ wpc' = [t \in Thread |-> IF wpc[t] = "opening" THEN "opened" ELSE wpc[t]]
    /\ UNCHANGED <<lock, fifo, puts, got, failures, status>>

\* open(O_RDONLY) completes the opens of the writers that wait for a reader.
ROpen ==
    /\ rpc = "idle"
    /\ rpc' = IF Writers # {} THEN "opened" ELSE "opening"
    /\ wpc' = [t \in Thread |-> IF wpc[t] = "opening" THEN "opened" ELSE wpc[t]]
    /\ UNCHANGED <<lock, fifo, puts, got, failures, status>>

\* A failing open clears the lock and returns a message from 0 to 0, which
\* loop_dispatch skips.
ROpenFails ==
    /\ rpc = "idle"
    /\ failures < MaxOpenFailure
    /\ failures' = failures + 1
    /\ lock' = "free"
    /\ UNCHANGED <<fifo, wpc, puts, rpc, got, status>>

RLock ==
    /\ rpc = "opened"
    /\ lock = "free"
    /\ lock' = "held"
    /\ rpc' = "locked"
    /\ UNCHANGED <<fifo, wpc, puts, got, failures, status>>

\* The newest message is taken first.
RRead_Newest ==
    /\ rpc = "locked"
    /\ fifo # <<>>
    /\ got' = Append(got, fifo[Len(fifo)])
    /\ fifo' = SubSeq(fifo, 1, Len(fifo) - 1)
    /\ rpc' = "read"
    /\ UNCHANGED <<lock, wpc, puts, failures, status>>

\* read blocks on an empty pipe that somebody has open for writing; without
\* a writer it returns 0 and getMessage goes on with an unset header.
RRead ==
    /\ rpc = "locked"
    /\ \/ /\ fifo # <<>>
          /\ got' = Append(got, Head(fifo))
          /\ fifo' = Tail(fifo)
          /\ rpc' = "read"
          /\ UNCHANGED status
       \/ /\ fifo = <<>>
          /\ Writers = {}
          /\ status' = "undefined"
          /\ UNCHANGED <<fifo, rpc, got>>
    /\ UNCHANGED <<lock, wpc, puts, failures>>

RClose ==
    /\ rpc = "read"
    /\ rpc' = "closed"
    /\ fifo' = IF Writers # {} THEN fifo ELSE <<>>
    /\ UNCHANGED <<lock, wpc, puts, got, failures, status>>

RUnlock ==
    /\ rpc = "closed"
    /\ lock' = "free"
    /\ rpc' = "idle"
    /\ UNCHANGED <<fifo, wpc, puts, got, failures, status>>

-----------------------------------------------------------------------------
putMessage(t) == WLock(t) \/ WWrite(t) \/ WClose(t) \/ WUnlock(t)
getMessage == ROpen \/ RLock \/ RRead \/ RClose \/ RUnlock

Next == /\ status = "up"
        /\ \/ getMessage
           \/ ROpenFails
           \/ \E t \in Thread : WOpen(t) \/ WOpenFails(t) \/ putMessage(t)

Spec == Init /\ [][Next]_vars

\* A thread that is inside a call keeps running.  Nothing makes a client
\* send, and nothing brings the dispatch thread back to getMessage: ROpen is
\* not fair.
Fairness == /\ WF_vars(status = "up" /\ (RLock \/ RRead \/ RClose \/ RUnlock))
            /\ \A t \in Thread : WF_vars(status = "up" /\ putMessage(t))

FairSpec == Spec /\ Fairness

(***************************************************************************)
(* Properties.                                                             *)
(***************************************************************************)
WriterHolds(t) == wpc[t] \in {"locked", "written", "closed"}
ReaderHolds == rpc \in {"locked", "read", "closed"}

\* As long as no open has failed, the spin lock admits one thread at a time
\* between its exchange and its release, and is taken exactly then: a thread
\* never enters the pipe section of putMessage or getMessage beside another.
LockExclusive ==
    failures = 0 =>
        /\ lock = "held" <=> (ReaderHolds \/ \E t \in Thread : WriterHolds(t))
        /\ \A t \in Thread : WriterHolds(t) =>
               ~ReaderHolds /\ \A u \in Thread : WriterHolds(u) => u = t

\* As long as no open has failed, getMessage never reads from a pipe that is
\* at end of file, so it never builds a message from an unset header: the
\* writer that let its open return has still to write or has written.
NeverEndOfFile == failures = 0 => status # "undefined"

\* The messages of one thread leave the pipe in the order that thread put
\* them, none of them twice, whatever is lost in between.
PerSenderOrder ==
    \A i, j \in 1 .. Len(got) :
        i < j /\ got[i][1] = got[j][1] => got[i][2] < got[j][2]

\* The pipe is a MessagePoll that may lose what is waiting: nothing is
\* invented, duplicated, altered or reordered between put and get.
Poll == INSTANCE MessagePoll WITH queue <- fifo
IsLossyPoll == Poll!LossySpec

\* The two ways the server seizes up: the dispatch thread waits for data and
\* keeps the lock from the thread that has it, or a thread waits for room and
\* keeps the lock from the dispatch thread.
Jammed == \/ rpc = "locked" /\ fifo = <<>>
          \/ \E t \in Thread : wpc[t] = "locked" /\ Len(fifo) = Capacity

Pending(t, n) == \/ wpc[t] # "idle" /\ puts[t] = n
                 \/ \E i \in DOMAIN fifo : fifo[i] = <<t, n>>

\* As long as the dispatch thread always comes back to getMessage, every
\* message a thread starts to put is settled: it is taken out or dropped and
\* its thread returns to its client, unless the server jams or dies of a
\* signal.  Without the dispatch thread a put waits in open for good.
EveryPutSettles ==
    []<>(rpc # "idle") =>
        \A t \in Thread, n \in 1 .. MaxPut :
            Pending(t, n) ~> ~Pending(t, n) \/ Jammed \/ status # "up"

\* No message whose putMessage returned disappears: it waits in the pipe or
\* has been handed to the dispatch thread.
NothingLost ==
    \A t \in Thread : \A n \in 1 .. puts[t] :
        Pending(t, n) \/ \E i \in DOMAIN got : got[i] = <<t, n>>

\* The dispatch thread and the client threads never block each other for
\* good.
NeverJammed == ~Jammed
=============================================================================
