----------------------------- MODULE Traceroute -----------------------------
(***************************************************************************)
(* traceroute (A5/Traceroute): for each ttl three echo requests go out,    *)
(* then answers are received until the hop has three, or until none has    *)
(* come for a second.  Answers may be lost, duplicated, delayed beyond the *)
(* second or arrive in any order, and other programs' ICMP packets come in *)
(* between.                                                                *)
(*                                                                         *)
(* A time is abstracted to the request it belongs to: <<t, i>> is          *)
(* timers[i] while the requests of ttl t are answered.                     *)
(***************************************************************************)
EXTENDS Integers, Sequences

CONSTANTS MaxHops,        \* maxhops
          Word,           \* the number of values of a word
          Pid,            \* the process ids the program may be given
          MaxStray,       \* bound: packets of other programs
          MaxCopies       \* bound: answers the network duplicates

ASSUME TraceAssumption == /\ MaxHops \in Nat \ {0}
                          /\ Word \in Nat /\ Word > 8 /\ Word % 2 = 0
                          /\ Pid \subseteq Nat
                          /\ MaxStray \in Nat
                          /\ MaxCopies \in Nat

Hop == 1 .. MaxHops

VARIABLES distance,       \* the hop that is the target
          pid,
          phase,          \* "send", "receive" or "done"
          ttl, i,
          came,           \* packets[t].came
          used,           \* packets[t].time: the requests it was taken from
          way,            \* answers on their way, by the ttl of the request
          lines,          \* the output
          strays, copies, \* packets of the others and duplicates so far
          undisturbed,    \* history: nothing was late, lost or duplicated
          late            \* history: the rounds that received a late answer

net == <<distance, pid, strays, copies>>
main == <<phase, ttl, i, came, used, lines>>
vars == <<net, main, way, undisturbed, late>>

\* came of the last packet, which the loop before the first hop leaves out:
\* any number; one below 0 stands for them, one above 2 for the others that
\* never become 3.
Unset == -1 .. 3

\* ttl of that packet, which the default constructor does not set either: any
\* number, 0 standing for those that are no hop's.
Number(t) == IF t < MaxHops THEN {t} ELSE 0 .. MaxHops

\* A line: the packet it is about, what it says of it, and its number.
Line == Hop \X {"complete", "partial", "star"} \X (0 .. MaxHops)

TypeOK == /\ distance \in 1 .. MaxHops + 1
          /\ pid \in Pid
          /\ phase \in {"send", "receive", "done"}
          /\ ttl \in 1 .. MaxHops + 1
          /\ i \in Nat
          /\ came \in [Hop -> -1 .. 6 + MaxCopies]
          /\ \A t \in Hop : t < MaxHops => came[t] \in 0 .. 3
          /\ used \in [Hop -> Seq(Hop \X Nat)]
          /\ way \in [Hop -> 0 .. 3 + MaxCopies]
          /\ lines \in Seq(Line)
          /\ strays \in 0 .. MaxStray
          /\ copies \in 0 .. MaxCopies
          /\ undisturbed \in BOOLEAN
          /\ late \subseteq Hop

Init == /\ distance \in 1 .. MaxHops + 1
        /\ pid \in Pid
        /\ phase = "send"
        /\ ttl = 1 /\ i = 0
        /\ came \in [Hop -> Unset] /\ \A t \in Hop : t < MaxHops => came[t] = 0
        /\ used = [t \in Hop |-> <<>>]
        /\ way = [t \in Hop |-> 0]
        /\ lines = <<>>
        /\ strays = 0 /\ copies = 0
        /\ undisturbed = TRUE
        /\ late = {}

(***************************************************************************)
(* The network.                                                            *)
(***************************************************************************)
Check == INSTANCE Checksum

\* The identifier of a request and of its answer has one word.
Id == pid % Word

\* A router answers any request that dies there, the target those that are
\* intact.
IsAnswered(t) == t < distance \/ Check!Valid(Id, t, Check!in_cksum(Id, t))

\* A lost answer is one that stays on its way; one may come twice.
Copy(t) == /\ phase = "receive"
           /\ way[t] > 0
           /\ copies < MaxCopies
           /\ copies' = copies + 1
           /\ way' = [way EXCEPT ![t] = @ + 1]
           /\ undisturbed' = FALSE
           /\ UNCHANGED <<distance, pid, strays, main, late>>

(***************************************************************************)
(* main.                                                                   *)
(***************************************************************************)
Probe == /\ phase = "send"
         /\ ttl <= MaxHops
         /\ way' = IF IsAnswered(ttl) THEN [way EXCEPT ![ttl] = 3] ELSE way
         /\ phase' = "receive"
         /\ i' = 0
         /\ UNCHANGED <<net, ttl, came, used, lines, undisturbed, late>>

End == /\ phase = "send"
       /\ ttl > MaxHops
       /\ phase' = "done"
       /\ UNCHANGED <<net, ttl, i, came, used, lines, way, undisturbed, late>>

\* Three answers are not enough.
isFull_Above(n) == n > 3

isFull(n) == n = 3
isFilled(n) == n > 0

print(t, n) == \E m \in Number(t) :
    lines' = Append(lines, <<t, IF isFull(n) THEN "complete" ELSE "partial", m>>)

NextRound == /\ phase' = "send"
             /\ ttl' = ttl + 1
             /\ UNCHANGED i

processPacket(seq) == /\ came' = [came EXCEPT ![seq] = @ + 1]
                      /\ used' = [used EXCEPT ![seq] = Append(@, <<ttl, i>>)]

\* An answer to a request of ttl seq is taken from the socket.
Receive(seq) == /\ phase = "receive"
                /\ way[seq] > 0
                /\ way' = [way EXCEPT ![seq] = @ - 1]

Note(seq) == /\ late' = IF seq = ttl THEN late ELSE late \cup {ttl}
             /\ undisturbed' = (undisturbed /\ seq = ttl)

IsOurs == Id = pid

\* The answer's hop is not compared with the one that is being traced.
TimeExceeded_AnyHop(seq) ==
    /\ Receive(seq)
    /\ seq < distance
    /\ IsOurs
    /\ processPacket(seq)
    /\ IF isFull(came'[seq])
          THEN print(seq, came'[seq]) /\ NextRound
          ELSE i' = i + 1 /\ UNCHANGED <<phase, ttl, lines>>
    /\ Note(seq)
    /\ UNCHANGED net

\* The index is not advanced.
TimeExceeded_SameTimer(seq) ==
    /\ Receive(seq)
    /\ seq < distance
    /\ IsOurs
    /\ IF seq = ttl
          THEN /\ processPacket(seq)
               /\ IF isFull(came'[seq])
                     THEN print(seq, came'[seq]) /\ NextRound
                     ELSE UNCHANGED <<phase, ttl, i, lines>>
          ELSE UNCHANGED main
    /\ Note(seq)
    /\ UNCHANGED net

\* A late answer is not taken for the hop's, but advances the index.
TimeExceeded(seq) ==
    /\ Receive(seq)
    /\ seq < distance
    /\ IsOurs
    /\ IF seq = ttl
          THEN /\ processPacket(seq)
               /\ IF isFull(came'[seq])
                     THEN print(seq, came'[seq]) /\ NextRound
                     ELSE i' = i + 1 /\ UNCHANGED <<phase, ttl, lines>>
          ELSE i' = i + 1 /\ UNCHANGED <<phase, ttl, came, used, lines>>
    /\ Note(seq)
    /\ UNCHANGED net

\* The target's answers count for the hop they were asked for, late or not.
EchoReply(seq) ==
    /\ Receive(seq)
    /\ seq >= distance
    /\ IsOurs
    /\ processPacket(seq)
    /\ IF isFull(came'[seq])
          THEN print(seq, came'[seq]) /\ phase' = "done" /\ UNCHANGED <<ttl, i>>
          ELSE i' = i + 1 /\ UNCHANGED <<phase, ttl, lines>>
    /\ Note(seq)
    /\ UNCHANGED net

\* The answer's identifier is not the process id.
NotOurs(seq) == /\ Receive(seq)
                /\ ~IsOurs
                /\ UNCHANGED <<net, main, undisturbed, late>>

\* Another program's packet grants the hop another second.
Stray == /\ phase = "receive"
         /\ strays < MaxStray
         /\ strays' = strays + 1
         /\ UNCHANGED <<distance, pid, copies, main, way, undisturbed, late>>

\* The second is over and the program waits for another.
Timeout_Again == /\ phase = "receive"
                 /\ undisturbed' = FALSE
                 /\ UNCHANGED <<net, main, way, late>>

\* Nothing came for a second, whatever is still on its way.
Timeout == /\ phase = "receive"
           /\ IF isFilled(came[ttl]) THEN print(ttl, came[ttl])
                                     ELSE lines' = Append(lines, <<ttl, "star", ttl>>)
           /\ NextRound
           /\ undisturbed' = (undisturbed /\ way[ttl] = 0)
           /\ UNCHANGED <<net, came, used, way, late>>

-----------------------------------------------------------------------------
Step == \/ Probe \/ End \/ Timeout \/ Stray
        \/ \E seq \in Hop : TimeExceeded(seq) \/ EchoReply(seq) \/ NotOurs(seq)

Next == Step \/ \E t \in Hop : Copy(t)

Spec == Init /\ [][Next]_vars

\* The program runs, and select returns after a second at the latest.
FairSpec == Spec /\ WF_vars(Step)

(***************************************************************************)
(* Properties.                                                             *)
(***************************************************************************)
\* The line of packets[t] has the number t, unless that is the packet whose
\* ttl nothing sets.
Shows(line, t) == line[1] = t /\ (line[3] = t \/ (t = MaxHops /\ line[2] # "star"))

\* Whatever is lost, late, doubled or not ours, the output has one line for
\* each hop traced so far, in order and with its number, which only a hop
\* MaxHops that answered can lack; and only the answers that end the trace may
\* add a line, for the target or a hop behind it.
LinesInOrder ==
    /\ \A k \in DOMAIN lines : k < ttl => Shows(lines[k], k)
    /\ phase # "done" => Len(lines) = ttl - 1
    /\ phase = "done" /\ Len(lines) >= ttl =>
           /\ Len(lines) = ttl
           /\ \E t \in Hop : t >= distance /\ Shows(lines[ttl], t)
           /\ lines[ttl][2] = "complete"

\* Unless something goes wrong in the network, the trace is one complete line
\* for each hop up to the target, with a process id whose identifier neither
\* loses its high bits nor is negative as a signed word.
CleanTrace ==
    undisturbed /\ phase = "done" /\ distance < MaxHops /\ pid < Word \div 2 =>
        lines = [k \in 1 .. distance |-> <<k, "complete", k>>]

\* A hop's mean time is taken from its own three requests, each used once,
\* if no late answer came while it was traced or later.
OwnTimes ==
    \A k \in DOMAIN lines :
        LET t == lines[k][1] IN
        lines[k][2] = "complete" /\ t < MaxHops /\ late \cap (t .. ttl) = {} =>
            used[t] = <<<<t, 0>>, <<t, 1>>, <<t, 2>>>>

\* Every trace ends, as long as the others' packets do.
TraceEnds == <>(phase = "done")
=============================================================================
