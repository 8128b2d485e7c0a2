----------------------------- MODULE ChatServer -----------------------------
(***************************************************************************)
(* The chat server: clients connect, register a user id and send messages  *)
(* to ids; one thread per connection parses and handles them, and the      *)
(* dispatch thread forwards what was put into the message strategy to the  *)
(* connections the client list names.                                      *)
(*                                                                         *)
(* The two shared structures enter by what they promise: msg_strategy is a *)
(* MessagePoll, whose putMessage waits for the dispatch thread and may jam *)
(* with it (module MessagePipe); clilist_shm is a ClientTable.  Each       *)
(* connection is a value of Conn and is made once; its descriptor is free  *)
(* for the next connection when it is closed.                              *)
(***************************************************************************)
EXTENDS Naturals, Sequences

CONSTANTS Conn,           \* the connections clients make
          Fd,             \* descriptors accept may give out
          MaxUserNum,     \* MAX_USER_NUM, what a broadcast runs through
          MaxId,          \* the largest user id in use
          UserId,         \* the id the client of a connection chose
          MaxSend,        \* bound: chat messages, numbered as they are sent
          MaxEvents       \* bound: what happens to the server from outside

Id == 0 .. MaxId

ASSUME ServerAssumption == /\ Fd \subseteq Nat \ {0}
                           /\ MaxUserNum \in Nat \ {0}
                           /\ MaxId \in Nat
                           /\ MaxUserNum <= MaxId + 1
                           /\ UserId \in [Conn -> Id]
                           /\ MaxSend \in Nat
                           /\ MaxEvents \in Nat

Message == [by : Conn, to : Id, n : 1 .. MaxSend]
From(msg) == UserId[msg.by]
CONN == [command |-> "CONN"]

VARIABLES fdOf,           \* descriptor of each connection, kept when closed
          server,         \* the server's end of each connection
          client,         \* the client's end
          stream,         \* sent by the client and not yet parsed
          sent,           \* chat messages sent so far
          inbox,          \* history: what was sent down each connection
          table,          \* clilist_shm
          registered,     \* history of clilist_shm
          queue,          \* msg_strategy
          got,            \* history of msg_strategy
          inPut,          \* the connections whose threads are in putMessage
          jammed,         \* the calls of msg_strategy have locked each other out
          dpc,            \* where the dispatch thread is in loop_dispatch
          cur,            \* resp_msg
          slot,           \* the entry it is at
          connfd,         \* what it read there
          status,         \* the server process
          events,         \* connections, messages, stalls and kills so far
          roster          \* history: connections registered since cur was taken

ends == <<fdOf, server, client>>
wire == <<stream, sent, inbox>>
list == <<table, registered>>
poll == <<queue, got, inPut, jammed>>
dispatch == <<dpc, cur, slot, connfd>>
process == <<status, events>>
vars == <<ends, wire, list, poll, dispatch, process, roster>>

NoFd == 0
NoMessage == [command |-> "none"]

Table == INSTANCE ClientTable
Poll == INSTANCE MessagePoll

TypeOK == /\ fdOf \in [Conn -> Fd \cup {NoFd}]
          /\ server \in [Conn -> {"none", "open", "closed"}]
          /\ client \in [Conn -> {"none", "open", "stalled", "closed"}]
          /\ stream \in [Conn -> Seq(Message \cup {CONN})]
          /\ sent \in 0 .. MaxSend
          /\ inbox \in [Conn -> Seq(Message)]
          /\ Table!TypeOK
          /\ Poll!TypeOK
          /\ inPut \subseteq Conn
          /\ jammed \in BOOLEAN
          /\ dpc \in {"get", "pick", "send"}
          /\ cur \in Message \cup {NoMessage}
          /\ slot \in Id
          /\ connfd \in Fd \cup {NoFd}
          /\ status \in {"up", "down"}
          /\ events \in 0 .. MaxEvents
          /\ roster \subseteq Conn

Init == /\ fdOf = [c \in Conn |-> NoFd]
        /\ server = [c \in Conn |-> "none"]
        /\ client = [c \in Conn |-> "none"]
        /\ stream = [c \in Conn |-> <<>>]
        /\ sent = 0
        /\ inbox = [c \in Conn |-> <<>>]
        /\ Table!Init
        /\ Poll!Init
        /\ inPut = {} /\ jammed = FALSE
        /\ dpc = "get" /\ cur = NoMessage /\ slot = 0 /\ connfd = NoFd
        /\ status = "up" /\ events = 0
        /\ roster = {}

(***************************************************************************)
(* The clients.                                                            *)
(***************************************************************************)
\* One of the things that happen to the server from outside.
Event == events < MaxEvents /\ events' = events + 1

\* The client's end is there, whether the client reads from it or not.
Alive(c) == client[c] \in {"open", "stalled"}

\* connect and comm_conn; accept finds a free descriptor and starts a thread.
Connect(c) ==
    /\ client[c] = "none"
    /\ Event
    /\ \E fd \in Fd \ {fdOf[d] : d \in {e \in Conn : server[e] = "open"}} :
           fdOf' = [fdOf EXCEPT ![c] = fd]
    /\ server' = [server EXCEPT ![c] = "open"]
    /\ client' = [client EXCEPT ![c] = "open"]
    /\ stream' = [stream EXCEPT ![c] = <<CONN>>]
    /\ UNCHANGED <<sent, inbox, list, poll, dispatch, status>>

\* What is sent to a connection the server has closed is lost.
comm_sendmsg(c) ==
    /\ Alive(c)
    /\ server[c] = "open"
    /\ Event
    /\ sent < MaxSend
    /\ sent' = sent + 1
    /\ \E to \in Id :
           stream' = [stream EXCEPT ![c] = Append(@, [by |-> c, to |-> to, n |-> sent'])]
    /\ UNCHANGED <<ends, inbox, list, poll, dispatch, status>>

\* The client stops reading for long enough that the buffers on the way to it
\* are full.  It may read again, or not.
Stall(c) ==
    /\ client[c] = "open"
    /\ Event
    /\ client' = [client EXCEPT ![c] = "stalled"]
    /\ UNCHANGED <<fdOf, server, wire, list, poll, dispatch, status>>

Resume(c) ==
    /\ client[c] = "stalled"
    /\ client' = [client EXCEPT ![c] = "open"]
    /\ UNCHANGED <<fdOf, server, wire, list, poll, dispatch, process>>

\* The client leaves its console, or dies.
Quit(c) ==
    /\ Alive(c)
    /\ client' = [client EXCEPT ![c] = "closed"]
    /\ UNCHANGED <<fdOf, server, wire, list, poll, dispatch, process>>

(***************************************************************************)
(* clithread: parse_msg, then handle_msg.                                  *)
(***************************************************************************)
Parsed(c) == /\ server[c] = "open"
             /\ stream[c] # <<>>
             /\ stream' = [stream EXCEPT ![c] = Tail(@)]

\* conn_handler with the ids exchanged.
conn_handler_To(c) ==
    /\ Parsed(c)
    /\ Head(stream[c]) = CONN
    /\ Table!Register((UserId[c] + 1) % (MaxId + 1), fdOf[c])
    /\ UNCHANGED <<ends, sent, inbox, poll, dispatch, process>>

conn_handler(c) ==
    /\ Parsed(c)
    /\ Head(stream[c]) = CONN
    /\ Table!Register(UserId[c], fdOf[c])
    /\ UNCHANGED <<ends, sent, inbox, poll, dispatch, process>>

\* The thread calls putMessage; the message is at the head of stream[c] as
\* long as the thread has it in hand.
sendmsg_handler(c) ==
    /\ server[c] = "open"
    /\ stream[c] # <<>>
    /\ Head(stream[c]) # CONN
    /\ c \notin inPut
    /\ inPut' = inPut \cup {c}
    /\ UNCHANGED <<ends, wire, list, queue, got, jammed, dispatch, process>>

\* The message goes to the front of the queue.
putMessage_Front(c) ==
    /\ c \in inPut
    /\ ~jammed
    /\ Parsed(c)
    /\ Head(stream[c]) # CONN
    /\ queue' = <<Head(stream[c])>> \o queue
    /\ inPut' = inPut \ {c}
    /\ UNCHANGED <<ends, sent, inbox, list, got, jammed, dispatch, process>>

\* The thread gets through the message strategy and returns to its client.
putMessage(c) ==
    /\ c \in inPut
    /\ ~jammed
    /\ Parsed(c)
    /\ Head(stream[c]) # CONN
    /\ Poll!putMessage(Head(stream[c]))
    /\ inPut' = inPut \ {c}
    /\ UNCHANGED <<ends, sent, inbox, list, jammed, dispatch, process>>

\* get_handler or put_handler fails on the client's request; the thread
\* closes the descriptor although the client is there.
HandlerFails(c) ==
    /\ server[c] = "open"
    /\ c \notin inPut
    /\ Event
    /\ server' = [server EXCEPT ![c] = "closed"]
    /\ stream' = [stream EXCEPT ![c] = <<>>]
    /\ UNCHANGED <<fdOf, client, sent, inbox, list, poll, dispatch, status>>

\* The end of the stream is not taken for the end of the client.
CloseConn_OnReset(c) ==
    /\ server[c] = "open"
    /\ client[c] = "closed"
    /\ stream[c] # <<>>
    /\ c \notin inPut
    /\ server' = [server EXCEPT ![c] = "closed"]
    /\ stream' = [stream EXCEPT ![c] = <<>>]
    /\ UNCHANGED <<fdOf, client, sent, inbox, list, poll, dispatch, process>>

\* recv fails when the client is gone; if the client left unread data behind,
\* its reset discards what was still on the way.  The thread closes the
\* descriptor and ends; the client's entry in the list stays.
CloseConn(c) ==
    /\ server[c] = "open"
    /\ client[c] = "closed"
    /\ c \notin inPut
    /\ server' = [server EXCEPT ![c] = "closed"]
    /\ stream' = [stream EXCEPT ![c] = <<>>]
    /\ UNCHANGED <<fdOf, client, sent, inbox, list, poll, dispatch, process>>

\* What the thread does by itself; putMessage(c) depends on others.
clithread(c) == conn_handler(c) \/ sendmsg_handler(c) \/ CloseConn(c)

(***************************************************************************)
(* loop_dispatch.                                                          *)
(***************************************************************************)
IsBroadcast(msg) == msg.to = 0

\* A message from 0 to 0 stands for a failed getMessage and is skipped.
DispatchGet ==
    /\ dpc = "get"
    /\ ~jammed
    /\ Poll!getMessage
    /\ IF IsBroadcast(Head(queue)) /\ From(Head(queue)) = 0
          THEN UNCHANGED dispatch
          ELSE /\ cur' = Head(queue)
               /\ slot' = Head(queue).to
               /\ dpc' = "pick"
               /\ UNCHANGED connfd
    /\ UNCHANGED <<ends, wire, list, inPut, jammed, process>>

\* A message waits until its addressee has registered.
DispatchPick_Waits ==
    /\ dpc = "pick"
    /\ table[slot] # NoFd
    /\ connfd' = table[slot]
    /\ dpc' = "send"
    /\ UNCHANGED <<ends, wire, list, poll, cur, slot, process>>

DispatchPick ==
    /\ dpc = "pick"
    /\ connfd' = table[slot]
    /\ dpc' = "send"
    /\ UNCHANGED <<ends, wire, list, poll, cur, slot, process>>

\* The loop over the list stops one entry short.
NextEntry_Short ==
    IF IsBroadcast(cur) /\ slot + 2 < MaxUserNum
      THEN slot' = slot + 1 /\ dpc' = "pick" /\ UNCHANGED cur
      ELSE slot' = 0 /\ dpc' = "get" /\ cur' = NoMessage

\* The loop over the list runs one entry past its end.
NextEntry_Past ==
    IF IsBroadcast(cur) /\ slot < MaxUserNum
      THEN slot' = slot + 1 /\ dpc' = "pick" /\ UNCHANGED cur
      ELSE slot' = 0 /\ dpc' = "get" /\ cur' = NoMessage

NextEntry ==
    IF IsBroadcast(cur) /\ slot + 1 < MaxUserNum
      THEN slot' = slot + 1 /\ dpc' = "pick" /\ UNCHANGED cur
      ELSE slot' = 0 /\ dpc' = "get" /\ cur' = NoMessage

\* send goes to the connection that has the descriptor now, if any, and waits
\* while its client does not read.
Receivers == {c \in Conn : server[c] = "open" /\ fdOf[c] = connfd}
Blocked == dpc = "send" /\ \E c \in Receivers : client[c] = "stalled"

\* The entry is sent to a second time.
DispatchSend_Twice ==
    /\ dpc = "send" /\ ~Blocked
    /\ inbox' = [c \in Conn |-> IF c \in Receivers /\ client[c] = "open"
                                   THEN inbox[c] \o <<cur, cur>> ELSE inbox[c]]
    /\ NextEntry
    /\ connfd' = NoFd
    /\ UNCHANGED <<ends, stream, sent, list, poll, process>>

DispatchSend ==
    /\ dpc = "send" /\ ~Blocked
    /\ inbox' = [c \in Conn |-> IF c \in Receivers /\ client[c] = "open"
                                   THEN Append(inbox[c], cur) ELSE inbox[c]]
    /\ NextEntry
    /\ connfd' = NoFd
    /\ UNCHANGED <<ends, stream, sent, list, poll, process>>

(***************************************************************************)
(* The end of the process, and its restart.  Its connections close and the *)
(* pipe's contents are freed; the shared memory stays.                     *)
(***************************************************************************)
Die ==
    /\ status' = "down"
    /\ server' = [c \in Conn |-> IF server[c] = "open" THEN "closed" ELSE server[c]]
    /\ stream' = [c \in Conn |-> <<>>]
    /\ queue' = <<>>
    /\ inPut' = {} /\ jammed' = FALSE
    /\ dpc' = "get" /\ cur' = NoMessage /\ slot' = 0 /\ connfd' = NoFd
    /\ UNCHANGED <<fdOf, sent, inbox, list, got>>

HangUp == client' = [c \in Conn |-> IF Alive(c) THEN "closed" ELSE client[c]]

\* A client that is gone answers the first send with a reset, and the next
\* send raises SIGPIPE, which nobody handles.
SendToClosed ==
    /\ dpc = "send"
    /\ \E c \in Receivers : client[c] = "closed"
    /\ HangUp
    /\ Die
    /\ UNCHANGED events

Kill == Event /\ HangUp /\ Die

\* accept has no descriptor left for a client, or pthread_create fails for
\* one connection too many at a time.  Either ends the server and the other
\* connections with it.
ListenEnds(c) ==
    /\ client[c] = "none"
    /\ Event
    /\ client' = [d \in Conn |-> IF d = c \/ Alive(d) THEN "closed" ELSE client[d]]
    /\ Die

Restart ==
    /\ status = "down"
    /\ status' = "up"
    /\ UNCHANGED <<ends, wire, list, poll, dispatch, events>>

-----------------------------------------------------------------------------
loop_dispatch == DispatchGet \/ DispatchPick \/ DispatchSend \/ SendToClosed

\* What the two shared structures do of themselves.  A put and a get may lock
\* each other out; a later call whose open fails clears the lock.
Transport == \/ /\ Poll!Lose
                /\ UNCHANGED <<ends, wire, list, inPut, jammed, dispatch, process>>
             \/ /\ dpc = "get" /\ inPut # {}
                /\ jammed' = ~jammed
                /\ UNCHANGED <<ends, wire, list, queue, got, inPut, dispatch, process>>
             \/ /\ \E u \in Id : Table!Revert(u)
                /\ UNCHANGED <<ends, wire, poll, dispatch, process>>

Serve == /\ status = "up"
         /\ \/ \E c \in Conn : \/ Connect(c) \/ ListenEnds(c)
                               \/ comm_sendmsg(c) \/ Stall(c) \/ Resume(c) \/ Quit(c)
                               \/ clithread(c) \/ putMessage(c) \/ HandlerFails(c)
            \/ loop_dispatch

\* Who is connected under an id and in the list.
Listed == {c \in Conn : /\ server[c] = "open"
                        /\ Alive(c)
                        /\ table[UserId[c]] = fdOf[c]}

Track == roster' = IF dpc' = "get" THEN {}
                   ELSE IF dpc = "get" THEN Listed' ELSE roster \cap Listed'

IdealNext == (Serve \/ (status = "up" /\ Kill) \/ Restart) /\ Track

Next == IdealNext \/ (status = "up" /\ Transport /\ Track)

Spec == Init /\ [][Next]_vars

\* The server over a queue and a list that keep what they are given.
IdealSpec == Init /\ [][IdealNext]_vars

\* The server's own threads keep running.  A call of putMessage ends at the
\* latest when the dispatch thread stays in getMessage, which lets its open
\* return; nothing is assumed of it while the dispatch thread is in send.
Fairness ==
    /\ WF_vars(status = "up" /\ loop_dispatch /\ Track)
    /\ \A c \in Conn :
           /\ WF_vars(status = "up" /\ clithread(c) /\ Track)
           /\ WF_vars(status = "up" /\ dpc = "get" /\ putMessage(c) /\ Track)

FairSpec == Spec /\ Fairness

(***************************************************************************)
(* Properties.                                                             *)
(***************************************************************************)
\* A message for one user reaches another user's connection only if that
\* connection was given the descriptor of an earlier, closed connection of
\* the addressee: not by a race of the lookup with closing, accepting and
\* registering, nor by an entry a previous server process left.
MisdeliveryNeedsReuse ==
    \A c \in Conn : \A i \in DOMAIN inbox[c] :
        LET msg == inbox[c][i] IN
        IsBroadcast(msg) \/ UserId[c] = msg.to \/
        \E d \in Conn : /\ UserId[d] = msg.to
                        /\ fdOf[d] = fdOf[c]
                        /\ server[d] = "closed"

\* Whatever is lost or sent to several entries, every connection receives the
\* messages of one sender in the order they were sent.
InboxInOrder ==
    \A c \in Conn : \A i, j \in DOMAIN inbox[c] :
        i < j /\ inbox[c][i].by = inbox[c][j].by => inbox[c][i].n <= inbox[c][j].n

\* A connection receives a message twice only if it is a broadcast and the
\* connection's descriptor was also an earlier connection's.
DuplicateNeedsReuse ==
    \A c \in Conn : \A i, j \in DOMAIN inbox[c] :
        i # j /\ inbox[c][i] = inbox[c][j] =>
            /\ IsBroadcast(inbox[c][i])
            /\ \E d \in Conn \ {c} : fdOf[d] = fdOf[c] /\ server[d] = "closed"

Finished == dpc = "send" /\ dpc' = "get" /\ status' = "up"
Reached(c) == \E i \in DOMAIN inbox'[c] : inbox'[c][i] = cur

Addressed(c) == IF IsBroadcast(cur) THEN UserId[c] < MaxUserNum ELSE UserId[c] = cur.to

\* When the dispatch thread has finished a message, every client it is for
\* that was in the list from the start to the end of that has received it: the
\* addressee, or with a broadcast whoever is in the first MAX_USER_NUM entries.
DispatchReachesList ==
    [][Finished => \A c \in roster : Addressed(c) => Reached(c)]_vars

InFlight == \/ \E c \in Conn : \E i \in DOMAIN stream[c] : stream[c][i] # CONN
            \/ queue # <<>>
            \/ cur # NoMessage

\* Every message a client sends is settled: parsed, put, dispatched and done
\* with, or lost with its connection or with the server.  Only a client that
\* does not read holds it up, and with it everybody else's messages, or calls
\* of the message strategy that have locked each other out.
EveryMessageSettles == InFlight ~> ~InFlight \/ Blocked \/ jammed

\* Every thread whose client is gone ends and returns its descriptor, also
\* while the dispatch thread is held up or jammed: except a thread that is in
\* putMessage then.
QuitIsNoticed ==
    \A c \in Conn :
        client[c] = "closed" /\ server[c] = "open" ~>
            server[c] # "open" \/ (c \in inPut /\ (Blocked \/ jammed))

\* With distinct ids, a message for one user reaches nobody else.
OnlyTheAddressee ==
    \A c \in Conn : \A i \in DOMAIN inbox[c] :
        IsBroadcast(inbox[c][i]) \/ inbox[c][i].to = UserId[c]
=============================================================================
