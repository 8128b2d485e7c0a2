-------------------------- MODULE ChatServerProofs --------------------------
(***************************************************************************)
(* What holds of ChatServer for every number of connections, descriptors,  *)
(* users and messages, across any number of restarts.                      *)
(***************************************************************************)
EXTENDS ChatServer, TLAPS

\* The steps that touch neither the wire of a client that stays, nor loop_dispatch.
Outside(c) == \/ Connect(c) \/ ListenEnds(c)
              \/ Stall(c) \/ Resume(c) \/ Quit(c) \/ sendmsg_handler(c)

LEMMA NextCases ==
    ASSUME Next
    PROVE  /\ Track
           /\ \/ \E c \in Conn : \/ Outside(c) \/ comm_sendmsg(c)
                                 \/ conn_handler(c) \/ putMessage(c)
                                 \/ CloseConn(c) \/ HandlerFails(c)
              \/ DispatchGet \/ DispatchPick \/ DispatchSend \/ SendToClosed
              \/ Kill \/ Restart
              \/ Transport
  BY DEF Next, IdealNext, Serve, Outside, clithread, loop_dispatch

-----------------------------------------------------------------------------
\* The parts of the type invariant, by who changes them.
EndsType == /\ fdOf \in [Conn -> Fd \cup {NoFd}]
            /\ server \in [Conn -> {"none", "open", "closed"}]
            /\ client \in [Conn -> {"none", "open", "stalled", "closed"}]
            /\ status \in {"up", "down"}
            /\ events \in 0 .. MaxEvents
WireType == /\ stream \in [Conn -> Seq(Message \cup {CONN})]
            /\ sent \in 0 .. MaxSend
            /\ queue \in Seq(Message) /\ got \in Seq(Message)
InboxType == inbox \in [Conn -> Seq(Message)]
ListType == /\ table \in [Id -> Fd \cup {NoFd}]
            /\ registered \in [Id -> SUBSET Fd]
DispatchType == /\ dpc \in {"get", "pick", "send"}
                /\ cur \in Message \cup {NoMessage}
                /\ slot \in Id
                /\ connfd \in Fd \cup {NoFd}
                /\ dpc # "get" => cur \in Message
CallsType == inPut \subseteq Conn /\ jammed \in BOOLEAN
Types == EndsType /\ WireType /\ InboxType /\ ListType /\ DispatchType /\ CallsType

\* An open connection has a descriptor of its own, and keeps it when closed.
FdsOwned ==
    /\ \A c \in Conn : server[c] = "none" <=> fdOf[c] = NoFd
    /\ \A c \in Conn : client[c] = "none" => server[c] = "none"
    /\ \A c, d \in Conn : server[c] = "open" /\ server[d] = "open" /\ fdOf[c] = fdOf[d]
                              => c = d

LEMMA EndsKept ==
    ASSUME EndsType, FdsOwned, Next
    PROVE  EndsType' /\ FdsOwned'
<1> USE ServerAssumption DEF EndsType, FdsOwned, NoFd
<1>1. ASSUME NEW c \in Conn, Connect(c)
      PROVE  EndsType' /\ FdsOwned'
  <2>1. PICK fd \in Fd \ {fdOf[d] : d \in {e \in Conn : server[e] = "open"}} :
            fdOf' = [fdOf EXCEPT ![c] = fd]
    BY <1>1 DEF Connect
  <2>2. /\ client[c] = "none"
        /\ server' = [server EXCEPT ![c] = "open"]
        /\ client' = [client EXCEPT ![c] = "open"]
        /\ events' \in 0 .. MaxEvents
        /\ UNCHANGED status
    BY <1>1 DEF Connect, Event
  <2>3. \A d \in Conn : server[d] = "open" => fdOf[d] # fd
    BY <2>1
  <2>4. EndsType'
    BY <2>1, <2>2
  <2>5. FdsOwned'
    BY <2>1, <2>2, <2>3
  <2> QED BY <2>4, <2>5
<1>2. ASSUME NEW c \in Conn, ListenEnds(c) \/ Stall(c) \/ Resume(c) \/ Quit(c) \/ sendmsg_handler(c)
      PROVE  EndsType' /\ FdsOwned'
  BY <1>2 DEF ListenEnds, Stall, Resume, Quit, sendmsg_handler, Event, Alive, Die, ends, process
<1>3. ASSUME NEW c \in Conn, comm_sendmsg(c) \/ conn_handler(c) \/ putMessage(c)
      PROVE  EndsType' /\ FdsOwned'
  BY <1>3 DEF comm_sendmsg, conn_handler, putMessage, Event, ends, process
<1>4. ASSUME NEW c \in Conn, CloseConn(c) \/ HandlerFails(c)
      PROVE  EndsType' /\ FdsOwned'
  BY <1>4 DEF CloseConn, HandlerFails, Event, process
<1>5. CASE DispatchGet \/ DispatchPick \/ DispatchSend \/ Transport
  BY <1>5 DEF DispatchGet, DispatchPick, DispatchSend, Transport, ends, process
<1>6. CASE SendToClosed \/ Kill
  BY <1>6 DEF SendToClosed, Kill, HangUp, Alive, Die, Event
<1>7. CASE Restart
  BY <1>7 DEF Restart, ends
<1> QED BY <1>1, <1>2, <1>3, <1>4, <1>5, <1>6, <1>7, NextCases DEF Outside

-----------------------------------------------------------------------------
LEMMA WireKept ==
    ASSUME EndsType, WireType, DispatchType, Next
    PROVE  WireType'
<1> USE ServerAssumption DEF WireType
<1>1. ASSUME NEW c \in Conn, Connect(c)
      PROVE  WireType'
  <2>1. <<CONN>> \in Seq(Message \cup {CONN})
    OBVIOUS
  <2>2. /\ stream' = [stream EXCEPT ![c] = <<CONN>>]
        /\ UNCHANGED <<sent, queue, got>>
    BY <1>1 DEF Connect, poll
  <2> QED BY <2>1, <2>2
<1>2. ASSUME NEW c \in Conn, comm_sendmsg(c)
      PROVE  WireType'
  <2>1. PICK to \in Id :
            stream' = [stream EXCEPT ![c] = Append(@, [by |-> c, to |-> to, n |-> sent'])]
    BY <1>2 DEF comm_sendmsg
  <2>2. sent' = sent + 1 /\ sent < MaxSend /\ UNCHANGED <<queue, got>>
    BY <1>2 DEF comm_sendmsg, poll
  <2>3. sent' \in 1 .. MaxSend
    BY <2>2
  <2>4. [by |-> c, to |-> to, n |-> sent'] \in Message
    BY <2>3 DEF Message
  <2>5. Append(stream[c], [by |-> c, to |-> to, n |-> sent']) \in Seq(Message \cup {CONN})
    BY <2>4
  <2> QED BY <2>1, <2>2, <2>3, <2>5
<1>3. ASSUME NEW c \in Conn, conn_handler(c) \/ putMessage(c)
      PROVE  WireType'
  <2>1. Parsed(c)
    BY <1>3 DEF conn_handler, putMessage
  <2>2. stream[c] \in Seq(Message \cup {CONN}) /\ stream[c] # <<>>
    BY <2>1 DEF Parsed
  <2>3. Head(stream[c]) \in Message \cup {CONN} /\ Tail(stream[c]) \in Seq(Message \cup {CONN})
    BY <2>2
  <2>4. stream' \in [Conn -> Seq(Message \cup {CONN})]
    BY <2>1, <2>3 DEF Parsed
  <2>5. CASE conn_handler(c)
    BY <2>4, <2>5 DEF conn_handler, poll
  <2>6. CASE putMessage(c)
    <3>1. Head(stream[c]) \in Message
      BY <2>3, <2>6 DEF putMessage
    <3>2. queue' \in Seq(Message) /\ UNCHANGED <<sent, got>>
      BY <2>6, <3>1 DEF putMessage, Poll!putMessage
    <3> QED BY <2>4, <3>2
  <2> QED BY <1>3, <2>5, <2>6
<1>4. ASSUME NEW c \in Conn, CloseConn(c) \/ HandlerFails(c)
      PROVE  WireType'
  <2>1. <<>> \in Seq(Message \cup {CONN})
    OBVIOUS
  <2> QED BY <1>4, <2>1 DEF CloseConn, HandlerFails, poll
<1>5. CASE DispatchGet
  <2>1. queue' = Tail(queue) /\ got' = Append(got, Head(queue)) /\ queue # <<>>
        /\ UNCHANGED <<stream, sent>>
    BY <1>5 DEF DispatchGet, Poll!getMessage, wire
  <2>2. Head(queue) \in Message
    BY <2>1
  <2> QED BY <2>1, <2>2
<1>6. CASE SendToClosed \/ Kill \/ \E c \in Conn : ListenEnds(c)
  <2>1. /\ stream' = [c \in Conn |-> <<>>] /\ queue' = <<>>
        /\ UNCHANGED <<sent, got>>
    BY <1>6 DEF SendToClosed, Kill, ListenEnds, Die
  <2>2. <<>> \in Seq(Message \cup {CONN}) /\ <<>> \in Seq(Message)
    OBVIOUS
  <2> QED BY <2>1, <2>2
<1>7. CASE Transport
  <2>1. UNCHANGED <<stream, sent, got>> /\ queue' \in {queue, <<>>}
    BY <1>7 DEF Transport, Poll!Lose, wire, poll
  <2>2. <<>> \in Seq(Message)
    OBVIOUS
  <2> QED BY <2>1, <2>2
<1>8. CASE \/ DispatchPick \/ DispatchSend \/ Restart
           \/ \E c \in Conn : Stall(c) \/ Resume(c) \/ Quit(c) \/ sendmsg_handler(c)
  BY <1>8 DEF DispatchPick, DispatchSend, Restart, Stall, Resume, Quit, sendmsg_handler, wire, poll
<1> QED BY <1>1, <1>2, <1>3, <1>4, <1>5, <1>6, <1>7, <1>8, NextCases DEF Outside

LEMMA DispatchKept ==
    ASSUME WireType, ListType, DispatchType, Next
    PROVE  DispatchType'
<1> USE ServerAssumption DEF DispatchType
<1>1. CASE DispatchGet
  <2>1. queue # <<>>
    BY <1>1 DEF DispatchGet, Poll!getMessage
  <2>2. Head(queue) \in Message
    BY <2>1 DEF WireType
  <2>3. Head(queue).to \in Id
    BY <2>2 DEF Message
  <2>4. CASE UNCHANGED dispatch
    BY <2>4 DEF dispatch
  <2>5. CASE ~ UNCHANGED dispatch
    BY <1>1, <2>2, <2>3, <2>5 DEF DispatchGet
  <2> QED BY <2>4, <2>5
<1>2. CASE DispatchPick
  <2>1. table[slot] \in Fd \cup {NoFd}
    BY DEF ListType
  <2> QED BY <1>2, <2>1 DEF DispatchPick
<1>3. CASE DispatchSend
  <2>1. dpc = "send" /\ NextEntry /\ connfd' = NoFd
    BY <1>3 DEF DispatchSend
  <2>2. slot' \in Id
    BY <2>1 DEF NextEntry, Id
  <2>3. dpc' \in {"get", "pick"} /\ cur' \in {cur, NoMessage} /\ (dpc' # "get" => cur' = cur)
    BY <2>1 DEF NextEntry
  <2> QED BY <2>1, <2>2, <2>3
<1>4. CASE SendToClosed \/ Kill \/ \E c \in Conn : ListenEnds(c)
  BY <1>4 DEF SendToClosed, Kill, ListenEnds, Die, Id
<1>5. CASE Transport \/ Restart
  BY <1>5 DEF Transport, Restart, dispatch
<1>6. ASSUME NEW c \in Conn,
             \/ Connect(c) \/ Stall(c) \/ Resume(c) \/ Quit(c) \/ sendmsg_handler(c)
             \/ comm_sendmsg(c)
             \/ conn_handler(c) \/ putMessage(c) \/ CloseConn(c) \/ HandlerFails(c)
      PROVE  DispatchType'
  BY <1>6 DEF Connect, Stall, Resume, Quit, sendmsg_handler,
         comm_sendmsg, conn_handler, putMessage,
              CloseConn, HandlerFails, dispatch
<1> QED BY <1>1, <1>2, <1>3, <1>4, <1>5, <1>6, NextCases DEF Outside

LEMMA ListKept ==
    ASSUME EndsType, FdsOwned, ListType, Next
    PROVE  ListType'
<1> USE ServerAssumption DEF ListType
<1>1. ASSUME NEW c \in Conn, conn_handler(c)
      PROVE  ListType'
  <2>1. server[c] = "open" /\ Table!Register(UserId[c], fdOf[c])
    BY <1>1 DEF conn_handler, Parsed
  <2>2. fdOf[c] \in Fd /\ UserId[c] \in Id
    BY <2>1 DEF EndsType, FdsOwned
  <2> QED BY <2>1, <2>2 DEF Table!Register
<1>2. CASE Transport
  <2>1. CASE UNCHANGED list
    BY <2>1 DEF list
  <2>2. CASE \E u \in Id : Table!Revert(u)
    BY <2>2 DEF Table!Revert, Table!NoFd, NoFd
  <2> QED BY <1>2, <2>1, <2>2 DEF Transport
<1>3. CASE SendToClosed \/ Kill \/ Restart \/ DispatchGet \/ DispatchPick \/ DispatchSend
  BY <1>3 DEF SendToClosed, Kill, Restart, DispatchGet, DispatchPick, DispatchSend, Die, list
<1>4. ASSUME NEW c \in Conn,
             Outside(c) \/ comm_sendmsg(c) \/ putMessage(c) \/ CloseConn(c) \/ HandlerFails(c)
      PROVE  ListType'
  BY <1>4 DEF Outside, Connect, ListenEnds, Stall, Resume, Quit, sendmsg_handler, comm_sendmsg,
              putMessage, CloseConn, HandlerFails, Die, list
<1> QED BY <1>1, <1>2, <1>3, <1>4, NextCases

LEMMA CallsKept ==
    ASSUME CallsType, Next
    PROVE  CallsType'
<1> USE DEF CallsType
<1>1. ASSUME NEW c \in Conn, sendmsg_handler(c) \/ putMessage(c)
      PROVE  CallsType'
  BY <1>1 DEF sendmsg_handler, putMessage
<1>2. CASE SendToClosed \/ Kill \/ \E c \in Conn : ListenEnds(c)
  BY <1>2 DEF SendToClosed, Kill, ListenEnds, Die
<1>3. CASE Transport
  <2>1. inPut' = inPut /\ (jammed' = jammed \/ jammed' = ~jammed)
    BY <1>3 DEF Transport, poll
  <2> QED BY <2>1
<1>4. ASSUME NEW c \in Conn, \/ Connect(c) \/ Stall(c) \/ Resume(c) \/ Quit(c) \/ comm_sendmsg(c)
                             \/ conn_handler(c) \/ CloseConn(c) \/ HandlerFails(c)
      PROVE  CallsType'
  BY <1>4 DEF Connect, Stall, Resume, Quit, comm_sendmsg, conn_handler, CloseConn,
              HandlerFails, poll
<1>5. CASE DispatchGet \/ DispatchPick \/ DispatchSend \/ Restart
  BY <1>5 DEF DispatchGet, DispatchPick, DispatchSend, Restart, poll
<1> QED BY <1>1, <1>2, <1>3, <1>4, <1>5, NextCases DEF Outside

LEMMA InboxKept ==
    ASSUME InboxType, DispatchType, Next
    PROVE  InboxType'
<1> USE DEF InboxType
<1>1. CASE DispatchSend
  <2>1. cur \in Message
    BY <1>1 DEF DispatchSend, DispatchType
  <2>2. \A c \in Conn : Append(inbox[c], cur) \in Seq(Message)
    BY <2>1
  <2> QED BY <1>1, <2>2 DEF DispatchSend
<1>2. CASE ~ DispatchSend
  <2>1. UNCHANGED inbox
    BY <1>2, NextCases DEF Outside, Connect, ListenEnds, Stall, Resume, Quit, sendmsg_handler,
           comm_sendmsg,
         conn_handler, putMessage, CloseConn, HandlerFails, DispatchGet, DispatchPick, SendToClosed,
         Kill, Restart, Transport, Die, wire
  <2> QED BY <2>1
<1> QED BY <1>1, <1>2

-----------------------------------------------------------------------------
\* A descriptor stays with its connection, and a closed connection closed.
LEMMA FdStays ==
    ASSUME EndsType, FdsOwned, Next, NEW d \in Conn
    PROVE  /\ fdOf[d] # NoFd => fdOf'[d] = fdOf[d]
           /\ server[d] = "closed" => server'[d] = "closed"
<1> USE DEF EndsType, FdsOwned
<1>1. ASSUME NEW c \in Conn, Connect(c)
      PROVE  /\ fdOf[d] # NoFd => fdOf'[d] = fdOf[d]
             /\ server[d] = "closed" => server'[d] = "closed"
  <2>1. /\ client[c] = "none"
        /\ server' = [server EXCEPT ![c] = "open"]
        /\ \E fd \in Fd : fdOf' = [fdOf EXCEPT ![c] = fd]
    BY <1>1 DEF Connect
  <2> QED BY <2>1
<1>2. ASSUME NEW c \in Conn, CloseConn(c) \/ HandlerFails(c)
      PROVE  /\ fdOf[d] # NoFd => fdOf'[d] = fdOf[d]
             /\ server[d] = "closed" => server'[d] = "closed"
  BY <1>2 DEF CloseConn, HandlerFails
<1>3. CASE SendToClosed \/ Kill \/ \E c \in Conn : ListenEnds(c)
  BY <1>3 DEF SendToClosed, Kill, ListenEnds, Die
<1>4. CASE DispatchGet \/ DispatchPick \/ DispatchSend \/ Restart \/ Transport
  BY <1>4 DEF DispatchGet, DispatchPick, DispatchSend, Restart, Transport, ends
<1>5. ASSUME NEW c \in Conn, \/ Stall(c) \/ Resume(c) \/ Quit(c) \/ sendmsg_handler(c)
                             \/ comm_sendmsg(c) \/ conn_handler(c) \/ putMessage(c)
      PROVE  UNCHANGED <<fdOf, server>>
  BY <1>5 DEF Stall, Resume, Quit, sendmsg_handler, comm_sendmsg, conn_handler, putMessage, ends
<1> QED BY <1>1, <1>2, <1>3, <1>4, <1>5, NextCases DEF Outside

\* An entry, and what the dispatch thread read from one, was registered for its
\* id, by a connection that had the descriptor; and a message for one user is
\* looked up under that user's id.
EntriesOwned ==
    /\ \A u \in Id : \A fd \in registered[u] : \E d \in Conn : UserId[d] = u /\ fdOf[d] = fd
    /\ \A u \in Id : table[u] \in registered[u] \cup {NoFd}
    /\ dpc = "send" => connfd \in registered[slot] \cup {NoFd}
    /\ dpc # "get" /\ ~IsBroadcast(cur) => slot = cur.to

LEMMA RegisteredGrows ==
    ASSUME ListType, Next, NEW u \in Id
    PROVE  registered[u] \subseteq registered'[u]
<1>1. ASSUME NEW c \in Conn, conn_handler(c)
      PROVE  registered[u] \subseteq registered'[u]
  BY <1>1, ServerAssumption DEF conn_handler, Table!Register, ListType
<1>2. CASE Transport
  BY <1>2 DEF Transport, Table!Revert, list
<1>3. CASE SendToClosed \/ Kill \/ Restart \/ DispatchGet \/ DispatchPick \/ DispatchSend
  BY <1>3 DEF SendToClosed, Kill, Restart, DispatchGet, DispatchPick, DispatchSend, Die, list
<1>4. ASSUME NEW c \in Conn,
             Outside(c) \/ comm_sendmsg(c) \/ putMessage(c) \/ CloseConn(c) \/ HandlerFails(c)
      PROVE  registered[u] \subseteq registered'[u]
  BY <1>4 DEF Outside, Connect, ListenEnds, Stall, Resume, Quit, sendmsg_handler, comm_sendmsg,
              putMessage, CloseConn, HandlerFails, Die, list
<1> QED BY <1>1, <1>2, <1>3, <1>4, NextCases

LEMMA EntriesKept ==
    ASSUME Types, FdsOwned, EntriesOwned, Next
    PROVE  EntriesOwned'
<1> USE ServerAssumption DEF Types
<1>1. \A u \in Id : \A fd \in registered[u] :
          fd # NoFd /\ \E d \in Conn : UserId[d] = u /\ fdOf'[d] = fd
  <2>1. \A u \in Id : registered[u] \subseteq Fd
    BY DEF ListType
  <2> QED BY <2>1, FdStays DEF EntriesOwned, NoFd
<1>2. \A u \in Id : registered[u] \subseteq registered'[u]
  BY RegisteredGrows
<1>3. slot \in Id
  BY DEF DispatchType
<1>4. ASSUME NEW c \in Conn, conn_handler(c)
      PROVE  EntriesOwned'
  <2>1. /\ Table!Register(UserId[c], fdOf[c])
        /\ UNCHANGED <<fdOf, dpc, cur, slot, connfd>>
    BY <1>4 DEF conn_handler, ends, dispatch
  <2>2. UserId[c] \in Id
    OBVIOUS
  <2>3. \A u \in Id : \A fd \in registered'[u] : \E d \in Conn : UserId[d] = u /\ fdOf'[d] = fd
    BY <1>1, <2>1, <2>2 DEF Table!Register, ListType
  <2>4. \A u \in Id : table'[u] \in registered'[u] \cup {NoFd}
    BY <2>1, <2>2 DEF Table!Register, ListType, EntriesOwned
  <2> QED BY <1>2, <1>3, <2>1, <2>3, <2>4 DEF EntriesOwned, IsBroadcast
<1>5. CASE Transport
  <2>1. UNCHANGED <<registered, dpc, cur, slot, connfd>>
    BY <1>5 DEF Transport, Table!Revert, list, dispatch
  <2>2. \A u \in Id : table'[u] \in registered'[u] \cup {NoFd}
    <3>1. CASE UNCHANGED list
      BY <3>1 DEF list, EntriesOwned
    <3>2. ASSUME NEW v \in Id, Table!Revert(v)
          PROVE  \A u \in Id : table'[u] \in registered'[u] \cup {NoFd}
      BY <3>2 DEF Table!Revert, Table!NoFd, NoFd, EntriesOwned, ListType
    <3> QED BY <1>5, <3>1, <3>2 DEF Transport
  <2> QED BY <1>1, <2>1, <2>2 DEF EntriesOwned, IsBroadcast
<1>6. CASE DispatchGet
  <2>1. UNCHANGED <<table, registered>>
    BY <1>6 DEF DispatchGet, list
  <2>2. CASE UNCHANGED dispatch
    BY <1>1, <2>1, <2>2 DEF EntriesOwned, IsBroadcast, dispatch
  <2>3. CASE dpc' = "pick" /\ slot' = cur'.to
    BY <1>1, <2>1, <2>3 DEF EntriesOwned
  <2> QED BY <1>6, <2>2, <2>3 DEF DispatchGet
<1>7. CASE DispatchPick
  BY <1>1, <1>3, <1>7 DEF DispatchPick, EntriesOwned, IsBroadcast, list
<1>8. CASE DispatchSend
  <2>1. UNCHANGED <<table, registered>> /\ dpc = "send" /\ NextEntry
    BY <1>8 DEF DispatchSend, list
  <2>2. dpc' # "send" /\ (dpc' # "get" => cur' = cur /\ IsBroadcast(cur))
    BY <2>1 DEF NextEntry
  <2> QED BY <1>1, <2>1, <2>2 DEF EntriesOwned, IsBroadcast
<1>9. CASE SendToClosed \/ Kill \/ \E c \in Conn : ListenEnds(c)
  <2>1. UNCHANGED <<table, registered>> /\ dpc' = "get"
    BY <1>9 DEF SendToClosed, Kill, ListenEnds, Die, list
  <2> QED BY <1>1, <2>1 DEF EntriesOwned
<1>10. CASE \/ Restart
            \/ \E c \in Conn : \/ Connect(c) \/ Stall(c) \/ Resume(c) \/ Quit(c) \/ sendmsg_handler(c)
                               \/ comm_sendmsg(c) \/ putMessage(c) \/ CloseConn(c) \/ HandlerFails(c)
  <2>1. UNCHANGED <<table, registered, dpc, cur, slot, connfd>>
    BY <1>10 DEF Restart, Connect, Stall, Resume, Quit, sendmsg_handler, comm_sendmsg, putMessage,
                 CloseConn, HandlerFails, list, dispatch
  <2> QED BY <1>1, <2>1 DEF EntriesOwned, IsBroadcast
<1> QED BY <1>4, <1>5, <1>6, <1>7, <1>8, <1>9, <1>10, NextCases DEF Outside

LEMMA MisdeliveryKept ==
    ASSUME Types, FdsOwned, EntriesOwned, MisdeliveryNeedsReuse, Next
    PROVE  MisdeliveryNeedsReuse'
<1> USE ServerAssumption DEF Types
\* Whom a message may reach.
<1> DEFINE Right(c, msg) == \/ IsBroadcast(msg)
                            \/ UserId[c] = msg.to
                            \/ \E d \in Conn : /\ UserId[d] = msg.to
                                               /\ fdOf[d] = fdOf[c]
                                               /\ server[d] = "closed"
           Right1(c, msg) == \/ IsBroadcast(msg)
                             \/ UserId[c] = msg.to
                             \/ \E d \in Conn : /\ UserId[d] = msg.to
                                                /\ fdOf'[d] = fdOf'[c]
                                                /\ server'[d] = "closed"
<1>1. \A c \in Conn : \A msg \in Message : Right(c, msg) => Right1(c, msg)
  <2> SUFFICES ASSUME NEW c \in Conn, NEW msg \in Message, NEW d \in Conn,
                      UserId[d] = msg.to, fdOf[d] = fdOf[c], server[d] = "closed"
               PROVE  fdOf'[d] = fdOf'[c] /\ server'[d] = "closed"
    BY Zenon
  <2>1. fdOf[d] # NoFd
    BY DEF FdsOwned
  <2> QED BY <2>1, FdStays
<1>2. \A c \in Conn : \A i \in DOMAIN inbox[c] : Right(c, inbox[c][i])
  BY DEF MisdeliveryNeedsReuse, IsBroadcast
<1>3. \A c \in Conn : \A i \in DOMAIN inbox[c] : inbox[c][i] \in Message
  BY DEF InboxType
<1>4. \A c \in Conn : \A i \in DOMAIN inbox[c] : Right1(c, inbox[c][i])
  BY <1>1, <1>2, <1>3
<1>5. CASE DispatchSend
  <2>1. cur \in Message /\ slot \in Id /\ dpc = "send"
    BY <1>5 DEF DispatchSend, DispatchType
  <2>2. ASSUME NEW c \in Receivers
        PROVE  Right(c, cur)
    <3>1. c \in Conn /\ server[c] = "open" /\ fdOf[c] = connfd
      BY <2>2 DEF Receivers
    <3>2. connfd \in registered[slot]
      BY <2>1, <3>1 DEF EntriesOwned, FdsOwned
    <3>3. PICK d \in Conn : UserId[d] = slot /\ fdOf[d] = connfd
      BY <2>1, <3>2 DEF EntriesOwned
    <3>4. d = c \/ server[d] = "closed"
      BY <3>1, <3>3 DEF FdsOwned, EndsType
    <3>5. IsBroadcast(cur) \/ slot = cur.to
      BY <2>1 DEF EntriesOwned
    <3> QED BY <3>1, <3>3, <3>4, <3>5
  <2>3. ASSUME NEW c \in Conn, NEW i \in DOMAIN inbox'[c]
        PROVE  Right1(c, inbox'[c][i])
    <3>1. CASE inbox'[c] = inbox[c]
      BY <1>4, <3>1
    <3>2. CASE c \in Receivers /\ inbox'[c] = Append(inbox[c], cur)
      <4>1. inbox[c] \in Seq(Message)
        BY DEF InboxType
      <4>2. (i \in DOMAIN inbox[c] /\ inbox'[c][i] = inbox[c][i]) \/ inbox'[c][i] = cur
        BY <2>1, <3>2, <4>1
      <4> QED BY <1>1, <1>4, <2>1, <2>2, <3>2, <4>2
    <3> QED BY <1>5, <3>1, <3>2 DEF DispatchSend
  <2> QED BY <2>3 DEF MisdeliveryNeedsReuse, IsBroadcast
<1>6. CASE ~ DispatchSend
  <2>1. UNCHANGED inbox
    BY <1>6, NextCases DEF Outside, Connect, ListenEnds, Stall, Resume, Quit, sendmsg_handler,
           comm_sendmsg,
         conn_handler, putMessage, CloseConn, HandlerFails, DispatchGet, DispatchPick, SendToClosed,
         Kill, Restart, Transport, Die, wire
  <2> QED BY <1>4, <2>1 DEF MisdeliveryNeedsReuse, IsBroadcast
<1> QED BY <1>5, <1>6

-----------------------------------------------------------------------------
\* Order.  A message is sent after those its sender sent before it; in the
\* streams and in the queue the numbers of one sender ascend; a message waits
\* behind none its sender sent earlier, and one that was taken from the queue
\* has passed those in the queue as well.
Later(x, y) == x # CONN /\ y # CONN /\ x.by = y.by => x.n < y.n
Ascending(s) == \A i, j \in DOMAIN s : i < j => Later(s[i], s[j])

Waiting(msg) == /\ msg.n <= sent
                /\ \A c \in Conn : \A i \in DOMAIN stream[c] : Later(msg, stream[c][i])
Passed(msg) == Waiting(msg) /\ \A i \in DOMAIN queue : Later(msg, queue[i])

StreamOrder ==
    \A c \in Conn :
        /\ Ascending(stream[c])
        /\ \A i \in DOMAIN stream[c] :
               stream[c][i] # CONN => stream[c][i].by = c /\ stream[c][i].n <= sent
QueueOrder == Ascending(queue) /\ \A i \in DOMAIN queue : Waiting(queue[i])

LEMMA ConnIsNoMessage == CONN \notin Message
  BY DEF CONN, Message

LEMMA EntriesOfAppend ==
    ASSUME NEW S, NEW s \in Seq(S), NEW m \in S, NEW i \in DOMAIN Append(s, m)
    PROVE  \/ i \in DOMAIN s /\ Append(s, m)[i] = s[i]
           \/ i = Len(s) + 1 /\ Append(s, m)[i] = m
  OBVIOUS

LEMMA AscendingAppend ==
    ASSUME NEW S, NEW s \in Seq(S), NEW m \in S, Ascending(s),
           \A i \in DOMAIN s : Later(s[i], m)
    PROVE  Ascending(Append(s, m))
<1> SUFFICES ASSUME NEW i \in DOMAIN Append(s, m), NEW j \in DOMAIN Append(s, m), i < j
             PROVE  Later(Append(s, m)[i], Append(s, m)[j])
  BY DEF Ascending
<1>1. i \in DOMAIN s /\ Append(s, m)[i] = s[i]
  OBVIOUS
<1>2. \/ j \in DOMAIN s /\ Append(s, m)[j] = s[j]
      \/ Append(s, m)[j] = m
  OBVIOUS
<1> QED BY <1>1, <1>2 DEF Ascending

LEMMA AscendingTail ==
    ASSUME NEW S, NEW s \in Seq(S), s # <<>>, Ascending(s)
    PROVE  /\ Ascending(Tail(s))
           /\ \A i \in DOMAIN Tail(s) : Later(Head(s), Tail(s)[i])
           /\ \A i \in DOMAIN Tail(s) : i + 1 \in DOMAIN s /\ Tail(s)[i] = s[i + 1]
           /\ 1 \in DOMAIN s /\ Head(s) = s[1]
<1>1. \A i \in DOMAIN Tail(s) : i \in Nat /\ i + 1 \in DOMAIN s /\ Tail(s)[i] = s[i + 1]
  OBVIOUS
<1>2. 1 \in DOMAIN s /\ Head(s) = s[1]
  OBVIOUS
<1>3. Ascending(Tail(s))
  BY <1>1 DEF Ascending
<1>4. \A i \in DOMAIN Tail(s) : 1 < i + 1
  <2>1. \A i \in DOMAIN Tail(s) : i \in 1 .. Len(Tail(s))
    OBVIOUS
  <2> QED BY <2>1
<1> QED BY <1>1, <1>2, <1>3, <1>4 DEF Ascending

\* The streams that a step changes other than by adding a message lose their
\* first entry, lose all, or are new with a CONN message only.
StreamsShrink == /\ UNCHANGED sent
                 /\ \A d \in Conn : \/ stream'[d] = stream[d]
                                    \/ stream[d] # <<>> /\ stream'[d] = Tail(stream[d])
                                    \/ stream'[d] = <<>>
                                    \/ stream'[d] = <<CONN>>

LEMMA StreamSteps ==
    ASSUME Types, Next
    PROVE  StreamsShrink \/ \E c \in Conn : comm_sendmsg(c)
<1> USE DEF Types, WireType
<1>1. ASSUME NEW c \in Conn, \/ Connect(c) \/ conn_handler(c) \/ putMessage(c)
                             \/ CloseConn(c) \/ HandlerFails(c)
      PROVE  StreamsShrink
  BY <1>1 DEF StreamsShrink, Connect, conn_handler, putMessage, CloseConn, HandlerFails, Parsed
<1>2. CASE \/ DispatchGet \/ DispatchPick \/ DispatchSend \/ Restart \/ Transport
           \/ \E c \in Conn : Stall(c) \/ Resume(c) \/ Quit(c) \/ sendmsg_handler(c)
  BY <1>2 DEF StreamsShrink, DispatchGet, DispatchPick, DispatchSend, Restart, Transport,
              Stall, Resume, Quit, sendmsg_handler, wire
<1>3. CASE SendToClosed \/ Kill \/ \E c \in Conn : ListenEnds(c)
  BY <1>3 DEF StreamsShrink, SendToClosed, Kill, ListenEnds, Die
<1> QED BY <1>1, <1>2, <1>3, NextCases DEF Outside

\* What comm_sendmsg adds has a higher number than all there is.
LEMMA SendStep ==
    ASSUME Types, NEW c \in Conn, comm_sendmsg(c)
    PROVE  \E msg \in Message :
               /\ msg.by = c /\ msg.n = sent + 1 /\ sent' = sent + 1 /\ sent \in Nat
               /\ stream' = [stream EXCEPT ![c] = Append(@, msg)]
               /\ UNCHANGED <<queue, cur, dpc, slot, inbox>>
<1>1. PICK to \in Id :
          stream' = [stream EXCEPT ![c] = Append(@, [by |-> c, to |-> to, n |-> sent'])]
  BY DEF comm_sendmsg
<1>2. sent' = sent + 1 /\ sent \in Nat /\ sent' \in 1 .. MaxSend
  BY ServerAssumption DEF comm_sendmsg, Types, WireType
<1>3. [by |-> c, to |-> to, n |-> sent'] \in Message
  BY <1>2 DEF Message
<1>4. UNCHANGED <<queue, cur, dpc, slot, inbox>>
  BY DEF comm_sendmsg, poll, dispatch
<1> QED BY <1>1, <1>2, <1>3, <1>4

\* Nothing that happens later comes before a message that waits.
LEMMA WaitingStays ==
    ASSUME Types, Next, NEW msg \in Message, Waiting(msg)
    PROVE  Waiting(msg)'
<1> USE DEF Types, WireType
<1>1. msg.n \in Nat
  BY DEF Message
<1>2. ASSUME NEW c \in Conn, comm_sendmsg(c)
      PROVE  Waiting(msg)'
  <2>1. PICK new \in Message :
            /\ new.by = c /\ new.n = sent + 1 /\ sent' = sent + 1 /\ sent \in Nat
            /\ stream' = [stream EXCEPT ![c] = Append(@, new)]
    BY <1>2, SendStep
  <2>2. ASSUME NEW d \in Conn, NEW i \in DOMAIN stream'[d]
        PROVE  Later(msg, stream'[d][i])
    <3>1. \/ i \in DOMAIN stream[d] /\ stream'[d][i] = stream[d][i]
          \/ stream'[d][i] = new
      <4>1. stream[d] \in Seq(Message \cup {CONN})
        OBVIOUS
      <4>2. CASE stream'[d] = stream[d]
        BY <4>2
      <4>3. CASE stream'[d] = Append(stream[d], new)
        BY <4>1, <4>3, EntriesOfAppend
      <4> QED BY <2>1, <4>2, <4>3
    <3>2. CASE i \in DOMAIN stream[d] /\ stream'[d][i] = stream[d][i]
      BY <3>2 DEF Waiting
    <3>3. CASE stream'[d][i] = new
      BY <1>1, <2>1, <3>3 DEF Waiting, Later
    <3> QED BY <3>1, <3>2, <3>3
  <2> QED BY <1>1, <2>1, <2>2 DEF Waiting
<1>3. CASE StreamsShrink
  <2>1. ASSUME NEW d \in Conn, NEW i \in DOMAIN stream'[d]
        PROVE  Later(msg, stream'[d][i])
    <3>1. stream[d] \in Seq(Message \cup {CONN})
      OBVIOUS
    <3>2. \/ \E j \in DOMAIN stream[d] : stream'[d][i] = stream[d][j]
          \/ stream'[d][i] = CONN
      <4>1. CASE stream[d] # <<>> /\ stream'[d] = Tail(stream[d])
        <5>1. i + 1 \in DOMAIN stream[d] /\ stream'[d][i] = stream[d][i + 1]
          BY <3>1, <4>1
        <5> QED BY <5>1
      <4>2. CASE stream'[d] = stream[d] \/ stream'[d] = <<>> \/ stream'[d] = <<CONN>>
        BY <4>2
      <4> QED BY <1>3, <4>1, <4>2 DEF StreamsShrink
    <3> QED BY <3>2 DEF Waiting, Later
  <2> QED BY <1>3, <2>1 DEF Waiting, StreamsShrink
<1> QED BY <1>2, <1>3, StreamSteps

LEMMA StreamOrderKept ==
    ASSUME Types, StreamOrder, Next
    PROVE  StreamOrder'
<1> USE DEF Types, WireType
<1> SUFFICES ASSUME NEW d \in Conn
             PROVE  /\ Ascending(stream'[d])
                    /\ \A i \in DOMAIN stream'[d] :
                          stream'[d][i] # CONN =>
                              stream'[d][i].by = d /\ stream'[d][i].n <= sent'
  BY DEF StreamOrder, Ascending
<1>1. stream[d] \in Seq(Message \cup {CONN})
  OBVIOUS
<1>2. /\ Ascending(stream[d])
      /\ \A i \in DOMAIN stream[d] :
            stream[d][i] # CONN => stream[d][i].by = d /\ stream[d][i].n <= sent
  BY DEF StreamOrder
<1>3. ASSUME NEW c \in Conn, comm_sendmsg(c)
      PROVE  /\ Ascending(stream'[d])
             /\ \A i \in DOMAIN stream'[d] :
                   stream'[d][i] # CONN =>
                       stream'[d][i].by = d /\ stream'[d][i].n <= sent'
  <2>1. PICK new \in Message :
            /\ new.by = c /\ new.n = sent + 1 /\ sent' = sent + 1 /\ sent \in Nat
            /\ stream' = [stream EXCEPT ![c] = Append(@, new)]
    BY <1>3, SendStep
  <2>2. ASSUME NEW i \in DOMAIN stream[d], stream[d][i] # CONN
        PROVE  /\ stream[d][i].n \in Nat
               /\ stream[d][i].by = d /\ stream[d][i].n <= sent /\ stream[d][i].n <= sent'
    <3>1. stream[d][i] \in Message
      BY <1>1, <2>2
    <3> QED BY <1>2, <2>1, <2>2, <3>1 DEF Message
  <2>3. CASE c # d
    BY <1>2, <2>1, <2>2, <2>3
  <2>4. CASE c = d
    <3>1. stream'[d] = Append(stream[d], new)
      BY <2>1, <2>4
    <3>2. \A i \in DOMAIN stream[d] : Later(stream[d][i], new)
      BY <2>1, <2>2 DEF Later
    <3>3. Ascending(stream'[d])
      BY <1>1, <1>2, <3>1, <3>2, AscendingAppend
    <3>4. ASSUME NEW i \in DOMAIN stream'[d], stream'[d][i] # CONN
          PROVE  stream'[d][i].by = d /\ stream'[d][i].n <= sent'
      <4>1. (i \in DOMAIN stream[d] /\ stream'[d][i] = stream[d][i]) \/ stream'[d][i] = new
        BY <1>1, <3>1, EntriesOfAppend
      <4> QED BY <2>1, <2>2, <2>4, <3>4, <4>1
    <3> QED BY <3>3, <3>4
  <2> QED BY <2>3, <2>4
<1>4. CASE StreamsShrink
  <2>1. CASE stream[d] # <<>> /\ stream'[d] = Tail(stream[d])
    BY <1>1, <1>2, <1>4, <2>1, AscendingTail DEF StreamsShrink
  <2>2. CASE stream'[d] = <<>> \/ stream'[d] = <<CONN>>
    <3>1. \A i, j \in DOMAIN stream'[d] : ~(i < j) /\ stream'[d][i] = CONN
      BY <2>2
    <3> QED BY <3>1 DEF Ascending
  <2>3. CASE stream'[d] = stream[d]
    BY <1>2, <1>4, <2>3 DEF StreamsShrink
  <2> QED BY <1>4, <2>1, <2>2, <2>3 DEF StreamsShrink
<1> QED BY <1>3, <1>4, StreamSteps

QueueShrinks == \/ queue' = queue
                \/ queue # <<>> /\ queue' = Tail(queue)
                \/ queue' = <<>>

LEMMA QueueSteps ==
    ASSUME Next
    PROVE  QueueShrinks \/ \E c \in Conn : putMessage(c)
<1>1. CASE DispatchGet \/ SendToClosed \/ Kill \/ \E c \in Conn : ListenEnds(c)
  BY <1>1 DEF QueueShrinks, DispatchGet, Poll!getMessage, SendToClosed, Kill, ListenEnds, Die
<1>2. CASE Transport
  BY <1>2 DEF QueueShrinks, Transport, Poll!Lose, poll
<1>3. CASE DispatchPick \/ DispatchSend \/ Restart
  BY <1>3 DEF QueueShrinks, DispatchPick, DispatchSend, Restart, poll
<1>4. ASSUME NEW c \in Conn, \/ Connect(c) \/ Stall(c) \/ Resume(c) \/ Quit(c) \/ sendmsg_handler(c)
                             \/ comm_sendmsg(c) \/ conn_handler(c) \/ CloseConn(c) \/ HandlerFails(c)
      PROVE  QueueShrinks
  BY <1>4 DEF QueueShrinks, Connect, Stall, Resume, Quit, sendmsg_handler,
         comm_sendmsg, conn_handler,
              CloseConn, HandlerFails, poll
<1> QED BY <1>1, <1>2, <1>3, <1>4, NextCases DEF Outside

\* What putMessage puts is the first of its stream.
LEMMA PutStep ==
    ASSUME Types, StreamOrder, NEW c \in Conn, putMessage(c)
    PROVE  \E msg \in Message :
               /\ queue' = Append(queue, msg)
               /\ 1 \in DOMAIN stream[c] /\ stream[c][1] = msg
               /\ Waiting(msg)'
<1> USE DEF Types, WireType
<1>1. /\ stream[c] # <<>> /\ stream[c] \in Seq(Message \cup {CONN})
      /\ stream' = [stream EXCEPT ![c] = Tail(@)]
      /\ Head(stream[c]) # CONN
      /\ queue' = Append(queue, Head(stream[c]))
      /\ UNCHANGED sent
  BY DEF putMessage, Parsed, Poll!putMessage
<1>2. PICK msg \in Message : msg = Head(stream[c]) /\ 1 \in DOMAIN stream[c] /\ stream[c][1] = msg
  BY <1>1
<1>3. msg.by = c /\ msg.n <= sent
  BY <1>1, <1>2 DEF StreamOrder
<1>4. Ascending(stream[c])
  BY DEF StreamOrder
<1>5. \A i \in DOMAIN stream'[c] : Later(msg, stream'[c][i])
  BY <1>1, <1>2, <1>4, AscendingTail
<1>6. ASSUME NEW d \in Conn, d # c, NEW i \in DOMAIN stream'[d]
      PROVE  Later(msg, stream'[d][i])
  <2>1. stream'[d] = stream[d]
    BY <1>1, <1>6
  <2>2. stream[d][i] # CONN => stream[d][i].by = d
    BY <1>6, <2>1 DEF StreamOrder
  <2> QED BY <1>3, <1>6, <2>1, <2>2 DEF Later
<1>7. Waiting(msg)'
  <2>1. \A d \in Conn : \A i \in DOMAIN stream'[d] : Later(msg, stream'[d][i])
    BY <1>5, <1>6
  <2> QED BY <1>1, <1>3, <2>1 DEF Waiting
<1> QED BY <1>1, <1>2, <1>7

LEMMA QueueOrderKept ==
    ASSUME Types, StreamOrder, QueueOrder, Next
    PROVE  QueueOrder'
<1> USE DEF Types, WireType
<1>1. ASSUME NEW i \in DOMAIN queue
      PROVE  queue[i] \in Message /\ \E msg \in Message : msg = queue[i] /\ Waiting(msg)'
  <2>1. PICK msg \in Message : msg = queue[i]
    OBVIOUS
  <2>2. Waiting(msg)
    BY <2>1 DEF QueueOrder
  <2> QED BY <2>1, <2>2, WaitingStays
<1>2. ASSUME NEW c \in Conn, putMessage(c)
      PROVE  QueueOrder'
  <2>1. PICK msg \in Message : /\ queue' = Append(queue, msg)
                               /\ 1 \in DOMAIN stream[c] /\ stream[c][1] = msg
                               /\ Waiting(msg)'
    BY <1>2, PutStep
  <2>2. \A i \in DOMAIN queue : Later(queue[i], msg)
    BY <2>1 DEF QueueOrder, Waiting
  <2>3. Ascending(queue')
    BY <2>1, <2>2, AscendingAppend DEF QueueOrder
  <2>4. ASSUME NEW i \in DOMAIN queue'
        PROVE  Waiting(queue[i])'
    <3>1. CASE i \in DOMAIN queue /\ queue'[i] = queue[i]
      <4>1. PICK old \in Message : old = queue[i] /\ Waiting(old)'
        BY <1>1, <3>1
      <4> QED BY <3>1, <4>1 DEF Waiting
    <3>2. CASE queue'[i] = msg
      BY <2>1, <3>2 DEF Waiting
    <3> QED BY <2>1, <3>1, <3>2, EntriesOfAppend
  <2> QED BY <2>3, <2>4 DEF QueueOrder
<1>3. CASE QueueShrinks
  <2>1. CASE queue' = <<>>
    BY <2>1 DEF QueueOrder, Ascending
  <2>2. CASE queue # <<>> /\ queue' = Tail(queue)
    <3>1. Ascending(queue') /\ \A i \in DOMAIN queue' : i + 1 \in DOMAIN queue /\ queue'[i] = queue[i + 1]
      BY <2>2, AscendingTail DEF QueueOrder
    <3>2. ASSUME NEW i \in DOMAIN queue'
          PROVE  Waiting(queue[i])'
      <4>1. PICK old \in Message : old = queue[i + 1] /\ Waiting(old)'
        BY <1>1, <3>1
      <4> QED BY <3>1, <4>1 DEF Waiting
    <3> QED BY <3>1, <3>2 DEF QueueOrder
  <2>3. CASE queue' = queue
    <3>1. ASSUME NEW i \in DOMAIN queue'
          PROVE  Waiting(queue[i])'
      <4>1. PICK old \in Message : old = queue[i] /\ Waiting(old)'
        BY <1>1, <2>3
      <4> QED BY <2>3, <4>1 DEF Waiting
    <3> QED BY <2>3, <3>1 DEF QueueOrder, Ascending
  <2> QED BY <1>3, <2>1, <2>2, <2>3 DEF QueueShrinks
<1> QED BY <1>2, <1>3, QueueSteps

LEMMA PassedStays ==
    ASSUME Types, StreamOrder, Next, NEW msg \in Message, Passed(msg)
    PROVE  Passed(msg)'
<1> USE DEF Types, WireType
<1>1. Waiting(msg)'
  BY WaitingStays DEF Passed
<1>2. ASSUME NEW c \in Conn, putMessage(c)
      PROVE  \A i \in DOMAIN queue' : Later(msg, queue'[i])
  <2>1. PICK new \in Message : /\ queue' = Append(queue, new)
                               /\ 1 \in DOMAIN stream[c] /\ stream[c][1] = new
    BY <1>2, PutStep
  <2>2. Later(msg, new)
    BY <2>1 DEF Passed, Waiting
  <2> QED BY <2>1, <2>2, EntriesOfAppend DEF Passed
<1>3. ASSUME QueueShrinks
      PROVE  \A i \in DOMAIN queue' : Later(msg, queue'[i])
  <2>1. ASSUME NEW i \in DOMAIN queue'
        PROVE  \E j \in DOMAIN queue : queue'[i] = queue[j]
    <3>1. CASE queue # <<>> /\ queue' = Tail(queue)
      <4>1. i + 1 \in DOMAIN queue /\ queue'[i] = queue[i + 1]
        BY <2>1, <3>1
      <4> QED BY <4>1
    <3> QED BY <1>3, <2>1, <3>1 DEF QueueShrinks
  <2> QED BY <2>1 DEF Passed
<1>4. \A i \in DOMAIN queue' : Later(msg, queue'[i])
  BY <1>2, <1>3, QueueSteps
<1> QED BY <1>1, <1>4 DEF Passed

\* What the dispatch thread takes has passed what is left.
LEMMA TakenPassed ==
    ASSUME Types, QueueOrder, DispatchGet
    PROVE  \E msg \in Message : msg = Head(queue) /\ 1 \in DOMAIN queue /\ msg = queue[1] /\ Passed(msg)'
<1> USE DEF Types, WireType
<1>1. queue # <<>> /\ queue' = Tail(queue) /\ UNCHANGED <<stream, sent>>
  BY DEF DispatchGet, Poll!getMessage, wire
<1>2. PICK msg \in Message : msg = Head(queue) /\ 1 \in DOMAIN queue /\ msg = queue[1]
  BY <1>1
<1>3. Waiting(msg)'
  BY <1>1, <1>2 DEF QueueOrder, Waiting
<1>4. \A i \in DOMAIN queue' : Later(msg, queue'[i])
  BY <1>1, <1>2, AscendingTail DEF QueueOrder
<1> QED BY <1>2, <1>3, <1>4 DEF Passed

\* What was sent down a connection, and what is being sent, has passed the
\* queue; what is being sent comes after what was.
NotAfter(x, y) == x.by = y.by => x.n <= y.n

Settled ==
    /\ dpc # "get" => Passed(cur)
    /\ \A c \in Conn : \A i \in DOMAIN inbox[c] :
           Passed(inbox[c][i]) /\ (dpc # "get" => NotAfter(inbox[c][i], cur))

Order == StreamOrder /\ QueueOrder /\ Settled

LEMMA OtherSteps ==
    ASSUME Next
    PROVE  \/ DispatchGet
           \/ DispatchSend
           \/ UNCHANGED inbox /\ (dpc' = "get" \/ DispatchPick \/ UNCHANGED dispatch)
<1>1. CASE DispatchPick
  BY <1>1 DEF DispatchPick, wire
<1>2. CASE Transport \/ Restart
  BY <1>2 DEF Transport, Restart, wire
<1>3. CASE SendToClosed \/ Kill \/ \E c \in Conn : ListenEnds(c)
  BY <1>3 DEF SendToClosed, Kill, ListenEnds, Die
<1>4. ASSUME NEW c \in Conn,
             \/ Connect(c) \/ Stall(c) \/ Resume(c) \/ Quit(c) \/ sendmsg_handler(c)
             \/ comm_sendmsg(c)
             \/ conn_handler(c) \/ putMessage(c) \/ CloseConn(c) \/ HandlerFails(c)
      PROVE  UNCHANGED <<inbox, dispatch>>
  BY <1>4 DEF Connect, Stall, Resume, Quit, sendmsg_handler,
         comm_sendmsg, conn_handler, putMessage,
              CloseConn, HandlerFails, wire
<1> QED BY <1>1, <1>2, <1>3, <1>4, NextCases DEF Outside

LEMMA DispatchSteps ==
    ASSUME Next
    PROVE  \/ DispatchGet
           \/ DispatchSend
           \/ UNCHANGED inbox /\ (dpc' # "get" => dpc # "get" /\ UNCHANGED <<cur, slot>>)
  BY OtherSteps DEF DispatchPick, dispatch

\* What DispatchSend adds to an inbox is the message being sent.
LEMMA SentStep ==
    ASSUME Types, DispatchSend, NEW c \in Conn
    PROVE  /\ cur \in Message /\ dpc = "send"
           /\ dpc' # "get" => cur' = cur /\ IsBroadcast(cur) /\ slot' = slot + 1
           /\ \A i \in DOMAIN inbox'[c] :
                 \/ i \in DOMAIN inbox[c] /\ inbox'[c][i] = inbox[c][i]
                 \/ /\ c \in Receivers
                    /\ i = Len(inbox[c]) + 1 /\ Len(inbox[c]) \in Nat
                    /\ inbox'[c][i] = cur
           /\ DOMAIN inbox[c] = 1 .. Len(inbox[c])
<1>1. /\ cur \in Message /\ dpc = "send"
      /\ dpc' # "get" => cur' = cur /\ IsBroadcast(cur) /\ slot' = slot + 1
  BY DEF Types, DispatchType, DispatchSend, NextEntry
<1>2. inbox[c] \in Seq(Message)
  BY DEF Types, InboxType
<1>3. CASE inbox'[c] = inbox[c]
  BY <1>1, <1>2, <1>3
<1>4. CASE c \in Receivers /\ inbox'[c] = Append(inbox[c], cur)
  BY <1>1, <1>2, <1>4, EntriesOfAppend
<1> QED BY <1>3, <1>4 DEF DispatchSend

LEMMA SettledKept ==
    ASSUME Types, Order, Next
    PROVE  Settled'
<1>1. \A c \in Conn : \A i \in DOMAIN inbox[c] : inbox[c][i] \in Message
  BY DEF Types, InboxType
<1>2. \A msg \in Message : Passed(msg) => Passed(msg)'
  BY PassedStays DEF Order
<1>3. ASSUME NEW c \in Conn, NEW i \in DOMAIN inbox[c]
      PROVE  \E msg \in Message : msg = inbox[c][i] /\ Passed(msg) /\ Passed(msg)'
  BY <1>1, <1>2, <1>3 DEF Order, Settled
<1>4. CASE DispatchGet
  <2>1. PICK new \in Message : new = Head(queue) /\ 1 \in DOMAIN queue /\ new = queue[1] /\ Passed(new)'
    BY <1>4, TakenPassed DEF Order
  <2>2. UNCHANGED inbox /\ dpc = "get" /\ (dpc' # "get" => cur' = new)
    BY <1>4, <2>1 DEF DispatchGet, wire, dispatch
  <2>3. dpc' # "get" => Passed(cur)'
    BY <2>1, <2>2 DEF Passed, Waiting
  <2>4. ASSUME NEW c \in Conn, NEW i \in DOMAIN inbox'[c]
        PROVE  Passed(inbox[c][i])' /\ (dpc' # "get" => NotAfter(inbox'[c][i], cur'))
    <3>1. PICK msg \in Message : msg = inbox[c][i] /\ Passed(msg) /\ Passed(msg)'
      BY <1>3, <2>2
    <3>2. Passed(inbox[c][i])'
      BY <2>2, <3>1 DEF Passed, Waiting
    <3>3. Later(msg, new)
      BY <2>1, <3>1 DEF Passed
    <3>4. NotAfter(msg, new)
      BY <3>3, ConnIsNoMessage DEF Later, NotAfter, Message
    <3> QED BY <2>2, <3>1, <3>2, <3>4
  <2> QED BY <2>3, <2>4 DEF Settled
<1>5. CASE DispatchSend
  <2>1. cur \in Message /\ dpc = "send" /\ (dpc' # "get" => cur' = cur)
    BY <1>5 DEF Types, DispatchType, DispatchSend, NextEntry
  <2>2. PICK now \in Message : now = cur /\ Passed(now)'
    BY <1>2, <2>1 DEF Order, Settled
  <2>3. dpc' # "get" => Passed(cur)'
    BY <2>1, <2>2 DEF Passed, Waiting
  <2>4. ASSUME NEW c \in Conn, NEW i \in DOMAIN inbox'[c]
        PROVE  Passed(inbox[c][i])' /\ (dpc' # "get" => NotAfter(inbox'[c][i], cur'))
    <3>1. CASE i \in DOMAIN inbox[c] /\ inbox'[c][i] = inbox[c][i]
      <4>1. PICK msg \in Message : msg = inbox[c][i] /\ Passed(msg)'
        BY <1>3, <3>1
      <4>2. Passed(inbox[c][i])'
        BY <3>1, <4>1 DEF Passed, Waiting
      <4> QED BY <2>1, <3>1, <4>2 DEF Order, Settled
    <3>2. CASE inbox'[c][i] = cur
      <4>1. Passed(inbox[c][i])'
        BY <2>2, <3>2 DEF Passed, Waiting
      <4> QED BY <2>1, <3>2, <4>1 DEF NotAfter, Message
    <3> QED BY <1>5, <3>1, <3>2, SentStep
  <2> QED BY <2>3, <2>4 DEF Settled
<1>6. CASE UNCHANGED inbox /\ (dpc' # "get" => dpc # "get" /\ UNCHANGED <<cur, slot>>)
  <2>1. dpc' # "get" => Passed(cur)'
    <3> SUFFICES ASSUME dpc' # "get" PROVE Passed(cur)'
      OBVIOUS
    <3>1. PICK now \in Message : now = cur /\ Passed(now)
      BY <1>6 DEF Types, DispatchType, Order, Settled
    <3> QED BY <1>2, <1>6, <3>1 DEF Passed, Waiting
  <2>2. ASSUME NEW c \in Conn, NEW i \in DOMAIN inbox'[c]
        PROVE  Passed(inbox[c][i])' /\ (dpc' # "get" => NotAfter(inbox'[c][i], cur'))
    <3>1. PICK msg \in Message : msg = inbox[c][i] /\ Passed(msg)'
      BY <1>3, <1>6
    <3>2. Passed(inbox[c][i])'
      BY <1>6, <3>1 DEF Passed, Waiting
    <3> QED BY <1>6, <3>2 DEF Order, Settled
  <2> QED BY <2>1, <2>2 DEF Settled
<1> QED BY <1>4, <1>5, <1>6, DispatchSteps

LEMMA InboxInOrderKept ==
    ASSUME Types, Order, InboxInOrder, Next
    PROVE  InboxInOrder'
<1>1. CASE DispatchSend
  <2> SUFFICES ASSUME NEW c \in Conn, NEW i \in DOMAIN inbox'[c], NEW j \in DOMAIN inbox'[c],
                      i < j, inbox'[c][i].by = inbox'[c][j].by
               PROVE  inbox'[c][i].n <= inbox'[c][j].n
    BY DEF InboxInOrder
  <2>1. DOMAIN inbox[c] = 1 .. Len(inbox[c]) /\ dpc = "send"
    BY <1>1, SentStep
  <2>2. /\ \/ i \in DOMAIN inbox[c] /\ inbox'[c][i] = inbox[c][i]
           \/ i = Len(inbox[c]) + 1 /\ Len(inbox[c]) \in Nat
        /\ \/ j \in DOMAIN inbox[c] /\ inbox'[c][j] = inbox[c][j]
           \/ j = Len(inbox[c]) + 1 /\ Len(inbox[c]) \in Nat /\ inbox'[c][j] = cur
    BY <1>1, SentStep
  <2>3. i \in DOMAIN inbox[c] /\ inbox'[c][i] = inbox[c][i]
    BY <2>1, <2>2
  <2>4. CASE j \in DOMAIN inbox[c] /\ inbox'[c][j] = inbox[c][j]
    BY <2>3, <2>4 DEF InboxInOrder
  <2>5. CASE inbox'[c][j] = cur
    BY <2>1, <2>3, <2>5 DEF Order, Settled, NotAfter
  <2> QED BY <2>2, <2>4, <2>5
<1>2. CASE UNCHANGED inbox
  BY <1>2 DEF InboxInOrder
<1> QED BY <1>1, <1>2, DispatchSteps DEF DispatchGet, wire

-----------------------------------------------------------------------------
\* Who has the message being sent already has the descriptor of an entry before
\* the one the dispatch thread is at.
SentBefore ==
    dpc # "get" =>
        \A c \in Conn : \A i \in DOMAIN inbox[c] :
            inbox[c][i] = cur =>
                IsBroadcast(cur) /\ \E u \in Id : u < slot /\ fdOf[c] \in registered[u]

LEMMA SentBeforeKept ==
    ASSUME Types, FdsOwned, EntriesOwned, Order, SentBefore, Next
    PROVE  SentBefore'
<1>1. ASSUME NEW c \in Conn, NEW u \in Id, fdOf[c] \in registered[u]
      PROVE  fdOf'[c] \in registered'[u]
  <2>1. fdOf[c] # NoFd
    BY <1>1, ServerAssumption DEF Types, ListType, NoFd
  <2>2. fdOf'[c] = fdOf[c]
    BY <2>1, FdStays DEF Types
  <2>3. registered[u] \subseteq registered'[u]
    BY RegisteredGrows DEF Types
  <2> QED BY <1>1, <2>2, <2>3
<1>2. CASE DispatchGet
  <2>1. PICK new \in Message : new = Head(queue) /\ 1 \in DOMAIN queue /\ new = queue[1]
    BY <1>2, TakenPassed DEF Order
  <2>2. UNCHANGED inbox /\ (dpc' # "get" => cur' = new)
    BY <1>2, <2>1 DEF DispatchGet, wire, dispatch
  <2>3. ASSUME NEW c \in Conn, NEW i \in DOMAIN inbox[c]
        PROVE  inbox[c][i] # new
    <3>1. Later(inbox[c][i], new) /\ inbox[c][i] \in Message
      BY <2>1 DEF Order, Settled, Passed, Types, InboxType
    <3> QED BY <3>1, ConnIsNoMessage DEF Later, Message
  <2> QED BY <2>2, <2>3 DEF SentBefore
<1>3. CASE DispatchSend
  <2> SUFFICES ASSUME dpc' # "get", NEW c \in Conn, NEW i \in DOMAIN inbox'[c],
                      inbox'[c][i] = cur'
               PROVE  /\ IsBroadcast(cur')
                      /\ \E u \in Id : u < slot' /\ fdOf'[c] \in registered'[u]
    BY DEF SentBefore, IsBroadcast
  <2>1. dpc = "send" /\ cur' = cur /\ IsBroadcast(cur) /\ slot' = slot + 1 /\ slot \in Nat /\ slot \in Id
    BY <1>3, SentStep DEF Types, DispatchType, Id
  <2>2. CASE i \in DOMAIN inbox[c] /\ inbox'[c][i] = inbox[c][i]
    <3>1. PICK u \in Id : u < slot /\ fdOf[c] \in registered[u]
      BY <2>1, <2>2 DEF SentBefore
    <3>2. u < slot'
      BY <2>1, <3>1 DEF Id
    <3> QED BY <1>1, <2>1, <3>1, <3>2
  <2>3. CASE c \in Receivers
    <3>1. server[c] = "open" /\ fdOf[c] = connfd
      BY <2>3 DEF Receivers
    <3>2. fdOf[c] \in registered[slot]
      BY <2>1, <3>1 DEF EntriesOwned, FdsOwned
    <3>3. slot < slot'
      BY <2>1
    <3> QED BY <1>1, <2>1, <3>2, <3>3
  <2> QED BY <1>3, <2>2, <2>3, SentStep
<1>4. CASE UNCHANGED inbox /\ (dpc' # "get" => dpc # "get" /\ UNCHANGED <<cur, slot>>)
  BY <1>1, <1>4 DEF SentBefore, IsBroadcast
<1> QED BY <1>2, <1>3, <1>4, DispatchSteps

LEMMA DuplicateKept ==
    ASSUME Types, FdsOwned, EntriesOwned, SentBefore, DuplicateNeedsReuse, Next
    PROVE  DuplicateNeedsReuse'
<1>1. ASSUME NEW c \in Conn, NEW d \in Conn, fdOf[d] = fdOf[c], server[d] = "closed"
      PROVE  fdOf'[d] = fdOf'[c] /\ server'[d] = "closed"
  <2>1. fdOf[d] # NoFd
    BY <1>1 DEF FdsOwned
  <2> QED BY <1>1, <2>1, FdStays DEF Types
<1> SUFFICES ASSUME NEW c \in Conn, NEW i \in DOMAIN inbox'[c], NEW j \in DOMAIN inbox'[c],
                    i # j, inbox'[c][i] = inbox'[c][j]
             PROVE  /\ IsBroadcast(inbox'[c][i])
                    /\ \E d \in Conn \ {c} : fdOf'[d] = fdOf'[c] /\ server'[d] = "closed"
  BY DEF DuplicateNeedsReuse, IsBroadcast
<1>2. CASE i \in DOMAIN inbox[c] /\ inbox'[c][i] = inbox[c][i]
           /\ j \in DOMAIN inbox[c] /\ inbox'[c][j] = inbox[c][j]
  <2>1. /\ IsBroadcast(inbox[c][i])
        /\ \E d \in Conn \ {c} : fdOf[d] = fdOf[c] /\ server[d] = "closed"
    BY <1>2 DEF DuplicateNeedsReuse
  <2>2. PICK d \in Conn \ {c} : fdOf[d] = fdOf[c] /\ server[d] = "closed"
    BY <2>1
  <2>3. fdOf'[d] = fdOf'[c] /\ server'[d] = "closed"
    BY <1>1, <2>2
  <2> QED BY <1>2, <2>1, <2>2, <2>3 DEF IsBroadcast
<1>3. ASSUME DispatchSend, c \in Receivers, NEW k \in DOMAIN inbox[c], inbox[c][k] = cur
      PROVE  /\ IsBroadcast(cur)
             /\ \E d \in Conn \ {c} : fdOf'[d] = fdOf'[c] /\ server'[d] = "closed"
  <2>1. dpc = "send" /\ slot \in Id /\ server[c] = "open" /\ fdOf[c] = connfd
    BY <1>3 DEF DispatchSend, Types, DispatchType, Receivers
  <2>2. IsBroadcast(cur) /\ \E u \in Id : u < slot /\ fdOf[c] \in registered[u]
    BY <1>3, <2>1 DEF SentBefore
  <2>3. PICK u \in Id : u < slot /\ fdOf[c] \in registered[u]
    BY <2>2
  <2>4. fdOf[c] \in registered[slot]
    BY <2>1 DEF EntriesOwned, FdsOwned
  <2>5. u # slot
    BY <2>1, <2>3 DEF Id
  <2>6. PICK d1 \in Conn : UserId[d1] = u /\ fdOf[d1] = fdOf[c]
    BY <2>3 DEF EntriesOwned
  <2>7. PICK d2 \in Conn : UserId[d2] = slot /\ fdOf[d2] = fdOf[c]
    BY <2>1, <2>4 DEF EntriesOwned
  <2>8. PICK d \in Conn : d # c /\ fdOf[d] = fdOf[c]
    BY <2>5, <2>6, <2>7
  <2>9. server[d] = "closed"
    BY <2>1, <2>8 DEF FdsOwned, Types, EndsType
  <2> QED BY <1>1, <2>2, <2>8, <2>9
<1>4. CASE DispatchSend
  BY <1>2, <1>3, <1>4, SentStep
<1>5. CASE UNCHANGED inbox
  BY <1>2, <1>5
<1> QED BY <1>4, <1>5, DispatchSteps DEF DispatchGet, wire

-----------------------------------------------------------------------------
\* Who is in the list all the time a message is being sent has been sent it, if
\* it is a broadcast and the dispatch thread is past that entry; at the entry,
\* the thread has read the right descriptor.
Reaching ==
    dpc # "get" =>
        \A c \in roster :
            /\ c \in Listed
            /\ dpc = "send" /\ slot = UserId[c] => connfd = fdOf[c]
            /\ IsBroadcast(cur) /\ UserId[c] < slot => \E i \in DOMAIN inbox[c] : inbox[c][i] = cur

\* A client in the list is sent what is being sent when its entry's turn comes,
\* and keeps what it has.
LEMMA ListedReached ==
    ASSUME Types, Reaching, DispatchSend, NEW c \in roster, c \in Conn,
           slot = UserId[c] \/ \E i \in DOMAIN inbox[c] : inbox[c][i] = cur
    PROVE  \E i \in DOMAIN inbox'[c] : inbox'[c][i] = cur
<1>1. dpc = "send" /\ cur \in Message /\ ~Blocked
  BY DEF DispatchSend, Types, DispatchType
<1>2. inbox[c] \in Seq(Message)
  BY DEF Types, InboxType
<1>3. inbox'[c] = IF c \in Receivers /\ client[c] = "open" THEN Append(inbox[c], cur)
                                                           ELSE inbox[c]
  BY DEF DispatchSend
<1>4. CASE slot = UserId[c]
  <2>1. connfd = fdOf[c] /\ c \in Listed
    BY <1>1, <1>4 DEF Reaching
  <2>2. c \in Receivers
    BY <2>1 DEF Receivers, Listed
  <2>3. client[c] = "open"
    BY <1>1, <2>1, <2>2 DEF Listed, Alive, Blocked
  <2>4. inbox'[c] = Append(inbox[c], cur)
    BY <1>3, <2>2, <2>3
  <2>5. Len(inbox[c]) + 1 \in DOMAIN inbox'[c] /\ inbox'[c][Len(inbox[c]) + 1] = cur
    BY <1>1, <1>2, <2>4
  <2> QED BY <2>5
<1>5. ASSUME NEW i \in DOMAIN inbox[c], inbox[c][i] = cur
      PROVE  i \in DOMAIN inbox'[c] /\ inbox'[c][i] = cur
  <2>1. CASE inbox'[c] = Append(inbox[c], cur)
    BY <1>1, <1>2, <1>5, <2>1
  <2> QED BY <1>3, <1>5, <2>1
<1> QED BY <1>4, <1>5

LEMMA ReachingKept ==
    ASSUME Types, roster \subseteq Conn, FdsOwned, Reaching, Next
    PROVE  Reaching'
<1> SUFFICES ASSUME dpc' # "get", NEW c \in roster'
             PROVE  /\ c \in Listed'
                    /\ dpc' = "send" /\ slot' = UserId[c] => connfd' = fdOf'[c]
                    /\ IsBroadcast(cur') /\ UserId[c] < slot' =>
                           \E i \in DOMAIN inbox'[c] : inbox'[c][i] = cur'
  BY DEF Reaching, IsBroadcast
<1>1. Track /\ c \in Listed' /\ c \in Conn
  BY NextCases DEF Track, Listed
<1>2. UserId[c] \in Nat
  BY <1>1, ServerAssumption DEF Id
<1>3. ASSUME dpc # "get"
      PROVE  /\ c \in roster /\ c \in Listed /\ fdOf'[c] = fdOf[c]
             /\ dpc = "send" /\ slot = UserId[c] => connfd = fdOf[c]
             /\ IsBroadcast(cur) /\ UserId[c] < slot =>
                    \E i \in DOMAIN inbox[c] : inbox[c][i] = cur
  <2>1. c \in roster
    BY <1>1, <1>3 DEF Track
  <2>2. c \in Listed /\ fdOf[c] # NoFd
    BY <1>1, <1>3, <2>1 DEF Reaching, Listed, FdsOwned
  <2>3. fdOf'[c] = fdOf[c]
    BY <1>1, <2>2, FdStays DEF Types
  <2> QED BY <1>3, <2>1, <2>2, <2>3 DEF Reaching
<1>4. CASE DispatchGet
  <2>1. dpc' = "pick" /\ slot' = cur'.to
    BY <1>4 DEF DispatchGet, dispatch
  <2> QED BY <1>1, <1>2, <2>1 DEF IsBroadcast
<1>5. CASE DispatchSend
  <2>1. dpc = "send" /\ dpc' = "pick" /\ cur' = cur /\ IsBroadcast(cur) /\ slot' = slot + 1
    BY <1>5 DEF DispatchSend, NextEntry
  <2>2. slot \in Nat
    BY DEF Types, DispatchType, Id
  <2>3. UserId[c] < slot' => UserId[c] < slot \/ slot = UserId[c]
    BY <1>2, <2>1, <2>2
  <2> QED BY <1>1, <1>3, <1>5, <2>1, <2>3, ListedReached
<1>6. CASE DispatchPick
  <2>1. dpc = "pick" /\ connfd' = table[slot] /\ UNCHANGED <<inbox, cur, slot>>
    BY <1>6 DEF DispatchPick, wire
  <2> QED BY <1>1, <1>3, <2>1 DEF Listed
<1>7. CASE UNCHANGED <<inbox, dispatch>>
  BY <1>1, <1>3, <1>7 DEF dispatch
<1> QED BY <1>4, <1>5, <1>6, <1>7, OtherSteps

\* A step that finishes a message has sent it to whom it is for.
LEMMA FinishedReached ==
    ASSUME Types, roster \subseteq Conn, EntriesOwned, Reaching, Next, Finished,
           NEW c \in roster, Addressed(c)
    PROVE  Reached(c)
<1>1. dpc = "send" /\ dpc' = "get" /\ status' = "up" /\ c \in Conn
  BY DEF Finished
<1>2. DispatchSend
  <2>1. ~SendToClosed /\ ~Kill /\ \A d \in Conn : ~ListenEnds(d)
    BY <1>1 DEF SendToClosed, Kill, ListenEnds, Die
  <2>2. ASSUME NEW d \in Conn,
               \/ Connect(d) \/ Stall(d) \/ Resume(d) \/ Quit(d) \/ sendmsg_handler(d)
               \/ comm_sendmsg(d)
               \/ conn_handler(d) \/ putMessage(d) \/ CloseConn(d) \/ HandlerFails(d)
        PROVE  FALSE
    BY <1>1, <2>2 DEF Connect, Stall, Resume, Quit, sendmsg_handler, comm_sendmsg, conn_handler,
                      putMessage, CloseConn, HandlerFails, dispatch
  <2>3. ~DispatchGet /\ ~DispatchPick /\ ~Transport /\ ~Restart
    BY <1>1 DEF DispatchGet, DispatchPick, Transport, Restart, dispatch
  <2> QED BY <2>1, <2>2, <2>3, NextCases DEF Outside
<1>3. IF IsBroadcast(cur) THEN ~(slot + 1 < MaxUserNum) ELSE slot = cur.to
  BY <1>1, <1>2 DEF DispatchSend, NextEntry, EntriesOwned
<1>4. slot = UserId[c] \/ (IsBroadcast(cur) /\ UserId[c] < slot)
  <2>1. UserId[c] \in Nat /\ slot \in Nat /\ MaxUserNum \in Nat
    BY <1>1, ServerAssumption DEF Id, Types, DispatchType
  <2> QED BY <1>3, <2>1 DEF Addressed
<1>5. slot = UserId[c] \/ \E i \in DOMAIN inbox[c] : inbox[c][i] = cur
  BY <1>1, <1>4 DEF Reaching
<1> QED BY <1>1, <1>2, <1>5, ListedReached DEF Reached

-----------------------------------------------------------------------------
(***************************************************************************)
(* The inductive invariant.                                                *)
(***************************************************************************)
Inv == /\ Types /\ roster \subseteq Conn
       /\ FdsOwned
       /\ EntriesOwned
       /\ Order
       /\ SentBefore
       /\ Reaching
       /\ MisdeliveryNeedsReuse
       /\ InboxInOrder
       /\ DuplicateNeedsReuse

LEMMA InvInit == Init => Inv
<1> SUFFICES ASSUME Init PROVE Inv
  OBVIOUS
<1> USE ServerAssumption DEF Init, Id, Table!Init, Poll!Init, Table!NoFd, NoFd
<1>1. EndsType /\ FdsOwned /\ roster \subseteq Conn
  BY DEF EndsType, FdsOwned
<1>2. WireType /\ InboxType
  BY DEF WireType, InboxType
<1>3. ListType /\ DispatchType
  BY DEF ListType, DispatchType
<1>4. EntriesOwned
  BY DEF EntriesOwned
<1>5. StreamOrder /\ QueueOrder /\ Settled /\ SentBefore /\ Reaching
  BY DEF StreamOrder, QueueOrder, Settled, SentBefore, Reaching, Ascending
<1>6. MisdeliveryNeedsReuse /\ InboxInOrder /\ DuplicateNeedsReuse
  BY DEF MisdeliveryNeedsReuse, InboxInOrder, DuplicateNeedsReuse
<1>7. CallsType
  BY DEF CallsType
<1> QED BY <1>1, <1>2, <1>3, <1>4, <1>5, <1>6, <1>7 DEF Inv, Types, Order

LEMMA InvNext == Inv /\ [Next]_vars => Inv'
<1> SUFFICES ASSUME Inv, [Next]_vars PROVE Inv'
  OBVIOUS
<1> USE DEF Inv
<1>1. CASE Next
  <2>1. Types'
    BY <1>1, EndsKept, WireKept, ListKept, DispatchKept, InboxKept, CallsKept DEF Types
  <2>2. roster' \subseteq Conn
    BY <1>1, NextCases DEF Track, Listed
  <2>3. FdsOwned' /\ EntriesOwned'
    BY <1>1, EndsKept, EntriesKept DEF Types
  <2>4. Order'
    BY <1>1, StreamOrderKept, QueueOrderKept, SettledKept DEF Order
  <2>5. SentBefore' /\ MisdeliveryNeedsReuse' /\ InboxInOrder' /\ DuplicateNeedsReuse'
    BY <1>1, SentBeforeKept, MisdeliveryKept, InboxInOrderKept, DuplicateKept
  <2>6. Reaching'
    BY <1>1, ReachingKept
  <2> QED BY <2>1, <2>2, <2>3, <2>4, <2>5, <2>6
<1>2. CASE UNCHANGED vars
  <2> USE <1>2 DEF vars, ends, wire, list, poll, dispatch, process
  <2>1. Types' /\ roster' \subseteq Conn
    BY DEF Types, EndsType, WireType, InboxType, ListType, DispatchType, CallsType
  <2>2. FdsOwned' /\ EntriesOwned'
    BY DEF FdsOwned, EntriesOwned, IsBroadcast
  <2>3. Order'
    BY DEF Order, StreamOrder, QueueOrder, Settled, Ascending, Passed, Waiting
  <2>4. SentBefore' /\ MisdeliveryNeedsReuse' /\ InboxInOrder' /\ DuplicateNeedsReuse'
    BY DEF SentBefore, MisdeliveryNeedsReuse, InboxInOrder, DuplicateNeedsReuse, IsBroadcast
  <2>5. Reaching'
    BY DEF Reaching, Listed, Alive, IsBroadcast
  <2> QED BY <2>1, <2>2, <2>3, <2>4, <2>5
<1> QED BY <1>1, <1>2

\* The server keeps to the invariant.
THEOREM Invariance == Spec => []Inv
  BY InvInit, InvNext, PTL DEF Spec

\* The state of the server keeps to its types: the stack of the dispatch
\* thread, the streams, the list and the transport.
THEOREM TypeCorrect == Spec => []TypeOK
<1>1. Inv => TypeOK
  BY DEF Inv, Types, EndsType, WireType, InboxType, ListType, DispatchType, CallsType, TypeOK,
         Table!TypeOK, Poll!TypeOK, Table!NoFd, NoFd
<1> QED BY <1>1, Invariance, PTL

\* loop_dispatch sends a message for one user down another user's connection
\* only if the addressee had a connection with that descriptor, now closed.
THEOREM MisdeliveriesNeedReuse == Spec => []MisdeliveryNeedsReuse
<1>1. Inv => MisdeliveryNeedsReuse
  BY DEF Inv
<1> QED BY <1>1, Invariance, PTL

\* Every connection receives the messages of one sender in the order in which
\* comm_sendmsg sent them, though the sender's thread, the transport and the
\* dispatch thread hand each on.
THEOREM InboxesAreInOrder == Spec => []InboxInOrder
<1>1. Inv => InboxInOrder
  BY DEF Inv
<1> QED BY <1>1, Invariance, PTL

\* loop_dispatch sends a connection the same message twice only if it is a
\* broadcast and the descriptor was also that of an earlier, closed connection.
THEOREM DuplicatesNeedReuse == Spec => []DuplicateNeedsReuse
<1>1. Inv => DuplicateNeedsReuse
  BY DEF Inv
<1> QED BY <1>1, Invariance, PTL

\* When loop_dispatch is done with a message, every client it is for that was in
\* the list from the start to the end of that has been sent it.
THEOREM DispatchReaches == Spec => DispatchReachesList
<1>1. ASSUME Inv, [Next]_vars
      PROVE  [Finished => \A c \in roster : Addressed(c) => Reached(c)]_vars
  <2>1. CASE Next
    BY <1>1, <2>1, FinishedReached DEF Inv
  <2> QED BY <1>1, <2>1
<1> QED BY <1>1, Invariance, PTL DEF Spec, DispatchReachesList
=============================================================================
