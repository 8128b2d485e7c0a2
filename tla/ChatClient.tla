----------------------------- MODULE ChatClient -----------------------------
(***************************************************************************)
(* One client of the chat room and its thread of the server.  The client's *)
(* console types put, get and send; comm_get receives the file from the    *)
(* socket that the thread comm_waitmsg receives messages from.  At the     *)
(* other end the client's thread sends the file, in one send for the header*)
(* and one for each block, and loop_dispatch sends messages down the same  *)
(* descriptor at any time.                                                 *)
(*                                                                         *)
(* A file, a message typed here and a message from elsewhere are named by  *)
(* one set; a message from elsewhere stands for its sender too.  A message *)
(* is shorter than a block, as the console's buffer is.                    *)
(***************************************************************************)
EXTENDS BlockLoop

CONSTANTS File,           \* the files
          Text,           \* what the user may type into a message
          Peer,           \* what other users send to this client
          Size,           \* the size of each of them
          OnServer,       \* the files the server has at first
          MaxCommand      \* bound: commands typed into the console

Name == File \cup Text \cup Peer

ASSUME ClientAssumption == /\ Block \in Nat \ {0}
                           /\ File # {}
                           /\ Size \in [Name -> Nat]
                           /\ \A x \in Text \cup Peer : Size[x] < Block
                           /\ OnServer \subseteq File
                           /\ MaxCommand \in Nat
                           /\ File \cap (Text \cup Peer) = {}
                           /\ Text \cap Peer = {}

Host == {"client", "server"}
Byte == {Junk} \cup (Name \X Nat)
Header == {"PUT", "GET", "SENDMSG", "ERROR"} \X Name \X Nat

VARIABLES stored, disk,   \* the files each host has, and their contents
          c2s, s2c,       \* the two directions of the connection
          client,         \* the client process
          cpc,            \* its console: where it is in comm_get
          cname, cbuf, ci,\* resp_msg.fname, filebuf and i
          wpc, wmsg,      \* its comm_waitmsg, and recv_msg
          spc,            \* the client's thread of the server
          smsg, sbuf, si, \* msg, buff and i of parse_msg
          out,            \* what get_handler has still to send
          commands,       \* commands so far
          typed,          \* history: messages typed
          forwarded,      \* messages put into msg_strategy
          delivered,      \* history: messages loop_dispatch has sent
          shown,          \* messages displayed
          short,          \* history: hosts where a recv took less than asked
          crossed         \* history: has a thread of the client received what
                          \* was not sent for it?

files == <<stored, disk>>
console == <<cpc, cname, cbuf, ci>>
waiting == <<wpc, wmsg, shown>>
thread == <<spc, smsg, sbuf, si, out>>
input == <<commands, typed>>
vars == <<files, c2s, s2c, client, console, waiting, thread, input,
          forwarded, delivered, short, crossed>>

\* Before the first header.
NoHeader == <<"ERROR", CHOOSE f \in File : TRUE, 0>>

TypeOK == /\ stored \in [Host -> SUBSET Name]
          /\ disk \in [Host -> [Name -> Seq(Byte)]]
          /\ c2s \in Seq(Byte \cup Header)
          /\ s2c \in Seq(Byte \cup Header)
          /\ client \in {"up", "closed", "faulted", "lost"}
          /\ cpc \in {"console", "header", "get"}
          /\ cname \in Name
          /\ cbuf \in Seq(Byte)
          /\ ci \in 0 .. Blocks(cbuf)
          /\ wpc \in {"header", "data"}
          /\ wmsg \in Header
          /\ spc \in {"command", "data", "handle", "send", "closed", "lost"}
          /\ smsg \in Header
          /\ sbuf \in Seq(Byte)
          /\ si \in 0 .. Blocks(sbuf)
          /\ out \in Seq(Seq(Byte \cup Header))
          /\ commands \in 0 .. MaxCommand
          /\ typed \in Seq(Text)
          /\ forwarded \in Seq(Name \X Seq(Byte))
          /\ delivered \in Seq(Peer)
          /\ shown \in Seq(Name \X Seq(Byte))
          /\ short \subseteq Host
          /\ crossed \in BOOLEAN

Original(x) == [k \in 1 .. Size[x] |-> <<x, k>>]

Init == /\ stored = [h \in Host |-> IF h = "server" THEN OnServer ELSE File \ OnServer]
        /\ disk = [h \in Host |-> [x \in Name |-> IF x \in stored[h] THEN Original(x) ELSE <<>>]]
        /\ c2s = <<>> /\ s2c = <<>>
        /\ client = "up"
        /\ cpc = "console" /\ cname = FileName(NoHeader) /\ cbuf = <<>> /\ ci = 0
        /\ wpc = "header" /\ wmsg = NoHeader
        /\ spc = "command" /\ smsg = NoHeader /\ sbuf = <<>> /\ si = 0 /\ out = <<>>
        /\ commands = 0
        /\ typed = <<>> /\ forwarded = <<>> /\ delivered = <<>> /\ shown = <<>>
        /\ short = {}
        /\ crossed = FALSE

ClientGone == client # "up"
ServerGone == spc = "closed"
ServerReset == ServerGone /\ c2s # <<>>

SaveFile(h, x, data) == /\ stored' = [stored EXCEPT ![h] = @ \cup {x}]
                        /\ disk' = [disk EXCEPT ![h][x] = data]

\* h has received m units of the n it asked for.
Asked(h, n, m) == short' = IF m < n THEN short \cup {h} ELSE short

\* What is meant for comm_waitmsg; the rest answers comm_get.
IsMessage(unit) == IF IsHeader(unit) THEN Command(unit) = "SENDMSG"
                                     ELSE unit # Junk /\ unit[1] \in Peer

(***************************************************************************)
(* The console.                                                            *)
(***************************************************************************)
Typed == /\ client = "up" /\ cpc = "console"
         /\ commands < MaxCommand
         /\ commands' = commands + 1

comm_put(f) ==
    /\ Typed
    /\ ~ServerGone
    /\ f \in stored["client"]
    /\ c2s' = c2s \o <<<<"PUT", f, Len(disk["client"][f])>>>> \o Sent(disk["client"][f])
    /\ UNCHANGED <<files, s2c, client, console, waiting, thread, typed,
                   forwarded, delivered, short, crossed>>

\* The header goes out with a size nobody set, then reading the file faults.
comm_put_Missing(f) ==
    /\ Typed
    /\ ~ServerGone
    /\ f \notin stored["client"]
    /\ \E size \in 0 .. Block : c2s' = Append(c2s, <<"PUT", f, size>>)
    /\ client' = "faulted"
    /\ UNCHANGED <<files, s2c, console, waiting, thread, typed,
                   forwarded, delivered, short, crossed>>

comm_get(f) ==
    /\ Typed
    /\ ~ServerGone
    /\ c2s' = Append(c2s, <<"GET", f, 0>>)
    /\ cpc' = "header"
    /\ UNCHANGED <<files, s2c, client, cname, cbuf, ci, waiting, thread, typed,
                   forwarded, delivered, short, crossed>>

comm_sendmsg(t) ==
    /\ Typed
    /\ ~ServerGone
    /\ c2s' = c2s \o <<<<"SENDMSG", t, Size[t]>>>> \o Original(t)
    /\ typed' = Append(typed, t)
    /\ UNCHANGED <<files, s2c, client, console, waiting, thread,
                   forwarded, delivered, short, crossed>>

\* The user leaves, or a send to a closed connection ends the client.
Quit ==
    /\ client = "up" /\ cpc = "console"
    /\ client' = "closed"
    /\ UNCHANGED <<files, c2s, s2c, console, waiting, thread, input,
                   forwarded, delivered, short, crossed>>

Type == \/ Quit
        \/ \E f \in File : comm_put(f) \/ comm_put_Missing(f) \/ comm_get(f)
        \/ \E t \in Text : comm_sendmsg(t)

(***************************************************************************)
(* comm_get, after its request.                                            *)
(***************************************************************************)
\* The console takes the first message header that comes, whoever it is for.
GetHeader ==
    /\ client = "up" /\ cpc = "header"
    /\ s2c # <<>>
    /\ IsHeader(Head(s2c)) /\ Command(Head(s2c)) # "ERROR"
    /\ cpc' = "get"
    /\ cname' = FileName(Head(s2c))
    /\ cbuf' = Fresh(DataSize(Head(s2c)))
    /\ ci' = 0
    /\ s2c' = Tail(s2c)
    /\ crossed' = (crossed \/ IsMessage(Head(s2c)))
    /\ UNCHANGED <<files, c2s, client, waiting, thread, input,
                   forwarded, delivered, short>>

\* An error response names no file, and writing to the file that could not be
\* opened faults; a header that was never received is unset.
GetNoFile ==
    /\ client = "up" /\ cpc = "header"
    /\ \/ s2c # <<>> /\ IsHeader(Head(s2c)) /\ Command(Head(s2c)) = "ERROR"
       \/ s2c = <<>> /\ ServerGone
    /\ client' = "faulted"
    /\ UNCHANGED <<files, c2s, s2c, console, waiting, thread, input,
                   forwarded, delivered, short, crossed>>

GetBlock ==
    /\ client = "up" /\ cpc = "get"
    /\ ci < Blocks(cbuf)
    /\ \E m \in Lengths(s2c, Block, ServerGone) :
           /\ ~MeetsHeader(s2c, m)
           /\ cbuf' = Stored(cbuf, ci, SubSeq(s2c, 1, m))
           /\ s2c' = After(s2c, m)
           /\ Asked("client", Block, m)
           /\ crossed' = (crossed \/ \E k \in 1 .. m : IsMessage(s2c[k]))
    /\ ci' = ci + 1
    /\ UNCHANGED <<files, c2s, client, cpc, cname, waiting, thread, input,
                   forwarded, delivered>>

\* The rest goes over the start of the last block, or in front of the buffer,
\* which may fault.
GetRest ==
    /\ client = "up" /\ cpc = "get"
    /\ ci = Blocks(cbuf)
    /\ \E m \in Lengths(s2c, Rest(cbuf), ServerGone) :
           /\ ~MeetsHeader(s2c, m)
           /\ s2c' = After(s2c, m)
           /\ Asked("client", Rest(cbuf), m)
           /\ crossed' = (crossed \/ \E k \in 1 .. m : IsMessage(s2c[k]))
           /\ \/ /\ SaveFile("client", cname, Stored(cbuf, ci - 1, SubSeq(s2c, 1, m)))
                 /\ cpc' = "console" /\ cbuf' = <<>> /\ ci' = 0
                 /\ UNCHANGED client
              \/ /\ ci = 0 /\ m > 0
                 /\ client' = "faulted"
                 /\ UNCHANGED <<files, cpc, cbuf, ci>>
    /\ UNCHANGED <<c2s, cname, waiting, thread, input, forwarded, delivered>>

\* What the next recv of comm_get asks for, beside a header.
Wanted == IF cpc = "header" THEN 0
          ELSE IF ci < Blocks(cbuf) THEN Block ELSE Rest(cbuf)

\* A header is received from the middle of the data, or data from a header.
GetGarbled ==
    /\ client = "up" /\ cpc # "console"
    /\ \/ cpc = "header" /\ s2c # <<>> /\ ~IsHeader(Head(s2c))
       \/ cpc = "get" /\ MeetsHeader(s2c, Wanted)
    /\ client' = "lost"
    /\ crossed' = (crossed \/ IsMessage(Head(s2c)) \/
                   \E k \in 1 .. Wanted : k <= Len(s2c) /\ IsMessage(s2c[k]))
    /\ UNCHANGED <<files, c2s, s2c, console, waiting, thread, input,
                   forwarded, delivered, short>>

Get == GetHeader \/ GetNoFile \/ GetBlock \/ GetRest \/ GetGarbled

(***************************************************************************)
(* comm_waitmsg.                                                           *)
(***************************************************************************)
WaitHeader ==
    /\ client = "up" /\ wpc = "header"
    /\ s2c # <<>> /\ IsHeader(Head(s2c))
    /\ wpc' = "data"
    /\ wmsg' = Head(s2c)
    /\ s2c' = Tail(s2c)
    /\ crossed' = (crossed \/ ~IsMessage(Head(s2c)))
    /\ UNCHANGED <<files, c2s, client, console, shown, thread, input,
                   forwarded, delivered, short>>

\* The buffer is displayed before it is received.
WaitData_Early ==
    /\ client = "up" /\ wpc = "data"
    /\ shown' = Append(shown, <<FileName(wmsg), Fresh(DataSize(wmsg))>>)
    /\ wpc' = "header" /\ wmsg' = NoHeader
    /\ UNCHANGED <<files, c2s, s2c, client, console, thread, input,
                   forwarded, delivered, short, crossed>>

\* What the memory after the buffer holds up to the next NUL: something or not.
Tails == {<<>>, <<Junk>>}

\* Nothing ends the text but what follows it in memory, which is displayed too.
WaitData ==
    /\ client = "up" /\ wpc = "data"
    /\ \E m \in Lengths(s2c, DataSize(wmsg), ServerGone), tail \in Tails :
           /\ ~MeetsHeader(s2c, m)
           /\ shown' = Append(shown, <<FileName(wmsg),
                           Stored(Fresh(DataSize(wmsg)), 0, SubSeq(s2c, 1, m)) \o tail>>)
           /\ s2c' = After(s2c, m)
           /\ Asked("client", DataSize(wmsg), m)
           /\ crossed' = (crossed \/ \E k \in 1 .. m : ~IsMessage(s2c[k]))
    /\ wpc' = "header" /\ wmsg' = NoHeader
    /\ UNCHANGED <<files, c2s, client, console, thread, input, forwarded, delivered>>

WaitGarbled ==
    /\ client = "up"
    /\ \/ wpc = "header" /\ s2c # <<>> /\ ~IsHeader(Head(s2c))
       \/ wpc = "data" /\ MeetsHeader(s2c, DataSize(wmsg))
    /\ client' = "lost"
    /\ crossed' = (crossed \/ ~IsMessage(Head(s2c)) \/
                   \E k \in 1 .. DataSize(wmsg) : k <= Len(s2c) /\ ~IsMessage(s2c[k]))
    /\ UNCHANGED <<files, c2s, s2c, console, waiting, thread, input,
                   forwarded, delivered, short>>

\* A header comes in two portions: whichever thread receives the first goes on
\* as if it had both.
PartOfHeader ==
    /\ client = "up" /\ "header" \in {cpc, wpc}
    /\ s2c # <<>> /\ IsHeader(Head(s2c))
    /\ client' = "lost"
    /\ short' = short \cup {"client"}
    /\ UNCHANGED <<files, c2s, s2c, console, waiting, thread, input,
                   forwarded, delivered, crossed>>

\* Only an error is taken for the end, and a recv of nothing is not.
WaitEnd_Reset ==
    /\ client = "up"
    /\ ServerReset
    /\ client' = "closed"
    /\ UNCHANGED <<files, c2s, s2c, console, waiting, thread, input,
                   forwarded, delivered, short, crossed>>

\* The server is down: the whole process exits.
WaitEnd ==
    /\ client = "up"
    /\ \/ ServerReset
       \/ wpc = "header" /\ s2c = <<>> /\ ServerGone
    /\ client' = "closed"
    /\ UNCHANGED <<files, c2s, s2c, console, waiting, thread, input,
                   forwarded, delivered, short, crossed>>

comm_waitmsg == WaitHeader \/ WaitData \/ WaitGarbled \/ WaitEnd

(***************************************************************************)
(* clithread: parse_msg, then one of the handlers.                         *)
(***************************************************************************)
ParseHeader ==
    /\ spc = "command"
    /\ c2s # <<>> /\ IsHeader(Head(c2s))
    /\ spc' = IF DataSize(Head(c2s)) = 0 THEN "handle" ELSE "data"
    /\ smsg' = Head(c2s)
    /\ sbuf' = Fresh(DataSize(Head(c2s)))
    /\ si' = 0
    /\ c2s' = Tail(c2s)
    /\ UNCHANGED <<files, s2c, client, console, waiting, out, input,
                   forwarded, delivered, short, crossed>>

\* One block more than the data has.
ParseBlock_OneMore ==
    /\ spc = "data"
    /\ si <= Blocks(sbuf)
    /\ \E m \in Lengths(c2s, Block, ClientGone) :
           /\ ~MeetsHeader(c2s, m)
           /\ sbuf' = Stored(sbuf, si, SubSeq(c2s, 1, m))
           /\ c2s' = After(c2s, m)
           /\ Asked("server", Block, m)
    /\ si' = si + 1
    /\ UNCHANGED <<files, s2c, client, console, waiting, spc, smsg, out, input,
                   forwarded, delivered, crossed>>

ParseBlock ==
    /\ spc = "data"
    /\ si < Blocks(sbuf)
    /\ \E m \in Lengths(c2s, Block, ClientGone) :
           /\ ~MeetsHeader(c2s, m)
           /\ sbuf' = Stored(sbuf, si, SubSeq(c2s, 1, m))
           /\ c2s' = After(c2s, m)
           /\ Asked("server", Block, m)
    /\ si' = si + 1
    /\ UNCHANGED <<files, s2c, client, console, waiting, spc, smsg, out, input,
                   forwarded, delivered, crossed>>

\* The block the rest goes to: the last one, as on the sending side.
RestBlock_Before == si - 1

\* Data shorter than a block goes to the start of the buffer.
RestBlock == IF si = 0 THEN 0 ELSE si - 1

\* The rest is left where it is.
ParseRest_Left ==
    /\ spc = "data"
    /\ si = Blocks(sbuf)
    /\ spc' = "handle"
    /\ UNCHANGED <<files, c2s, s2c, client, console, waiting, smsg, sbuf, si, out,
                   input, forwarded, delivered, short, crossed>>

ParseRest ==
    /\ spc = "data"
    /\ si = Blocks(sbuf)
    /\ \E m \in Lengths(c2s, Rest(sbuf), ClientGone) :
           /\ ~MeetsHeader(c2s, m)
           /\ sbuf' = Stored(sbuf, RestBlock, SubSeq(c2s, 1, m))
           /\ c2s' = After(c2s, m)
           /\ Asked("server", Rest(sbuf), m)
    /\ spc' = "handle"
    /\ UNCHANGED <<files, s2c, client, console, waiting, smsg, si, out, input,
                   forwarded, delivered, crossed>>

ParseGarbled ==
    /\ \/ spc = "command" /\ c2s # <<>> /\ ~IsHeader(Head(c2s))
       \/ /\ spc = "data"
          /\ MeetsHeader(c2s, IF si < Blocks(sbuf) THEN Block ELSE Rest(sbuf))
    /\ spc' = "lost"
    /\ UNCHANGED <<files, c2s, s2c, client, console, waiting, smsg, sbuf, si, out,
                   input, forwarded, delivered, short, crossed>>

\* Half a header is received.
PartOfCommand ==
    /\ spc = "command"
    /\ c2s # <<>> /\ IsHeader(Head(c2s))
    /\ spc' = "lost"
    /\ short' = short \cup {"server"}
    /\ UNCHANGED <<files, c2s, s2c, client, console, waiting, smsg, sbuf, si, out,
                   input, forwarded, delivered, crossed>>

parse_msg == ParseHeader \/ ParseBlock \/ ParseRest \/ ParseGarbled

Handle(command) == spc = "handle" /\ Command(smsg) = command

Parsed == smsg' = NoHeader /\ sbuf' = <<>> /\ si' = 0

\* The message goes through putMessage, which may wait for good.
sendmsg_handler ==
    /\ Handle("SENDMSG")
    /\ forwarded' = Append(forwarded, <<FileName(smsg), sbuf>>)
    /\ spc' = "command"
    /\ Parsed
    /\ UNCHANGED <<files, c2s, s2c, client, console, waiting, out, input,
                   delivered, short, crossed>>

put_handler ==
    /\ Handle("PUT")
    /\ SaveFile("server", FileName(smsg), sbuf)
    /\ spc' = "command"
    /\ Parsed
    /\ UNCHANGED <<c2s, s2c, client, console, waiting, out, input, forwarded,
                   delivered, short, crossed>>

\* The file cannot be created.  The error response is not waited for by the
\* console, and the thread ends.
put_handler_Fails ==
    /\ Handle("PUT")
    /\ s2c' = Append(s2c, <<"ERROR", FileName(smsg), 1>>)
    /\ spc' = "closed"
    /\ Parsed
    /\ UNCHANGED <<files, c2s, client, console, waiting, out, input, forwarded,
                   delivered, short, crossed>>

\* The sends of a file after its header: the blocks, then the rest.
Chunks(data) ==
    [i \in 1 .. Blocks(data) + 1 |->
        SubSeq(Sent(data), (i - 1) * Block + 1,
               IF i <= Blocks(data) THEN i * Block ELSE Len(Sent(data)))]

\* After an error response the thread ends.
get_handler ==
    /\ Handle("GET")
    /\ LET f == FileName(smsg)
           data == disk["server"][f] IN
       IF f \in stored["server"]
          THEN /\ out' = <<<<<<"GET", f, Len(data)>>>>>> \o Chunks(data)
               /\ spc' = "send"
               /\ UNCHANGED s2c
          ELSE /\ s2c' = Append(s2c, <<"ERROR", f, 1>>)
               /\ spc' = "closed"
               /\ UNCHANGED out
    /\ Parsed
    /\ UNCHANGED <<files, c2s, client, console, waiting, input, forwarded,
                   delivered, short, crossed>>

\* One send of get_handler.  Between two of them loop_dispatch may send.
SendChunk ==
    /\ spc = "send"
    /\ ~ClientGone
    /\ s2c' = s2c \o Head(out)
    /\ out' = Tail(out)
    /\ spc' = IF out' = <<>> THEN "command" ELSE "send"
    /\ UNCHANGED <<files, c2s, client, console, waiting, smsg, sbuf, si, input,
                   forwarded, delivered, short, crossed>>

\* recv finds the end of the stream or a reset, or send fails.
CloseConn ==
    /\ ClientGone
    /\ \/ spc = "send"
       \/ spc = "command" /\ c2s = <<>>
       \/ spc \in {"command", "data"} /\ s2c # <<>>
    /\ spc' = "closed"
    /\ c2s' = <<>> /\ out' = <<>>
    /\ Parsed
    /\ UNCHANGED <<files, s2c, client, console, waiting, input, forwarded,
                   delivered, short, crossed>>

clithread == \/ parse_msg
             \/ sendmsg_handler \/ put_handler \/ put_handler_Fails \/ get_handler
             \/ SendChunk \/ CloseConn

\* The length of what is sent leaves the text out.
Deliver_HeaderOnly(p) ==
    /\ \A i \in DOMAIN delivered : delivered[i] # p
    /\ ~ServerGone /\ ~ClientGone
    /\ s2c' = Append(s2c, <<"SENDMSG", p, Size[p]>>)
    /\ delivered' = Append(delivered, p)
    /\ UNCHANGED <<files, c2s, client, console, waiting, thread, input, forwarded,
                   short, crossed>>

\* loop_dispatch sends a message of another user to this one.
Deliver(p) ==
    /\ \A i \in DOMAIN delivered : delivered[i] # p
    /\ ~ServerGone /\ ~ClientGone
    /\ s2c' = s2c \o <<<<"SENDMSG", p, Size[p]>>>> \o Original(p)
    /\ delivered' = Append(delivered, p)
    /\ UNCHANGED <<files, c2s, client, console, waiting, thread, input, forwarded,
                   short, crossed>>

-----------------------------------------------------------------------------
Next == \/ Type \/ Get \/ comm_waitmsg \/ clithread
        \/ PartOfHeader \/ PartOfCommand
        \/ \E p \in Peer : Deliver(p)

Spec == Init /\ [][Next]_vars

\* What the client's thread of the server does on its own account.
Alone == parse_msg \/ put_handler \/ put_handler_Fails \/ get_handler \/ SendChunk \/ CloseConn

\* The threads keep running, but a putMessage need not return; nothing makes a
\* user type or a message come.
Fairness == WF_vars(Get) /\ WF_vars(comm_waitmsg) /\ WF_vars(Alone)

FairSpec == Spec /\ Fairness

(***************************************************************************)
(* Properties.                                                             *)
(***************************************************************************)
\* Puts, gets and messages keep both ends in step: the server's thread reads
\* a header only where the client sent one unless one of its own recvs fell
\* short, and the client's two threads do unless a recv fell short or one
\* took what was sent for the other.
InFrame == /\ spc = "lost" => "server" \in short
           /\ client = "lost" => crossed \/ "client" \in short

Copy(h, f) == disk[h][f]

\* As long as no recv falls short and the client's threads do not cross, every
\* copy of a file has the original's size and bytes in its whole blocks,
\* though messages pass between the sends of a file and the two programs
\* receive a rest to different places.
TransfersArrive ==
    short = {} /\ ~crossed =>
        \A h \in Host, f \in File :
            /\ f \in stored[h] => Len(Copy(h, f)) = Size[f] \/ client = "faulted"
            /\ \A k \in 1 .. Blocks(Copy(h, f)) * Block : Copy(h, f)[k] = <<f, k>>

\* What the server's thread puts into the message strategy is what the user
\* typed, whole and in order, whatever was put and got in between.
ForwardedAsTyped ==
    "server" \notin short =>
        \A i \in DOMAIN forwarded :
            i \in DOMAIN typed /\ forwarded[i] = <<typed[i], Original(typed[i])>>

\* The sender is p and the text begins with p's.
Shows(display, p) ==
    display[1] = p /\ SubSeq(display[2], 1, Size[p]) = Original(p)

\* What is displayed begins with what loop_dispatch sent, whole and in order,
\* one message for each; what else is displayed with it comes after the text.
ShownAsDelivered ==
    "client" \notin short /\ ~crossed =>
        \A i \in DOMAIN shown :
            i \in DOMAIN delivered /\ Shows(shown[i], delivered[i])

\* The thread is in putMessage.
Putting == Handle("SENDMSG")

\* A recv of 0 bytes is made when nothing is left, of a file or of a message.
GetAsksForNothing == /\ cpc = "get" /\ ci = Blocks(cbuf) /\ Rest(cbuf) = 0
                     /\ s2c = <<>> /\ ~ServerGone
WaitAsksForNothing(p) == /\ wpc = "data" /\ FileName(wmsg) = p /\ DataSize(wmsg) = 0
                         /\ s2c = <<>> /\ ~ServerGone

\* As long as every putMessage of the client's thread returns, comm_get
\* returns unless the client's threads have crossed, the server's thread has
\* lost the frame, the client ends, or the file is one of whole blocks and
\* nothing comes after it.
GetEnds ==
    []<>~Putting =>
        (cpc # "console" ~>
            \/ cpc = "console"
            \/ crossed \/ ClientGone \/ spc = "lost"
            \/ GetAsksForNothing)

\* However the server's thread of this client came to end, the client notices
\* and ends too: it takes the error response of a put nobody waits for as a
\* message's header, and then finds the end of the stream.
ServerEndIsNoticed == ServerGone ~> ClientGone

\* A message sent to a client that stays is displayed, though a get is on the
\* way, unless the threads cross, or it is empty and nothing comes after it.
DeliveredIsShown ==
    \A p \in Peer :
        (\E i \in DOMAIN delivered : delivered[i] = p) ~>
            \/ \E i \in DOMAIN shown : shown[i][1] = p
            \/ crossed \/ ClientGone
            \/ WaitAsksForNothing(p)
=============================================================================
