---------------------------- MODULE FileTransfer ----------------------------
(***************************************************************************)
(* The FTP server and client (A3): one client's console issues put and get *)
(* over one connection, one thread of the server handles them, and another *)
(* thread stores the files of another client in between.                   *)
(*                                                                         *)
(* A file goes over the wire as a header and then in blocks of             *)
(* SOCKETIO_BUFFER_SIZE bytes and a rest; neither recv checks how many     *)
(* bytes it got.  What happens after a header is received from the middle  *)
(* of the data, or the heap is overwritten, is "undefined".                *)
(***************************************************************************)
EXTENDS BlockLoop

CONSTANTS File,           \* the files
          Size,           \* the size of each file
          OnServer,       \* the files the server has at first
          MaxCommand      \* bound: commands of the two clients

ASSUME TransferAssumption == /\ Block \in Nat \ {0}
                             /\ File # {}
                             /\ Size \in [File -> Nat]
                             /\ OnServer \subseteq File
                             /\ MaxCommand \in Nat

Host == {"client", "server"}
Byte == {Junk} \cup (File \X Nat)
Header == {"PUT", "GET", "ERROR"} \X File \X Nat

VARIABLES stored,         \* the files each host has
          disk,           \* their contents
          c2s, s2c,       \* the two directions of the connection
          cpc,            \* where the client is in comm_get
          cfile, cbuf, ci,\* its fname, filebuf and i
          spc,            \* where the server's thread is in its handler
          sfile, sbuf, si,\* its fname, buff and i
          rem_bytes,      \* its rem_bytes
          commands,       \* commands so far
          opened,         \* the files the other client's thread has open
          raced,          \* history: has the other thread changed a file between
                          \* get_handler's stat of it and its fread, or has a
                          \* put left the end of a longer one behind it?
          short           \* history: has a recv returned less than it asked for?
                          \* (The rest of a put asks for no certain number.)

files == <<stored, disk>>
client == <<cpc, cfile, cbuf, ci>>
server == <<spc, sfile, sbuf, si, rem_bytes>>
other == <<opened, raced>>
vars == <<files, c2s, s2c, client, server, commands, other, short>>

ClientPC == {"console", "header", "get", "closed", "undefined"}
ServerPC == {"command", "get", "put", "rest", "closed", "dead", "undefined"}

TypeOK == /\ stored \in [Host -> SUBSET File]
          /\ disk \in [Host -> [File -> Seq(Byte)]]
          /\ c2s \in Seq(Byte \cup Header)
          /\ s2c \in Seq(Byte \cup Header)
          /\ cpc \in ClientPC
          /\ cfile \in File
          /\ cbuf \in Seq(Byte)
          /\ ci \in Nat
          /\ spc \in ServerPC
          /\ sfile \in File
          /\ sbuf \in Seq(Byte)
          /\ si \in Nat
          /\ rem_bytes \in 1 - Block .. Block - 1
          /\ commands \in 0 .. MaxCommand
          /\ opened \subseteq File
          /\ raced \in BOOLEAN
          /\ short \in BOOLEAN

Original(f) == [k \in 1 .. Size[f] |-> <<f, k>>]

Init == /\ stored = [h \in Host |-> IF h = "server" THEN OnServer ELSE File \ OnServer]
        /\ disk = [h \in Host |-> [f \in File |-> IF f \in stored[h] THEN Original(f) ELSE <<>>]]
        /\ c2s = <<>> /\ s2c = <<>>
        /\ cpc = "console" /\ cbuf = <<>> /\ ci = 0
        /\ spc = "command" /\ sbuf = <<>> /\ si = 0
        /\ cfile = (CHOOSE f \in File : TRUE) /\ sfile = cfile
        /\ rem_bytes = 0
        /\ commands = 0
        /\ opened = {} /\ raced = FALSE
        /\ short = FALSE

ServerGone == spc \in {"closed", "dead"}
ClientGone == cpc \in {"closed", "undefined"}

(***************************************************************************)
(* The client.                                                             *)
(***************************************************************************)
Another == commands < MaxCommand /\ commands' = commands + 1

Typed == cpc = "console" /\ Another

\* comm_put of a file that is there.
comm_put(f) ==
    /\ Typed
    /\ f \in stored["client"]
    /\ c2s' = c2s \o <<<<"PUT", f, Len(disk["client"][f])>>>>
                  \o Sent(disk["client"][f])
    /\ UNCHANGED <<files, s2c, client, server, short, other>>

\* comm_put of a file that is not there: the header goes out with a size
\* nobody set, then reading the file faults.
comm_put_Missing(f) ==
    /\ Typed
    /\ f \notin stored["client"]
    /\ \E size \in 0 .. Block :
           c2s' = Append(c2s, <<"PUT", f, size>>)
    /\ cpc' = "undefined"
    /\ UNCHANGED <<files, s2c, cfile, cbuf, ci, server, short, other>>

comm_get(f) ==
    /\ Typed
    /\ c2s' = Append(c2s, <<"GET", f, 0>>)
    /\ cpc' = "header"
    /\ UNCHANGED <<files, s2c, cfile, cbuf, ci, server, short, other>>

\* A send to a closed connection is answered by a reset; after that it ends the
\* client.
comm_Broken ==
    /\ Typed
    /\ ServerGone
    /\ cpc' = "closed"
    /\ UNCHANGED <<files, c2s, s2c, cfile, cbuf, ci, server, short, other>>

Quit ==
    /\ cpc = "console"
    /\ cpc' = "closed"
    /\ UNCHANGED <<files, c2s, s2c, cfile, cbuf, ci, server, commands, short, other>>

\* An end that closes with data unread resets the connection: what is on the
\* way is lost, and recv fails.
GetReset ==
    /\ cpc \in {"header", "get"}
    /\ ServerGone
    /\ c2s # <<>>
    /\ cpc' = "closed"
    /\ s2c' = <<>>
    /\ UNCHANGED <<files, c2s, cfile, cbuf, ci, server, commands, short, other>>

\* The response's command is not looked at: an error response names no file,
\* and writing to the file that could not be opened faults.
GetHeader ==
    /\ cpc = "header"
    /\ s2c # <<>> \/ ServerGone
    /\ IF s2c # <<>> /\ IsHeader(Head(s2c)) /\ Command(Head(s2c)) = "GET"
          THEN /\ cpc' = "get"
               /\ cfile' = FileName(Head(s2c))
               /\ cbuf' = Fresh(DataSize(Head(s2c)))
               /\ ci' = 0
               /\ s2c' = Tail(s2c)
          ELSE /\ cpc' = "undefined"
               /\ UNCHANGED <<s2c, cfile, cbuf, ci>>
    /\ UNCHANGED <<files, c2s, server, commands, short, other>>

\* The header comes in two portions, and the fields of the second are unset.
PartOfHeader ==
    /\ cpc = "header"
    /\ s2c # <<>>
    /\ cpc' = "undefined"
    /\ short' = TRUE
    /\ UNCHANGED <<files, c2s, s2c, cfile, cbuf, ci, server, commands, other>>

GetBlock ==
    /\ cpc = "get"
    /\ ci < Blocks(cbuf)
    /\ \E m \in Lengths(s2c, Block, ServerGone) :
           /\ cbuf' = Stored(cbuf, ci, SubSeq(s2c, 1, m))
           /\ s2c' = After(s2c, m)
           /\ short' = (short \/ m < Block)
    /\ ci' = ci + 1
    /\ UNCHANGED <<files, c2s, cpc, cfile, server, commands, other>>

\* buf after as much of data as it holds is read into it.
Over(data, buf) == [k \in DOMAIN buf |-> IF k \in DOMAIN data THEN data[k] ELSE buf[k]]

SaveFile(h, f, data) == /\ stored' = [stored EXCEPT ![h] = @ \cup {f}]
                        /\ disk' = [disk EXCEPT ![h][f] = data]

\* fwrite to the start of a file that another thread may have written to.
WriteFile(f, data) ==
    LET old == disk["server"][f] IN
    /\ SaveFile("server", f, data \o SubSeq(old, Len(data) + 1, Len(old)))
    /\ raced' = (raced \/ (spc = "get" /\ sfile = f) \/ Len(old) > Len(data))

\* The rest is left where it is.
GetRest_Left ==
    /\ cpc = "get"
    /\ ci = Blocks(cbuf)
    /\ SaveFile("client", cfile, cbuf)
    /\ cpc' = "console" /\ cbuf' = <<>> /\ ci' = 0
    /\ UNCHANGED <<c2s, s2c, cfile, server, commands, short, other>>

\* The rest is received over the start of the last block, or in front of the
\* buffer if there is none.
GetRest ==
    /\ cpc = "get"
    /\ ci = Blocks(cbuf)
    /\ \E m \in Lengths(s2c, Rest(cbuf), ServerGone) :
           /\ s2c' = After(s2c, m)
           /\ short' = (short \/ m < Rest(cbuf))
           /\ \/ /\ SaveFile("client", cfile, Stored(cbuf, ci - 1, SubSeq(s2c, 1, m)))
                 /\ cpc' = "console" /\ cbuf' = <<>> /\ ci' = 0
              \/ /\ ci = 0 /\ m > 0
                 /\ cpc' = "undefined"
                 /\ UNCHANGED <<files, cbuf, ci>>
    /\ UNCHANGED <<c2s, cfile, server, commands, other>>

(***************************************************************************)
(* The server's thread.                                                    *)
(***************************************************************************)
Request(command) == /\ spc = "command"
                    /\ c2s # <<>>
                    /\ IsHeader(Head(c2s))
                    /\ Command(Head(c2s)) = command

\* stat, and the send of the size, or of an error response.
get_handler ==
    /\ Request("GET")
    /\ c2s' = Tail(c2s)
    /\ LET f == FileName(Head(c2s)) IN
       IF f \in stored["server"]
          THEN /\ s2c' = Append(s2c, <<"GET", f, Len(disk["server"][f])>>)
               /\ spc' = "get"
               /\ sfile' = f
               /\ sbuf' = Fresh(Len(disk["server"][f]))
          ELSE /\ s2c' = Append(s2c, <<"ERROR", f, 0>>)
               /\ spc' = "closed"
               /\ UNCHANGED <<sfile, sbuf>>
    /\ UNCHANGED <<files, client, si, rem_bytes, commands, other, short>>

\* What is sent is what fread found.
GetData_AsRead ==
    /\ spc = "get"
    /\ s2c' = s2c \o Sent(disk["server"][sfile])
    /\ spc' = "command" /\ sbuf' = <<>>
    /\ UNCHANGED <<files, c2s, client, sfile, si, rem_bytes, commands, other, short>>

\* fread of the size that stat found, and the sends.  Where the file has become
\* shorter the buffer is left unset.
GetData ==
    /\ spc = "get"
    /\ s2c' = s2c \o Sent(Over(disk["server"][sfile], sbuf))
    /\ spc' = "command" /\ sbuf' = <<>>
    /\ UNCHANGED <<files, c2s, client, sfile, si, rem_bytes, commands, other, short>>

\* The file is opened, and emptied, before its contents arrive.
put_handler ==
    /\ Request("PUT")
    /\ c2s' = Tail(c2s)
    /\ SaveFile("server", FileName(Head(c2s)), <<>>)
    /\ spc' = "put"
    /\ sfile' = FileName(Head(c2s))
    /\ sbuf' = Fresh(DataSize(Head(c2s)))
    /\ si' = 0
    /\ UNCHANGED <<s2c, client, rem_bytes, commands, other, short>>

\* The file cannot be created: the client does not wait for the response.
put_handler_Fails ==
    /\ Request("PUT")
    /\ s2c' = Append(s2c, <<"ERROR", FileName(Head(c2s)), 0>>)
    /\ spc' = "closed"
    /\ c2s' = Tail(c2s)
    /\ UNCHANGED <<files, client, sfile, sbuf, si, rem_bytes, commands, other, short>>

PutBlock ==
    /\ spc = "put"
    /\ si < Blocks(sbuf)
    /\ \E m \in Lengths(c2s, Block, ClientGone) :
           /\ sbuf' = Stored(sbuf, si, SubSeq(c2s, 1, m))
           /\ c2s' = After(c2s, m)
           /\ short' = (short \/ m < Block)
    /\ si' = si + 1
    /\ UNCHANGED <<files, s2c, client, spc, sfile, rem_bytes, commands, other>>

\* The remainder is off by one.
PutRemBytes_Whole ==
    /\ spc = "put"
    /\ si = Blocks(sbuf)
    /\ rem_bytes' \in 1 - Block .. Block
    /\ spc' = "rest"
    /\ UNCHANGED <<files, c2s, s2c, client, sfile, sbuf, si, commands, short, other>>

\* rem_bytes is computed from a response nobody has filled.
PutRemBytes ==
    /\ spc = "put"
    /\ si = Blocks(sbuf)
    /\ rem_bytes' \in 1 - Block .. Block - 1
    /\ spc' = "rest"
    /\ UNCHANGED <<files, c2s, s2c, client, sfile, sbuf, si, commands, short, other>>

\* A negative rem_bytes receives without limit, or makes recv fail.
PutRest ==
    /\ spc = "rest"
    /\ \/ /\ rem_bytes >= 0
          /\ \E m \in Lengths(c2s, rem_bytes, ClientGone) :
                 /\ ~MeetsHeader(c2s, m)
                 /\ c2s' = After(c2s, m)
                 /\ \/ /\ WriteFile(sfile, Stored(sbuf, si - 1, SubSeq(c2s, 1, m)))
                       /\ spc' = "command" /\ sbuf' = <<>> /\ si' = 0 /\ rem_bytes' = 0
                    \/ /\ si = 0 /\ m > 0
                       /\ spc' = "undefined"
                       /\ UNCHANGED <<files, raced, sbuf, si, rem_bytes>>
       \/ /\ \/ rem_bytes < 0 /\ c2s # <<>>
             \/ MeetsHeader(c2s, rem_bytes)
          /\ spc' = "undefined"
          /\ UNCHANGED <<files, raced, c2s, sbuf, si, rem_bytes>>
       \/ /\ rem_bytes < 0 /\ c2s = <<>> /\ ClientGone
          /\ WriteFile(sfile, sbuf)
          /\ spc' = "command" /\ sbuf' = <<>> /\ si' = 0 /\ rem_bytes' = 0
          /\ UNCHANGED c2s
       \/ /\ rem_bytes < 0
          /\ spc' = "closed"
          /\ UNCHANGED <<files, raced, c2s, sbuf, si, rem_bytes>>
    /\ UNCHANGED <<s2c, client, sfile, commands, opened, short>>

\* Half a command is received.
PartOfCommand ==
    /\ spc = "command"
    /\ c2s # <<>>
    /\ spc' = "undefined"
    /\ short' = TRUE
    /\ UNCHANGED <<files, c2s, s2c, client, sfile, sbuf, si, rem_bytes, commands, other>>

\* A command is received from the middle of the data.
Garbled ==
    /\ spc = "command"
    /\ c2s # <<>>
    /\ ~IsHeader(Head(c2s))
    /\ spc' = "undefined"
    /\ UNCHANGED <<files, c2s, s2c, client, sfile, sbuf, si, rem_bytes, commands, short, other>>

Reset ==
    /\ spc \in {"command", "put", "rest"}
    /\ ClientGone
    /\ s2c # <<>>
    /\ spc' = "closed"
    /\ c2s' = <<>>
    /\ UNCHANGED <<files, s2c, client, sfile, sbuf, si, rem_bytes, commands, short, other>>

Close ==
    /\ spc = "command"
    /\ c2s = <<>>
    /\ ClientGone
    /\ spc' = "closed"
    /\ UNCHANGED <<files, c2s, s2c, client, sfile, sbuf, si, rem_bytes, commands, short, other>>

(***************************************************************************)
(* Another thread's put_handler: it empties a file, and writes it later.   *)
(***************************************************************************)
OtherOpen(f) ==
    /\ Another
    /\ spc # "dead"
    /\ f \notin opened
    /\ opened' = opened \cup {f}
    /\ SaveFile("server", f, <<>>)
    /\ raced' = (raced \/ (spc = "get" /\ sfile = f))
    /\ UNCHANGED <<c2s, s2c, client, server, short>>

\* The other client's file as put_handler's loops leave it: its rest lands on
\* the last block, whose bytes it repeats, and the buffer's end stays unset.
OtherCopy(f) == [k \in 1 .. Size[f] |->
                    IF k <= Blocks(Original(f)) * Block THEN <<f, k>> ELSE Junk]

OtherWrite(f) ==
    /\ f \in opened
    /\ opened' = opened \ {f}
    /\ WriteFile(f, OtherCopy(f))
    /\ UNCHANGED <<c2s, s2c, client, server, commands, short>>

\* A thread sends to a client that is gone, or accept finds no descriptor for
\* another: the process ends, and what its threads were to write is lost.
ServerEnds ==
    /\ spc \notin {"dead", "undefined"}
    /\ spc' = "dead"
    /\ opened' = {}
    /\ UNCHANGED <<files, c2s, s2c, client, sfile, sbuf, si, rem_bytes, commands, raced, short>>

-----------------------------------------------------------------------------
console == \/ comm_Broken \/ Quit
           \/ \E f \in File : comm_put(f) \/ comm_put_Missing(f) \/ comm_get(f)

Receive == GetReset \/ GetHeader \/ PartOfHeader \/ GetBlock \/ GetRest

clithread == \/ get_handler \/ GetData
             \/ put_handler \/ put_handler_Fails \/ PutBlock \/ PutRemBytes \/ PutRest
             \/ PartOfCommand \/ Garbled \/ Reset \/ Close

Next == console \/ Receive \/ clithread \/ ServerEnds \/ \E f \in File : OtherOpen(f) \/ OtherWrite(f)

Spec == Init /\ [][Next]_vars

\* Inside a command both programs keep running; nothing makes a user type.
Fairness == WF_vars(Receive) /\ WF_vars(clithread)

FairSpec == Spec /\ Fairness

(***************************************************************************)
(* Properties.                                                             *)
(***************************************************************************)
Copy(h, f) == disk[h][f]

\* However many puts and gets a file has gone through, every block of every
\* copy of it holds the bytes of the original, as long as no recv has
\* returned less than it asked for, no put of another client has fallen
\* between the two looks get_handler takes at the file, and none has been
\* written over a longer one: neither the rest that is sent from and received
\* to the wrong place, nor the unset rem_bytes of put_handler, nor two puts of
\* one file at a time harm the blocks.
BlocksArrive ==
    ~short /\ ~raced =>
        \A h \in Host, f \in File :
            \A k \in 1 .. Blocks(Copy(h, f)) * Block : Copy(h, f)[k] = <<f, k>>

\* As long as no recv has returned less than it asked for, a get leaves
\* nothing of the file in the connection, so that the next response is read
\* from its header, though the file may change size while it is sent.
GetsStayInFrame == ~short /\ cpc = "console" /\ ~ServerGone => s2c = <<>>

\* After a file of whole blocks comm_get asks for 0 bytes more, and waits for
\* anything to come.
AsksForNothing == /\ cpc = "get" /\ ci = Blocks(cbuf) /\ Rest(cbuf) = 0
                  /\ s2c = <<>> /\ ~ServerGone

\* comm_get never waits for bytes that were not sent, in whatever portions
\* they arrive: it comes to an end unless the server's thread has gone wrong,
\* or the file is one of whole blocks.
GetEnds == cpc \in {"header", "get"} ~>
               \/ cpc \notin {"header", "get"}
               \/ spc = "undefined"
               \/ AsksForNothing

\* A file that was received successfully is a copy of the original.
ReceivedIsCopy ==
    \A f \in stored["client"] : ~short => disk["client"][f] = Original(f)
=============================================================================
