# Specifications of AIP_PKUSSM

TLA+ models of the network programs of this repository, the TLC instances that
check them and the TLAPS proofs about them. The programs are course work: a
chat room (A5/Chatroom), a file server and client (A3), a traceroute
(A5/Traceroute), directory listings (A2), two text and signal exercises (A1) and
an MP3 player on a vendored libav (A4). The chat room is the largest and the only
one whose server has several threads working on shared state; it comes first, and
most of what is proved is about it.

## 1. The system

| Part | State | Operations | Talks to |
|---|---|---|---|
| `MessagePipe` (transport) | a FIFO file, one `atomic<bool>` lock | `putMessage`, `getMessage` | client threads put, the dispatch thread gets |
| `MessageSharedMemory` (client list) | a SysV segment of `User` entries, a lock, the control buffers on the stacks | `getMessage`, `putMessage` | `conn_handler` writes entries, `loop_dispatch` reads them |
| chat server | connections and their descriptors, one thread each, the dispatch thread, its current message | `listen`, `clithread`, `parse_msg`, `conn_handler`, `sendmsg_handler`, `loop_dispatch` | both of the above, the clients |
| chat client | the socket, shared by the console and the `comm_waitmsg` thread | `comm_conn`, `comm_sendmsg`, `comm_get`, `comm_put` | server |
| `MessageQueue` | none: empty files | none | nobody (not compiled in) |
| FTP server and client | files on both hosts, buffers and loop indices | `comm_put`, `comm_get`, `get_handler`, `put_handler` | each other over one stream |
| traceroute | `packets[]`, `ttl`, `timers[3]`, `i` | send three probes, receive, time out | routers, the target, other programs' ICMP |
| `ls_tree` | the working directory, the stack of `print_file` | print a line, `stat`, `chdir`, `scandir`, `chdir("..")` | the file system, other programs that change it |
| `ls_l` | the names still to print | `stat` and print | the file system |
| word separator | the text, the word so far, the words | read, cut, count | a file |
| `signal_comm`, `mp3player` | local | sequential | signals, libav |

What is hard, part by part:

* **Transport.** Every call opens and closes the FIFO. `open` waits for the other
  end, the lock is taken after it, the read blocks while the lock is held, and the
  kernel frees what is in the FIFO with its last descriptor. Correct would be: one
  thread at a time between header and body, no message invented, doubled, altered
  or reordered, none lost, and nobody blocked for good.
* **Client list.** `getMessage` returns a pointer, `conn_handler` writes through
  it without the lock, and `putMessage` copies the segment onto itself under it.
  The segment outlives the process. Correct would be: an entry holds a descriptor
  its own id registered, and the latest of them.
* **Chat server.** Descriptors are looked up, then used; they are closed and given
  out again while the list still names them; one thread sends to everybody and waits
  for whoever does not read; the process dies of SIGPIPE or when `accept` has no
  descriptor left. Correct would be: a message reaches its addressee and nobody
  else, in order, once, and nobody holds up the others.
* **Chat client.** The console's `comm_get` and the thread `comm_waitmsg` receive
  from one socket, and at the other end the client's thread and `loop_dispatch` send
  down one descriptor. An error response to a `put` waits in the socket for whoever
  receives next. Correct would be: files and messages arrive whole, each at the
  thread that is meant to have it.
* **FTP.** The loops count calls of `recv`, not bytes, the rest of a file is sent
  from and received to one block too early, and `put_handler` computes the size of
  the rest from an unset response. A file is emptied before its contents arrive, and
  another client's `get` looks at it twice, for its size and for its bytes. Correct
  would be: the copy is the file, and the next message is read from its header.
* **Traceroute.** Answers are late, lost, doubled and out of order; foreign packets
  arrive on the same raw socket. Correct would be: one line per hop, in order, with
  times of that hop's own requests, and an end.
* **Exercises.** `ls_tree` finds its way by the working directory: a symbolic link, a
  `chdir` that fails unnoticed or a directory another program moves make `..` lead
  elsewhere. Correct would be: the listing is of the directory it claims, and each
  line stands under its directory's. `ls_l` builds its columns with masks of mixed-up
  bits; the word separator joins lines and drops the last word. Correct would be:
  what is printed is what is there.

## 2. The modules

| Module | Models | State and actions in terms of the code |
|---|---|---|
| `MessagePoll` | `MessagePoll.h`, the interface | `queue`, `got`; `Spec` is a queue, `LossySpec` a queue that may lose all it holds |
| `MessagePipe` | `MessagePipe.cc` | one action per system call or lock operation: `WOpen WLock WWrite WClose WUnlock` for a client thread in `putMessage`, `ROpen RLock RRead RClose RUnlock` for the dispatch thread in `getMessage`, and the failing `open` of either, which clears the lock |
| `ClientTable` | what the list promises its users | `Register`, and `Revert` to something registered earlier or to nothing |
| `ClientList` | `MessageSharedMemory.cc` and `conn_handler` | `GetMessage` and `Register`, the copy entry by entry (`CopyLoad`, `CopyStore`), `Unlock`, the dispatch thread's reads, `AttachFails`, `Restart` |
| `ChatServer` | `Server.cc`, the chat part of `Handlers.cc`, the clients as environment | composes `ClientTable` and `MessagePoll` by `INSTANCE`; the clients `Connect`, `comm_sendmsg`, `Stall` (stop reading), `Resume`, `Quit`; `conn_handler`, `sendmsg_handler` (which enters `putMessage`), `putMessage` (which leaves it), `CloseConn`, `HandlerFails` for a thread; `DispatchGet`, `DispatchPick`, `DispatchSend` for `loop_dispatch`; `SendToClosed` (SIGPIPE), `ListenEnds` (no descriptor or no thread for a client), `Kill`, `Restart` |
| `BlockLoop` | the loops A3 and the chat room have copies of | operators on data and streams: `Sent` and `Stored` are the offsets of the loops, `Lengths` what a `recv` may return |
| `ChatClient` | `Client.cc`, `parse_msg`, the get and put handlers of `Handlers.cc` | the console (`comm_put`, `comm_get`, `comm_sendmsg`, `Quit`, then `GetHeader GetBlock GetRest`), the waiting thread (`WaitHeader WaitData WaitEnd`), the server's thread (`ParseHeader ParseBlock ParseRest`, a handler, `put_handler_Fails`, `SendChunk` for each `send` of a file), `Deliver` for `loop_dispatch`; extends `BlockLoop` |
| `FileTransfer` | A3's client and server | `comm_put`, `comm_get` and their loops `GetHeader GetBlock GetRest`; `get_handler` (the size) and `GetData` (the bytes); `put_handler`, its failure `put_handler_Fails` and its loop `PutBlock PutRemBytes PutRest`; `OtherOpen` and `OtherWrite`, the same handler in another client's thread; `ServerEnds` for the whole process; extends `BlockLoop` |
| `Checksum` | `icmp.cc` | `in_cksum` as a function of a request's words, and the receiver's check |
| `Traceroute` | `main.cc`, `Packet.cc` | `Probe`, `TimeExceeded`, `EchoReply`, `NotOurs`, `Stray`, `Timeout`, `End`; uses `Checksum` to decide whether the target answers |
| `LsTree` | `ls_tree.c` | `PrintLine`, `get_mode`, `ChDir`, `ScanDir`, `Return` are the parts of `print_file` between two looks at the file system; `Remove` and `Move` are other programs' |
| `LsL` | `ls_l.c` | `info_file`, `End`; `perm_str` is the columns of a line; `Remove` is another program's |
| `WordSeparator` | `EngWordsSeparator.cc` | `getContentStr` for each `getline` of its loop, `NextChar` and `EndOfContent` for the loop of `getWords`, `parseAndCount` |
| `Exercises` | the three programs above, which share nothing | `program` says which of `LsTree`, `LsL` or `WordSeparator` runs; the variables of the others are off, except that there is some tree |
| `MessagePipeProofs`, `ClientListProofs`, `ChatServerProofs`, `ChatClientProofs`, `FileTransferProofs`, `TracerouteProofs`, `ExerciseProofs` | | theorems and their proofs |
| `BlockLoopProofs` | | lemmas about the operators of `BlockLoop`, on which `ChatClientProofs` and `FileTransferProofs` rest |
| `MCMessagePipe`, `MCClientList`, `MCChatServer`, `MCChatClient`, `MCFileTransfer`, `MCTraceroute`, `MCExercises` | | constants for TLC |

`MessagePipe` is checked and proved to implement `MessagePoll!LossySpec`, and
`ClientList` to implement `ClientTable!Spec`; `ChatServer` is built on exactly
these two, so what is shown of it holds over the real transport and list as far
as safety goes.

An operator whose name ends in `_Something` beside one of the code's names
(`WLock_Blind`, `Sent_Right`, ...) is a fault that could have been made at that
place. No action uses it; substituting it for the definition it varies must break
a property, which shows that the property looks at that code.

### Abstractions worth knowing

* **Messages.** In the pipe a message is `<<thread, n>>`; in the server a record
  of the connection it came from, the id it goes to and a number. Header and data
  are written in one atomic `write` (both together stay below `PIPE_BUF`). The two
  reads of `getMessage` are one step, because they happen under the lock and a
  message is in the pipe whole or not at all. That argument holds while one
  thread is in the section; after a failing `open` two writers may be inside,
  which the model shows and which stays harmless because there is one reader.
* **An unset header** (`read` at end of file), as every other undefined
  behaviour that may do anything, ends the behaviour in a state named for it.
  `NeverEndOfFile` says that the pipe never gets there without a failing `open`.
* **An entry of the list** is its `connfd`. `read_fd` in `getMessage` decodes a
  control buffer nobody filled; it may find a descriptor an earlier `write_fd`
  left on a stack, and overwrite entry 0 with it. The model lets it find any of
  these or nothing.
* **Ids** beyond the segment's page are written to foreign memory and are not
  modelled; ids between `MAX_USER_NUM` and the end of the page are: neither the
  copy nor a broadcast reaches them.
* **Two limits of the server are modelled as they are** and appear in the properties
  as exceptions: a broadcast never reaches a user with an id of `MAX_USER_NUM` (32) or
  more, although the README of A5 offers ids up to 255 (`NextEntry`, `Addressed`), and
  a user with id 0 cannot broadcast, because a message from 0 to 0 stands for a
  failed `getMessage` (`DispatchGet`).
* **A client that stalls** in `ChatServer` has stopped reading for so long that every
  buffer on the way to it is full: the dispatch thread's `send` to it waits
  (`Blocked`) until it reads again, quits or dies. How much the buffers hold is left
  out; a client that stops for a moment is one that has not stalled.
* **Waiting in `putMessage`** is part of `ChatServer`: a thread enters it
  (`sendmsg_handler`) and leaves it (`putMessage`) in two steps, and a state `jammed`,
  in which nobody leaves it and nothing is taken, stands for what `pipe_jam` shows. It
  may come while some thread is in a put and the dispatch thread in `getMessage`, and
  go, since a later call whose `open` fails clears the lock.
* **How many connections there can be** at a time is the system's limit, of descriptors
  or of threads, so `ListenEnds` may come with any client. The threads are detached and
  nothing is left of those that have ended. `HandlerFails` is a get or put the server
  cannot serve: it closes the connection while the client is there.
* **A `recv` of 0 bytes** waits as any other for something to be there: an open
  connection with nothing in it blocks it (`Lengths`). The loops make one after every
  file of whole blocks, and `comm_waitmsg` for every empty message.
* **File contents** are bytes named by file and place; `Junk` is a byte of unset
  memory or of memory beside a buffer. All 512 places of a block are alike, so 3
  stand for them. `recv` returns any number of bytes up to what was asked for and
  sent; of a header that comes in two portions (`PartOfHeader`, `PartOfCommand`), half
  the fields are unset. A `put` may find that its file cannot be created.
  In `FileTransfer` the other client's file arrives as the same loops leave it
  (`OtherCopy`: whole blocks, then memory nobody set), in one step; when it is opened
  (and emptied) and when it is written are two. Once a program reads a header from the middle
  of the data, or overwrites the heap, it is `"undefined"` and nothing is claimed
  for it.
* **Names** in `ChatClient` stand for a file, for a text and for the sender of a
  message: `comm_get` saves what it takes for a file under `fname`, which in a
  message is the sender. `"faulted"` is a client that wrote through a null pointer or
  in front of its buffer, `"lost"` an end that took a header from the middle of data
  or data from a header; neither does anything more. `comm_waitmsg`
  displays its text as a string though nobody appends a zero byte: the display goes on
  to the next one in memory. `Tails` is what that shows, something or nothing.
* **A lost answer** in `Traceroute` is one that stays on its way for ever. Times
  are named by the request they belong to. The unset counter of the last hop is
  any of -1 to 3, where 3 stands for every number that never becomes 3. Its `ttl` is
  not set either, and `print` writes that: a line has the packet it is about and the
  number it shows, for the last packet any (`Number`; 0 stands for all that are no
  hop's). The line of a hop nobody answered shows the loop's index.
* **The file system** of `LsTree` is a tree of nodes (each directory has a depth, `Depths`, and
  a move that leaves no tree is not possible), a symbolic link a node that leads to one
  that is not a link, or to itself, which is nowhere. A removed node keeps its place, as a directory
  does that a process is in. `get_path` and the call that uses its path are one step.
  A directory that may not be searched hides what is below it from every path that
  leads through it (`Hidden`): the absolute ones `get_path` makes, and a link's. Links
  are absolute, too.
  Where a link leads back to a directory above it, the walk does not end but by
  overflowing the stack, which holds `MaxDepth` calls. `LsL` looks at types and
  permissions; owners and sizes are printed as `stat` gives them, and times but for the
  last digit of the year, which `ls_l.c:148` cuts off instead of the line end.
* **A file the word separator cannot open** never comes to its end: `getContentStr`
  loops for ever, and the model stays where it is.

## 3. The runs

| Run | Question | Bounds |
|---|---|---|
| `pipe` | Is the pipe a queue per sender behind one lock, and does every put settle while somebody reads? | 3 client threads, 2 puts each, capacity 2, 1 failing `open` |
| `pipe_jam` (violated) | Can the two sides block each other for good? | 2 threads, no failure |
| `pipe_loss` (violated) | Is a message whose `putMessage` returned ever lost? | 1 thread, 2 puts, no failure |
| `list` | What may an entry hold, and does `conn_handler` return? | 2 threads, 3 ids of which 2 are copied, 4 attachments per process, any number of restarts |
| `list_lost` (violated) | Do unique ids suffice? | 2 threads, 2 ids, one process |
| `server` | Whom does a message reach, how often and in which order, when descriptors are reused, clients stall and the server dies; is every message settled and every leaving client noticed? | 3 connections of 2 users on 2 descriptors, 2 messages, 4 events from outside (a connection, a message, a stall, a failing handler, a kill or an end of `listen`), lossy parts |
| `server_misdelivery` (violated) | Does a message for one user reach nobody else? | 3 users with distinct ids, 2 descriptors, ideal parts |
| `chat_client` | What arrives of files and messages in both directions when two threads share each end? | files of 3, 2 and 1 bytes in blocks of 2, 3 commands, 2 messages from others, one of them empty; a `put` that may fail |
| `transfer` | What survives the block loops, whatever portions arrive? | 3 files of 6, 8 and 2 bytes, blocks of 3, 3 commands of two clients |
| `transfer_rest` (violated) | Is a received file a copy? | the same files, 1 command |
| `traceroute` | Lines, times and end of a trace under a bad network | 3 hops, target at 1 to 4, 1 duplicate, 1 foreign packet, 3 kinds of process ids, words of 5 bits |
| `exercises` | Is each listing or count of what is there? | every tree of 3 nodes with 3 oddities in all (links, directories that may not be entered or read, changes by others), a stack of 4 calls; 2 files with any of 32 permissions; every text of up to 4 characters of two letters, a separator and line ends |

Why these bounds are enough for the questions: in the pipe, three threads are
needed for one to hold the lock, one to wait for it and one to be in `open`; two
messages per thread are needed for order, and a capacity of two lets the pipe be
empty, half full and full. In the list, one thread copies while the other
registers; entry 0 (which `read_fd` overwrites), another copied entry and one that
is not copied are the three kinds of entry; four attachments are what two calls
need, so running out can hit either half of a call. In the server, a reuse takes
two connections on one descriptor and a third as sender or as the wrong receiver;
two messages are what order needs, and four events let two clients connect, one
stall and another send to it, or a third take a descriptor over after a kill.
In a transfer, the sizes are two whole blocks, two blocks and a rest, and less
than a block; three commands are a put, another client's put of the same file in
the middle of it and a get. In the chat client, the files
are a block with a rest, a whole block and less than a block, so that another send can
come in before, between and after the two of a file; three commands are a put, a get of the same file and a message in
any order; two messages let each thread of the client have one. In a
trace, hop 3 is the one with the unset counter and hops 1 and 2 allow a late answer
of one in the round of the other. The process ids 5, 20 and 37 with words of 5 bits
stand for a small one, one that is negative as a signed word and one that does not
fit a word. In a tree of three nodes a directory can be in a directory that is
listed, two of the names are equal, so that one may be found in the wrong place,
and three oddities are a link, a directory it leads to that may not be read, and a
change while it is followed.

What the passing runs show, beyond types:

* `LockExclusive`, `NeverEndOfFile`, `PerSenderOrder`, `IsLossyPoll`: without a
  failing `open` the spin lock is exclusive and no header is ever unset, and in all
  cases the pipe loses messages but does not invent, double, alter or reorder them.
* `EveryPutSettles`: whatever is put is taken or dropped and the thread returns,
  the transport is jammed or dead, or the dispatch thread does not come back to
  `getMessage`. The last is a condition (`[]<>(rpc # "idle")`): it may be in `send` for
  good, and then a put waits in `open` for good.
* `IsTable`: neither the copy, nor a crash in the middle of it, nor the leftovers of
  `read_fd` move a descriptor to another id.
* `QuietRegistrationStays`: the copy is the only thing that loses a registration.
* `ConnReturns`: a CONN message is always answered, or the process dies of a failed
  attachment.
* `MisdeliveryNeedsReuse`, `DuplicateNeedsReuse`: the reuse of a closed descriptor
  is the only cause of a wrong or repeated delivery, though lookup, close, accept,
  registration, crash and restart interleave freely.
* `InboxInOrder`: the order per sender survives the stream, the queue and the
  dispatch thread.
* `DispatchReachesList`: whoever a message is for and stays in the list while it is
  dispatched gets it; a lookup that was overtaken harms only those who came or left.
* `EveryMessageSettles`: a message is delivered, dropped or dies with the server,
  unless the dispatch thread waits for a client that does not read, or the transport is
  jammed. The exceptions are real: one such client holds up all the others' messages
  for as long as it likes.
* `QuitIsNoticed`: even then a connection's own thread ends with its client and frees
  the descriptor, except a thread that has called `putMessage` and waits there for the
  dispatch thread: it does not look at its connection. That any other thread gets away
  is what is checked.
* `BlocksArrive`: neither the misplaced rest nor the unset `rem_bytes` nor another
  client's put harms a whole block, over any sequence of puts and gets, as long as no
  `recv` was short, no file changed between the two looks `get_handler` takes at it,
  and no put of a file left the end of a longer one behind it.
  It is not obvious: the rest overwrites the start of the last block with the bytes
  that were there, because both ends make the same mistake.
* `GetsStayInFrame`, `GetEnds`: a get with complete receives leaves the stream at a
  header, though the file may have changed while it was sent, and no get waits for
  bytes that were not sent, except after a file of whole blocks: there the client asks
  for 0 bytes more and waits while nothing comes (`AsksForNothing`), which is until the
  server ends: it answers commands, and the console takes none.
* `InFrame`, `TransfersArrive`, `ForwardedAsTyped`, `ShownAsDelivered`: nothing but a
  short `recv`, or one thread of the client taking what was sent for the other,
  breaks the frame or the contents, although the server's two threads interleave
  their sends, and although `parse_msg` receives a short rest to another place than
  `comm_get` does. `ShownAsDelivered` claims that each display begins with its message;
  that it does not end with it is what A5's README calls messy characters.
* `GetEnds` (of `ChatClient`), `DeliveredIsShown`: with the same exceptions a get
  returns and a message is displayed. The exceptions are real: the waiting thread is
  always in `recv` when a get is typed, so whether a get works is up to the kernel. Two
  more are named: the recv of 0 bytes after a file of whole blocks or for an empty
  message, which waits for whatever comes next; and for `GetEnds` a `send` typed before,
  whose `putMessage` on the server may not return (`[]<>~Putting` is its condition).
* `ServerEndIsNoticed`: a client whose server is gone is not left waiting.
* `LinesInOrder`, `OwnTimes`: answers that come late, twice or never disturb at most
  the times of the round they fall into, never the order of the lines. Each line has its hop's number, except that of the last
  packet, which nobody initialised.
* `CleanTrace`, `TraceEnds`: a trace nothing disturbs is complete if the process id
  survives the signed checksum, and every trace ends.
* `InPlace`: `ls_tree` is where it thinks it is, whatever is removed under it, unless
  it followed a link to elsewhere, failed to enter a directory, or one it is in was
  moved.
* `EndsAsFound`: a completed listing of a tree without links or unreadable
  directories has one line per node, each under its directory's; the program exits
  only where a link dangles or leads through a directory that may not be
  searched, another program interferes or the way is lost, and it overflows or crashes
  only in the latter two cases.
* `ReportsAreRight` (with the types of `LsL` and `WordSeparator`) says what these two
  get right. A listing of `ls_l` has no file twice, all of them if it ends, breaks off
  only for a missing one, and shows the type, the owner's columns and the first ones of
  group and others as they are. The word separator counts every word at least as often
  as it stands between separators of a line, whatever the text; and if no line ends in
  a letter (`Joined`), exactly as often as it is there but for a last one that nothing
  follows. What they get wrong is under the disagreements.
* `Ends`: each of the three ends, except that a text that cannot be opened is read
  for ever.

### Disagreements with what the repository says

`pipe_jam` and `pipe_loss` show that a message a client sends may stop the server
or vanish without any failing call; `list_lost` and `server_misdelivery` show that
unique ids are not enough to keep connections apart, contrary to A5's README;
`transfer_rest` shows that a file reported as received successfully lacks its last
bytes.

Others are not runs of their own. They are met as the exceptions of properties above,
or as what these do not claim:

* `ls_l` does not list "the way ls -l does" (`ls_l.c:117`): it prints the names from
  last to first (theorem `ListsUnlikeLs`: no listing of two files is as promised), the
  group's write and execute columns show its read bit, those of others are always empty
  (`perm_str`), and the year lacks its last digit.
* The word counter joins a line that ends in a letter to the next. A1's own input
  `test/testFile1` has such lines ("he" and "couldn't" on the next become "hecouldn"
  and "t"), so words it contains are counted as others; and a text's last word is left
  out if nothing follows it.
* `ls_tree` ends altogether where a link cannot be followed.
* A chat message is displayed with what stands behind it in memory, which A5's README
  has among its TODOs (`src/A5/README.md:25`), and an empty one only when the next comes.
* A file of whole blocks is received and saved only when something else comes, which
  on A3's connection is nothing: the console waits for good.
* Traceroute's line for a last hop that answered has an arbitrary number.

The traces TLC prints for these runs are short and can be followed in the
source line by line with the map in `PROJECT.json`.

### Fairness

Weak fairness is assumed of a thread inside a call and of nothing else: no user has
to type, no client to connect or leave, nobody to restart the server. In `MessagePipe`
the dispatch thread's next call of `getMessage` (`ROpen`) is not fair, because between
two calls it is in `send`. The threads
are scheduled by the kernel and each step of theirs that is enabled stays enabled
until it is taken, except taking a spin lock: another thread may hold it again and
again. Every call releases the lock after a bounded number of steps and calls are
bounded in the runs, so weak fairness is enough there. In `FileTransfer` the client
and the server's thread are fair while they are in a command. In `ChatClient` the
console inside `comm_get`, the waiting thread and the server's thread are fair; the
user and the dispatch thread, which depends on other users, are not, and neither is the
return from `putMessage` (`Alone` is what the thread does without it). In `ChatServer`
the clients' threads and the dispatch thread are fair; a client that stalls may
stall for ever, as nothing makes it read. A thread in `putMessage` gets out if the
dispatch thread stays in `getMessage` and the transport is not jammed: then its `open`
returns and the pipe is emptied. While the dispatch thread is elsewhere nothing is
assumed of it. Nothing ends a jam. In `Traceroute` the program is fair, as
`select` returns after a second at the latest; the packets of other programs are
bounded, and with an endless stream of them a hop would never end, because the
second starts anew with each. The program of an exercise is fair; other programs'
changes are bounded and not fair.

Deadlock is not checked where the system may stop: all calls made, the server dead,
the users gone, the trace ended. In `list` a restart is always possible and
deadlock is checked.

## 4. The proofs

TLAPS checks, for every number of threads, ids, descriptors, calls and commands,
every capacity, all files and messages, every block size, every tree and directory, every
text:

* `MessagePipeProofs`: `TypeCorrect`, `LockIsExclusive`, `HeaderIsRead`,
  `OrderPerSender` and `ImplementsLossyPoll`. The inductive invariant has three
  parts. The first states the types. The second ties the lock to the program
  counters and the two opens to each other: while no `open` has failed, the lock is
  held exactly by whoever is in its section, and a reader that is past `open`
  without data has a writer that is past `open` and has not written, or there is
  data in the pipe. The property alone is not inductive: nothing in it says why the
  reader that takes the lock will find something. The third orders the numbers
  of one thread along `got`, the pipe and the call in progress, since what was
  returned is in order only if what is still in the pipe is, and comes later.
  The refinement then looks at each action: it is a put, a get, a loss or nothing.
* `ClientListProofs`: `TypeCorrect`, `QuietRegistrationsStay` and `ImplementsTable`. The invariant adds what the copy holds in its buffer: the
  loaded entry was registered by the same id, and equals the latest one unless that
  was written while the lock was held; that needs the exclusion of two copies, and
  the fact that entry 0's leftovers on the stacks were registered by id 0. That an
  entry holds what its own id registered (`EntryIsOwn`) is a part of it.
* `ChatServerProofs`: `TypeCorrect`, `MisdeliveriesNeedReuse`, `InboxesAreInOrder`,
  `DuplicatesNeedReuse` and `DispatchReaches`, for any number of connections, events
  and restarts. None of the four is inductive. The invariant says who owns a
  descriptor (two open connections never share one; what an entry of the list or the
  dispatch thread's lookup holds was some connection's of that id), that the numbers
  of one connection's messages rise along inbox, current message, queue and stream and
  never go back, that what the dispatch thread has sent for the current broadcast is
  in entries it has passed (so that a second copy needs a second entry with the same
  descriptor), and that whoever is in `roster` and before the current entry has the
  message. The proof has one step per action and part of the invariant.
* `BlockLoopProofs`: what the offsets of the block loops do, for every block size and
  every data. `SentProperties` says what is sent (the whole blocks, then the bytes of
  one block before the rest), `StoredProperties` where it is stored. A stream is
  described by what is left of the frames sent: `Frames` says of every header in it
  what comes after it, `Continues` the same of a header that has been received, from a
  place in its data on, `Complete` that nothing but what is still owed is missing. The
  data is described at one of three levels: it is no headers, and may be less than
  announced ("somehow"); it ends where the next header is, and is what is sent of a
  file ("exactly"), or the text of a message ("told"). `BlockRight` and `RestRight` are the heart of it: a block that is
  stored makes the buffer right up to the next block, and a rest that was sent from
  one block too early and is stored one block too early overwrites bytes with equal ones.
* `FileTransferProofs`: `TypeCorrect`, `GetsInFrame` and `BlocksComeThrough`. The
  invariant says what is on its way in both directions in these terms (`ToServer`,
  `ToClient`), that the console's and the thread's places in a command agree (`InTurn`:
  which of the two may be in which loop, and how much the sender still owes the
  receiver), and that files, buffers and what is on its way have the original's bytes
  in whole blocks (`Right`). Neither property is inductive without the first two: that
  a header is read at a header's place follows only from how much is owed, and the
  bytes in a buffer only from those that are still coming.
* `ChatClientProofs`: `TypeCorrect`, `MessagesForwarded`, `KeepsInFrame`,
  `MessagesShown` and `FilesArrive`. `ServerRight`: as long as the server's own recvs
  get what they ask for, what is on its way to it is whole frames, and the messages in
  it are exactly those typed and not yet forwarded, in order; so the thread reads
  headers where headers are. `OwnBytes`: as long as the client's threads do not cross,
  no byte of another user's message gets into a file or a buffer, so `get_handler`
  never sends one that the waiting thread could take for its own. `ClientRight`: the
  stream to the client is cut into pieces, each a message of `loop_dispatch`, an error
  response or one send of `get_handler`; the messages among them are those delivered
  and not yet shown, in order (`Stream`), the sends are those of one answer from the
  place where the console is (`Phase`), whatever lies between them. A recv that gets
  what it asked for and does not cross then takes one piece, or the header or the text
  of a message. `Right`: while nothing has crossed or fallen short, every header on its
  way announces the file's size, unless the client faulted on a missing one, and whole
  blocks on both disks, in both buffers and on their way have the file's bytes. The
  conditions of the theorems are those of the properties: crossing and short recvs do
  happen, and the bytes of a rest do get lost.
* `TracerouteProofs`: `TypeCorrect`, `LinesAreInOrder`, `TimesAreOwn` for every number
  of hops, foreign packets and duplicates, and `UndisturbedIsClean` for 16-bit words
  and at most 255 hops. The invariant separates the hops ahead, of which nothing has
  been asked, from the others, whose answers are on the way or counted, never both; a
  hop other than the last is never counted beyond three, because its third answer ends
  the round or the trace; a line has its packet's number unless that packet is the last
  (`Entry`); and until a late answer comes the index `i` equals the
  number of times the hop has. `UndisturbedIsClean` adds that a quiet round has its
  three answers counted or on the way, so that it cannot time out. That the target
  answers at all is what is proved of `Checksum`: with 16-bit words, every request of a
  process whose id is below 2^15 is valid (`PositiveIdsAreValid`), and none of one
  whose id is in 2^15 .. 2^16 - 1 is (`NegativeIdsAreNot`).
* `ExerciseProofs`: `TypeCorrect`, `StaysInPlace` and `ListsAsFound`, for every tree, any
  links, restrictions and changes, and every order of the entries; `ListTypeCorrect` and
  `ListsEachFile` and `ListsUnlikeLs`, for every directory of `LsL`; `WordTypeCorrect` and
  `WordsAreCounted`, for every file of `WordSeparator`; and of the three in one
  `ReportsCorrect` and `ExercisesKeepTrees`. `Entered`: no call is
  of a directory that may not be searched, since the program has entered it; so, while
  nothing changes and the way is not lost, `chdir("..")` succeeds (`BackToCaller`) and
  no name that is still to print is hidden (`NamedAreInSight`). `OnPath`: while the
  way is not lost, each call's directory is in the one of the call before, and the
  innermost one's is the working directory (its entry's, between the `chdir` and the
  next call). `Untouched` and `Descent`: without changes, and on its way, the depth of a
  call's directory is given by its place on the stack, so the stack never overflows.
  `Failures`: why `print_file` exits. `Listing` is the bookkeeping `EndsAsFound` needs:
  no node has two lines; an entry of a directory on the stack has its line exactly if
  its name is not to be printed any more, any other entry exactly if its directory is
  done with; and a line stands under that of its directory, as far to the right as the
  node is deep. At the end nothing is on the stack but the start, with nothing to
  print: a node of least depth among those without a line would be in a directory that
  has one and is done with. That there are as many lines as nodes is a bijection.
  For `LsL`, `Lines` counts the files done and says what each line shows; which columns
  are wrong then follows from `perm_str` (`ColumnsShow`).
  For the word separator, `CountsWords` speaks of the file only when all is done;
  `Separated` says what holds on the way. `Copied`: there is a map from places in
  `content` to places in what has been read of the file, increasing, to equal
  characters, that leaves out nothing but line ends. `Cut`: of each word as many have
  been taken as there are places in `content` up to `index` where it has ended
  (`Ended`), and `a_word` is the run of letters that ends at `index`. That one character
  more takes a word exactly if one ends there is `OneMoreEnds`, since only one word can
  end at a place (`OneWordEnds`). At the end, a word between separators of a line is
  in one piece in `content` and something follows it there (`ClearPlaces`), so there are
  at most as many of these as have been taken (`AtLeastClear`). If no line ends in a
  letter, the map takes the places of a word in `content` one-to-one to its places in the
  file (`SamePlaces`): next to a letter the two texts have the same neighbours
  (`NextInFile`, `BeforeInFile`), and a word is a run of letters in one exactly if it is
  in the other (`RunInFile`, `RunInContent`). The one word that has not been taken is
  `a_word`, and it ends the file (`LastOfFile`).
  A step of `Exercises` is a step or a stutter of each of the three specifications
  (`StepOfOne`), so their invariants hold of it, and it implements `LsTree`'s.

The assumptions are those of the constants (`PipeAssumption`, `ListAssumption`,
`ServerAssumption`, `TransferAssumption`, `ClientAssumption`, `TraceAssumption`,
`ExerciseAssumption`), which TLC evaluates in the runs. Those of `ClientAssumption` that are not about sizes are
about names: there is a file, and files, messages typed here and messages from
elsewhere are named apart, so that a byte shows what it is part of. That a message is
shorter than a block is the code's: the console's buffer is no longer.
`ExerciseAssumption` is the three of the exercises in one, each a hypothesis of the
theorems about its module. `TreeAssumption`: there are finitely many nodes, and the stack
has room for more calls than there are; `ListAssumption` (of `LsL`): modes are sets of
permissions; `WordAssumption`: no separator is a letter, and a line end is neither a
letter nor one of the other separators. The tree that is there when `ls_tree` does not
run (`SomeKind`, `SomeUp`) is any.
`PositiveIdsAreValid`, `NegativeIdsAreNot` and `UndisturbedIsClean` fix the width of a
word to that of the code.

Only model-checked: every liveness property, as fairness and `ENABLED` are outside what
the prover handles. Every safety property of a passing run, types included, is the
conclusion of a theorem.

## 5. Not modelled, and why

* `MessageQueue` holds no code, and `MessageSharedMemory` as a message strategy is not
  compiled in.
* `signal_comm`: a child sends itself six signals in a straight line while the parent
  returns; no order of steps but one.
* The regex version of the word separator reads and counts as the other does; its
  cutting is one regular expression of a library.
* The MP3 player passes freed parameters to the sound library
  (`src/A4/mp3player.c:145`); from that line on its behaviour is undefined, and what
  comes before is a sequence of library calls.
* libav's headers, some 16 of the repository's 19 thousand lines, are third-party
  declarations. They are why the map covers a small share of all lines; of the course's
  own sources, some 2600 lines, it covers about 1600; most of the rest is prompts,
  output, includes, socket set-up and error messages.
* Names, owners, sizes and times of the listings.
