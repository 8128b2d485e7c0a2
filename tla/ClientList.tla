----------------------------- MODULE ClientList -----------------------------
(***************************************************************************)
(* clilist_shm, the table of connected clients: a SysV shared memory       *)
(* segment behind MessageSharedMemory<User*>, and conn_handler, which every*)
(* client thread runs for a CONN message.                                  *)
(*                                                                         *)
(* getMessage attaches the segment under a spin lock and returns the       *)
(* pointer; conn_handler writes its entry through that pointer without the *)
(* lock; putMessage attaches the segment a second time and copies it onto  *)
(* itself under the lock.  The segment outlives the server process.        *)
(*                                                                         *)
(* An entry is abstracted to its connfd.  A client thread is named by the  *)
(* descriptor of the connection it serves; when a connection is closed and *)
(* its number given out again, the thread of that number starts over.      *)
(***************************************************************************)
EXTENDS Naturals

CONSTANTS Fd,             \* descriptors of connections, one thread for each
          MaxUserNum,     \* MAX_USER_NUM, the entries SHM_SIZE covers
          MaxId,          \* the last entry that fits the segment's page
          MaxAttach       \* attachments the kernel grants one process

ASSUME ListAssumption == /\ Fd \subseteq Nat \ {0}
                         /\ MaxUserNum \in Nat \ {0}
                         /\ MaxId \in Nat
                         /\ MaxUserNum <= MaxId + 1
                         /\ MaxAttach \in Nat

Id == 0 .. MaxId

\* The connfd of an entry nobody has written.
NoFd == 0

VARIABLES shm,            \* the segment: connfd of each entry in its page
          lock,           \* the atomic<bool>, "held" for true
          pc,             \* where each thread is in conn_handler
          from,           \* msg->from of the CONN each thread handles
          copied,         \* memcpy: the entries already stored
          buffer,         \* memcpy: the entry loaded and not yet stored
          stack,          \* descriptors write_fd left on the threads' stacks
          attached,       \* attachments of the process, never detached
          status,         \* the server process
          registered,     \* history: descriptors registered, per id
          last,           \* history: the latest of them
          overlapped      \* history: ids whose latest registration was
                          \* written while another thread was copying

history == <<registered, last, overlapped>>
vars == <<shm, lock, pc, from, copied, buffer, stack, attached, status, history>>

PC == {"idle", "get", "register", "put", "load", "store", "unlock"}

TypeOK == /\ shm \in [Id -> Fd \cup {NoFd}]
          /\ lock \in {"free", "held"}
          /\ pc \in [Fd -> PC]
          /\ from \in [Fd -> Id]
          /\ copied \in 0 .. MaxUserNum
          /\ buffer \in Fd \cup {NoFd}
          /\ stack \subseteq Fd \cup {NoFd}
          /\ attached \in 0 .. MaxAttach
          /\ status \in {"up", "crashed"}
          /\ registered \in [Id -> SUBSET Fd]
          /\ last \in [Id -> Fd \cup {NoFd}]
          /\ overlapped \subseteq Id

Init == /\ shm = [u \in Id |-> NoFd]
        /\ lock = "free"
        /\ pc = [fd \in Fd |-> "idle"]
        /\ from = [fd \in Fd |-> 0]
        /\ copied = 0
        /\ buffer = NoFd
        /\ stack = {}
        /\ attached = 0
        /\ status = "up"
        /\ registered = [u \in Id |-> {}]
        /\ last = [u \in Id |-> NoFd]
        /\ overlapped = {}

Goto(fd, next) == pc' = [pc EXCEPT ![fd] = next]

\* A CONN message names a user id of the client's choice.
Conn(fd) ==
    /\ pc[fd] = "idle"
    /\ \E u \in Id : from' = [from EXCEPT ![fd] = u]
    /\ Goto(fd, "get")
    /\ UNCHANGED <<shm, lock, copied, buffer, stack, attached, status, history>>

\* write_fd fills a control buffer on its own stack, which nobody sends.
write_fd(connfd) == stack' = stack \cup {connfd}

\* read_fd reads a control buffer nobody filled: it finds nothing, or what a
\* write_fd left on this or a recycled stack.
read_fd == stack \cup {NoFd}

\* getMessage, which overwrites entry 0 with what read_fd found.
GetMessage(fd) ==
    /\ pc[fd] = "get"
    /\ lock = "free"
    /\ attached < MaxAttach
    /\ attached' = attached + 1
    /\ \E left \in read_fd :
           shm' = IF left = NoFd THEN shm ELSE [shm EXCEPT ![0] = left]
    /\ Goto(fd, "register")
    /\ UNCHANGED <<lock, from, copied, buffer, stack, status, history>>

\* conn_handler writes the entry, holding no lock.
Register(fd) ==
    /\ pc[fd] = "register"
    /\ shm' = [shm EXCEPT ![from[fd]] = fd]
    /\ Goto(fd, "put")
    /\ registered' = [registered EXCEPT ![from[fd]] = @ \cup {fd}]
    /\ last' = [last EXCEPT ![from[fd]] = fd]
    /\ overlapped' = IF lock = "held" THEN overlapped \cup {from[fd]}
                                      ELSE overlapped \ {from[fd]}
    /\ UNCHANGED <<lock, from, copied, buffer, stack, attached, status>>

\* The copy starts without taking the lock.
PutMessage_Unlocked(fd) ==
    /\ pc[fd] = "put"
    /\ lock = "free"
    /\ attached < MaxAttach
    /\ attached' = attached + 1
    /\ write_fd(shm[0])
    /\ copied' = 0
    /\ Goto(fd, "load")
    /\ UNCHANGED <<shm, lock, from, buffer, status, history>>

\* putMessage up to write_fd, which leaves entry 0's descriptor on the stack.
PutMessage(fd) ==
    /\ pc[fd] = "put"
    /\ lock = "free"
    /\ attached < MaxAttach
    /\ lock' = "held"
    /\ attached' = attached + 1
    /\ write_fd(shm[0])
    /\ copied' = 0
    /\ Goto(fd, "load")
    /\ UNCHANGED <<shm, from, buffer, status, history>>

\* memcpy of the segment onto itself, entry by entry.
CopyLoad(fd) ==
    /\ pc[fd] = "load"
    /\ buffer' = shm[copied]
    /\ Goto(fd, "store")
    /\ UNCHANGED <<shm, lock, from, copied, stack, attached, status, history>>

\* The entry is stored one place further on.
CopyStore_Shifted(fd) ==
    /\ pc[fd] = "store"
    /\ shm' = [shm EXCEPT ![(copied + 1) % MaxUserNum] = buffer]
    /\ copied' = copied + 1
    /\ Goto(fd, IF copied' = MaxUserNum THEN "unlock" ELSE "load")
    /\ UNCHANGED <<lock, from, buffer, stack, attached, status, history>>

\* The copy runs past the last entry of the table.
CopyStore_PastEnd(fd) ==
    /\ pc[fd] = "store"
    /\ shm' = [shm EXCEPT ![copied] = buffer]
    /\ copied' = copied + 1
    /\ Goto(fd, IF copied = MaxUserNum THEN "unlock" ELSE "load")
    /\ UNCHANGED <<lock, from, buffer, stack, attached, status, history>>

CopyStore(fd) ==
    /\ pc[fd] = "store"
    /\ shm' = [shm EXCEPT ![copied] = buffer]
    /\ copied' = copied + 1
    /\ Goto(fd, IF copied' = MaxUserNum THEN "unlock" ELSE "load")
    /\ UNCHANGED <<lock, from, buffer, stack, attached, status, history>>

\* The release is forgotten.
Unlock_Never(fd) ==
    /\ pc[fd] = "unlock"
    /\ from' = [from EXCEPT ![fd] = 0]
    /\ Goto(fd, "idle")
    /\ UNCHANGED <<shm, lock, copied, buffer, stack, attached, status, history>>

Unlock(fd) ==
    /\ pc[fd] = "unlock"
    /\ lock' = "free"
    /\ from' = [from EXCEPT ![fd] = 0]
    /\ Goto(fd, "idle")
    /\ UNCHANGED <<shm, copied, buffer, stack, attached, status, history>>

\* loop_dispatch gets the list too, once for every message, and only reads it.
\* Nothing was ever left on its stack by write_fd.
DispatchGet ==
    /\ lock = "free"
    /\ IF attached < MaxAttach
          THEN attached' = attached + 1 /\ UNCHANGED status
          ELSE status' = "crashed" /\ UNCHANGED attached
    /\ UNCHANGED <<shm, lock, pc, from, copied, buffer, stack, history>>

\* shmat returns -1 and the process faults on it.
AttachFails(fd) ==
    /\ pc[fd] \in {"get", "put"}
    /\ lock = "free"
    /\ attached = MaxAttach
    /\ status' = "crashed"
    /\ UNCHANGED <<shm, lock, pc, from, copied, buffer, stack, attached, history>>

\* A new process finds the segment as the old one left it.
Restart ==
    /\ status' = "up"
    /\ lock' = "free"
    /\ pc' = [fd \in Fd |-> "idle"]
    /\ from' = [fd \in Fd |-> 0]
    /\ copied' = 0
    /\ buffer' = NoFd
    /\ stack' = {}
    /\ attached' = 0
    /\ UNCHANGED <<shm, history>>

-----------------------------------------------------------------------------
conn_handler(fd) ==
    \/ GetMessage(fd) \/ Register(fd) \/ PutMessage(fd)
    \/ CopyLoad(fd) \/ CopyStore(fd) \/ Unlock(fd) \/ AttachFails(fd)

Run == /\ status = "up"
       /\ DispatchGet \/ \E fd \in Fd : Conn(fd) \/ conn_handler(fd)

Next == Run \/ Restart

Spec == Init /\ [][Next]_vars

\* The behaviours of one server process on a fresh segment.
OneProcess == Init /\ [][Run]_vars

\* Threads inside conn_handler keep running.
Fairness == \A fd \in Fd : WF_vars(status = "up" /\ conn_handler(fd))

FairSpec == Spec /\ Fairness

(***************************************************************************)
(* Properties.                                                             *)
(***************************************************************************)
\* The copy of the segment onto itself never moves a descriptor to another
\* id's entry, whatever threads store meanwhile, whatever a previous server
\* process left half copied and whatever read_fd finds on the stack: an entry
\* holds nothing or a descriptor that id registered.
Table == INSTANCE ClientTable WITH table <- shm
IsTable == Table!Spec

\* The window of the lost registration is the copy and nothing else: what was
\* registered while no thread was copying stays in the table until the id is
\* registered again, across restarts.  (Entry 0 also falls back to what
\* read_fd finds.)
QuietRegistrationStays ==
    \A u \in Id \ {0} : u \notin overlapped => shm[u] = last[u]

\* Every CONN message is answered: conn_handler returns or the process dies.
ConnReturns == \A fd \in Fd : pc[fd] # "idle" ~> pc[fd] = "idle" \/ status = "crashed"

\* If no two clients use the same id then, once every conn_handler has
\* returned, the table holds each client's descriptor.
UniqueIdsSuffice ==
    (\A fd \in Fd : pc[fd] = "idle") /\ status = "up" =>
        \A u \in Id, fd \in Fd : registered[u] = {fd} => shm[u] = fd
=============================================================================
