-------------------------- MODULE ClientListProofs --------------------------
(***************************************************************************)
(* What holds of ClientList for every number of client threads, user ids   *)
(* and attachments, across any number of restarts.                         *)
(***************************************************************************)
EXTENDS ClientList, TLAPS

(***************************************************************************)
(* The lock admits one copy at a time, so that copied and buffer belong to *)
(* one thread; what a copy has loaded and what write_fd left behind came   *)
(* from the entry it goes back to; and a loaded entry is stale only if it  *)
(* was registered anew since, which marks it overlapped.                   *)
(***************************************************************************)
Copying(fd) == pc[fd] \in {"load", "store", "unlock"}

OneCopy == /\ \A fd \in Fd : Copying(fd) => lock = "held"
           /\ \A fd1, fd2 \in Fd : Copying(fd1) /\ Copying(fd2) => fd1 = fd2
           /\ \A fd \in Fd : pc[fd] \in {"load", "store"} => copied < MaxUserNum

EntryIsOwn == \A u \in Id : shm[u] \in registered[u] \cup {NoFd}

BufferIsOwn == \A fd \in Fd : pc[fd] = "store" =>
                   buffer \in registered[copied] \cup {NoFd}

StackIsOwn == stack \subseteq registered[0] \cup {NoFd}

BufferIsLast == \A fd \in Fd :
    pc[fd] = "store" /\ copied # 0 /\ copied \notin overlapped => buffer = last[copied]

Inv == /\ TypeOK
       /\ OneCopy
       /\ EntryIsOwn
       /\ BufferIsOwn
       /\ StackIsOwn
       /\ QuietRegistrationStays
       /\ BufferIsLast

LEMMA InvInit == Init => Inv
<1> SUFFICES ASSUME Init PROVE Inv
  OBVIOUS
<1>1. TypeOK
  BY ListAssumption DEF Init, TypeOK, Id, PC
<1>2. OneCopy
  BY DEF Init, OneCopy, Copying
<1>3. EntryIsOwn /\ BufferIsOwn /\ StackIsOwn /\ QuietRegistrationStays /\ BufferIsLast
  BY DEF Init, EntryIsOwn, BufferIsOwn, StackIsOwn, QuietRegistrationStays, BufferIsLast
<1> QED BY <1>1, <1>2, <1>3 DEF Inv

LEMMA HandlerKeepsType ==
    ASSUME TypeOK, OneCopy, NEW fd \in Fd, Conn(fd) \/ conn_handler(fd)
    PROVE  TypeOK'
<1> USE ListAssumption DEF TypeOK, Id, PC, Goto, history, OneCopy, Copying
<1>1. CASE Conn(fd)
  BY <1>1 DEF Conn
<1>2. CASE GetMessage(fd)
  BY <1>2 DEF GetMessage, read_fd
<1>3. CASE Register(fd)
  <2>1. from[fd] \in Id
    OBVIOUS
  <2>2. /\ shm' = [shm EXCEPT ![from[fd]] = fd]
        /\ last' = [last EXCEPT ![from[fd]] = fd]
    BY <1>3 DEF Register
  <2>3. /\ registered' = [registered EXCEPT ![from[fd]] = @ \cup {fd}]
        /\ \/ overlapped' = overlapped \cup {from[fd]}
           \/ overlapped' = overlapped \ {from[fd]}
    BY <1>3 DEF Register
  <2>4. pc' \in [Fd -> PC]
    BY <1>3 DEF Register
  <2>5. UNCHANGED <<lock, from, copied, buffer, stack, attached, status>>
    BY <1>3 DEF Register
  <2>6. overlapped' \subseteq Id
    <3>1. overlapped \subseteq Id
      OBVIOUS
    <3> HIDE DEF TypeOK, OneCopy, Id
    <3> QED BY <2>1, <2>3, <3>1
  <2>7. registered' \in [Id -> SUBSET Fd]
    <3>1. registered[from[fd]] \cup {fd} \in SUBSET Fd
      BY <2>1
    <3> QED BY <2>3, <3>1
  <2> QED BY <2>1, <2>2, <2>4, <2>5, <2>6, <2>7
<1>4. CASE PutMessage(fd)
  <2>1. stack' \subseteq Fd \cup {NoFd}
    <3>1. stack' = stack \cup {shm[0]}
      BY <1>4 DEF PutMessage, write_fd
    <3>2. shm[0] \in Fd \cup {NoFd}
      OBVIOUS
    <3> QED BY <3>1, <3>2
  <2>2. pc' \in [Fd -> PC]
    BY <1>4 DEF PutMessage, write_fd
  <2>3. copied' = 0 /\ attached' = attached + 1 /\ attached < MaxAttach /\ lock' = "held"
    BY <1>4 DEF PutMessage, write_fd
  <2>4. UNCHANGED <<shm, from, buffer, status, registered, last, overlapped>>
    BY <1>4 DEF PutMessage, write_fd
  <2> QED BY <2>1, <2>2, <2>3, <2>4
<1>5. CASE CopyLoad(fd)
  BY <1>5 DEF CopyLoad
<1>6. CASE CopyStore(fd)
  BY <1>6 DEF CopyStore
<1>7. CASE Unlock(fd)
  BY <1>7 DEF Unlock
<1>8. CASE AttachFails(fd)
  BY <1>8 DEF AttachFails
<1> QED BY <1>1, <1>2, <1>3, <1>4, <1>5, <1>6, <1>7, <1>8 DEF conn_handler

LEMMA HandlerKeepsOneCopy ==
    ASSUME TypeOK, OneCopy, NEW fd \in Fd, Conn(fd) \/ conn_handler(fd)
    PROVE  OneCopy'
<1> USE ListAssumption DEF TypeOK, Id, PC, Goto, history, OneCopy, Copying
<1>1. CASE Conn(fd)
  BY <1>1 DEF Conn
<1>2. CASE GetMessage(fd)
  BY <1>2 DEF GetMessage, read_fd
<1>3. CASE Register(fd)
  BY <1>3 DEF Register
<1>4. CASE PutMessage(fd)
  BY <1>4 DEF PutMessage, write_fd
<1>5. CASE CopyLoad(fd)
  BY <1>5 DEF CopyLoad
<1>6. CASE CopyStore(fd)
  BY <1>6 DEF CopyStore
<1>7. CASE Unlock(fd)
  BY <1>7 DEF Unlock
<1>8. CASE AttachFails(fd)
  BY <1>8 DEF AttachFails
<1> QED BY <1>1, <1>2, <1>3, <1>4, <1>5, <1>6, <1>7, <1>8 DEF conn_handler

LEMMA HandlerKeepsOwn ==
    ASSUME Inv, NEW fd \in Fd, Conn(fd) \/ conn_handler(fd)
    PROVE  (EntryIsOwn /\ BufferIsOwn /\ StackIsOwn)'
<1> USE ListAssumption DEF TypeOK, Id, PC, Goto, history, Inv, OneCopy, Copying, EntryIsOwn, BufferIsOwn, StackIsOwn
<1>1. CASE Conn(fd)
  BY <1>1 DEF Conn
<1>2. CASE GetMessage(fd)
  BY <1>2 DEF GetMessage, read_fd
<1>3. CASE Register(fd)
  BY <1>3 DEF Register
<1>4. CASE PutMessage(fd)
  <2>1. stack' = stack \cup {shm[0]} /\ shm[0] \in registered[0] \cup {NoFd}
    BY <1>4 DEF PutMessage, write_fd
  <2>2. UNCHANGED <<shm, registered>> /\ pc' = [pc EXCEPT ![fd] = "load"] /\ lock = "free"
    BY <1>4 DEF PutMessage, write_fd
  <2>3. StackIsOwn'
    BY <2>1, <2>2
  <2>4. BufferIsOwn'
    <3>1. \A f \in Fd : pc[f] # "store"
      BY <2>2
    <3> QED BY <2>2, <3>1
  <2> QED BY <2>2, <2>3, <2>4
<1>5. CASE CopyLoad(fd)
  BY <1>5 DEF CopyLoad
<1>6. CASE CopyStore(fd)
  BY <1>6 DEF CopyStore
<1>7. CASE Unlock(fd)
  BY <1>7 DEF Unlock
<1>8. CASE AttachFails(fd)
  BY <1>8 DEF AttachFails
<1> QED BY <1>1, <1>2, <1>3, <1>4, <1>5, <1>6, <1>7, <1>8 DEF conn_handler

LEMMA HandlerKeepsLast ==
    ASSUME Inv, NEW fd \in Fd, Conn(fd) \/ conn_handler(fd)
    PROVE  (QuietRegistrationStays /\ BufferIsLast)'
<1> USE ListAssumption DEF TypeOK, Id, PC, Goto, history, Inv, OneCopy, Copying, QuietRegistrationStays, BufferIsLast
<1>1. CASE Conn(fd)
  BY <1>1 DEF Conn
<1>2. CASE GetMessage(fd)
  BY <1>2 DEF GetMessage, read_fd
<1>3. CASE Register(fd)
  BY <1>3 DEF Register
<1>4. CASE PutMessage(fd)
  BY <1>4 DEF PutMessage, write_fd
<1>5. CASE CopyLoad(fd)
  BY <1>5 DEF CopyLoad
<1>6. CASE CopyStore(fd)
  BY <1>6 DEF CopyStore
<1>7. CASE Unlock(fd)
  BY <1>7 DEF Unlock
<1>8. CASE AttachFails(fd)
  BY <1>8 DEF AttachFails
<1> QED BY <1>1, <1>2, <1>3, <1>4, <1>5, <1>6, <1>7, <1>8 DEF conn_handler

\* A restart wipes the process and leaves the table alone.
LEMMA RestartKeepsInv ==
    ASSUME Inv, Restart
    PROVE  Inv'
<1> USE DEF Inv, Restart, history
<1>1. TypeOK'
  BY ListAssumption DEF TypeOK, Id, PC
<1>2. OneCopy' /\ BufferIsOwn' /\ BufferIsLast'
  BY DEF OneCopy, Copying, BufferIsOwn, BufferIsLast
<1>3. EntryIsOwn' /\ StackIsOwn' /\ QuietRegistrationStays'
  BY DEF EntryIsOwn, StackIsOwn, QuietRegistrationStays
<1> QED BY <1>1, <1>2, <1>3

LEMMA InvStep == Inv /\ [Next]_vars => Inv'
<1> SUFFICES ASSUME Inv, [Next]_vars PROVE Inv'
  OBVIOUS
<1>1. ASSUME NEW fd \in Fd, Conn(fd) \/ conn_handler(fd)
      PROVE  Inv'
  BY <1>1, HandlerKeepsType, HandlerKeepsOneCopy, HandlerKeepsOwn, HandlerKeepsLast DEF Inv
<1>2. CASE DispatchGet
  <2>1. TypeOK'
    BY <1>2, ListAssumption DEF DispatchGet, Inv, TypeOK, history
  <2>2. UNCHANGED <<shm, lock, pc, copied, buffer, stack, history>>
    BY <1>2 DEF DispatchGet
  <2> QED BY <2>1, <2>2 DEF Inv, history, OneCopy, Copying, EntryIsOwn, BufferIsOwn,
             StackIsOwn, QuietRegistrationStays, BufferIsLast
<1>3. CASE Restart
  BY <1>3, RestartKeepsInv
<1>4. CASE UNCHANGED vars
  BY <1>4 DEF vars, history, Inv, TypeOK, OneCopy, Copying, EntryIsOwn, BufferIsOwn,
     StackIsOwn, QuietRegistrationStays, BufferIsLast
<1> QED BY <1>1, <1>2, <1>3, <1>4 DEF Next, Run

LEMMA InvAlways == Spec => []Inv
BY InvInit, InvStep, PTL DEF Spec

\* Every variable of ClientList keeps its type: in particular the copy never
\* runs past the table.
THEOREM TypeCorrect == Spec => []TypeOK
<1>1. Inv => TypeOK
  BY DEF Inv
<1> QED BY <1>1, InvAlways, PTL

\* A registration written while no thread copies the table is never lost.
THEOREM QuietRegistrationsStay == Spec => []QuietRegistrationStays
<1>1. Inv => QuietRegistrationStays
  BY DEF Inv
<1> QED BY <1>1, InvAlways, PTL

-----------------------------------------------------------------------------
LEMMA HandlerIsTableStep ==
    ASSUME Inv, NEW fd \in Fd, Conn(fd) \/ conn_handler(fd)
    PROVE  [Table!Next]_Table!vars
<1> USE ListAssumption DEF Inv, TypeOK, Id
<1>1. CASE Register(fd)
  <2>1. from[fd] \in Id
    OBVIOUS
  <2> QED BY <1>1, <2>1 DEF Register, Table!Next, Table!Register
<1>2. CASE GetMessage(fd)
  <2>1. PICK left \in stack \cup {NoFd} :
            shm' = IF left = NoFd THEN shm ELSE [shm EXCEPT ![0] = left]
    BY <1>2 DEF GetMessage, read_fd
  <2>2. left \in registered[0] \cup {Table!NoFd} /\ registered' = registered
    BY <1>2 DEF GetMessage, read_fd, StackIsOwn, NoFd, Table!NoFd, history
  <2>3. shm' = shm \/ Table!Revert(0)
    BY <2>1, <2>2 DEF Table!Revert
  <2> QED BY <2>2, <2>3 DEF Table!Next, Table!vars
<1>3. CASE CopyStore(fd)
  <2>1. copied \in Id
    BY <1>3 DEF CopyStore, OneCopy
  <2>2. buffer \in registered[copied] \cup {Table!NoFd}
    BY <1>3 DEF CopyStore, BufferIsOwn, NoFd, Table!NoFd
  <2>3. shm' = [shm EXCEPT ![copied] = buffer] /\ registered' = registered
    BY <1>3 DEF CopyStore, history
  <2>4. Table!Revert(copied)
    BY <2>2, <2>3 DEF Table!Revert
  <2> QED BY <2>1, <2>4 DEF Table!Next
<1> QED BY <1>1, <1>2, <1>3 DEF conn_handler, Conn, PutMessage, write_fd, CopyLoad, Unlock,
           AttachFails, history, Table!vars

\* The shared memory behind its lock is a ClientTable: only Register gives an
\* entry a new descriptor, and every other store is a fall back.
THEOREM ImplementsTable == Spec => IsTable
<1>1. Init => Table!Init
  BY DEF Init, Table!Init, NoFd, Table!NoFd
<1>2. Inv /\ [Next]_vars => [Table!Next]_Table!vars
  <2> SUFFICES ASSUME Inv, [Next]_vars
               PROVE  [Table!Next]_Table!vars
    OBVIOUS
  <2>1. ASSUME NEW fd \in Fd, Conn(fd) \/ conn_handler(fd)
        PROVE  [Table!Next]_Table!vars
    BY <2>1, HandlerIsTableStep
  <2>2. CASE DispatchGet \/ Restart \/ UNCHANGED vars
    BY <2>2 DEF DispatchGet, Restart, vars, history, Table!vars
  <2> QED BY <2>1, <2>2 DEF Next, Run
<1> QED BY <1>1, <1>2, InvAlways, PTL DEF Spec, IsTable, Table!Spec
=============================================================================
