---------------------------- MODULE ClientTable ----------------------------
(***************************************************************************)
(* What the list of connected clients promises to the code that sends by   *)
(* user id: an entry is empty or a descriptor that some client of that id  *)
(* registered.  It may fall back to an earlier one or to nothing.          *)
(***************************************************************************)
EXTENDS Naturals

CONSTANTS Id,             \* the user ids
          Fd              \* the descriptors of connections, not NoFd

\* The connfd of an entry nobody has written; descriptor 0 is the terminal.
NoFd == 0

VARIABLES table,          \* the entries' connfd
          registered      \* history: what was registered, per id

vars == <<table, registered>>

TypeOK == /\ table \in [Id -> Fd \cup {NoFd}]
          /\ registered \in [Id -> SUBSET Fd]

Init == /\ table = [u \in Id |-> NoFd]
        /\ registered = [u \in Id |-> {}]

Register(u, fd) == /\ table' = [table EXCEPT ![u] = fd]
                   /\ registered' = [registered EXCEPT ![u] = @ \cup {fd}]

Revert(u) == /\ \E fd \in registered[u] \cup {NoFd} :
                    table' = [table EXCEPT ![u] = fd]
             /\ UNCHANGED registered

Next == \E u \in Id : Revert(u) \/ \E fd \in Fd : Register(u, fd)

Spec == Init /\ [][Next]_vars
=============================================================================
