---------------------------- MODULE MCChatServer ----------------------------
(***************************************************************************)
(* Instances of ChatServer for TLC.                                        *)
(***************************************************************************)
EXTENDS ChatServer

\* accept gives out 4 first: 0 to 2 are the terminal and 3 is the listener.
TwoFds == {4, 5}

\* The n-th connection's user: distinct ids; or user 1, user 0 and user 1 again.
DistinctIds == [c \in Conn |-> c]
UserReturns == [c \in Conn |-> c % 2]
=============================================================================
