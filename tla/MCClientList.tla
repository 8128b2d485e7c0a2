---------------------------- MODULE MCClientList ----------------------------
(***************************************************************************)
(* Instances of ClientList for TLC.                                        *)
(***************************************************************************)
EXTENDS ClientList

\* accept gives out 4 first: 0 to 2 are the terminal and 3 is the listener.
TwoFds == {4, 5}
=============================================================================
