---------------------------- MODULE MCTraceroute ----------------------------
(***************************************************************************)
(* Instances of Traceroute for TLC.                                        *)
(***************************************************************************)
EXTENDS Traceroute

\* With words of five bits: an identifier that is positive as a signed word,
\* one that is not, and one that does not fit.
ThreePids == {5, 20, 37}
=============================================================================
