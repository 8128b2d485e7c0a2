---------------------------- MODULE MCExercises ----------------------------
(***************************************************************************)
(* Constants of Exercises for TLC, for the nodes 1, 2 and 3.               *)
(***************************************************************************)
EXTENDS Exercises

\* Two nodes share a name, so that it may be found in a wrong directory.
Names == <<"a", "b", "a">>

\* One bit of the owner's, and those the columns of group and others mix up.
FiveBits == SUBSET {"S_IWUSR", "S_IRGRP", "S_IXGRP", "S_IROTH", "S_IWOTH"}

OneDir == <<"dir", "file", "file">>
TwoInRoot == [p \in Place |-> IF p = 3 THEN 1 ELSE IF p \in Node THEN Root ELSE Outside]
=============================================================================
