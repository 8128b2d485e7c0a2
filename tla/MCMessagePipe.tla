--------------------------- MODULE MCMessagePipe ---------------------------
(***************************************************************************)
(* Instances of MessagePipe for TLC: the cfgs give model values for the    *)
(* threads.                                                                *)
(***************************************************************************)
EXTENDS MessagePipe
=============================================================================
