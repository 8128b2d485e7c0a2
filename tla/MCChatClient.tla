---------------------------- MODULE MCChatClient ----------------------------
(***************************************************************************)
(* Instances of ChatClient for TLC.                                        *)
(***************************************************************************)
EXTENDS ChatClient, TLC

\* A file with a rest, one of whole blocks and one shorter than a block; a message without text.
Sizes == ("odd" :> 3) @@ ("even" :> 2) @@ ("small" :> 1) @@ ("hi" :> 1) @@ ("ann" :> 1) @@ ("bob" :> 0)
=============================================================================
