--------------------------- MODULE MCFileTransfer ---------------------------
(***************************************************************************)
(* Instances of FileTransfer for TLC.                                      *)
(***************************************************************************)
EXTENDS FileTransfer, TLC

\* A file of whole blocks, one with a rest, and one shorter than a block.
Mixed == ("even" :> 6) @@ ("odd" :> 8) @@ ("small" :> 2)
=============================================================================
