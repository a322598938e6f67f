------------------------------- MODULE MCMpool -------------------------------
(***************************************************************************)
(* Instances of Mpool for TLC.                                             *)
(***************************************************************************)
EXTENDS Mpool

\* Nothing, less than a block, and two blocks are asked for at first.
MCPreallocNum == {0, 1, 4}
=============================================================================
