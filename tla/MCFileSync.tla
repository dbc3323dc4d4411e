----------------------------- MODULE MCFileSync -----------------------------
(***************************************************************************)
(* FileSync for TLC: the configurations give every bound; batches of one   *)
(* file make the number of batches, not their size, the thing that varies. *)
(***************************************************************************)
EXTENDS FileSync
=============================================================================
