----------------------------- MODULE MCFileIndex -----------------------------
(***************************************************************************)
(* FileIndex for TLC: two readable contents, so that a text can be replaced *)
(* and come back, and one of each kind the extractor treats differently.   *)
(***************************************************************************)
EXTENDS FileIndex
=============================================================================
