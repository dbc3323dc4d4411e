----------------------------- MODULE MCFileShare -----------------------------
(* Instances of FileShare for TLC. *)
EXTENDS FileShare

CONSTANTS stuck, conn, keep, w1

=============================================================================
