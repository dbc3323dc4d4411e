---------------------------- MODULE MCFilesLease ----------------------------
(* Instances of FilesLease for TLC: sources a and b share a workspace. *)
EXTENDS FilesLease, TLC

CONSTANTS a, b, c, o1, o2

MCOrg2 == (a :> o1) @@ (b :> o1)
MCOrg3 == (a :> o1) @@ (b :> o1) @@ (c :> o2)
=============================================================================
