---------------------------- MODULE MCFileSystem ----------------------------
(***************************************************************************)
(* Instances of FileSystem.  Entries of the directory are interchangeable. *)
(***************************************************************************)
EXTENDS FileSystem, TLC

MCSymmetry == Permutations(Files)
=============================================================================
