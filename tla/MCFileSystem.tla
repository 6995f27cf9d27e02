---------------------------- MODULE MCFileSystem -----------------------------
(* Model checking of FileSystem. *)
EXTENDS FileSystem, TLC

FileSymmetry == Permutations(File)
=============================================================================
