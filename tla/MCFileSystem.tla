---------------------------- MODULE MCFileSystem ----------------------------
(***************************************************************************)
(* FileSystem with three names, empty files, files of two sectors, and a   *)
(* directory of three entries, the second of which straddles its sectors.  *)
(* Four sectors are free at first.  The names are interchangeable.         *)
(***************************************************************************)
EXTENDS FileSystem

CONSTANTS a, b, c

Symmetry == Permutations(Names)

(* The properties say nothing beyond the first operation after a crash. *)
UntilRecovered == crashes = 0 \/ dirty

=============================================================================
