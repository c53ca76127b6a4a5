----------------------------- MODULE MCOpenFile -----------------------------
(***************************************************************************)
(* OpenFile on a file of two sectors out of order on the disk, the last    *)
(* one partly used.                                                        *)
(***************************************************************************)
EXTENDS OpenFile
CONSTANTS t1, t2

TwoSectors == <<4, 2>>

=============================================================================
