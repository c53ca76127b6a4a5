---------------------------- MODULE MCPostOffice ----------------------------
(***************************************************************************)
(* Two machines with two sending threads each; the first sends two letters *)
(* and the second one.  Or MailTest runs on both.                          *)
(***************************************************************************)
EXTENDS PostOffice, TLC
CONSTANTS m1, m2, t1, t2

MCMaxSends == (m1 :> 2) @@ (m2 :> 1)

=============================================================================
