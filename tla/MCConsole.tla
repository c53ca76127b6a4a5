----------------------------- MODULE MCConsole -----------------------------
(***************************************************************************)
(* Console with a few keys: 'q', an ASCII letter, the two-byte e-acute and *)
(* y-diaeresis (whose char is -1, as EOF), and byte sequences that         *)
(* CheckCharAvail drops or finds cut off by the end of the input.          *)
(***************************************************************************)
EXTENDS Console

MCKeys == {<<113>>, <<97>>, <<195, 169>>, <<195, 191>>, <<226>>, <<195>>}

=============================================================================
