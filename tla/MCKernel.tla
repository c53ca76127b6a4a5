----------------------------- MODULE MCKernel -----------------------------
(***************************************************************************)
(* Small instances of Kernel for TLC: three threads, an ordinary semaphore *)
(* and one that a device signals.                                          *)
(***************************************************************************)
EXTENDS Kernel, TLC

CONSTANTS t1, t2, mutex, done, disk

MCInitialValue == (mutex :> 1) @@ (done :> 0)

MCDoneSemaphore == (disk :> done)

=============================================================================
