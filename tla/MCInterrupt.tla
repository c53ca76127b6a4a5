---------------------------- MODULE MCInterrupt ----------------------------
(***************************************************************************)
(* Interrupt with two threads, the timer, a console that polls and a disk. *)
(* Ticks are scaled down (code: SystemTick 10, UserTick 1, TimerTicks 100, *)
(* ConsoleTime 100); what matters is that UserTick < SystemTick, that the  *)
(* timer's delay may be shorter or longer than a system tick, and that     *)
(* several devices can come due in one tick.                               *)
(***************************************************************************)
EXTENDS Interrupt, TLC

CONSTANTS console, disk, t1

MCPollTime == (console :> 4)
MCLatency  == (disk :> 5)

=============================================================================
