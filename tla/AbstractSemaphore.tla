-------------------------- MODULE AbstractSemaphore --------------------------
(***************************************************************************)
(* What threads/synch.h promises of semaphores, with no scheduler and no   *)
(* queue: P waits until the value is positive and decrements it in the     *)
(* same step, V increments it.  A thread inside P leaves it only by taking *)
(* a unit; which waiter takes one, and when, is left open.                 *)
(***************************************************************************)
EXTENDS Naturals

CONSTANTS Threads, Semaphores, InitialValue

VARIABLES
    val,        \* [Semaphores -> Nat]
    waiting     \* [Semaphores -> SUBSET Threads], the threads inside P

avars == <<val, waiting>>

AInit ==
    /\ val = InitialValue
    /\ waiting = [s \in Semaphores |-> {}]

Outside(t) == \A s \in Semaphores : t \notin waiting[s]

(* P finds the value 0. *)
Wait(t, s) ==
    /\ Outside(t) /\ val[s] = 0
    /\ waiting' = [waiting EXCEPT ![s] = @ \cup {t}]
    /\ UNCHANGED val

(* P takes a unit, at once or after having waited. *)
Take(t, s) ==
    /\ Outside(t) \/ t \in waiting[s]
    /\ val[s] > 0
    /\ val' = [val EXCEPT ![s] = @ - 1]
    /\ waiting' = [waiting EXCEPT ![s] = @ \ {t}]

Give(s) ==
    /\ val' = [val EXCEPT ![s] = @ + 1]
    /\ UNCHANGED waiting

ANext == \E s \in Semaphores : Give(s) \/ \E t \in Threads : Wait(t, s) \/ Take(t, s)

ASpec == AInit /\ [][ANext]_avars

=============================================================================
