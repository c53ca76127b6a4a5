----------------------------- MODULE EventQueue -----------------------------
(***************************************************************************)
(* The list of pending interrupts (machine/interrupt.cc): a linked list    *)
(* kept sorted by its keys (module List).                                  *)
(*                                                                         *)
(* An element's item is the device that interrupts, its key is             *)
(* when - totalTicks.  The code stores the absolute time; relative to the  *)
(* clock the same list has finitely many values.  A key of 0 or less is    *)
(* due.                                                                    *)
(***************************************************************************)
EXTENDS List

(* The clock advances by n ticks. *)
Elapse(q, n) == [q EXCEPT !.heap = [a \in DOMAIN q.heap |-> [q.heap[a] EXCEPT !.key = @ - n]]]

(* Mutant of Schedule: nothing makes the interrupt occur in the future. *)
Schedule_Now(q, d, fromNow) == SortedInsert(q, d, 0)

(* Interrupt::Schedule *)
Schedule(q, d, fromNow) == SortedInsert(q, d, fromNow)

(* Mutant of Due: an interrupt whose time is now is not due yet. *)
Due_Late(q) == ~IsEmpty(q) /\ First(q).key < 0

Due(q) == ~IsEmpty(q) /\ First(q).key <= 0

(* CheckIfDue takes the first entry off and puts it back when it is not    *)
(* due, behind the entries with the same time.                             *)
PutBack(q) ==
    IF IsEmpty(q) THEN q ELSE SortedInsert(SortedRemove(q), First(q).item, First(q).key)

Scheduled(q, d) == \E i \in DOMAIN Elements(q) : Elements(q)[i].item = d

Sorted(q) == \A i, j \in DOMAIN Elements(q) : i < j => Elements(q)[i].key <= Elements(q)[j].key

=============================================================================
