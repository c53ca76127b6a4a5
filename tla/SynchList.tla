----------------------------- MODULE SynchList ------------------------------
(***************************************************************************)
(* The synchronized list (threads/synchlist.cc), the queue behind each     *)
(* mailbox: a monitor with Mesa-style conditions.                          *)
(*                                                                         *)
(* Lock and Condition have no implementation in this repository; they are  *)
(* what synch.h says of them: Wait releases the lock and sleeps in one     *)
(* step, Signal makes one sleeping thread ready, which then competes for   *)
(* the lock with all others.                                               *)
(***************************************************************************)
EXTENDS List

CONSTANTS
    Callers,        \* the threads that call it
    NULL,
    MaxItems        \* bound: items appended

ASSUME SynchListAssumption == NULL \notin Callers /\ MaxItems \in Nat

VARIABLES
    list,           \* the linked list (module List)
    lock,           \* its holder, or NULL
    at,             \* "idle", in Append or in Remove
    appended,       \* history: number of items appended; they are 1, 2, ...
    removed         \* history: the items Remove took, in order

lvars == <<list, lock, at, appended, removed>>

Goto(t, place) == at' = [at EXCEPT ![t] = place]

(* The threads in Condition::Wait on listEmpty, not signalled yet. *)
Sleeping == {t \in Callers : at[t] = "sleep"}

SynchListInit ==
    /\ list = EmptyList
    /\ lock = NULL
    /\ at = [t \in Callers |-> "idle"]
    /\ appended = 0
    /\ removed = <<>>

Call(t, method) ==
    /\ at[t] = "idle"
    /\ Goto(t, method)
    /\ UNCHANGED <<list, lock, appended, removed>>

(* lock->Acquire() returns, in Append, in Remove, and inside Wait. *)
Acquire(t, from, to) ==
    /\ at[t] = from /\ lock = NULL
    /\ lock' = t
    /\ Goto(t, to)
    /\ UNCHANGED <<list, appended, removed>>

(* Mutant of AppendItem: it signals only if the list was empty. *)
AppendItem_FirstOnly(t) ==
    /\ at[t] = "append"
    /\ list' = AppendTo(list, appended + 1)
    /\ appended' = appended + 1
    /\ Goto(t, IF IsEmpty(list) THEN "signal" ELSE "release")
    /\ UNCHANGED <<lock, removed>>

AppendItem(t) ==
    /\ at[t] = "append"
    /\ list' = AppendTo(list, appended + 1)
    /\ appended' = appended + 1
    /\ Goto(t, "signal")
    /\ UNCHANGED <<lock, removed>>

Signal(t) ==
    /\ at[t] = "signal"
    /\ IF Sleeping = {} THEN Goto(t, "release")
       ELSE \E u \in Sleeping : at' = [at EXCEPT ![t] = "release", ![u] = "woken"]
    /\ UNCHANGED <<list, lock, appended, removed>>

Wait(t) ==
    /\ at[t] = "test" /\ IsEmpty(list)
    /\ lock' = NULL
    /\ Goto(t, "sleep")
    /\ UNCHANGED <<list, appended, removed>>

(* The while loop's test fails and the first item is taken. *)
RemoveItem(t) ==
    /\ at[t] = "test" /\ ~IsEmpty(list)
    /\ removed' = Append(removed, First(list).item)
    /\ list' = SortedRemove(list)
    /\ Goto(t, "release")
    /\ UNCHANGED <<lock, appended>>

Release(t) ==
    /\ at[t] = "release"
    /\ lock' = NULL
    /\ Goto(t, "idle")
    /\ UNCHANGED <<list, appended, removed>>

(* The threads whose Append has not put its item into the list yet. *)
Appending == {t \in Callers : at[t] \in {"append1", "append"}}

Inside(t) ==
    \/ Acquire(t, "append1", "append") \/ AppendItem(t) \/ Signal(t)
    \/ Acquire(t, "remove1", "test") \/ Acquire(t, "woken", "test") \/ Wait(t) \/ RemoveItem(t)
    \/ Release(t)

SynchListNext ==
    \E t \in Callers : \/ Inside(t)
                       \/ Call(t, "remove1")
                       \/ appended + Cardinality(Appending) < MaxItems /\ Call(t, "append1")

SynchListSpec == SynchListInit /\ [][SynchListNext]_lvars

(* The scheduler runs every ready thread, and the lock wakes its waiters. *)
SynchListFairSpec == SynchListSpec /\ \A t \in Callers : SF_lvars(Inside(t))

-----------------------------------------------------------------------------

Places == {"idle", "append1", "append", "signal", "remove1", "test", "sleep", "woken", "release"}

(* SynchList: the list holds items that were appended, never NULL. *)
SynchListTypeOK ==
    /\ Items(list) \in Seq(1..MaxItems) /\ removed \in Seq(1..MaxItems)
    /\ lock \in Callers \cup {NULL}
    /\ at \in [Callers -> Places]
    /\ appended \in 0..MaxItems

(* SynchList::Append and Remove: the list is only touched with the lock    *)
(* held, by one thread.                                                    *)
Monitor ==
    \A t \in Callers : at[t] \in {"append", "signal", "test", "release"} <=> lock = t

(* SynchList::Append and Remove, one thread in the monitor: while threads  *)
(* sleep, each item in the list has a thread on its way to it, woken or    *)
(* about to be, so no wakeup is lost although others may take the item     *)
(* before the woken thread.                                                *)
EachItemAwaited ==
    /\ SynchListTypeOK /\ Monitor
    /\ Sleeping # {} =>
        Cardinality({t \in Callers : \/ at[t] \in {"woken", "signal"}
                                     \/ at[t] = "test" /\ ~IsEmpty(list)}) >= Len(Items(list))

(* List::Append, SortedRemove, SynchList::Append and Remove: the items     *)
(* come out in the order in which they went in, each once, whoever removes *)
(* them; first, last and the elements' links stay consistent while the     *)
(* list becomes empty and grows again, and every deleted element is one    *)
(* that nothing points to.                                                 *)
FirstInFirstOut ==
    /\ WellFormed(list)
    /\ removed \o Items(list) = [i \in 1..appended |-> i]

(* SynchList::Remove: a call does not sleep for ever beside an item.       *)
ItemTaken ==
    \A i \in 1..MaxItems :
        appended >= i /\ Sleeping # {} ~> Len(removed) >= i \/ Sleeping = {}

=============================================================================
