-------------------------------- MODULE List --------------------------------
(***************************************************************************)
(* The singly linked list (threads/list.cc) under the ready list, the      *)
(* semaphores' queues, the pending interrupts and the mailboxes.           *)
(*                                                                         *)
(* A list is its two pointers and the heap of its ListElements: first,     *)
(* last and the elements by address.  "new" gives the least free address,  *)
(* so an address is used again as soon as its element is deleted.          *)
(***************************************************************************)
EXTENDS Integers, Sequences, FiniteSets, TLC, SequencesExt

Nil == 0

ListElement(item, key) == [item |-> item, key |-> key, next |-> Nil]

EmptyList == [first |-> Nil, last |-> Nil, heap |-> <<>>]

IsEmpty(l) == l.first = Nil

(* new ListElement: its address, and the list once it is in the heap. *)
NewAddress(l) == Min(1..(Cardinality(DOMAIN l.heap) + 1) \ DOMAIN l.heap)

New(l, item, key) ==
    [l EXCEPT !.heap = [b \in DOMAIN @ \cup {NewAddress(l)} |->
                          IF b = NewAddress(l) THEN ListElement(item, key) ELSE @[b]]]

Delete(l, a) == [l EXCEPT !.heap = [b \in DOMAIN @ \ {a} |-> @[b]]]

(* Both fields set, as when the list was empty. *)
Only(l, a) == [l EXCEPT !.first = a, !.last = a]

(* last->next = element; last = element *)
AfterLast(l, a) == [l EXCEPT !.heap[l.last].next = a, !.last = a]

(* Mutant of AppendTo: last keeps pointing to the element before. *)
AppendTo_KeepsLast(l, item) ==
    LET a == NewAddress(l)
        n == New(l, item, 0)
    IN  IF IsEmpty(l) THEN Only(n, a) ELSE [n EXCEPT !.heap[l.last].next = a]

(* List::Append *)
AppendTo(l, item) ==
    LET a == NewAddress(l)
        n == New(l, item, 0)
    IN  IF IsEmpty(l) THEN Only(n, a) ELSE AfterLast(n, a)

(* The pointers the loops of list.cc follow, from first to NULL; a pointer *)
(* to a deleted element ends the walk.                                     *)
Walk(l) ==
    LET size == Cardinality(DOMAIN l.heap)
        ptr[n \in 0..size] ==
            IF n = 0 THEN l.first
            ELSE IF ptr[n - 1] \in DOMAIN l.heap THEN l.heap[ptr[n - 1]].next ELSE Nil
    IN  [i \in 1..Cardinality({n \in 0..size : ptr[n] # Nil}) |-> ptr[i - 1]]

(* SortedInsert's loop: the position of the first ptr whose successor has  *)
(* a bigger key, 0 if there is none.                                       *)
Place(l, key) ==
    SelectInSeq(Walk(l), LAMBDA a : l.heap[a].next # Nil /\ key < l.heap[l.heap[a].next].key)

(* List::SortedInsert *)
SortedInsert(l, item, key) ==
    LET a   == NewAddress(l)
        n   == New(l, item, key)
        ptr == Walk(l)[Place(l, key)]
    IN  IF IsEmpty(l) THEN Only(n, a)
        ELSE IF key < l.heap[l.first].key
             THEN [n EXCEPT !.heap[a].next = l.first, !.first = a]
        ELSE IF Place(l, key) # 0
             THEN [n EXCEPT !.heap[a].next = l.heap[ptr].next, !.heap[ptr].next = a]
        ELSE AfterLast(n, a)

(* List::SortedRemove, and Remove: the list without its first element,     *)
(* whose item and key are First's.                                         *)
SortedRemove(l) ==
    Delete(IF l.first = l.last THEN Only(l, Nil)
           ELSE [l EXCEPT !.first = l.heap[l.first].next], l.first)

First(l) == l.heap[l.first]

-----------------------------------------------------------------------------

(* What the list is to its users: the elements in the order of the walk. *)
Elements(l) == [i \in DOMAIN Walk(l) |-> l.heap[Walk(l)[i]]]

Items(l) == [i \in DOMAIN Walk(l) |-> l.heap[Walk(l)[i]].item]

(* The walk meets every element once and ends at last; nothing dangles and *)
(* nothing is left over in the heap.                                       *)
WellFormed(l) ==
    /\ ToSet(Walk(l)) = DOMAIN l.heap
    /\ Len(Walk(l)) = Cardinality(DOMAIN l.heap)
    /\ l.last = IF Walk(l) = <<>> THEN Nil ELSE Last(Walk(l))

=============================================================================
