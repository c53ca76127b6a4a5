-------------------------- MODULE InterruptProofs --------------------------
(***************************************************************************)
(* Proofs about Interrupt, for any threads, devices and tick lengths.      *)
(***************************************************************************)
EXTENDS Interrupt, ListProofs

(***************************************************************************)
(* The machine status.                                                     *)
(***************************************************************************)

Mode(t) == IF t \in user THEN "UserMode" ELSE "SystemMode"

(* A thread inside Machine::Run leaves the CPU only in OneTick's Yield, so *)
(* its "old" is set as long as it is away; every "old" is its owner's      *)
(* status; and Sleep is entered, and Idle left, in SystemMode.             *)
StatusInv ==
    /\ cur \in Threads /\ saved \in [Threads -> MachineStatus \cup {"none"}]
    /\ halted => pc \in {"OneTick", "Stopped"}
    /\ ~halted =>
         /\ pc \in {"Run", "OneTick", "Sleep", "Idle"}
         /\ \A t \in Threads : saved[t] # "none" => saved[t] = Mode(t)
         /\ \A t \in Threads : t \in user /\ saved[t] = "none" => t = cur
         /\ pc = "Run" => saved[cur] = "none"
         /\ pc \in {"Run", "OneTick"} /\ saved[cur] = "none" => status = Mode(cur)
         /\ pc \in {"Sleep", "Idle"} => cur \notin user \/ saved[cur] # "none"
         /\ pc = "Sleep" => status = "SystemMode"
    /\ status \in MachineStatus

LEMMA InitStatus == Init => StatusInv
BY InterruptAssumption DEF Init, StatusInv, Mode, MachineStatus

LEMMA StatusStep == StatusInv /\ [Next]_ivars => StatusInv'
<1> SUFFICES ASSUME StatusInv, [Next]_ivars PROVE StatusInv'
  OBVIOUS
<1> USE DEF StatusInv, Mode, MachineStatus
<1>1. ASSUME NEW p \in Pollers, StartPoller(p) PROVE StatusInv'
  BY <1>1 DEF StartPoller
<1>2. ASSUME NEW d \in Devices, Request(d) PROVE StatusInv'
  BY <1>2 DEF Request
<1>3. ASSUME SetLevelOn PROVE StatusInv'
  BY <1>3 DEF SetLevelOn, OneTick
<1>4. ASSUME RunUserProgram PROVE StatusInv'
  BY <1>4 DEF RunUserProgram
<1>5. ASSUME UserInstruction PROVE StatusInv'
  BY <1>5 DEF UserInstruction, OneTick
<1>6. ASSUME SyscallHalt PROVE StatusInv'
  BY <1>6 DEF SyscallHalt
<1>7. ASSUME Sleep PROVE StatusInv'
  BY <1>7 DEF Sleep
<1>8. ASSUME CheckIfDue PROVE StatusInv'
  BY <1>8 DEF CheckIfDue
<1>9. ASSUME OneTickReturn PROVE StatusInv'
  BY <1>9 DEF OneTickReturn
<1>10. ASSUME OneTickYield PROVE StatusInv'
  BY <1>10 DEF OneTickYield, OneTick
<1>11. ASSUME Dispatch PROVE StatusInv'
  BY <1>11 DEF Dispatch, OneTick
<1>12. ASSUME Idle PROVE StatusInv'
  BY <1>12 DEF Idle
<1>13. ASSUME IdleReturn PROVE StatusInv'
  BY <1>13 DEF IdleReturn
<1>14. ASSUME IdlePowerdown PROVE StatusInv'
  BY <1>14 DEF IdlePowerdown, OneTick
<1>15. ASSUME NEW p \in Consoles, ClosePoller(p) PROVE StatusInv'
  BY <1>15 DEF ClosePoller
<1>16. ASSUME UNCHANGED ivars PROVE StatusInv'
  BY <1>16 DEF ivars
<1> QED
  BY <1>1, <1>2, <1>3, <1>4, <1>5, <1>6, <1>7, <1>8, <1>9, <1>10, <1>11, <1>12, <1>13, <1>14,
     <1>15, <1>16 DEF Next, ThreadStep, Stopped

(* interrupt.cc, "status = old": however threads preempt each other in     *)
(* OneTick and whatever statuses they leave, the thread that runs is in    *)
(* UserMode inside Machine::Run and in SystemMode outside it.              *)
THEOREM ThreadsGetTheirStatusBack == Spec => []StatusMatchesThread
<1>1. StatusInv => StatusMatchesThread
  BY DEF StatusInv, Mode, StatusMatchesThread
<1> QED
  BY <1>1, InitStatus, StatusStep, PTL DEF Spec

-----------------------------------------------------------------------------
(***************************************************************************)
(* The pending interrupts, first as any list q: the timer and the pollers  *)
(* in A have one entry each, those outside A have none, and the keys start *)
(* at a bound.                                                             *)
(***************************************************************************)

Sources == {Timer} \cup Pollers \cup Devices

Entries(q, d) == {a \in DOMAIN q.heap : q.heap[a].item = d}

Agenda(q, A) ==
    /\ IsList(q, Sources) /\ Ascending(q, Walk(q))
    /\ \A p \in A : \E a \in DOMAIN q.heap : Entries(q, p) = {a}
    /\ \A p \in (Pollers \cup {Timer}) \ A : Entries(q, p) = {}

KeysFrom(q, n) == \A a \in DOMAIN q.heap : q.heap[a].key >= n

LEMMA AgendaFacts ==
    ASSUME NEW q, NEW A, Agenda(q, A)
    PROVE  /\ \A a \in DOMAIN q.heap : q.heap[a].item \in Sources /\ q.heap[a].key \in Int
           /\ IsEmpty(q) <=> DOMAIN q.heap = {}
           /\ ~IsEmpty(q) => /\ q.first \in DOMAIN q.heap
                             /\ First(q).item \in Sources /\ First(q).key \in Int
           /\ \A a \in DOMAIN q.heap : First(q).key <= q.heap[a].key
<1>1. IsList(q, Sources) /\ Ascending(q, Walk(q))
  BY DEF Agenda
<1>2. q.heap \in [DOMAIN q.heap -> Cell(Sources)]
  BY <1>1 DEF IsList, Chain
<1>3. \A a \in DOMAIN q.heap : q.heap[a].item \in Sources /\ q.heap[a].key \in Int
  BY <1>2 DEF Cell
<1>4. (IsEmpty(q) <=> DOMAIN q.heap = {}) /\ (~IsEmpty(q) => q.first \in DOMAIN q.heap)
  BY <1>1, ListFacts
<1>5. \A a \in DOMAIN q.heap : First(q).key <= q.heap[a].key
  BY <1>1, AscendingIsSorted
<1> QED
  BY <1>3, <1>4, <1>5 DEF First

(* SortedInsert of a device that has no entry, or interrupts once per      *)
(* request.                                                                *)
LEMMA InsertAgenda ==
    ASSUME NEW q, NEW A, Agenda(q, A), NEW d \in Sources, d \notin A, NEW key \in Int
    PROVE  /\ Agenda(SortedInsert(q, d, key), A \cup ({d} \ Devices))
           /\ \A n \in Int : KeysFrom(q, n) /\ key >= n => KeysFrom(SortedInsert(q, d, key), n)
<1> DEFINE m == SortedInsert(q, d, key)
           x == NewAddress(q)
<1>1. IsList(q, Sources) /\ Ascending(q, Walk(q))
  BY DEF Agenda
<1>2. /\ IsList(m, Sources)
      /\ x \notin DOMAIN q.heap /\ DOMAIN m.heap = DOMAIN q.heap \cup {x}
      /\ m.heap[x].item = d /\ m.heap[x].key = key
      /\ \A b \in DOMAIN q.heap : m.heap[b].item = q.heap[b].item /\ m.heap[b].key = q.heap[b].key
      /\ Ascending(m, Walk(m))
  BY <1>1, SortedInsertKeepsOrder
<1> HIDE DEF m, x
<1>3. ASSUME NEW p PROVE Entries(m, p) = IF p = d THEN Entries(q, p) \cup {x} ELSE Entries(q, p)
  BY <1>2 DEF Entries
<1>4. Timer \notin Devices /\ Pollers \cap Devices = {}
  BY InterruptAssumption
<1>5. \A p \in A \cup ({d} \ Devices) : \E a \in DOMAIN m.heap : Entries(m, p) = {a}
  <2>1. ASSUME NEW p \in A PROVE \E a \in DOMAIN m.heap : Entries(m, p) = {a}
    <3>1. PICK a \in DOMAIN q.heap : Entries(q, p) = {a}
      BY DEF Agenda
    <3>2. Entries(m, p) = Entries(q, p) /\ a \in DOMAIN m.heap
      BY <1>2, <1>3
    <3> QED
      BY <3>1, <3>2
  <2>2. ASSUME d \notin Devices PROVE Entries(m, d) = {x} /\ x \in DOMAIN m.heap
    BY <1>2, <1>3, <2>2 DEF Agenda, Sources
  <2> QED
    BY <2>1, <2>2
<1>6. \A p \in (Pollers \cup {Timer}) \ (A \cup ({d} \ Devices)) : Entries(m, p) = {}
  BY <1>3, <1>4 DEF Agenda
<1>7. \A n \in Int : KeysFrom(q, n) /\ key >= n => KeysFrom(m, n)
  BY <1>2 DEF KeysFrom
<1> QED
  BY <1>2, <1>5, <1>6, <1>7 DEF Agenda, m

(* SortedRemove of the first entry. *)
LEMMA RemoveAgenda ==
    ASSUME NEW q, NEW A, Agenda(q, A), ~IsEmpty(q)
    PROVE  /\ Agenda(SortedRemove(q), A \ {First(q).item})
           /\ DOMAIN SortedRemove(q).heap = DOMAIN q.heap \ {q.first}
           /\ \A n \in Int : KeysFrom(q, n) => KeysFrom(SortedRemove(q), n)
<1> DEFINE m == SortedRemove(q)
           d == First(q).item
<1>1. IsList(q, Sources) /\ Ascending(q, Walk(q))
  BY DEF Agenda
<1>2. /\ IsList(m, Sources)
      /\ DOMAIN m.heap = DOMAIN q.heap \ {q.first}
      /\ \A b \in DOMAIN m.heap : m.heap[b].item = q.heap[b].item /\ m.heap[b].key = q.heap[b].key
      /\ Ascending(m, Walk(m))
  BY <1>1, RemoveTakesFirst
<1>3. q.first \in DOMAIN q.heap /\ q.heap[q.first].item = d
  BY AgendaFacts DEF First
<1> HIDE DEF m, d
<1>4. ASSUME NEW p PROVE Entries(m, p) = Entries(q, p) \ {q.first}
  BY <1>2 DEF Entries
<1>5. ASSUME NEW p \in A \ {d} PROVE \E a \in DOMAIN m.heap : Entries(m, p) = {a}
  <2>1. q.first \notin Entries(q, p)
    BY <1>3 DEF Entries
  <2>2. Entries(m, p) = Entries(q, p)
    BY <1>4, <2>1
  <2> QED
    BY <2>2 DEF Agenda, Entries
<1>6. ASSUME NEW p \in (Pollers \cup {Timer}) \ (A \ {d}) PROVE Entries(m, p) = {}
  <2>1. CASE p \notin A
    BY <1>4, <2>1 DEF Agenda
  <2>2. CASE p \in A
    <3>1. p = d /\ q.first \in Entries(q, p)
      BY <1>3, <2>2 DEF Entries
    <3>2. PICK a : Entries(q, p) = {a}
      BY <2>2 DEF Agenda
    <3> QED
      BY <1>4, <3>1, <3>2
  <2> QED
    BY <2>1, <2>2
<1>7. \A n \in Int : KeysFrom(q, n) => KeysFrom(m, n)
  BY <1>2 DEF KeysFrom
<1> QED
  BY <1>2, <1>5, <1>6, <1>7 DEF Agenda, m, d

(* An entry of the timer or of a poller belongs to A. *)
LEMMA EntryInA ==
    ASSUME NEW q, NEW A, Agenda(q, A), ~IsEmpty(q), First(q).item \notin Devices
    PROVE  First(q).item \in A
<1>1. q.first \in Entries(q, First(q).item) /\ First(q).item \in Pollers \cup {Timer}
  BY AgendaFacts DEF Entries, First, Sources
<1> QED
  BY <1>1 DEF Agenda

(* CheckIfDue takes the first entry and puts it back. *)
LEMMA PutBackAgenda ==
    ASSUME NEW q, NEW A \in SUBSET (Pollers \cup {Timer}), Agenda(q, A)
    PROVE  /\ Agenda(PutBack(q), A)
           /\ \A n \in Int : KeysFrom(q, n) => KeysFrom(PutBack(q), n)
<1>1. CASE IsEmpty(q)
  BY <1>1 DEF PutBack
<1>2. CASE ~IsEmpty(q)
  <2> DEFINE d == First(q).item
             key == First(q).key
             r == SortedRemove(q)
             B == A \ {d}
  <2>1. d \in Sources /\ key \in Int /\ q.first \in DOMAIN q.heap
    BY <1>2, AgendaFacts
  <2>2. Agenda(r, B) /\ \A n \in Int : KeysFrom(q, n) => KeysFrom(r, n)
    BY <1>2, RemoveAgenda
  <2>3. PutBack(q) = SortedInsert(r, d, key)
    BY <1>2 DEF PutBack
  <2>4. d \notin Devices => d \in A
    BY <1>2, EntryInA
  <2>5. d \in Devices => d \notin A
    BY InterruptAssumption
  <2>6. \A n \in Int : KeysFrom(q, n) => key >= n
    BY <2>1 DEF KeysFrom, First
  <2> HIDE DEF d, key, r
  <2>7. /\ Agenda(SortedInsert(r, d, key), B \cup ({d} \ Devices))
        /\ \A n \in Int : KeysFrom(r, n) /\ key >= n => KeysFrom(SortedInsert(r, d, key), n)
    BY <2>1, <2>2, InsertAgenda
  <2>8. B \cup ({d} \ Devices) = A
    BY <2>4, <2>5
  <2> QED
    BY <2>2, <2>3, <2>6, <2>7, <2>8
<1> QED
  BY <1>1, <1>2

(* The clock advances by n ticks. *)
LEMMA ElapseAgenda ==
    ASSUME NEW q, NEW A, Agenda(q, A), NEW n \in Int
    PROVE  /\ Agenda(Elapse(q, n), A)
           /\ \A b \in Int : KeysFrom(q, b) => KeysFrom(Elapse(q, n), b - n)
           /\ Elapse(q, n).first = q.first /\ DOMAIN Elapse(q, n).heap = DOMAIN q.heap
           /\ \A a \in DOMAIN q.heap : Elapse(q, n).heap[a].item = q.heap[a].item
<1> DEFINE m == Elapse(q, n)
<1>1. IsList(q, Sources) /\ Ascending(q, Walk(q))
  BY DEF Agenda
<1>2. /\ IsList(m, Sources) /\ m.first = q.first
      /\ DOMAIN m.heap = DOMAIN q.heap
      /\ \A b \in DOMAIN q.heap : m.heap[b].item = q.heap[b].item /\ m.heap[b].key = q.heap[b].key - n
      /\ Ascending(m, Walk(m))
  BY <1>1, ElapseKeepsOrder
<1>3. \A a \in DOMAIN q.heap : q.heap[a].key \in Int
  BY AgendaFacts
<1> HIDE DEF m
<1>4. \A p : Entries(m, p) = Entries(q, p)
  BY <1>2 DEF Entries
<1>5. \A b \in Int : KeysFrom(q, b) => KeysFrom(m, b - n)
  BY <1>2, <1>3 DEF KeysFrom
<1> QED
  BY <1>2, <1>4, <1>5 DEF Agenda, m

LEMMA NotDue ==
    ASSUME NEW q, NEW A, Agenda(q, A), ~Due(q)
    PROVE  KeysFrom(q, 1)
<1>1. ASSUME NEW a \in DOMAIN q.heap PROVE q.heap[a].key >= 1
  <2>1. ~IsEmpty(q) /\ First(q).key <= q.heap[a].key /\ First(q).key \in Int /\ q.heap[a].key \in Int
    BY AgendaFacts
  <2>2. ~(First(q).key <= 0)
    BY <2>1 DEF Due
  <2> QED
    BY <2>1, <2>2
<1> QED
  BY <1>1 DEF KeysFrom

PollersOK == operating \in SUBSET Pollers /\ closing \cup deaf \subseteq operating \cap Consoles

(* CheckIfDue runs the handler of the first entry. *)
LEMMA FireAgenda ==
    ASSUME NEW q, PollersOK, Agenda(q, Periodic), ~IsEmpty(q), Fire(q)
    PROVE  /\ Agenda(pending', Periodic') /\ PollersOK'
           /\ \A n \in Int : KeysFrom(q, n) /\ n <= 1 => KeysFrom(pending', n)
<1> DEFINE d == First(q).item
           r == SortedRemove(q)
           A == Periodic
<1>1. d \in Sources
  BY AgendaFacts
<1>2. Agenda(r, A \ {d}) /\ \A n \in Int : KeysFrom(q, n) => KeysFrom(r, n)
  BY RemoveAgenda
<1>3. d \notin Devices => d \in A
  BY EntryInA
<1>4. Timer \notin Devices /\ Pollers \cap Devices = {} /\ A \cap Devices = {}
  BY InterruptAssumption DEF Periodic, PollersOK
<1>p. UNCHANGED pollers => PollersOK' /\ Periodic' = A
  BY DEF pollers, PollersOK, Periodic
<1> HIDE DEF d, r, A
<1>5. ASSUME NEW key \in Int, key >= 1, d \notin Devices, pending' = SortedInsert(r, d, key)
      PROVE  /\ Agenda(pending', A)
             /\ \A n \in Int : KeysFrom(q, n) /\ n <= 1 => KeysFrom(pending', n)
  <2>1. /\ Agenda(SortedInsert(r, d, key), (A \ {d}) \cup ({d} \ Devices))
        /\ \A n \in Int : KeysFrom(r, n) /\ key >= n => KeysFrom(SortedInsert(r, d, key), n)
    BY <1>1, <1>2, <1>5, InsertAgenda
  <2>2. (A \ {d}) \cup ({d} \ Devices) = A
    BY <1>3, <1>5
  <2>3. \A n \in Int : n <= 1 => key >= n
    BY <1>5
  <2> QED
    BY <1>2, <1>5, <2>1, <2>2, <2>3
<1>6. CASE d = Timer /\ TimerExpired(r) /\ UNCHANGED pollers
  <2>1. PICK n \in TimerDelays : pending' = SortedInsert(r, d, n)
    BY <1>6 DEF TimerExpired, Schedule
  <2>2. n \in Int /\ n >= 1
    BY InterruptAssumption
  <2> QED
    BY <1>4, <1>5, <1>6, <1>p, <2>1, <2>2
<1>7. CASE d \in Pollers /\ pending' = Schedule(r, d, PollTime[d]) /\ UNCHANGED pollers
  <2>1. PollTime[d] \in Int /\ PollTime[d] >= 1
    BY <1>7, InterruptAssumption
  <2> QED
    BY <1>4, <1>5, <1>7, <1>p, <2>1 DEF Schedule
<1>8. CASE d \in Devices /\ pending' = r /\ UNCHANGED pollers
  <2>1. A \ {d} = A
    BY <1>4, <1>8
  <2> QED
    BY <1>2, <1>8, <1>p, <2>1
<1>9. ASSUME d \in Pollers, pending' = r, Periodic' = A \ {d}, PollersOK'
      PROVE  /\ Agenda(pending', Periodic') /\ PollersOK'
             /\ \A n \in Int : KeysFrom(q, n) /\ n <= 1 => KeysFrom(pending', n)
  BY <1>2, <1>9
<1>10. CASE d \in Pollers /\ Poll(d, r)
  <2>1. d \in operating \ deaf /\ d # Timer
    BY <1>3, <1>4, <1>10, InterruptAssumption DEF A, Periodic
  <2>2. CASE pending' = Schedule(r, d, PollTime[d]) /\ UNCHANGED pollers
    BY <1>7, <1>10, <2>2
  <2>3. CASE d \in Consoles \ closing /\ pending' = r /\ deaf' = deaf \cup {d} /\ UNCHANGED <<operating, closing>>
    <3>1. Periodic' = A \ {d} /\ PollersOK'
      BY <2>1, <2>3 DEF A, Periodic, PollersOK
    <3> QED
      BY <1>9, <1>10, <2>3, <3>1
  <2>4. CASE /\ d \in closing /\ pending' = r /\ operating' = operating \ {d}
             /\ closing' = closing \ {d} /\ deaf' = deaf
    <3>1. Periodic' = A \ {d} /\ PollersOK'
      BY <2>1, <2>4 DEF A, Periodic, PollersOK
    <3> QED
      BY <1>9, <1>10, <2>4, <3>1
  <2> QED
    BY <1>10, <2>2, <2>3, <2>4 DEF Poll
<1> QED
  BY <1>6, <1>8, <1>10 DEF Fire, d, r

(* The key of an entry: a thread runs with nothing due; Sleep and Idle     *)
(* leave nothing late; a tick makes an entry late by at most that tick.    *)
Earliest == IF pc = "Run" THEN 1 ELSE IF pc \in {"Sleep", "Idle"} THEN 0 ELSE -SystemTick

(* What Powerdown finds in the list. *)
Quiet(q) == DOMAIN q.heap = {} \/ (DOMAIN q.heap = {q.first} /\ q.heap[q.first].item = Timer)

(* In IdleMode OneTick runs only in Cleanup, with at most the timer left.  *)
AgendaInv ==
    /\ StatusInv
    /\ user \in SUBSET Threads /\ PollersOK /\ level \in {"IntOff", "IntOn"}
    /\ yieldOnReturn \in BOOLEAN /\ halted \in BOOLEAN
    /\ Agenda(pending, Periodic)
    /\ KeysFrom(pending, Earliest)
    /\ pc \in {"Run", "Sleep"} => ~yieldOnReturn
    /\ pc = "Idle" => status = "IdleMode"
    /\ pc = "OneTick" /\ status = "IdleMode" => halted /\ ~yieldOnReturn /\ Quiet(pending)

LEMMA OnlyTimerIsQuiet ==
    ASSUME NEW q, NEW A, Agenda(q, A), ~IsEmpty(q)
    PROVE  OnlyTimer(q) <=> DOMAIN q.heap = {q.first} /\ q.heap[q.first].item = Timer
<1>1. DOMAIN SortedRemove(q).heap = DOMAIN q.heap \ {q.first} /\ Agenda(SortedRemove(q), A \ {First(q).item})
  BY RemoveAgenda
<1>2. IsEmpty(SortedRemove(q)) <=> DOMAIN q.heap \ {q.first} = {}
  BY <1>1, AgendaFacts
<1>3. q.first \in DOMAIN q.heap
  BY AgendaFacts
<1> QED
  BY <1>2, <1>3 DEF OnlyTimer, First

LEMMA InitAgenda == Init => AgendaInv
<1> SUFFICES ASSUME Init PROVE AgendaInv
  OBVIOUS
<1>1. StatusInv
  BY InitStatus
<1>2. Agenda(EmptyList, {}) /\ KeysFrom(EmptyList, 1)
  BY EmptyIsList DEF Agenda, KeysFrom, Entries
<1>3. CASE ~HasTimer
  <2>1. pending = EmptyList /\ Periodic = {}
    BY <1>3 DEF Init, Periodic
  <2> QED
    BY <1>1, <1>2, <2>1 DEF Init, AgendaInv, PollersOK, Earliest
<1>4. CASE HasTimer
  <2>1. PICK n \in TimerDelays : pending = SortedInsert(EmptyList, Timer, n)
    BY <1>4 DEF Init, Schedule
  <2>2. n \in Int /\ n >= 1 /\ Timer \in Sources /\ Timer \notin Devices /\ 1 \in Int
    BY InterruptAssumption DEF Sources
  <2>3. Agenda(pending, {} \cup ({Timer} \ Devices)) /\ KeysFrom(pending, 1)
    BY <1>2, <2>1, <2>2, InsertAgenda
  <2>4. {} \cup ({Timer} \ Devices) = Periodic
    BY <1>4, <2>2 DEF Init, Periodic
  <2> QED
    BY <1>1, <2>3, <2>4 DEF Init, AgendaInv, PollersOK, Earliest
<1> QED
  BY <1>3, <1>4, InterruptAssumption

(* OneTick advances the clock under a list q whose keys start at b. *)
LEMMA TickAgenda ==
    ASSUME NEW q, Agenda(q, Periodic), NEW b \in Int, KeysFrom(q, b), OneTick(q)
    PROVE  /\ Agenda(pending', Periodic)
           /\ KeysFrom(pending', b - (IF status' = "SystemMode" THEN SystemTick ELSE UserTick))
           /\ b >= 0 => KeysFrom(pending', -SystemTick)
           /\ Quiet(q) => Quiet(pending')
           /\ level' = "IntOff" /\ pc' = "OneTick"
<1> DEFINE n == IF status' = "SystemMode" THEN SystemTick ELSE UserTick
<1>1. n \in Int /\ n <= SystemTick /\ SystemTick \in Int
  BY InterruptAssumption
<1>2. pending' = Elapse(q, n) /\ level' = "IntOff" /\ pc' = "OneTick"
  BY DEF OneTick
<1> HIDE DEF n
<1>3. /\ Agenda(pending', Periodic) /\ KeysFrom(pending', b - n)
      /\ pending'.first = q.first /\ DOMAIN pending'.heap = DOMAIN q.heap
      /\ \A a \in DOMAIN q.heap : pending'.heap[a].item = q.heap[a].item
  BY <1>1, <1>2, ElapseAgenda
<1>4. ASSUME b >= 0 PROVE KeysFrom(pending', -SystemTick)
  <2>1. \A a \in DOMAIN pending'.heap : pending'.heap[a].key \in Int
    BY <1>3, AgendaFacts
  <2> QED
    BY <1>1, <1>3, <1>4, <2>1 DEF KeysFrom
<1>5. Quiet(q) => Quiet(pending')
  BY <1>3 DEF Quiet
<1> QED
  BY <1>2, <1>3, <1>4, <1>5 DEF n

(* Idle's jump to the first entry leaves no key below 0. *)
LEMMA JumpAgenda ==
    ASSUME Agenda(pending, Periodic), KeysFrom(pending, 0), ~IsEmpty(pending)
    PROVE  /\ Agenda(Jumped, Periodic) /\ KeysFrom(Jumped, 0) /\ ~IsEmpty(Jumped)
           /\ Quiet(pending) => Quiet(Jumped)
<1>1. CASE Due(pending)
  BY <1>1 DEF Jumped
<1>2. CASE ~Due(pending)
  <2> DEFINE k == First(pending).key
             m == Elapse(pending, k)
  <2>1. k \in Int /\ \A a \in DOMAIN pending.heap : k <= pending.heap[a].key /\ pending.heap[a].key \in Int
    BY AgendaFacts
  <2>2. Jumped = m
    BY <1>2 DEF Jumped
  <2> HIDE DEF k
  <2>3. KeysFrom(pending, k)
    BY <2>1 DEF KeysFrom
  <2>4. /\ Agenda(m, Periodic) /\ KeysFrom(m, k - k)
        /\ m.first = pending.first /\ DOMAIN m.heap = DOMAIN pending.heap
        /\ \A a \in DOMAIN pending.heap : m.heap[a].item = pending.heap[a].item
    BY <2>1, <2>3, ElapseAgenda
  <2>5. k - k = 0
    BY <2>1
  <2> HIDE DEF m
  <2>6. ~IsEmpty(m) /\ (Quiet(pending) => Quiet(m))
    BY <2>4 DEF IsEmpty, Quiet
  <2> QED
    BY <2>2, <2>4, <2>5, <2>6
<1> QED
  BY <1>1, <1>2

LEMMA AgendaStep == AgendaInv /\ [Next]_ivars => AgendaInv'
<1> SUFFICES ASSUME AgendaInv, [Next]_ivars PROVE AgendaInv'
  OBVIOUS
<1>s. StatusInv' /\ StatusInv
  BY StatusStep DEF AgendaInv
<1>t. /\ SystemTick \in Int /\ -SystemTick \in Int /\ 0 \in Int /\ 1 \in Int
      /\ -SystemTick <= 0 /\ UserTick \in Int /\ 0 <= 1 /\ -SystemTick <= 1
  BY InterruptAssumption
<1>p. /\ PollersOK /\ Agenda(pending, Periodic) /\ KeysFrom(pending, Earliest)
      /\ Earliest \in Int
      /\ Periodic \in SUBSET (Pollers \cup {Timer})
  BY <1>t DEF AgendaInv, Earliest, Periodic, PollersOK
<1>k. UNCHANGED pollers => PollersOK' /\ Periodic' = Periodic
  BY <1>p DEF pollers, PollersOK, Periodic
<1>u. user' \in SUBSET Threads
  <2>1. user' = user \/ user' = user \cup {cur}
    BY DEF Next, ThreadStep, StartPoller, ClosePoller, Request, SetLevelOn, RunUserProgram, UserInstruction, SyscallHalt,
           Sleep, CheckIfDue, OneTickReturn, OneTickYield, Dispatch, Idle, IdleReturn, IdlePowerdown,
           Stopped, ivars
  <2> QED
    BY <1>s, <2>1 DEF AgendaInv, StatusInv
<1>1. ASSUME NEW p \in Pollers, StartPoller(p) PROVE AgendaInv'
  <2>1. /\ pc = "Run" /\ p \notin operating /\ operating' = operating \cup {p}
        /\ pending' = SortedInsert(pending, p, PollTime[p])
        /\ UNCHANGED <<closing, deaf, level, status, yieldOnReturn, halted, pc>>
    BY <1>1 DEF StartPoller, Schedule
  <2>2. p \in Sources /\ p \notin Periodic /\ p \notin Devices /\ PollTime[p] \in Int /\ PollTime[p] >= 1
    BY <2>1, InterruptAssumption DEF Sources, Periodic
  <2>3. Agenda(pending', Periodic \cup ({p} \ Devices)) /\ KeysFrom(pending', 1)
    BY <1>p, <2>1, <2>2, InsertAgenda DEF Earliest
  <2>4. Periodic' = Periodic \cup ({p} \ Devices) /\ PollersOK'
    BY <1>p, <2>1, <2>2 DEF Periodic, PollersOK
  <2>5. Agenda(pending', Periodic') /\ KeysFrom(pending', Earliest')
    BY <2>1, <2>3, <2>4 DEF Earliest
  <2> QED
    BY <1>s, <1>p, <1>u, <2>1, <2>4, <2>5 DEF AgendaInv
<1>2. ASSUME NEW d \in Devices, Request(d) PROVE AgendaInv'
  <2>1. /\ pc = "Run" /\ pending' = SortedInsert(pending, d, Latency[d])
        /\ UNCHANGED <<pollers, level, status, yieldOnReturn, halted, pc>>
    BY <1>2 DEF Request, Schedule
  <2>2. d \in Sources /\ d \notin Periodic /\ Latency[d] \in Int /\ Latency[d] >= 1
    BY <1>p, InterruptAssumption DEF Sources, Periodic, PollersOK
  <2>3. Agenda(pending', Periodic \cup ({d} \ Devices)) /\ KeysFrom(pending', 1)
    BY <1>p, <2>1, <2>2, InsertAgenda DEF Earliest
  <2>4. Periodic' = Periodic \cup ({d} \ Devices)
    BY <1>k, <2>1
  <2>5. Agenda(pending', Periodic') /\ KeysFrom(pending', Earliest')
    BY <2>1, <2>3, <2>4 DEF Earliest
  <2> QED
    BY <1>s, <1>p, <1>k, <1>u, <2>1, <2>5 DEF AgendaInv
<1>3. ASSUME OneTick(pending), status' = status, pc = "Run" \/ pc = "Sleep",
             UNCHANGED <<pollers, yieldOnReturn, halted>>
      PROVE  AgendaInv'
  <2>1. status # "IdleMode"
    BY <1>s, <1>3 DEF StatusInv, Mode
  <2>2. KeysFrom(pending, 0)
    BY <1>p, <1>t, <1>3, AgendaFacts DEF KeysFrom, Earliest
  <2>3. Agenda(pending', Periodic) /\ KeysFrom(pending', -SystemTick) /\ level' = "IntOff" /\ pc' = "OneTick"
    BY <1>p, <1>t, <1>3, <2>2, TickAgenda
  <2>4. Periodic' = Periodic /\ Earliest' = -SystemTick
    BY <1>k, <1>3, <2>3 DEF Earliest
  <2>5. Agenda(pending', Periodic') /\ KeysFrom(pending', Earliest')
    BY <2>3, <2>4
  <2> QED
    BY <1>s, <1>p, <1>k, <1>u, <1>3, <2>1, <2>3, <2>5 DEF AgendaInv
<1>4. ASSUME SetLevelOn \/ UserInstruction \/ Dispatch PROVE AgendaInv'
  BY <1>3, <1>4 DEF SetLevelOn, UserInstruction, Dispatch
<1>5. ASSUME UNCHANGED <<pending, pollers, yieldOnReturn>>,
             level' \in {"IntOff", "IntOn"}, halted' \in BOOLEAN, pc = "Run", pc' \in {"Run", "Sleep", "Stopped"}
      PROVE  AgendaInv'
  <2>1. Periodic' = Periodic /\ KeysFrom(pending, 1) /\ ~yieldOnReturn
    BY <1>p, <1>k, <1>5 DEF Earliest, AgendaInv
  <2>2. \A a \in DOMAIN pending.heap : pending.heap[a].key \in Int
    BY <1>p, AgendaFacts
  <2>3. KeysFrom(pending', Earliest')
    BY <1>t, <1>5, <2>1, <2>2 DEF KeysFrom, Earliest
  <2>4. Agenda(pending', Periodic')
    BY <1>p, <1>5, <2>1
  <2> QED
    BY <1>s, <1>p, <1>k, <1>u, <1>5, <2>1, <2>3, <2>4 DEF AgendaInv
<1>6. ASSUME RunUserProgram \/ SyscallHalt \/ Sleep PROVE AgendaInv'
  BY <1>5, <1>6 DEF RunUserProgram, SyscallHalt, Sleep, AgendaInv
<1>7. ASSUME CheckIfDue PROVE AgendaInv'
  <2>1. /\ pc \in {"OneTick", "Idle"} /\ Due(pending) /\ ~(status = "IdleMode" /\ OnlyTimer(pending))
        /\ Fire(pending) /\ UNCHANGED <<level, status, halted, pc>>
    BY <1>7 DEF CheckIfDue
  <2>2. ~IsEmpty(pending)
    BY <2>1 DEF Due
  <2>3. /\ Agenda(pending', Periodic') /\ PollersOK'
        /\ \A n \in Int : KeysFrom(pending, n) /\ n <= 1 => KeysFrom(pending', n)
    BY <1>p, <2>1, <2>2, FireAgenda
  <2>4. Earliest' = Earliest /\ Earliest <= 1
    BY <1>t, <2>1 DEF Earliest
  <2>5. Agenda(pending', Periodic') /\ KeysFrom(pending', Earliest')
    BY <1>p, <2>3, <2>4
  <2>6. ~(pc = "OneTick" /\ status = "IdleMode")
    BY <1>p, <2>1, <2>2, OnlyTimerIsQuiet, AgendaFacts DEF AgendaInv, Quiet
  <2>7. yieldOnReturn' \in BOOLEAN
    BY <2>1, Zenon DEF Fire, TimerExpired, AgendaInv
  <2> QED
    BY <1>s, <1>u, <2>1, <2>3, <2>5, <2>6, <2>7 DEF AgendaInv
<1>8. ASSUME OneTickReturn PROVE AgendaInv'
  <2>1. /\ pc = "OneTick" /\ NothingToFire /\ ~yieldOnReturn
        /\ pending' = PutBack(pending) /\ level' = "IntOn"
        /\ pc' = (IF halted THEN "Stopped" ELSE "Run")
        /\ UNCHANGED <<yieldOnReturn, pollers, halted>>
    BY <1>8 DEF OneTickReturn
  <2>2. /\ Agenda(pending', Periodic) /\ \A n \in Int : KeysFrom(pending, n) => KeysFrom(pending', n)
    BY <1>p, <2>1, PutBackAgenda
  <2>3. ~halted => KeysFrom(pending, 1)
    BY <1>p, <2>1, NotDue DEF NothingToFire, AgendaInv
  <2>4. KeysFrom(pending, Earliest')
    BY <1>p, <2>1, <2>3 DEF Earliest
  <2>5. Agenda(pending', Periodic') /\ KeysFrom(pending', Earliest')
    <3>1. Earliest' \in Int /\ Periodic' = Periodic
      BY <1>t, <1>k, <2>1 DEF Earliest
    <3> QED
      BY <2>2, <2>4, <3>1
  <2> QED
    BY <1>s, <1>p, <1>k, <1>u, <2>1, <2>5 DEF AgendaInv
<1>9. ASSUME OneTickYield PROVE AgendaInv'
  <2>1. /\ pc = "OneTick" /\ NothingToFire /\ yieldOnReturn /\ yieldOnReturn' = FALSE
        /\ status' = "SystemMode" /\ OneTick(PutBack(pending))
        /\ UNCHANGED <<pollers, halted>>
    BY <1>9 DEF OneTickYield
  <2>2. KeysFrom(pending, 1)
    BY <1>p, <2>1, NotDue DEF NothingToFire, AgendaInv
  <2>3. Agenda(PutBack(pending), Periodic) /\ KeysFrom(PutBack(pending), 1)
    BY <1>p, <1>t, <2>2, PutBackAgenda
  <2>4. Agenda(pending', Periodic) /\ KeysFrom(pending', -SystemTick) /\ level' = "IntOff" /\ pc' = "OneTick"
    BY <1>p, <1>t, <2>1, <2>3, TickAgenda
  <2>5. Periodic' = Periodic /\ Earliest' = -SystemTick
    BY <1>k, <2>1, <2>4 DEF Earliest
  <2>6. Agenda(pending', Periodic') /\ KeysFrom(pending', Earliest')
    BY <2>4, <2>5
  <2> QED
    BY <1>s, <1>p, <1>k, <1>u, <2>1, <2>4, <2>6 DEF AgendaInv
<1>10. ASSUME Idle PROVE AgendaInv'
  <2>1. /\ pc = "Sleep" /\ ~IsEmpty(pending) /\ status' = "IdleMode" /\ pc' = "Idle" /\ Fire(Jumped)
        /\ UNCHANGED <<level, halted>>
    BY <1>10 DEF Idle
  <2>2. KeysFrom(pending, 0)
    BY <1>p, <2>1 DEF Earliest
  <2>3. Agenda(Jumped, Periodic) /\ KeysFrom(Jumped, 0) /\ ~IsEmpty(Jumped)
    BY <1>p, <2>1, <2>2, JumpAgenda
  <2>4. Agenda(pending', Periodic') /\ PollersOK' /\ KeysFrom(pending', 0)
    BY <1>p, <1>t, <2>1, <2>3, FireAgenda
  <2>5. Agenda(pending', Periodic') /\ KeysFrom(pending', Earliest')
    BY <2>1, <2>4 DEF Earliest
  <2>6. yieldOnReturn' \in BOOLEAN
    BY <2>1, Zenon DEF Fire, TimerExpired, AgendaInv
  <2> QED
    BY <1>s, <1>p, <1>u, <2>1, <2>4, <2>5, <2>6 DEF AgendaInv
<1>11. ASSUME IdleReturn PROVE AgendaInv'
  <2>1. /\ pc = "Idle" /\ pending' = PutBack(pending) /\ yieldOnReturn' = FALSE
        /\ status' = "SystemMode" /\ pc' = "Sleep" /\ UNCHANGED <<level, pollers, halted>>
    BY <1>11 DEF IdleReturn
  <2>2. KeysFrom(pending, 0)
    BY <1>p, <2>1 DEF Earliest
  <2>3. Agenda(pending', Periodic) /\ KeysFrom(pending', 0)
    BY <1>p, <1>t, <2>1, <2>2, PutBackAgenda
  <2>4. Agenda(pending', Periodic') /\ KeysFrom(pending', Earliest')
    BY <1>k, <2>1, <2>3 DEF Earliest
  <2> QED
    BY <1>s, <1>p, <1>k, <1>u, <2>1, <2>4 DEF AgendaInv
<1>12. ASSUME IdlePowerdown PROVE AgendaInv'
  <2> DEFINE q == IF IsEmpty(pending) THEN pending ELSE Jumped
  <2>1. /\ pc = "Sleep" /\ (IsEmpty(pending) \/ OnlyTimer(pending)) /\ status' = "IdleMode" /\ halted' = TRUE
        /\ OneTick(q) /\ UNCHANGED <<pollers, yieldOnReturn>>
    BY <1>12 DEF IdlePowerdown
  <2>2. KeysFrom(pending, 0) /\ ~yieldOnReturn
    BY <1>p, <2>1 DEF Earliest, AgendaInv
  <2>3. Quiet(pending)
    BY <1>p, <2>1, OnlyTimerIsQuiet, AgendaFacts DEF Quiet
  <2>4. Agenda(q, Periodic) /\ KeysFrom(q, 0) /\ Quiet(q)
    BY <1>p, <2>2, <2>3, JumpAgenda
  <2> HIDE DEF q
  <2>5. /\ Agenda(pending', Periodic) /\ KeysFrom(pending', -SystemTick) /\ Quiet(pending')
        /\ level' = "IntOff" /\ pc' = "OneTick"
    BY <1>p, <1>t, <2>1, <2>4, TickAgenda
  <2>6. Agenda(pending', Periodic') /\ KeysFrom(pending', Earliest')
    BY <1>k, <2>1, <2>5 DEF Earliest
  <2> QED
    BY <1>s, <1>p, <1>k, <1>u, <2>1, <2>2, <2>5, <2>6 DEF AgendaInv
<1>13. ASSUME UNCHANGED ivars PROVE AgendaInv'
  BY <1>s, <1>k, <1>13 DEF AgendaInv, ivars, Earliest
<1>14. ASSUME NEW p \in Consoles, ClosePoller(p) PROVE AgendaInv'
  <2>1. /\ p \in operating /\ closing' = closing \cup {p}
        /\ UNCHANGED <<operating, deaf, pending, level, status, yieldOnReturn, halted, pc>>
    BY <1>14 DEF ClosePoller
  <2>2. PollersOK' /\ Periodic' = Periodic /\ Earliest' = Earliest
    BY <1>p, <2>1 DEF PollersOK, Periodic, Earliest
  <2> QED
    BY <1>s, <1>u, <2>1, <2>2 DEF AgendaInv
<1> QED
  BY <1>1, <1>2, <1>4, <1>6, <1>7, <1>8, <1>9, <1>10, <1>11, <1>12, <1>13, <1>14 DEF Next, ThreadStep, Stopped

(* The list of the pending interrupts, entry by entry. *)
LEMMA AgendaElements ==
    ASSUME NEW q, NEW A, Agenda(q, A)
    PROVE  /\ DOMAIN Elements(q) = DOMAIN Items(q)
           /\ \A i \in DOMAIN Elements(q) :
                /\ Walk(q)[i] \in DOMAIN q.heap
                /\ Elements(q)[i] = q.heap[Walk(q)[i]]
                /\ Items(q)[i] = q.heap[Walk(q)[i]].item
           /\ \A i, j \in DOMAIN Elements(q) : Walk(q)[i] = Walk(q)[j] => i = j
           /\ \A a \in DOMAIN q.heap : \E i \in DOMAIN Elements(q) : Walk(q)[i] = a
<1> DEFINE w == Walk(q)
           N == Len(w)
<1>1. Chain(q, w, Sources)
  BY DEF Agenda, IsList
<1>2. w \in [1..N -> DOMAIN q.heap] /\ DOMAIN w = 1..N
  BY <1>1, ChainEnds
<1>3. Elements(q) = [i \in 1..N |-> q.heap[w[i]]] /\ Items(q) = [i \in 1..N |-> q.heap[w[i]].item]
  BY <1>2 DEF Elements, Items
<1>4. (\A i, j \in 1..N : w[i] = w[j] => i = j) /\ DOMAIN q.heap = {w[i] : i \in 1..N}
  BY <1>1 DEF Chain
<1> HIDE DEF w
<1>5. DOMAIN Elements(q) = 1..N /\ DOMAIN Items(q) = 1..N
  BY <1>3
<1> QED
  BY <1>2, <1>3, <1>4, <1>5 DEF w

LEMMA AgendaIsServed == AgendaInv => ServedInTime
<1> SUFFICES ASSUME AgendaInv PROVE ServedInTime
  OBVIOUS
<1>1. /\ Agenda(pending, Periodic) /\ KeysFrom(pending, Earliest) /\ StatusInv
      /\ IsList(pending, Sources) /\ Ascending(pending, Walk(pending))
  BY DEF AgendaInv, Agenda
<1>2. \A a \in DOMAIN pending.heap : pending.heap[a].item \in Sources /\ pending.heap[a].key \in Int
  BY <1>1, AgendaFacts
<1>3. TypeOK
  BY <1>1, <1>2 DEF AgendaInv, StatusInv, PollersOK, TypeOK, Sources
<1>4. WellFormed(pending) /\ Sorted(pending)
  BY <1>1, ListFacts, AscendingIsSorted
<1>5. ASSUME NEW p \in Periodic
      PROVE  Cardinality({i \in DOMAIN Items(pending) : Items(pending)[i] = p}) = 1
  <2> DEFINE T == {i \in DOMAIN Items(pending) : Items(pending)[i] = p}
  <2>1. PICK a \in DOMAIN pending.heap : Entries(pending, p) = {a}
    BY <1>1 DEF Agenda
  <2>2. PICK i \in DOMAIN Elements(pending) : Walk(pending)[i] = a
    BY <1>1, AgendaElements
  <2>3. i \in T
    BY <1>1, <2>1, <2>2, AgendaElements DEF Entries
  <2>4. ASSUME NEW j \in T PROVE j = i
    <3>1. j \in DOMAIN Elements(pending) /\ Walk(pending)[j] \in Entries(pending, p)
      BY <1>1, AgendaElements DEF Entries
    <3> QED
      BY <1>1, <2>1, <2>2, <3>1, AgendaElements
  <2>5. T = {i}
    BY <2>3, <2>4
  <2> QED
    BY <2>5, FS_Singleton
<1>6. ASSUME NEW p \in (Pollers \cup {Timer}) \ Periodic
      PROVE  Cardinality({i \in DOMAIN Items(pending) : Items(pending)[i] = p}) = 0
  <2>1. Entries(pending, p) = {}
    BY <1>1 DEF Agenda
  <2>2. {i \in DOMAIN Items(pending) : Items(pending)[i] = p} = {}
    BY <1>1, <2>1, AgendaElements DEF Entries
  <2> QED
    BY <2>2, FS_EmptySet
<1>7. QueueInv
  BY <1>3, <1>4, <1>5, <1>6 DEF QueueInv
<1>8. ASSUME NEW i \in DOMAIN Elements(pending)
      PROVE  Elements(pending)[i].key >= (IF pc = "Run" THEN 1 ELSE -SystemTick)
  <2>1. Walk(pending)[i] \in DOMAIN pending.heap /\ Elements(pending)[i] = pending.heap[Walk(pending)[i]]
    BY <1>1, AgendaElements
  <2>2. Elements(pending)[i].key >= Earliest /\ Elements(pending)[i].key \in Int
    BY <1>1, <1>2, <2>1 DEF KeysFrom
  <2> QED
    BY <2>2, InterruptAssumption DEF Earliest
<1> QED
  BY <1>7, <1>8 DEF ServedInTime

(* machine/interrupt.cc and threads/list.cc: whatever devices interrupt    *)
(* and however long their delays, the pending list stays well formed and   *)
(* sorted, the timer and every poller that operates keep exactly one       *)
(* entry, but for a console that has dropped a byte, no thread runs while  *)
(* an interrupt is due, and none is served more than a system tick late.   *)
THEOREM InterruptsAreServedInTime == Spec => []ServedInTime
BY InitAgenda, AgendaStep, AgendaIsServed, PTL DEF Spec

(* machine/interrupt.cc, Interrupt::Idle: Nachos halts for want of work    *)
(* only when no request to a device is pending and every poller that was   *)
(* started is deleted, or is a console that has dropped a byte: the only   *)
(* way its polling stops while it operates.                                *)
THEOREM NoPowerdownWhileOperating == Spec => PowerdownOnlyWhenQuiet
<1> DEFINE A == pc = "Sleep" /\ halted' /\ ~halted =>
                  operating \subseteq deaf /\ \A d \in Devices : ~Scheduled(pending, d)
<1>1. AgendaInv /\ [Next]_ivars => [A]_ivars
  <2> SUFFICES ASSUME AgendaInv, Next, pc = "Sleep", halted', ~halted
               PROVE  operating \subseteq deaf /\ \A d \in Devices : ~Scheduled(pending, d)
    BY DEF ivars
  <2>1. IdlePowerdown
    BY DEF Next, ThreadStep, StartPoller, ClosePoller, Request, SetLevelOn, RunUserProgram, UserInstruction, SyscallHalt,
           Sleep, CheckIfDue, OneTickReturn, OneTickYield, Dispatch, Idle, IdleReturn, Stopped
  <2>2. Agenda(pending, Periodic) /\ operating \in SUBSET Pollers
    BY DEF AgendaInv, PollersOK
  <2>3. Quiet(pending)
    BY <2>1, <2>2, OnlyTimerIsQuiet, AgendaFacts DEF Quiet, IdlePowerdown
  <2>4. \A a \in DOMAIN pending.heap : pending.heap[a].item = Timer
    BY <2>3 DEF Quiet
  <2>5. ASSUME NEW p \in operating \ deaf PROVE FALSE
    <3>1. PICK a \in DOMAIN pending.heap : Entries(pending, p) = {a}
      BY <2>2 DEF Agenda, Periodic
    <3>2. pending.heap[a].item = p
      BY <3>1 DEF Entries
    <3> QED
      BY <2>2, <2>4, <3>2, InterruptAssumption
  <2>6. ASSUME NEW d \in Devices, Scheduled(pending, d) PROVE FALSE
    <3>1. PICK i \in DOMAIN Elements(pending) : Elements(pending)[i].item = d
      BY <2>6 DEF Scheduled
    <3>2. Walk(pending)[i] \in DOMAIN pending.heap /\ Elements(pending)[i] = pending.heap[Walk(pending)[i]]
      BY <2>2, AgendaElements
    <3> QED
      BY <2>4, <3>1, <3>2, InterruptAssumption
  <2> QED
    BY <2>5, <2>6
<1> QED
  BY <1>1, InitAgenda, AgendaStep, PTL DEF Spec, PowerdownOnlyWhenQuiet

=============================================================================
