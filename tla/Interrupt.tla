------------------------------ MODULE Interrupt ------------------------------
(***************************************************************************)
(* Simulated time and interrupts (machine/interrupt.cc, machine/timer.cc): *)
(* the clock, the pending interrupts, the machine status, and what happens *)
(* to them when the thread on the CPU is preempted.                        *)
(*                                                                         *)
(* Three kinds of interrupts: the timer of -rs, which asks for a yield;    *)
(* pollers (console, network), which schedule themselves again, except     *)
(* that a console's poll returns without it when it drops a byte and when  *)
(* the console is being deleted; devices that interrupt once per request.  *)
(* Which thread the scheduler picks is left open (module Kernel has the    *)
(* scheduler).                                                             *)
(***************************************************************************)
EXTENDS EventQueue

CONSTANTS
    Threads, Main,
    Timer,          \* the timer device
    TimerDelays,    \* what TimeOfNextInterrupt may return
    HasTimer,       \* TRUE iff Nachos was started with -rs
    Pollers,        \* devices that poll
    Consoles,       \* those among them that are consoles
    PollTime,       \* [Pollers -> Nat \ {0}]
    Devices,        \* devices that interrupt once per request
    Latency,        \* [Devices -> Nat \ {0}]
    SystemTick, UserTick

ASSUME InterruptAssumption ==
    /\ Main \in Threads /\ HasTimer \in BOOLEAN
    /\ TimerDelays \subseteq Nat \ {0} /\ TimerDelays # {}
    /\ PollTime \in [Pollers -> Nat \ {0}] /\ Consoles \subseteq Pollers
    /\ Latency \in [Devices -> Nat \ {0}]
    /\ Timer \notin Pollers \cup Devices /\ Pollers \cap Devices = {}
    /\ SystemTick \in Nat /\ UserTick \in Nat /\ UserTick <= SystemTick

VARIABLES
    cur,            \* the thread on the CPU
    user,           \* threads that are inside Machine::Run
    saved,          \* OneTick's local "old", while the thread is in its Yield
    level, status, yieldOnReturn, pending,   \* fields of class Interrupt
    operating,      \* pollers that were constructed and are not deleted
    closing,        \* consoles whose destructor waits for their last poll
    deaf,           \* history: operating consoles that have dropped a byte
    halted,         \* Cleanup has started
    pc

pollers == <<operating, closing, deaf>>

ivars == <<cur, user, saved, level, status, yieldOnReturn, pending, pollers,
           halted, pc>>

MachineStatus == {"IdleMode", "SystemMode", "UserMode"}

(* OneTick up to its first CheckIfDue, with q the pending interrupts. *)
OneTick(q) ==
    /\ pending' = Elapse(q, IF status' = "SystemMode" THEN SystemTick ELSE UserTick)
    /\ level' = "IntOff"
    /\ pc' = "OneTick"

(* The timer's handler: schedule the next expiry, then ask for a yield. *)
TimerExpired(q) ==
    /\ \E n \in TimerDelays : pending' = Schedule(q, Timer, n)
    /\ yieldOnReturn' = TRUE

(* The handler of poller p.  CheckCharAvail returns early when it drops a  *)
(* byte, and schedules no poll once ~Console has marked the console.       *)
Poll(p, q) ==
    \/ /\ p \notin closing
       /\ pending' = Schedule(q, p, PollTime[p])
       /\ UNCHANGED pollers
    \/ /\ p \in Consoles \ closing
       /\ pending' = q
       /\ deaf' = deaf \cup {p}
       /\ UNCHANGED <<operating, closing>>
    \/ /\ p \in closing
       /\ pending' = q
       /\ operating' = operating \ {p} /\ closing' = closing \ {p}
       /\ UNCHANGED deaf

(* CheckIfDue runs the handler of q's first entry.  A handler runs with    *)
(* interrupts off and to completion; it may schedule and wake threads.     *)
Fire(q) ==
    \/ /\ First(q).item = Timer
       /\ TimerExpired(SortedRemove(q))
       /\ UNCHANGED pollers
    \/ /\ First(q).item \in Pollers
       /\ Poll(First(q).item, SortedRemove(q))
       /\ UNCHANGED yieldOnReturn
    \/ /\ First(q).item \in Devices
       /\ pending' = SortedRemove(q)
       /\ UNCHANGED <<yieldOnReturn, pollers>>

(* Mutant of OnlyTimer: it only looks at the first interrupt. *)
OnlyTimer_First(q) == First(q).item = Timer

(* "Check if there is nothing more to do": only the timer is left. *)
OnlyTimer(q) == IsEmpty(SortedRemove(q)) /\ First(q).item = Timer

-----------------------------------------------------------------------------

Init ==
    /\ cur = Main
    /\ user = {}
    /\ saved = [t \in Threads |-> "none"]
    /\ level = "IntOn" /\ status = "SystemMode" /\ yieldOnReturn = FALSE
    /\ IF HasTimer THEN \E n \in TimerDelays : pending = Schedule(EmptyList, Timer, n)
                   ELSE pending = EmptyList
    /\ operating = {} /\ closing = {} /\ deaf = {}
    /\ halted = FALSE
    /\ pc = "Run"

(* A kernel thread constructs a polling device, deletes a console, or      *)
(* sends a request to a device, all with interrupts on.                    *)
StartPoller(p) ==
    /\ pc = "Run" /\ cur \notin user /\ p \notin operating
    /\ operating' = operating \cup {p}
    /\ pending' = Schedule(pending, p, PollTime[p])
    /\ UNCHANGED <<closing, deaf, cur, user, saved, level, status, yieldOnReturn, halted, pc>>

(* ~Console marks the console and waits for the poll that is scheduled.    *)
ClosePoller(p) ==
    /\ pc = "Run" /\ cur \notin user /\ p \in operating \ closing
    /\ closing' = closing \cup {p}
    /\ UNCHANGED <<operating, deaf, cur, user, saved, level, status, yieldOnReturn, pending,
                   halted, pc>>

Request(d) ==
    /\ pc = "Run" /\ cur \notin user /\ ~Scheduled(pending, d)
    /\ pending' = Schedule(pending, d, Latency[d])
    /\ UNCHANGED <<cur, user, saved, level, status, yieldOnReturn, pollers, halted,
                   pc>>

(* A kernel thread enables interrupts again after an atomic section. *)
SetLevelOn ==
    /\ pc = "Run" /\ cur \notin user
    /\ UNCHANGED status
    /\ OneTick(pending)
    /\ UNCHANGED <<cur, user, saved, yieldOnReturn, pollers, halted>>

(* Machine::Run starts, and interprets one instruction. *)
RunUserProgram ==
    /\ pc = "Run" /\ cur \notin user
    /\ user' = user \cup {cur}
    /\ status' = "UserMode"
    /\ UNCHANGED <<cur, saved, level, yieldOnReturn, pending, pollers, halted, pc>>

UserInstruction ==
    /\ pc = "Run" /\ cur \in user
    /\ UNCHANGED status
    /\ OneTick(pending)
    /\ UNCHANGED <<cur, user, saved, yieldOnReturn, pollers, halted>>

(* System call Halt: RaiseException enters SystemMode, Powerdown calls     *)
(* Cleanup, whose Enable() finds interrupts on already.                    *)
SyscallHalt ==
    /\ pc = "Run" /\ cur \in user
    /\ status' = "SystemMode"
    /\ halted' = TRUE /\ pc' = "Stopped"
    /\ UNCHANGED <<cur, user, saved, level, yieldOnReturn, pending, pollers>>

(* CheckIfDue(FALSE) in OneTick's or in Idle's loop.  (The DelayedLoad it  *)
(* makes in UserMode is action Interrupted of module UserProgram.)         *)
CheckIfDue ==
    /\ pc \in {"OneTick", "Idle"} /\ Due(pending)
    /\ ~(status = "IdleMode" /\ OnlyTimer(pending))
    /\ Fire(pending)
    /\ UNCHANGED <<cur, user, saved, level, status, halted, pc>>

NothingToFire == ~Due(pending) \/ (status = "IdleMode" /\ OnlyTimer(pending))

(* OneTick returns to the thread.  A thread that yielded here, perhaps     *)
(* several times, gets back the status of its outermost OneTick.           *)
OneTickReturn ==
    /\ pc = "OneTick" /\ NothingToFire /\ ~yieldOnReturn
    /\ pending' = PutBack(pending)
    /\ level' = "IntOn"
    /\ status' = IF saved[cur] = "none" THEN status ELSE saved[cur]
    /\ saved' = [saved EXCEPT ![cur] = "none"]
    /\ pc' = IF halted THEN "Stopped" ELSE "Run"
    /\ UNCHANGED <<cur, user, yieldOnReturn, pollers, halted>>

(* Mutant of OneTickYield: the machine status is not saved. *)
OneTickYield_NotSaved ==
    /\ pc = "OneTick" /\ NothingToFire /\ yieldOnReturn
    /\ yieldOnReturn' = FALSE
    /\ status' = "SystemMode"
    /\ cur' \in IF halted THEN {cur} ELSE Threads
    /\ OneTick(PutBack(pending))
    /\ UNCHANGED <<user, saved, pollers, halted>>

(* OneTick yields.  Whichever thread gets the CPU, perhaps the same, is    *)
(* itself about to enable interrupts.  Once halted nobody else gets it.    *)
OneTickYield ==
    /\ pc = "OneTick" /\ NothingToFire /\ yieldOnReturn
    /\ yieldOnReturn' = FALSE
    /\ saved' = [saved EXCEPT ![cur] = IF @ = "none" THEN status ELSE @]
    /\ status' = "SystemMode"
    /\ cur' \in IF halted THEN {cur} ELSE Threads
    /\ OneTick(PutBack(pending))
    /\ UNCHANGED <<user, pollers, halted>>

(* Thread::Sleep of a kernel thread; another thread is found ready, now or *)
(* after Idle.                                                             *)
Sleep ==
    /\ pc = "Run" /\ cur \notin user
    /\ level' = "IntOff" /\ pc' = "Sleep"
    /\ UNCHANGED <<cur, user, saved, status, yieldOnReturn, pending, pollers, halted>>

Dispatch ==
    /\ pc = "Sleep"
    /\ cur' \in Threads
    /\ UNCHANGED status
    /\ OneTick(pending)
    /\ UNCHANGED <<user, saved, yieldOnReturn, pollers, halted>>

(* CheckIfDue(TRUE): the clock jumps to the first interrupt's time unless  *)
(* it has passed already.                                                  *)
Jumped == IF Due(pending) THEN pending ELSE Elapse(pending, First(pending).key)

Idle ==
    /\ pc = "Sleep" /\ ~IsEmpty(pending) /\ ~OnlyTimer(pending)
    /\ status' = "IdleMode" /\ pc' = "Idle"
    /\ Fire(Jumped)
    /\ UNCHANGED <<cur, user, saved, level, halted>>

IdleReturn ==
    /\ pc = "Idle" /\ NothingToFire
    /\ pending' = PutBack(pending)
    /\ yieldOnReturn' = FALSE
    /\ status' = "SystemMode" /\ pc' = "Sleep"
    /\ UNCHANGED <<cur, user, saved, level, pollers, halted>>

(* Nothing to wait for: Powerdown, Cleanup, whose Enable() ticks once more *)
(* in IdleMode.                                                            *)
IdlePowerdown ==
    /\ pc = "Sleep" /\ (IsEmpty(pending) \/ OnlyTimer(pending))
    /\ status' = "IdleMode"
    /\ halted' = TRUE
    /\ OneTick(IF IsEmpty(pending) THEN pending ELSE Jumped)
    /\ UNCHANGED <<cur, user, saved, yieldOnReturn, pollers>>

Stopped == pc = "Stopped" /\ UNCHANGED ivars

ThreadStep ==
    \/ \E p \in Pollers : StartPoller(p)
    \/ \E p \in Consoles : ClosePoller(p)
    \/ \E d \in Devices : Request(d)
    \/ SetLevelOn \/ RunUserProgram \/ UserInstruction \/ SyscallHalt \/ Sleep

Next ==
    \/ ThreadStep
    \/ CheckIfDue \/ OneTickReturn \/ OneTickYield
    \/ Dispatch \/ Idle \/ IdleReturn \/ IdlePowerdown \/ Stopped

Spec == Init /\ [][Next]_ivars

FairSpec == Spec /\ WF_ivars(Next)

-----------------------------------------------------------------------------

(* Interrupt: machine status, level and pending interrupts are well formed. *)
TypeOK ==
    /\ cur \in Threads /\ user \subseteq Threads
    /\ saved \in [Threads -> MachineStatus \cup {"none"}]
    /\ level \in {"IntOff", "IntOn"} /\ status \in MachineStatus
    /\ yieldOnReturn \in BOOLEAN /\ halted \in BOOLEAN
    /\ \A a \in DOMAIN pending.heap : /\ pending.heap[a].item \in {Timer} \cup Pollers \cup Devices
                                     /\ pending.heap[a].key \in Int
    /\ operating \subseteq Pollers /\ closing \cup deaf \subseteq operating \cap Consoles
    /\ pc \in {"Run", "OneTick", "Sleep", "Idle", "Stopped"}

(* The devices that keep themselves scheduled. *)
Periodic == (operating \ deaf) \cup (IF HasTimer THEN {Timer} ELSE {})

(* List::SortedInsert, CheckIfDue, Timer::TimerExpired and the pollers'    *)
(* handlers: the pending list's links and its last pointer stay consistent *)
(* and it stays sorted although the clock moves under it and entries are   *)
(* taken out and put back, so the first entry is always the next to occur; *)
(* the timer and every poller that operates have exactly one interrupt     *)
(* pending, through deletion and construction, but for a console that has  *)
(* dropped a byte; that one, and one that is deleted, have none.           *)
QueueInv ==
    /\ TypeOK
    /\ WellFormed(pending) /\ Sorted(pending)
    /\ \A p \in Pollers \cup {Timer} :
         Cardinality({i \in DOMAIN Items(pending) : Items(pending)[i] = p})
           = IF p \in Periodic THEN 1 ELSE 0

(* Interrupt::OneTick and CheckIfDue, with the pending list always in      *)
(* order: a thread never runs while an interrupt is due, and no interrupt  *)
(* is served more than one system tick late, even the timer's that Idle    *)
(* leaves pending.                                                         *)
ServedInTime ==
    /\ QueueInv
    /\ \A i \in DOMAIN Elements(pending) :
         Elements(pending)[i].key >= (IF pc = "Run" THEN 1 ELSE -SystemTick)

(* Interrupt::OneTick, "status = old": the status is saved by one thread   *)
(* and restored after others have run and changed it, and still a thread   *)
(* in Machine::Run runs in UserMode, a kernel thread in SystemMode.        *)
StatusMatchesThread ==
    pc = "Run" => status = IF cur \in user THEN "UserMode" ELSE "SystemMode"

(* Interrupt::Idle: Nachos powers itself down only when no request to a    *)
(* device is outstanding and every poller is deleted, or is a console that *)
(* has dropped a byte.  That exception is what the comment there, "If the  *)
(* console or the network is operating, there are *always* pending         *)
(* interrupts", misses (AlwaysPolling in module Console).                  *)
PowerdownOnlyWhenQuiet ==
    [][pc = "Sleep" /\ halted' /\ ~halted =>
         operating \subseteq deaf /\ \A d \in Devices : ~Scheduled(pending, d)]_ivars

(* OneTick and Idle: the loops "while (CheckIfDue(FALSE))" end, since      *)
(* every handler schedules its next interrupt in the future.  (That the    *)
(* handlers return is taken for granted here; module Console has the one   *)
(* that may wait for the user.)                                            *)
DrainEnds ==
    /\ pc = "Idle" ~> pc = "Sleep"
    /\ (pc = "OneTick" /\ Due(pending) /\ status # "IdleMode") ~> (pc = "OneTick" /\ NothingToFire)

=============================================================================
