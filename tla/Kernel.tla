------------------------------- MODULE Kernel -------------------------------
(***************************************************************************)
(* The Nachos kernel core: threads (threads/thread.cc), the scheduler      *)
(* (threads/scheduler.cc), semaphores (threads/synch.cc), the halt path    *)
(* (threads/system.cc) and the points where machine/interrupt.cc may run   *)
(* interrupt handlers or switch threads.                                   *)
(*                                                                         *)
(* Nachos simulates one processor.  Kernel code runs atomically while      *)
(* interrupts are off, and simulated time advances only where interrupts   *)
(* are turned back on (Interrupt::OneTick) or where nothing is runnable    *)
(* (Interrupt::Idle).  An action is therefore the code between two such    *)
(* points.  The threads' own code is the most general one: a running       *)
(* thread may make any kernel call at any time.  Simulated time is left    *)
(* out: any outstanding interrupt may be due whenever the code looks       *)
(* (module Interrupt has the clock).                                       *)
(***************************************************************************)
EXTENDS Naturals, Sequences, FiniteSets, Functions

CONSTANTS
    Threads,        \* thread objects; a deleted object may be allocated again
    Main,           \* the thread that runs main()
    NULL,           \* the null thread pointer
    Semaphores,
    InitialValue,   \* [Semaphores -> Nat], the constructors' argument
    Devices,        \* devices whose interrupt handler does a Semaphore::V
    DoneSemaphore,  \* [Devices -> Semaphores], the semaphore it signals
    HasTimer,       \* TRUE iff Nachos was started with -rs
    MaxValue        \* bound: no explicit V on, or request for, a fuller semaphore

ThreadStatus == {"NONE", "JUST_CREATED", "RUNNING", "READY", "BLOCKED"}

(* Where a thread that is not on the CPU goes on when SWITCH returns in it. *)
Continuations == {"None", "Root", "Yield", "Finish"} \cup Semaphores

(* Where the code running on the CPU stands. *)
Control == {"Body", "OneTick", "Sleep", "Idle", "Switched", "Deleting", "Exit"}

ASSUME ThreadAssumption == Main \in Threads /\ NULL \notin Threads /\ IsFiniteSet(Threads)
ASSUME SemaphoreAssumption ==
    /\ InitialValue \in [Semaphores -> Nat]
    /\ Semaphores \cap {"None", "Root", "Yield", "Finish"} = {}
ASSUME DeviceAssumption == DoneSemaphore \in [Devices -> Semaphores]
ASSUME BoundAssumption == HasTimer \in BOOLEAN /\ MaxValue \in Nat

VARIABLES
    currentThread,       \* the thread on the CPU
    threadToBeDestroyed, \* a finished thread whose stack is still in use
    status,              \* Thread::status; "NONE" when not in ThreadList
    resume,              \* continuation of each thread that was switched out
    readyList,           \* Scheduler::readyList
    halted,              \* Scheduler::halted, set together with "cleaning"
    value, queue,        \* Semaphore::value and Semaphore::queue
    level,               \* Interrupt::level
    yieldOnReturn,       \* Interrupt::yieldOnReturn
    machineStatus,       \* Interrupt::status (kernel threads only)
    pending,             \* devices with an interrupt scheduled
    pc                   \* control point of the code on the CPU

threadVars == <<currentThread, threadToBeDestroyed, status, resume, readyList>>
semVars    == <<value, queue>>
intVars    == <<level, yieldOnReturn, machineStatus, pending>>
vars       == <<threadVars, semVars, intVars, halted, pc>>

(***************************************************************************)
(* State changes shared by several operations.                             *)
(***************************************************************************)

ReadyToRun(t) ==
    /\ status' = [status EXCEPT ![t] = "READY"]
    /\ readyList' = Append(readyList, t)

(* Mutants of Signal: only a V that finds the value 0 wakes a thread; none *)
(* does.                                                                   *)
Signal_OnlyFromZero(s) ==
    /\ IF queue[s] = <<>> \/ value[s] > 0
         THEN UNCHANGED <<queue, status, readyList>>
         ELSE /\ queue' = [queue EXCEPT ![s] = Tail(@)]
              /\ ReadyToRun(Head(queue[s]))
    /\ value' = [value EXCEPT ![s] = @ + 1]

Signal_WakesNobody(s) ==
    /\ value' = [value EXCEPT ![s] = @ + 1]
    /\ UNCHANGED <<queue, status, readyList>>

(* Semaphore::V between its two SetLevel calls: the first waiter becomes   *)
(* ready and the value goes up, waiter or not.                             *)
Signal(s) ==
    /\ IF queue[s] = <<>>
         THEN UNCHANGED <<queue, status, readyList>>
         ELSE /\ queue' = [queue EXCEPT ![s] = Tail(@)]
              /\ ReadyToRun(Head(queue[s]))
    /\ value' = [value EXCEPT ![s] = @ + 1]

(* Mutant of CanDispatch: FindNextToRun does not look at "halted". *)
CanDispatch_WhenHalted == readyList # <<>>

(* FindNextToRun finds a thread. *)
CanDispatch == ~halted /\ readyList # <<>>

(* SetLevel(IntOn) from IntOff: OneTick turns interrupts off again before  *)
(* it looks for due interrupts.                                            *)
EnterOneTick == pc' = "OneTick" /\ level' = "IntOff"

(* Mutant of DoYield: the thread goes back to the front of the ready list. *)
DoYield_ToFront ==
    IF CanDispatch
      THEN /\ status' = [status EXCEPT ![currentThread] = "READY",
                                       ![Head(readyList)] = "RUNNING"]
           /\ readyList' = <<currentThread>> \o Tail(readyList)
           /\ resume' = [resume EXCEPT ![currentThread] = "Yield"]
           /\ currentThread' = Head(readyList)
           /\ pc' = "Switched" /\ level' = "IntOff"
      ELSE /\ UNCHANGED <<status, readyList, resume, currentThread>>
           /\ EnterOneTick

(* Yield, from its SetLevel(IntOff) to the SWITCH or to the trailing       *)
(* SetLevel(IntOn).                                                        *)
DoYield ==
    IF CanDispatch
      THEN LET next == Head(readyList) IN
           /\ status' = [status EXCEPT ![currentThread] = "READY",
                                       ![next] = "RUNNING"]
           /\ readyList' = Append(Tail(readyList), currentThread)
           /\ resume' = [resume EXCEPT ![currentThread] = "Yield"]
           /\ currentThread' = next
           /\ pc' = "Switched" /\ level' = "IntOff"
      ELSE /\ UNCHANGED <<status, readyList, resume, currentThread>>
           /\ EnterOneTick

(* The body of P's loop and what follows it.  Sleep marks the thread       *)
(* BLOCKED; the search for another thread is action FindAndRun.            *)
DoP(s) ==
    IF value[s] = 0
      THEN /\ queue' = [queue EXCEPT ![s] = Append(@, currentThread)]
           /\ status' = [status EXCEPT ![currentThread] = "BLOCKED"]
           /\ resume' = [resume EXCEPT ![currentThread] = s]
           /\ pc' = "Sleep" /\ level' = "IntOff"
           /\ UNCHANGED value
      ELSE /\ value' = [value EXCEPT ![s] = @ - 1]
           /\ EnterOneTick
           /\ UNCHANGED <<queue, status, resume>>

(***************************************************************************)
(* Initialize() is done: main runs, interrupts are on.                     *)
(***************************************************************************)
Init ==
    /\ currentThread = Main
    /\ threadToBeDestroyed = NULL
    /\ status = [t \in Threads |-> IF t = Main THEN "RUNNING" ELSE "NONE"]
    /\ resume = [t \in Threads |-> "None"]
    /\ readyList = <<>>
    /\ halted = FALSE
    /\ value = InitialValue
    /\ queue = [s \in Semaphores |-> <<>>]
    /\ level = "IntOn"
    /\ yieldOnReturn = FALSE
    /\ machineStatus = "SystemMode"
    /\ pending = {}
    /\ pc = "Body"

(***************************************************************************)
(* Calls made by the running thread, interrupts on.                        *)
(***************************************************************************)

NewThread(t) ==
    /\ pc = "Body" /\ status[t] = "NONE"
    /\ status' = [status EXCEPT ![t] = "JUST_CREATED"]
    /\ UNCHANGED <<currentThread, threadToBeDestroyed, resume, readyList,
                   semVars, intVars, halted, pc>>

Start(t) ==
    /\ pc = "Body" /\ status[t] = "JUST_CREATED"
    /\ resume' = [resume EXCEPT ![t] = "Root"]
    /\ ReadyToRun(t)
    /\ EnterOneTick
    /\ UNCHANGED <<currentThread, threadToBeDestroyed, semVars, halted,
                   yieldOnReturn, machineStatus, pending>>

Yield ==
    /\ pc = "Body"
    /\ DoYield
    /\ UNCHANGED <<threadToBeDestroyed, semVars, halted,
                   yieldOnReturn, machineStatus, pending>>

P(s) ==
    /\ pc = "Body"
    /\ DoP(s)
    /\ UNCHANGED <<currentThread, threadToBeDestroyed, readyList, halted,
                   yieldOnReturn, machineStatus, pending>>

V(s) ==
    /\ pc = "Body" /\ value[s] < MaxValue
    /\ Signal(s)
    /\ EnterOneTick
    /\ UNCHANGED <<currentThread, threadToBeDestroyed, resume, halted,
                   yieldOnReturn, machineStatus, pending>>

(* Finish, called by ThreadRoot when the thread's procedure returns, or by *)
(* main().                                                                 *)
Finish ==
    /\ pc = "Body"
    /\ threadToBeDestroyed' = currentThread
    /\ status' = [status EXCEPT ![currentThread] = "BLOCKED"]
    /\ resume' = [resume EXCEPT ![currentThread] = "Finish"]
    /\ pc' = "Sleep" /\ level' = "IntOff"
    /\ UNCHANGED <<currentThread, readyList, semVars, halted,
                   yieldOnReturn, machineStatus, pending>>

(* A device request schedules the device's interrupt, interrupts on. *)
Request(d) ==
    /\ pc = "Body" /\ d \notin pending /\ value[DoneSemaphore[d]] < MaxValue
    /\ pending' = pending \cup {d}
    /\ UNCHANGED <<threadVars, semVars, halted, level, yieldOnReturn,
                   machineStatus, pc>>

(***************************************************************************)
(* Sleep and Idle, interrupts off, on the stack of a thread that blocked.  *)
(***************************************************************************)

(* Sleep finds a thread, possibly the sleeper itself, woken from Idle. *)
FindAndRun ==
    /\ pc = "Sleep" /\ CanDispatch
    /\ currentThread' = Head(readyList)
    /\ status' = [status EXCEPT ![Head(readyList)] = "RUNNING"]
    /\ readyList' = Tail(readyList)
    /\ pc' = "Switched"
    /\ UNCHANGED <<threadToBeDestroyed, resume, semVars, intVars, halted>>

(* Idle, CheckIfDue(TRUE): the clock jumps to the next interrupt.  The     *)
(* timer's is not taken when it is the only one.                           *)
IdleDevice(d) ==
    /\ pc = "Sleep" /\ ~CanDispatch /\ d \in pending
    /\ pending' = pending \ {d}
    /\ Signal(DoneSemaphore[d])
    /\ machineStatus' = "IdleMode" /\ pc' = "Idle"
    /\ UNCHANGED <<currentThread, threadToBeDestroyed, resume, halted, level,
                   yieldOnReturn>>

IdleTimer ==
    /\ pc = "Sleep" /\ ~CanDispatch /\ HasTimer /\ pending # {}
    /\ yieldOnReturn' = TRUE
    /\ machineStatus' = "IdleMode" /\ pc' = "Idle"
    /\ UNCHANGED <<threadVars, semVars, halted, level, pending>>

(* Idle has drained the due interrupts; Sleep looks at the ready list again. *)
IdleReturn ==
    /\ pc = "Idle"
    /\ yieldOnReturn' = FALSE
    /\ machineStatus' = "SystemMode" /\ pc' = "Sleep"
    /\ UNCHANGED <<threadVars, semVars, halted, level, pending>>

(***************************************************************************)
(* CheckIfDue(FALSE), called in a loop by OneTick and by Idle.             *)
(***************************************************************************)

DeviceInterrupt(d) ==
    /\ pc \in {"OneTick", "Idle"} /\ d \in pending
    /\ pending' = pending \ {d}
    /\ Signal(DoneSemaphore[d])
    /\ UNCHANGED <<currentThread, threadToBeDestroyed, resume, halted, level,
                   yieldOnReturn, machineStatus, pc>>

(* TimerExpired schedules the next tick and calls TimerInterruptHandler,   *)
(* whose test for IdleMode CheckIfDue has made true.                       *)
TimerInterrupt ==
    /\ pc \in {"OneTick", "Idle"} /\ HasTimer
    /\ ~(machineStatus = "IdleMode" /\ pending = {})
    /\ yieldOnReturn' = TRUE
    /\ UNCHANGED <<threadVars, semVars, halted, level, machineStatus, pending,
                   pc>>

(* OneTick returns, or yields on behalf of the timer. *)
OneTickReturn ==
    /\ pc = "OneTick"
    /\ IF yieldOnReturn
         THEN DoYield
         ELSE /\ level' = "IntOn"
              /\ pc' = IF halted THEN "Deleting" ELSE "Body"
              /\ UNCHANGED <<status, readyList, resume, currentThread>>
    /\ yieldOnReturn' = FALSE
    /\ UNCHANGED <<threadToBeDestroyed, semVars, halted, machineStatus, pending>>

(***************************************************************************)
(* SWITCH has returned: in Scheduler::Run for a thread that ran before, in *)
(* SetupThreadState for a new one.  Both first delete the finished thread. *)
(***************************************************************************)

DeleteCarcass ==
    [t \in Threads |-> IF t = threadToBeDestroyed THEN "NONE" ELSE status[t]]

ForgetCarcass ==
    [t \in Threads |-> IF t = threadToBeDestroyed THEN "None" ELSE resume[t]]

(* A new thread enables interrupts; a yielding one restores the level. *)
ResumeRunning ==
    /\ pc = "Switched" /\ resume[currentThread] \in {"Root", "Yield"}
    /\ status' = DeleteCarcass
    /\ resume' = [ForgetCarcass EXCEPT ![currentThread] = "None"]
    /\ threadToBeDestroyed' = NULL
    /\ EnterOneTick
    /\ UNCHANGED <<currentThread, readyList, semVars, halted, yieldOnReturn,
                   machineStatus, pending>>

(* Mutant of ResumeP: "if" for "while", the woken thread does not test the *)
(* value again.                                                            *)
ResumeP_NoRetest(s) ==
    /\ pc = "Switched" /\ resume[currentThread] = s
    /\ threadToBeDestroyed' = NULL
    /\ value' = [value EXCEPT ![s] = @ - 1]
    /\ status' = DeleteCarcass
    /\ resume' = [ForgetCarcass EXCEPT ![currentThread] = "None"]
    /\ EnterOneTick
    /\ UNCHANGED <<queue, currentThread, readyList, halted, yieldOnReturn,
                   machineStatus, pending>>

(* A thread woken in P(s) tests the value again. *)
ResumeP(s) ==
    /\ pc = "Switched" /\ resume[currentThread] = s
    /\ threadToBeDestroyed' = NULL
    /\ IF value[s] = 0
         THEN /\ queue' = [queue EXCEPT ![s] = Append(@, currentThread)]
              /\ status' = [DeleteCarcass EXCEPT ![currentThread] = "BLOCKED"]
              /\ resume' = ForgetCarcass
              /\ pc' = "Sleep"
              /\ UNCHANGED <<value, level>>
         ELSE /\ value' = [value EXCEPT ![s] = @ - 1]
              /\ status' = DeleteCarcass
              /\ resume' = [ForgetCarcass EXCEPT ![currentThread] = "None"]
              /\ EnterOneTick
              /\ UNCHANGED queue
    /\ UNCHANGED <<currentThread, readyList, halted, yieldOnReturn,
                   machineStatus, pending>>

(***************************************************************************)
(* Halting: Cleanup() stops the scheduler, lets interrupts in, deletes the *)
(* global objects and exits.                                               *)
(***************************************************************************)

(* Mutant of Cleanup: it does not stop the scheduler. *)
Cleanup_NoStop ==
    /\ IF level = "IntOn" THEN pc' = "Deleting" /\ UNCHANGED level
                          ELSE EnterOneTick
    /\ UNCHANGED halted

Cleanup ==
    /\ halted' = TRUE
    /\ IF level = "IntOn" THEN pc' = "Deleting" /\ UNCHANGED level
                          ELSE EnterOneTick

(* Powerdown from a thread (system call Halt), or from Idle when no device *)
(* has an interrupt scheduled.                                             *)
Halt ==
    /\ pc = "Body"
    /\ Cleanup
    /\ UNCHANGED <<threadVars, semVars, yieldOnReturn, machineStatus, pending>>

(* Mutant of IdlePowerdown: Sleep gives up without looking at the ready    *)
(* list again after Idle.                                                  *)
IdlePowerdown_NoRetest ==
    /\ pc = "Sleep" /\ pending = {}
    /\ machineStatus' = "IdleMode"
    /\ Cleanup
    /\ UNCHANGED <<threadVars, semVars, yieldOnReturn, pending>>

IdlePowerdown ==
    /\ pc = "Sleep" /\ ~CanDispatch /\ pending = {}
    /\ machineStatus' = "IdleMode"
    /\ Cleanup
    /\ UNCHANGED <<threadVars, semVars, yieldOnReturn, pending>>

(* Ctrl-C: the signal is held while interrupts are off, except in          *)
(* CheckIfDue.  A second one exits at once.                                *)
UserAbort ==
    /\ \/ pc \in {"Body", "OneTick", "Idle", "Deleting"}
       \/ pc = "Sleep" /\ ~CanDispatch
    /\ IF halted THEN pc' = "Exit" /\ UNCHANGED <<halted, level>> ELSE Cleanup
    /\ machineStatus' = IF pc = "Sleep" THEN "IdleMode" ELSE machineStatus
    /\ UNCHANGED <<threadVars, semVars, yieldOnReturn, pending>>

(* The rest of Cleanup: the scheduler and the interrupt simulation are     *)
(* deleted, then ThreadList.Remove and Exit.                               *)
DeleteAndExit ==
    /\ pc = "Deleting"
    /\ status' = [status EXCEPT ![currentThread] = "NONE"]
    /\ readyList' = <<>> /\ pending' = {}
    /\ pc' = "Exit"
    /\ UNCHANGED <<currentThread, threadToBeDestroyed, resume, semVars, halted,
                   level, yieldOnReturn, machineStatus>>

(* The UNIX process is gone. *)
Exited == pc = "Exit" /\ UNCHANGED vars

-----------------------------------------------------------------------------

ThreadCall ==
    \/ \E t \in Threads : NewThread(t) \/ Start(t)
    \/ Yield
    \/ \E s \in Semaphores : P(s) \/ V(s)
    \/ Finish
    \/ \E d \in Devices : Request(d)

Dispatch ==
    \/ FindAndRun
    \/ ResumeRunning
    \/ \E s \in Semaphores : ResumeP(s)

CheckIfDue ==
    \/ \E d \in Devices : IdleDevice(d) \/ DeviceInterrupt(d)
    \/ IdleTimer
    \/ TimerInterrupt
    \/ IdleReturn
    \/ OneTickReturn

Halting == Halt \/ IdlePowerdown \/ UserAbort \/ DeleteAndExit \/ Exited

Next == ThreadCall \/ Dispatch \/ CheckIfDue \/ Halting

Spec == Init /\ [][Next]_vars

(***************************************************************************)
(* What the scheduling of the code guarantees: the simulated CPU goes on,  *)
(* the loops over CheckIfDue end (Schedule asserts fromNow > 0), and with  *)
(* -rs the timer, which reschedules itself at most 2*TimerTicks ahead, is  *)
(* found due again and again as OneTick advances the clock.                *)
(***************************************************************************)
Fairness ==
    /\ WF_vars(ThreadCall) /\ WF_vars(Dispatch)
    /\ WF_vars(OneTickReturn) /\ WF_vars(IdleReturn)
    /\ WF_vars(IdlePowerdown) /\ WF_vars(DeleteAndExit)
    /\ SF_vars(pc = "OneTick" /\ TimerInterrupt)

FairSpec == Spec /\ Fairness

-----------------------------------------------------------------------------
(***************************************************************************)
(* Properties.                                                             *)
(***************************************************************************)

(* The kernel's state: queues of threads, statuses, and the CPU's control. *)
TypeOK ==
    /\ currentThread \in Threads
    /\ threadToBeDestroyed \in Threads \cup {NULL}
    /\ status \in [Threads -> ThreadStatus]
    /\ resume \in [Threads -> Continuations]
    /\ readyList \in Seq(Threads)
    /\ halted \in BOOLEAN
    /\ value \in [Semaphores -> Nat]
    /\ queue \in [Semaphores -> Seq(Threads)]
    /\ level \in {"IntOff", "IntOn"}
    /\ yieldOnReturn \in BOOLEAN
    /\ machineStatus \in {"IdleMode", "SystemMode"}
    /\ pending \subseteq Devices
    /\ pc \in Control

(* Threads that V took off s's queue and that have not tested the value    *)
(* again yet.                                                              *)
Woken(s) == {t \in Threads : resume[t] = s /\ status[t] \in {"READY", "RUNNING"}}

(* Scheduler: the ready list holds exactly the READY threads, each once.   *)
(* A thread put there twice (ReadyToRun on a thread that is already        *)
(* ready) would run twice; one that is READY and not there never runs.     *)
ReadyListExact ==
    pc # "Exit" => /\ Range(readyList) = {t \in Threads : status[t] = "READY"}
                   /\ IsInjective(readyList)

(* Scheduler::Run, Thread::Sleep: only the thread on the CPU is RUNNING,   *)
(* and it is RUNNING except while Sleep looks for another thread on its    *)
(* stack, where it is BLOCKED, or READY when an interrupt of Idle woke it. *)
OneRunning ==
    /\ \A t \in Threads : status[t] = "RUNNING" => t = currentThread
    /\ pc \in {"Body", "Switched"} => status[currentThread] = "RUNNING"
    /\ pc = "OneTick" /\ ~halted => status[currentThread] = "RUNNING"
    /\ pc \in {"Sleep", "Idle"} => status[currentThread] \in {"BLOCKED", "READY"}

(* Semaphore::P, Thread::Finish: a BLOCKED thread is in exactly one        *)
(* semaphore queue, once, or it is the finished thread awaiting deletion,  *)
(* and then in none: no thread sleeps where nobody can find it.            *)
BlockedExact ==
    /\ \A s \in Semaphores :
         /\ IsInjective(queue[s])
         /\ \A t \in Range(queue[s]) :
              /\ resume[t] = s
              /\ status[t] = "BLOCKED" \/ pc = "Exit"
    /\ \A t \in Threads : status[t] = "BLOCKED" =>
         \/ t = threadToBeDestroyed /\ resume[t] = "Finish"
         \/ resume[t] \in Semaphores /\ t \in Range(queue[resume[t]])

(* Thread::Finish, Scheduler::Run, SetupThreadState: a finished thread is  *)
(* kept while its stack is in use, is deleted by whichever thread runs     *)
(* next, before that thread does anything else, and is never dispatched.   *)
CarcassInv ==
    threadToBeDestroyed # NULL =>
        /\ resume[threadToBeDestroyed] = "Finish"
        /\ pc # "Exit" => status[threadToBeDestroyed] = "BLOCKED"
        /\ pc \in {"Sleep", "Idle"} \/ halted => threadToBeDestroyed = currentThread
        /\ pc \in {"OneTick", "Deleting"} => halted
        /\ pc # "Body"

(* Semaphore::P and V: while threads wait on s, every unit of its value is *)
(* matched by a thread already woken for it.  A V that does not wake, or a *)
(* P that sleeps without testing, leaves a thread asleep on a free         *)
(* semaphore.                                                              *)
NoLostWakeup ==
    pc # "Exit" => \A s \in Semaphores :
        queue[s] # <<>> => value[s] <= Cardinality(Woken(s))

(* Interrupt::Idle: when Nachos powers down by itself ("Assuming the       *)
(* program completed") no thread could have gone on: every started thread  *)
(* is the finished one, or sleeps on a semaphore whose value is 0.         *)
PowerdownOnlyWhenStuck ==
    [][pc = "Sleep" /\ ~halted /\ halted' /\ pending = {} =>
         \A t \in Threads :
            \/ status[t] \in {"NONE", "JUST_CREATED"}
            \/ t = threadToBeDestroyed
            \/ \E s \in Semaphores : t \in Range(queue[s]) /\ value[s] = 0]_vars

(* Scheduler::Stop: once Cleanup has started no thread gives up the CPU,   *)
(* whatever the last interrupts do.                                        *)
NoSwitchAfterHalt == [][halted => halted' /\ currentThread' = currentThread]_vars

(* The ASSERTs of Run, Sleep, CheckIfDue, Finish, ~Thread, Yield and       *)
(* SetLevel, where the code is about to evaluate them.                     *)
AssertionsHold ==
    /\ pc \in {"OneTick", "Sleep", "Idle", "Switched"} => level = "IntOff"
    /\ pc = "Switched" => threadToBeDestroyed # currentThread
    /\ pc = "Body" => threadToBeDestroyed = NULL /\ level = "IntOn"
    /\ pc = "Switched" => resume[currentThread] \notin {"None", "Finish"}
    /\ pc = "Deleting" => status[currentThread] # "NONE"

(* A request to yield is honoured at once by OneTick, or dropped by Idle:  *)
(* it never leaks into a thread that runs later.                           *)
YieldRequestConsumed ==
    yieldOnReturn => pc \in {"OneTick", "Idle", "Exit"}

(* synch.h: the queues, the wakeups and the context switches implement     *)
(* semaphores whose P is one atomic step; a thread is inside P as long as  *)
(* its continuation is the loop of P.                                      *)
Abstract == INSTANCE AbstractSemaphore WITH
    val <- value,
    waiting <- [s \in Semaphores |-> {t \in Threads : resume[t] = s}]

ImplementsSemaphore == Abstract!ASpec

(* Timer and Scheduler: with the timer (-rs) no READY thread waits for     *)
(* ever, whatever the other threads do, unless Nachos halts.               *)
ReadyRuns ==
    \A t \in Threads :
        status[t] = "READY" ~> (status[t] = "RUNNING" \/ halted)

(* Semaphore::P and V: a free unit and a thread inside P do not stay side  *)
(* by side for ever: a waiter gets to take it, or another thread does.     *)
FreeUnitTaken ==
    \A s \in Semaphores :
        (value[s] > 0 /\ \E t \in Threads : resume[t] = s)
            ~> (value[s] = 0 \/ halted \/ \A t \in Threads : resume[t] # s)

-----------------------------------------------------------------------------
(***************************************************************************)
(* The inductive invariant behind the theorems of KernelProofs: the        *)
(* invariants above, what each thread's continuation may be, and when the  *)
(* machine is halted.                                                      *)
(***************************************************************************)

InsideKernel == {"Root", "Yield"} \cup Semaphores

ContinuationInv ==
    \A t \in Threads :
        /\ status[t] \in {"NONE", "JUST_CREATED"} /\ pc # "Exit" => resume[t] = "None"
        /\ status[t] = "READY" => resume[t] \in InsideKernel
        /\ status[t] = "RUNNING" /\ pc = "Switched" => resume[t] \in InsideKernel
        /\ status[t] = "RUNNING" /\ pc # "Switched" => resume[t] = "None"

HaltInv ==
    /\ halted => pc \in {"OneTick", "Deleting", "Exit"}
    /\ pc \in {"Deleting", "Exit"} => halted
    /\ pc # "Exit" => status[currentThread] \notin {"NONE", "JUST_CREATED"}

IInv ==
    /\ TypeOK /\ ReadyListExact /\ OneRunning /\ BlockedExact /\ CarcassInv
    /\ AssertionsHold /\ YieldRequestConsumed /\ ContinuationInv /\ HaltInv

=============================================================================
