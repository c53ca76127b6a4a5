---------------------------- MODULE KernelProofs ----------------------------
(***************************************************************************)
(* Proofs about Kernel, for every set of threads, semaphores and devices.  *)
(***************************************************************************)
EXTENDS Kernel, FiniteSetTheorems, TLAPS

(***************************************************************************)
(* Facts about the lists of the kernel (ready list, semaphore queues).     *)
(***************************************************************************)

(* List::Append adds one element, and keeps a list free of duplicates when *)
(* the element is new.                                                     *)
LEMMA AppendFacts ==
    ASSUME NEW S, NEW q \in Seq(S), NEW x \in S
    PROVE  /\ Append(q, x) \in Seq(S)
           /\ Range(Append(q, x)) = Range(q) \cup {x}
           /\ IsInjective(q) /\ x \notin Range(q) => IsInjective(Append(q, x))
<1> DEFINE r == Append(q, x)
<1>1. /\ r \in Seq(S)
      /\ Len(r) = Len(q) + 1
      /\ DOMAIN r = 1 .. Len(q) + 1
      /\ \A i \in 1 .. Len(q) : r[i] = q[i]
      /\ r[Len(q) + 1] = x
  OBVIOUS
<1>2. DOMAIN q = 1 .. Len(q) /\ Len(q) \in Nat
  OBVIOUS
<1>3. Range(r) = Range(q) \cup {x}
  <2>1. ASSUME NEW y \in Range(r) PROVE y \in Range(q) \cup {x}
    BY <1>1, <1>2 DEF Range
  <2>2. ASSUME NEW y \in Range(q) PROVE y \in Range(r)
    BY <1>1, <1>2 DEF Range
  <2>3. x \in Range(r)
    BY <1>1, <1>2 DEF Range
  <2> QED BY <2>1, <2>2, <2>3
<1>4. IsInjective(q) /\ x \notin Range(q) => IsInjective(r)
  BY <1>1, <1>2 DEF IsInjective, Range
<1> QED BY <1>1, <1>3, <1>4

(* List::Remove takes the first element away; from a list free of          *)
(* duplicates nothing else goes, and it is really gone.                    *)
LEMMA RemoveFacts ==
    ASSUME NEW S, NEW q \in Seq(S), q # <<>>
    PROVE  /\ Head(q) \in S /\ Head(q) \in Range(q)
           /\ Tail(q) \in Seq(S)
           /\ IsInjective(q) => /\ Range(Tail(q)) = Range(q) \ {Head(q)}
                                /\ IsInjective(Tail(q))
<1> DEFINE r == Tail(q)
<1>1. Len(q) \in Nat /\ Len(q) > 0 /\ DOMAIN q = 1 .. Len(q) /\ Head(q) = q[1]
  OBVIOUS
<1>2. /\ r \in Seq(S)
      /\ DOMAIN r = 1 .. Len(q) - 1
      /\ \A i \in 1 .. Len(q) - 1 : r[i] = q[i + 1]
  BY <1>1
<1>3. Head(q) \in S /\ Head(q) \in Range(q)
  BY <1>1 DEF Range
<1>4. ASSUME IsInjective(q) PROVE Range(r) = Range(q) \ {Head(q)}
  <2>1. ASSUME NEW y \in Range(r) PROVE y \in Range(q) \ {Head(q)}
    BY <1>1, <1>2, <1>4 DEF Range, IsInjective
  <2>2. ASSUME NEW y \in Range(q), y # Head(q) PROVE y \in Range(r)
    <3>1. PICK i \in 1 .. Len(q) : y = q[i]
      BY <1>1 DEF Range
    <3>2. i - 1 \in 1 .. Len(q) - 1 /\ r[i - 1] = y
      BY <3>1, <2>2, <1>1, <1>2
    <3> QED BY <3>2, <1>2 DEF Range
  <2> QED BY <2>1, <2>2
<1>5. ASSUME IsInjective(q) PROVE IsInjective(r)
  BY <1>1, <1>2, <1>5 DEF IsInjective
<1> QED BY <1>2, <1>3, <1>4, <1>5

-----------------------------------------------------------------------------
(***************************************************************************)
(* Type correctness.                                                       *)
(***************************************************************************)

(* Semaphore::V, whoever calls it, keeps the types. *)
LEMMA SignalType ==
    ASSUME TypeOK, NEW s \in Semaphores, Signal(s)
    PROVE  /\ status' \in [Threads -> ThreadStatus]
           /\ readyList' \in Seq(Threads)
           /\ value' \in [Semaphores -> Nat]
           /\ queue' \in [Semaphores -> Seq(Threads)]
<1>1. value' \in [Semaphores -> Nat]
  BY DEF Signal, TypeOK
<1>2. CASE queue[s] = <<>>
  BY <1>1, <1>2 DEF Signal, TypeOK
<1>3. CASE queue[s] # <<>>
  <2>1. queue[s] \in Seq(Threads) BY DEF TypeOK
  <2>2. Head(queue[s]) \in Threads /\ Tail(queue[s]) \in Seq(Threads)
    BY <2>1, <1>3, RemoveFacts
  <2>3. queue' = [queue EXCEPT ![s] = Tail(queue[s])] /\ ReadyToRun(Head(queue[s]))
    BY <1>3 DEF Signal
  <2> QED BY <1>1, <2>2, <2>3, AppendFacts DEF ReadyToRun, TypeOK, ThreadStatus
<1> QED BY <1>2, <1>3

(* Thread::Yield keeps the types, called by a thread or by OneTick. *)
LEMMA YieldType ==
    ASSUME TypeOK, DoYield
    PROVE  /\ status' \in [Threads -> ThreadStatus]
           /\ readyList' \in Seq(Threads)
           /\ resume' \in [Threads -> Continuations]
           /\ currentThread' \in Threads
           /\ pc' \in Control
           /\ level' \in {"IntOff", "IntOn"}
<1>1. CASE CanDispatch
  <2>1. readyList \in Seq(Threads) /\ readyList # <<>>
    BY <1>1 DEF CanDispatch, TypeOK
  <2>2. Head(readyList) \in Threads /\ Tail(readyList) \in Seq(Threads)
    BY <2>1, RemoveFacts
  <2>3. readyList' \in Seq(Threads)
    <3>1. readyList' = Append(Tail(readyList), currentThread)
      BY <1>1 DEF DoYield
    <3>2. currentThread \in Threads BY DEF TypeOK
    <3> QED BY <2>2, <3>1, <3>2, AppendFacts
  <2>4. status' \in [Threads -> ThreadStatus]
    BY <1>1, <2>2 DEF DoYield, TypeOK, ThreadStatus
  <2>5. resume' \in [Threads -> Continuations]
    BY <1>1 DEF DoYield, TypeOK, Continuations
  <2> QED BY <1>1, <2>2, <2>3, <2>4, <2>5 DEF DoYield, Control
<1>2. CASE ~CanDispatch
  BY <1>2 DEF DoYield, EnterOneTick, TypeOK, Control
<1> QED BY <1>1, <1>2

(* Every step of the kernel keeps the types. *)
LEMMA TypeStep == TypeOK /\ [Next]_vars => TypeOK'
<1> SUFFICES ASSUME TypeOK, [Next]_vars PROVE TypeOK'
  OBVIOUS
<1> USE DEF ThreadStatus, Continuations, Control
<1>1. ASSUME NEW t \in Threads, NewThread(t) PROVE TypeOK'
  BY <1>1 DEF NewThread, TypeOK, semVars, intVars
<1>2. ASSUME NEW t \in Threads, Start(t) PROVE TypeOK'
  BY <1>2, AppendFacts DEF Start, ReadyToRun, EnterOneTick, TypeOK, semVars
<1>3. CASE Yield
  BY <1>3, YieldType DEF Yield, TypeOK, semVars
<1>4. ASSUME NEW s \in Semaphores, P(s) PROVE TypeOK'
  <2>1. CASE value[s] = 0
    <3>1. queue' \in [Semaphores -> Seq(Threads)]
      <4>1. queue' = [queue EXCEPT ![s] = Append(queue[s], currentThread)]
        BY <1>4, <2>1 DEF P, DoP
      <4>2. queue[s] \in Seq(Threads) /\ currentThread \in Threads BY DEF TypeOK
      <4>3. Append(queue[s], currentThread) \in Seq(Threads) BY <4>2, AppendFacts
      <4> QED BY <4>1, <4>3 DEF TypeOK
    <3>2. status' \in [Threads -> ThreadStatus] /\ resume' \in [Threads -> Continuations]
      BY <1>4, <2>1 DEF P, DoP, TypeOK
    <3> QED BY <1>4, <2>1, <3>1, <3>2 DEF P, DoP, TypeOK
  <2>2. CASE value[s] # 0
    <3>1. value' \in [Semaphores -> Nat]
      <4>1. value' = [value EXCEPT ![s] = value[s] - 1]
        BY <1>4, <2>2 DEF P, DoP
      <4> QED BY <4>1, <2>2 DEF TypeOK
    <3> QED BY <1>4, <2>2, <3>1 DEF P, DoP, EnterOneTick, TypeOK
  <2> QED BY <2>1, <2>2
<1>5. ASSUME NEW s \in Semaphores, V(s) PROVE TypeOK'
  BY <1>5, SignalType DEF V, EnterOneTick, TypeOK
<1>6. CASE Finish
  BY <1>6 DEF Finish, TypeOK, semVars
<1>7. ASSUME NEW d \in Devices, Request(d) PROVE TypeOK'
  BY <1>7 DEF Request, TypeOK, semVars, threadVars
<1>8. CASE FindAndRun
  BY <1>8, RemoveFacts DEF FindAndRun, CanDispatch, TypeOK, semVars, intVars
<1>9. ASSUME NEW d \in Devices, IdleDevice(d) \/ DeviceInterrupt(d) PROVE TypeOK'
  <2>1. DoneSemaphore[d] \in Semaphores
    BY DeviceAssumption
  <2> QED BY <1>9, <2>1, SignalType DEF IdleDevice, DeviceInterrupt, TypeOK
<1>10. CASE IdleTimer \/ TimerInterrupt \/ IdleReturn
  BY <1>10 DEF IdleTimer, TimerInterrupt, IdleReturn, TypeOK, threadVars, semVars
<1>11. CASE OneTickReturn
  BY <1>11, YieldType DEF OneTickReturn, TypeOK, semVars
<1>12. CASE ResumeRunning
  BY <1>12 DEF ResumeRunning, DeleteCarcass, ForgetCarcass, EnterOneTick, TypeOK, semVars
<1>13. ASSUME NEW s \in Semaphores, ResumeP(s) PROVE TypeOK'
  <2>1. CASE value[s] = 0
    <3>1. queue' \in [Semaphores -> Seq(Threads)]
      <4>1. queue' = [queue EXCEPT ![s] = Append(queue[s], currentThread)]
        BY <1>13, <2>1 DEF ResumeP
      <4>2. queue[s] \in Seq(Threads) /\ currentThread \in Threads BY DEF TypeOK
      <4>3. Append(queue[s], currentThread) \in Seq(Threads) BY <4>2, AppendFacts
      <4> QED BY <4>1, <4>3 DEF TypeOK
    <3>2. status' \in [Threads -> ThreadStatus] /\ resume' \in [Threads -> Continuations]
      BY <1>13, <2>1 DEF ResumeP, DeleteCarcass, ForgetCarcass, TypeOK
    <3> QED BY <1>13, <2>1, <3>1, <3>2 DEF ResumeP, TypeOK
  <2>2. CASE value[s] # 0
    <3>1. value' \in [Semaphores -> Nat]
      BY <1>13, <2>2 DEF ResumeP, TypeOK
    <3>2. status' \in [Threads -> ThreadStatus] /\ resume' \in [Threads -> Continuations]
      BY <1>13, <2>2 DEF ResumeP, DeleteCarcass, ForgetCarcass, TypeOK
    <3> QED BY <1>13, <2>2, <3>1, <3>2 DEF ResumeP, EnterOneTick, TypeOK
  <2> QED BY <2>1, <2>2
<1>14. CASE Halting
  <2>1. CASE Halt \/ IdlePowerdown \/ UserAbort
    BY <2>1 DEF Halt, IdlePowerdown, UserAbort, Cleanup, EnterOneTick, TypeOK, threadVars, semVars
  <2>2. CASE DeleteAndExit
    BY <2>2 DEF DeleteAndExit, TypeOK, semVars
  <2>3. CASE Exited
    BY <2>3 DEF Exited, TypeOK, vars, threadVars, semVars, intVars
  <2> QED BY <1>14, <2>1, <2>2, <2>3 DEF Halting
<1>15. CASE UNCHANGED vars
  BY <1>15 DEF TypeOK, vars, threadVars, semVars, intVars
<1> QED
  BY <1>1, <1>2, <1>3, <1>4, <1>5, <1>6, <1>7, <1>8, <1>9, <1>10, <1>11, <1>12,
     <1>13, <1>14, <1>15 DEF Next, ThreadCall, Dispatch, CheckIfDue

(* The state after Initialize() is well typed. *)
LEMMA InitType == Init => TypeOK
<1> SUFFICES ASSUME Init PROVE TypeOK
  OBVIOUS
<1>1. queue \in [Semaphores -> Seq(Threads)] /\ readyList \in Seq(Threads)
  BY DEF Init
<1>2. status \in [Threads -> ThreadStatus] /\ resume \in [Threads -> Continuations]
  BY DEF Init, ThreadStatus, Continuations
<1> QED BY <1>1, <1>2, ThreadAssumption, SemaphoreAssumption DEF Init, TypeOK, Control

(* The kernel's variables keep the types the code declares for them: in    *)
(* particular no operation dispatches or queues a null pointer, and no     *)
(* semaphore value becomes negative.                                       *)
THEOREM TypeCorrect == Spec => []TypeOK
<1> QED BY InitType, TypeStep, PTL DEF Spec

-----------------------------------------------------------------------------
(***************************************************************************)
(* The scheduling invariant.  Each lemma below is one kind of step.        *)
(***************************************************************************)

(* What Semaphore::V does to the lists: nothing when nobody waits, else it *)
(* moves exactly one thread from the queue to the ready list.              *)
LEMMA SignalMoves ==
    ASSUME IInv, pc # "Exit", NEW s \in Semaphores, Signal(s), queue[s] # <<>>
    PROVE  \E w \in Threads :
             /\ status[w] = "BLOCKED" /\ resume[w] = s
             /\ status' = [status EXCEPT ![w] = "READY"]
             /\ Range(readyList') = Range(readyList) \cup {w}
             /\ IsInjective(readyList')
             /\ Range(queue'[s]) = Range(queue[s]) \ {w}
             /\ IsInjective(queue'[s])
             /\ \A r \in Semaphores \ {s} : queue'[r] = queue[r]
<1> DEFINE w == Head(queue[s])
<1>1. queue[s] \in Seq(Threads) /\ readyList \in Seq(Threads)
  BY DEF IInv, TypeOK
<1>2. IsInjective(queue[s])
  BY DEF IInv, BlockedExact
<1>3. /\ w \in Threads /\ w \in Range(queue[s])
      /\ Range(Tail(queue[s])) = Range(queue[s]) \ {w} /\ IsInjective(Tail(queue[s]))
  BY <1>1, <1>2, RemoveFacts
<1>4. status[w] = "BLOCKED" /\ resume[w] = s
  BY <1>3 DEF IInv, BlockedExact
<1>5. w \notin Range(readyList)
  BY <1>3, <1>4 DEF IInv, ReadyListExact
<1>6. /\ queue' = [queue EXCEPT ![s] = Tail(queue[s])]
      /\ status' = [status EXCEPT ![w] = "READY"]
      /\ readyList' = Append(readyList, w)
  BY DEF Signal, ReadyToRun
<1>7. /\ Range(readyList') = Range(readyList) \cup {w}
      /\ IsInjective(readyList')
  BY <1>1, <1>3, <1>5, <1>6, AppendFacts DEF IInv, ReadyListExact
<1>8. /\ queue'[s] = Tail(queue[s])
      /\ \A r \in Semaphores \ {s} : queue'[r] = queue[r]
  BY <1>6 DEF IInv, TypeOK
<1> QED BY <1>3, <1>4, <1>6, <1>7, <1>8

(* A V leaves the relations between lists, statuses and continuations      *)
(* intact when the rest of the thread state is unchanged and control stays *)
(* on a live CPU.                                                          *)
LEMMA SignalStep ==
    ASSUME IInv, TypeOK', pc # "Exit", pc' # "Exit", NEW s \in Semaphores, Signal(s),
           UNCHANGED <<currentThread, threadToBeDestroyed, resume, halted>>,
           pc = "Body" => pc' = "OneTick",
           pc # "Body" => pc' = pc \/ (pc = "Sleep" /\ pc' = "Idle"),
           pc # "Switched"
    PROVE  /\ ReadyListExact' /\ OneRunning' /\ BlockedExact' /\ CarcassInv'
           /\ ContinuationInv' /\ HaltInv'
<1>1. CASE queue[s] = <<>>
  <2>1. UNCHANGED <<queue, status, readyList>>
    BY <1>1 DEF Signal
  <2>2. ReadyListExact' /\ BlockedExact'
    BY <2>1 DEF IInv, ReadyListExact, BlockedExact
  <2>3. OneRunning' /\ ContinuationInv'
    BY <2>1 DEF IInv, OneRunning, ContinuationInv, InsideKernel
  <2>4. CarcassInv' /\ HaltInv'
    BY <2>1 DEF IInv, CarcassInv, HaltInv
  <2> QED BY <2>2, <2>3, <2>4
<1>2. CASE queue[s] # <<>>
  <2>1. PICK w \in Threads :
             /\ status[w] = "BLOCKED" /\ resume[w] = s
             /\ status' = [status EXCEPT ![w] = "READY"]
             /\ Range(readyList') = Range(readyList) \cup {w}
             /\ IsInjective(readyList')
             /\ Range(queue'[s]) = Range(queue[s]) \ {w}
             /\ IsInjective(queue'[s])
             /\ \A r \in Semaphores \ {s} : queue'[r] = queue[r]
    BY <1>2, SignalMoves
  <2>2. /\ status'[w] = "READY"
        /\ \A t \in Threads \ {w} : status'[t] = status[t]
    BY <2>1 DEF IInv, TypeOK
  <2>3. w # threadToBeDestroyed /\ s \notin {"None", "Root", "Yield", "Finish"}
    <3>1. s \notin {"None", "Root", "Yield", "Finish"}
      BY SemaphoreAssumption
    <3> QED BY <3>1, <2>1, ThreadAssumption DEF IInv, CarcassInv
  <2>4. ReadyListExact'
    <3>1. Range(readyList) = {t \in Threads : status[t] = "READY"}
      BY DEF IInv, ReadyListExact
    <3>2. Range(readyList') = {t \in Threads : status'[t] = "READY"}
      BY <3>1, <2>1, <2>2
    <3> QED BY <3>2, <2>1 DEF ReadyListExact
  <2>5. BlockedExact'
    <3>1. \A r \in Semaphores : IsInjective(queue'[r])
      BY <2>1 DEF IInv, BlockedExact
    <3>2. ASSUME NEW r \in Semaphores, NEW t \in Range(queue'[r])
          PROVE  resume'[t] = r /\ status'[t] = "BLOCKED"
      <4>1. t \in Range(queue[r]) /\ t # w
        BY <3>2, <2>1 DEF IInv, BlockedExact
      <4>2. t \in Threads
        BY <4>1 DEF IInv, TypeOK, Range
      <4> QED BY <4>1, <4>2, <2>2 DEF IInv, BlockedExact
    <3>3. ASSUME NEW t \in Threads, status'[t] = "BLOCKED"
          PROVE  \/ t = threadToBeDestroyed /\ resume[t] = "Finish"
                 \/ resume[t] \in Semaphores /\ t \in Range(queue'[resume[t]])
      <4>1. t # w /\ status[t] = "BLOCKED"
        BY <3>3, <2>2
      <4>2. CASE t = threadToBeDestroyed /\ resume[t] = "Finish"
        BY <4>2
      <4>3. CASE resume[t] \in Semaphores /\ t \in Range(queue[resume[t]])
        BY <4>1, <4>3, <2>1
      <4> QED BY <4>1, <4>2, <4>3 DEF IInv, BlockedExact
    <3> QED BY <3>1, <3>2, <3>3 DEF BlockedExact
  <2>6. OneRunning'
    BY <2>1, <2>2 DEF IInv, OneRunning, TypeOK, HaltInv
  <2>7. ContinuationInv'
    BY <2>1, <2>2 DEF IInv, ContinuationInv, InsideKernel
  <2>8. CarcassInv'
    BY <2>2, <2>3 DEF IInv, CarcassInv, TypeOK
  <2>9. HaltInv'
    BY <2>2 DEF IInv, HaltInv, TypeOK
  <2> QED BY <2>4, <2>5, <2>6, <2>7, <2>8, <2>9
<1> QED BY <1>1, <1>2

(* Thread::Yield, called by a thread or on behalf of the timer, swaps the  *)
(* thread on the CPU with the first of the ready list.                     *)
LEMMA YieldStep ==
    ASSUME IInv, TypeOK', DoYield, pc \in {"Body", "OneTick"},
           UNCHANGED <<threadToBeDestroyed, semVars, halted>>
    PROVE  /\ ReadyListExact' /\ OneRunning' /\ BlockedExact' /\ CarcassInv'
           /\ ContinuationInv' /\ HaltInv'
<1>1. CASE ~CanDispatch
  <2>1. UNCHANGED <<status, readyList, resume, currentThread, threadToBeDestroyed, queue, halted>>
    BY <1>1 DEF DoYield, semVars
  <2>2. pc' = "OneTick"
    BY <1>1 DEF DoYield, EnterOneTick
  <2>3. ReadyListExact' /\ BlockedExact'
    BY <2>1, <2>2 DEF IInv, ReadyListExact, BlockedExact
  <2>4. OneRunning' /\ ContinuationInv'
    BY <2>1, <2>2 DEF IInv, OneRunning, ContinuationInv, InsideKernel
  <2>5. CarcassInv' /\ HaltInv'
    BY <2>1, <2>2 DEF IInv, CarcassInv, HaltInv
  <2> QED BY <2>3, <2>4, <2>5
<1>2. CASE CanDispatch
  <2> DEFINE next == Head(readyList)
             self == currentThread
  <2>1. ~halted /\ readyList # <<>> /\ readyList \in Seq(Threads) /\ self \in Threads
    BY <1>2 DEF CanDispatch, IInv, TypeOK
  <2>2. Range(readyList) = {t \in Threads : status[t] = "READY"} /\ IsInjective(readyList)
    BY DEF IInv, ReadyListExact
  <2>3. /\ next \in Threads /\ next \in Range(readyList)
        /\ Tail(readyList) \in Seq(Threads)
        /\ Range(Tail(readyList)) = Range(readyList) \ {next}
        /\ IsInjective(Tail(readyList))
    BY <2>1, <2>2, RemoveFacts
  <2>4. status[self] = "RUNNING" /\ resume[self] = "None"
    BY <2>1 DEF IInv, OneRunning, ContinuationInv
  <2>5. status[next] = "READY" /\ next # self
    BY <2>2, <2>3, <2>4
  <2>6. /\ status' = [status EXCEPT ![self] = "READY", ![next] = "RUNNING"]
        /\ readyList' = Append(Tail(readyList), self)
        /\ resume' = [resume EXCEPT ![self] = "Yield"]
        /\ currentThread' = next
        /\ pc' = "Switched"
    BY <1>2 DEF DoYield
  <2>7. /\ status'[self] = "READY" /\ status'[next] = "RUNNING"
        /\ \A t \in Threads \ {self, next} : status'[t] = status[t]
        /\ resume'[self] = "Yield"
        /\ \A t \in Threads \ {self} : resume'[t] = resume[t]
    BY <2>1, <2>3, <2>5, <2>6 DEF IInv, TypeOK
  <2>8. Range(readyList') = (Range(readyList) \ {next}) \cup {self} /\ IsInjective(readyList')
    <3>1. self \notin Range(Tail(readyList))
      BY <2>2, <2>3, <2>4
    <3>2. /\ Range(Append(Tail(readyList), self)) = Range(Tail(readyList)) \cup {self}
          /\ IsInjective(Append(Tail(readyList), self))
      <4> DEFINE q == Tail(readyList)
      <4>1. q \in Seq(Threads) /\ IsInjective(q) /\ self \notin Range(q)
        BY <2>3, <3>1
      <4> HIDE DEF q
      <4>2. Range(Append(q, self)) = Range(q) \cup {self} /\ IsInjective(Append(q, self))
        BY <2>1, <4>1, AppendFacts
      <4> QED BY <4>2 DEF q
    <3> QED BY <2>3, <2>6, <3>2
  <2>9. ReadyListExact'
    <3>1. Range(readyList') = {t \in Threads : status'[t] = "READY"}
      BY <2>1, <2>2, <2>3, <2>7, <2>8
    <3> QED BY <3>1, <2>8 DEF ReadyListExact
  <2>10. BlockedExact'
    <3>1. \A t \in Threads : status'[t] = "BLOCKED" <=> status[t] = "BLOCKED"
      BY <2>4, <2>5, <2>7
    <3>2. \A t \in Threads : status[t] = "BLOCKED" => resume'[t] = resume[t]
      BY <2>4, <2>7
    <3>3. queue' = queue /\ \A r \in Semaphores : Range(queue[r]) \subseteq Threads
      BY DEF semVars, IInv, TypeOK, Range
    <3>4. pc # "Exit" /\ pc' # "Exit"
      BY <2>6
    <3> QED BY <3>1, <3>2, <3>3, <3>4 DEF IInv, BlockedExact
  <2>11. OneRunning'
    BY <2>1, <2>4, <2>5, <2>6, <2>7 DEF IInv, OneRunning
  <2>12. ContinuationInv'
    BY <2>4, <2>5, <2>6, <2>7 DEF IInv, ContinuationInv, OneRunning, InsideKernel
  <2>13. threadToBeDestroyed = NULL
    BY <2>1 DEF IInv, CarcassInv
  <2>14. CarcassInv' /\ HaltInv'
    BY <2>1, <2>6, <2>7, <2>13 DEF CarcassInv, HaltInv
  <2> QED BY <2>9, <2>10, <2>11, <2>12, <2>14
<1> QED BY <1>1, <1>2

(* Scheduler::Run and SetupThreadState after SWITCH, or P's fast path: the *)
(* thread on the CPU goes on and the finished thread, if any, is deleted.  *)
LEMMA ContinueStep ==
    ASSUME IInv, TypeOK', pc \in {"Body", "Switched"}, pc' = "OneTick",
           status' = DeleteCarcass,
           resume' = [ForgetCarcass EXCEPT ![currentThread] = "None"],
           threadToBeDestroyed' = NULL,
           UNCHANGED <<currentThread, readyList, queue, halted>>
    PROVE  /\ ReadyListExact' /\ OneRunning' /\ BlockedExact' /\ CarcassInv'
           /\ ContinuationInv' /\ HaltInv'
<1> DEFINE c == threadToBeDestroyed
           self == currentThread
<1>1. /\ self \in Threads /\ status[self] = "RUNNING" /\ ~halted
      /\ c # self
      /\ c # NULL => status[c] = "BLOCKED" /\ resume[c] = "Finish"
  BY ThreadAssumption DEF IInv, TypeOK, OneRunning, CarcassInv, HaltInv, AssertionsHold
<1>2. /\ \A t \in Threads : status'[t] = IF t = c THEN "NONE" ELSE status[t]
      /\ \A t \in Threads \ {self} : resume'[t] = IF t = c THEN "None" ELSE resume[t]
      /\ resume'[self] = "None" /\ status'[self] = "RUNNING"
  BY <1>1 DEF DeleteCarcass, ForgetCarcass
<1>3. ReadyListExact'
  <2>1. Range(readyList) = {t \in Threads : status[t] = "READY"} /\ IsInjective(readyList)
    BY DEF IInv, ReadyListExact
  <2>2. \A t \in Threads : status'[t] = "READY" <=> status[t] = "READY"
    BY <1>1, <1>2, ThreadAssumption
  <2> QED BY <2>1, <2>2 DEF ReadyListExact
<1>4. BlockedExact'
  <2>1. ASSUME NEW r \in Semaphores, NEW t \in Range(queue[r])
        PROVE  t \in Threads /\ t # c /\ t # self /\ resume[t] = r /\ status[t] = "BLOCKED"
    <3>1. t \in Threads /\ r # "Finish"
      BY SemaphoreAssumption DEF IInv, TypeOK, Range
    <3>2. resume[t] = r /\ status[t] = "BLOCKED"
      BY DEF IInv, BlockedExact
    <3> QED BY <3>1, <3>2, <1>1, ThreadAssumption
  <2>2. ASSUME NEW t \in Threads, status'[t] = "BLOCKED"
        PROVE  resume'[t] \in Semaphores /\ t \in Range(queue[resume'[t]])
    <3>1. t # c /\ t # self /\ status[t] = "BLOCKED"
      BY <1>1, <1>2, <2>2
    <3> QED BY <3>1, <1>2 DEF IInv, BlockedExact
  <2> QED BY <1>2, <2>1, <2>2 DEF IInv, BlockedExact
<1>5. OneRunning'
  BY <1>1, <1>2 DEF IInv, OneRunning
<1>6. ContinuationInv'
  BY <1>1, <1>2 DEF IInv, ContinuationInv, OneRunning, InsideKernel
<1>7. CarcassInv' /\ HaltInv'
  BY <1>1, <1>2 DEF CarcassInv, HaltInv
<1> QED BY <1>3, <1>4, <1>5, <1>6, <1>7

(* Semaphore::P blocks: the thread on the CPU joins the queue and goes to  *)
(* sleep; the finished thread, if any, is deleted.                         *)
LEMMA BlockStep ==
    ASSUME IInv, TypeOK', pc \in {"Body", "Switched"}, pc' = "Sleep",
           NEW s \in Semaphores,
           queue' = [queue EXCEPT ![s] = Append(queue[s], currentThread)],
           status' = [DeleteCarcass EXCEPT ![currentThread] = "BLOCKED"],
           resume' = [ForgetCarcass EXCEPT ![currentThread] = s],
           threadToBeDestroyed' = NULL,
           UNCHANGED <<currentThread, readyList, halted>>
    PROVE  /\ ReadyListExact' /\ OneRunning' /\ BlockedExact' /\ CarcassInv'
           /\ ContinuationInv' /\ HaltInv'
<1> DEFINE c == threadToBeDestroyed
           self == currentThread
<1>1. /\ self \in Threads /\ status[self] = "RUNNING" /\ ~halted
      /\ c # self
      /\ c # NULL => status[c] = "BLOCKED" /\ resume[c] = "Finish"
  BY ThreadAssumption DEF IInv, TypeOK, OneRunning, CarcassInv, HaltInv, AssertionsHold
<1>2. /\ \A t \in Threads \ {self} : status'[t] = IF t = c THEN "NONE" ELSE status[t]
      /\ \A t \in Threads \ {self} : resume'[t] = IF t = c THEN "None" ELSE resume[t]
      /\ status'[self] = "BLOCKED" /\ resume'[self] = s
  BY <1>1 DEF DeleteCarcass, ForgetCarcass
<1>3. ReadyListExact'
  <2>1. Range(readyList) = {t \in Threads : status[t] = "READY"} /\ IsInjective(readyList)
    BY DEF IInv, ReadyListExact
  <2>2. \A t \in Threads : status'[t] = "READY" <=> status[t] = "READY"
    BY <1>1, <1>2, ThreadAssumption
  <2> QED BY <2>1, <2>2 DEF ReadyListExact
<1>4. BlockedExact'
  <2>1. ASSUME NEW r \in Semaphores, NEW t \in Range(queue[r])
        PROVE  t \in Threads /\ t # c /\ t # self /\ resume[t] = r /\ status[t] = "BLOCKED"
    <3>1. t \in Threads /\ r # "Finish"
      BY SemaphoreAssumption DEF IInv, TypeOK, Range
    <3>2. resume[t] = r /\ status[t] = "BLOCKED"
      BY DEF IInv, BlockedExact
    <3> QED BY <3>1, <3>2, <1>1, ThreadAssumption
  <2>2. queue[s] \in Seq(Threads) /\ IsInjective(queue[s]) /\ self \notin Range(queue[s])
    BY <2>1 DEF IInv, TypeOK, BlockedExact
  <2>3. Range(queue'[s]) = Range(queue[s]) \cup {self} /\ IsInjective(queue'[s])
    BY <1>1, <2>2, AppendFacts DEF IInv, TypeOK
  <2>4. \A r \in Semaphores \ {s} : queue'[r] = queue[r]
    BY DEF IInv, TypeOK
  <2>5. ASSUME NEW r \in Semaphores, NEW t \in Range(queue'[r])
        PROVE  resume'[t] = r /\ status'[t] = "BLOCKED"
    BY <1>2, <2>1, <2>3, <2>4, <2>5
  <2>6. ASSUME NEW t \in Threads, status'[t] = "BLOCKED"
        PROVE  resume'[t] \in Semaphores /\ t \in Range(queue'[resume'[t]])
    <3>1. CASE t = self
      BY <3>1, <1>2, <2>3
    <3>2. CASE t # self
      <4>1. t # c /\ status[t] = "BLOCKED" /\ resume'[t] = resume[t]
        BY <3>2, <1>1, <1>2, <2>6
      <4>2. resume[t] \in Semaphores /\ t \in Range(queue[resume[t]])
        BY <4>1 DEF IInv, BlockedExact
      <4> QED BY <4>1, <4>2, <2>3, <2>4
    <3> QED BY <3>1, <3>2
  <2>7. \A r \in Semaphores : IsInjective(queue'[r])
    BY <2>3, <2>4 DEF IInv, BlockedExact
  <2> QED BY <2>5, <2>6, <2>7 DEF BlockedExact
<1>5. OneRunning'
  BY <1>1, <1>2 DEF IInv, OneRunning
<1>6. ContinuationInv'
  BY <1>1, <1>2 DEF IInv, ContinuationInv, OneRunning, InsideKernel
<1>7. CarcassInv' /\ HaltInv'
  BY <1>1, <1>2 DEF CarcassInv, HaltInv
<1> QED BY <1>3, <1>4, <1>5, <1>6, <1>7

(* Thread::Start makes a thread that no list holds ready. *)
LEMMA StartStep ==
    ASSUME IInv, TypeOK', NEW t \in Threads, Start(t)
    PROVE  /\ ReadyListExact' /\ OneRunning' /\ BlockedExact' /\ CarcassInv'
           /\ ContinuationInv' /\ HaltInv'
<1>1. /\ pc = "Body" /\ pc' = "OneTick" /\ status[t] = "JUST_CREATED"
      /\ status' = [status EXCEPT ![t] = "READY"]
      /\ resume' = [resume EXCEPT ![t] = "Root"]
      /\ readyList' = Append(readyList, t)
      /\ UNCHANGED <<currentThread, threadToBeDestroyed, queue, halted>>
  BY DEF Start, ReadyToRun, EnterOneTick, semVars
<1>2. /\ currentThread \in Threads /\ status[currentThread] = "RUNNING" /\ ~halted
      /\ threadToBeDestroyed = NULL
  BY <1>1 DEF IInv, TypeOK, OneRunning, HaltInv, CarcassInv
<1>3. /\ status'[t] = "READY" /\ resume'[t] = "Root"
      /\ \A u \in Threads \ {t} : status'[u] = status[u] /\ resume'[u] = resume[u]
  BY <1>1 DEF IInv, TypeOK
<1>4. ReadyListExact'
  <2>1. /\ readyList \in Seq(Threads) /\ IsInjective(readyList)
        /\ Range(readyList) = {u \in Threads : status[u] = "READY"}
    BY <1>1 DEF IInv, TypeOK, ReadyListExact
  <2>2. t \notin Range(readyList)
    BY <1>1, <2>1
  <2>3. Range(readyList') = Range(readyList) \cup {t} /\ IsInjective(readyList')
    BY <1>1, <2>1, <2>2, AppendFacts
  <2>4. Range(readyList') = {u \in Threads : status'[u] = "READY"}
    BY <1>3, <2>1, <2>3
  <2> QED BY <2>3, <2>4 DEF ReadyListExact
<1>5. BlockedExact'
  <2>1. \A u \in Threads : status'[u] = "BLOCKED" <=> status[u] = "BLOCKED"
    BY <1>1, <1>3
  <2>2. \A u \in Threads : status[u] = "BLOCKED" => resume'[u] = resume[u]
    BY <1>1, <1>3
  <2>3. \A r \in Semaphores : Range(queue[r]) \subseteq Threads
    BY DEF IInv, TypeOK, Range
  <2> QED BY <1>1, <2>1, <2>2, <2>3 DEF IInv, BlockedExact
<1>6. OneRunning'
  BY <1>1, <1>2, <1>3 DEF IInv, OneRunning
<1>7. ContinuationInv'
  BY <1>1, <1>3 DEF IInv, ContinuationInv, InsideKernel
<1>8. CarcassInv' /\ HaltInv'
  BY <1>1, <1>2, <1>3 DEF CarcassInv, HaltInv
<1> QED BY <1>4, <1>5, <1>6, <1>7, <1>8

(* Thread::Finish: the thread on the CPU becomes the carcass. *)
LEMMA FinishStep ==
    ASSUME IInv, TypeOK', Finish
    PROVE  /\ ReadyListExact' /\ OneRunning' /\ BlockedExact' /\ CarcassInv'
           /\ ContinuationInv' /\ HaltInv'
<1> DEFINE self == currentThread
<1>1. /\ pc = "Body" /\ pc' = "Sleep" /\ threadToBeDestroyed' = self
      /\ status' = [status EXCEPT ![self] = "BLOCKED"]
      /\ resume' = [resume EXCEPT ![self] = "Finish"]
      /\ UNCHANGED <<currentThread, readyList, queue, halted>>
  BY DEF Finish, semVars
<1>2. /\ self \in Threads /\ status[self] = "RUNNING" /\ ~halted
      /\ threadToBeDestroyed = NULL
  BY <1>1 DEF IInv, TypeOK, OneRunning, HaltInv, CarcassInv
<1>3. /\ status'[self] = "BLOCKED" /\ resume'[self] = "Finish"
      /\ \A u \in Threads \ {self} : status'[u] = status[u] /\ resume'[u] = resume[u]
  BY <1>1, <1>2 DEF IInv, TypeOK
<1>4. ReadyListExact'
  <2>1. \A u \in Threads : status'[u] = "READY" <=> status[u] = "READY"
    BY <1>2, <1>3
  <2> QED BY <1>1, <2>1 DEF IInv, ReadyListExact
<1>5. BlockedExact'
  <2>1. \A r \in Semaphores : Range(queue[r]) \subseteq Threads
    BY DEF IInv, TypeOK, Range
  <2>2. ASSUME NEW r \in Semaphores, NEW u \in Range(queue[r])
        PROVE  resume'[u] = r /\ status'[u] = "BLOCKED"
    <3>1. resume[u] = r /\ status[u] = "BLOCKED" /\ u \in Threads
      BY <1>1, <2>1 DEF IInv, BlockedExact
    <3> QED BY <3>1, <1>2, <1>3
  <2>3. ASSUME NEW u \in Threads, status'[u] = "BLOCKED", u # self
        PROVE  resume'[u] \in Semaphores /\ u \in Range(queue[resume'[u]])
    BY <2>3, <1>2, <1>3, ThreadAssumption DEF IInv, BlockedExact
  <2> QED BY <1>1, <1>3, <2>2, <2>3 DEF IInv, BlockedExact
<1>6. OneRunning'
  BY <1>1, <1>2, <1>3 DEF IInv, OneRunning
<1>7. ContinuationInv'
  BY <1>1, <1>2, <1>3 DEF IInv, ContinuationInv, OneRunning, InsideKernel
<1>8. CarcassInv' /\ HaltInv'
  BY <1>1, <1>2, <1>3 DEF CarcassInv, HaltInv
<1> QED BY <1>4, <1>5, <1>6, <1>7, <1>8

(* Thread::Sleep dispatches the first of the ready list. *)
LEMMA FindAndRunStep ==
    ASSUME IInv, TypeOK', FindAndRun
    PROVE  /\ ReadyListExact' /\ OneRunning' /\ BlockedExact' /\ CarcassInv'
           /\ ContinuationInv' /\ HaltInv'
<1> DEFINE next == Head(readyList)
<1>1. /\ pc = "Sleep" /\ pc' = "Switched" /\ currentThread' = next
      /\ status' = [status EXCEPT ![next] = "RUNNING"]
      /\ readyList' = Tail(readyList)
      /\ UNCHANGED <<threadToBeDestroyed, resume, queue, halted>>
  BY DEF FindAndRun, semVars
<1>2. ~halted /\ readyList # <<>> /\ readyList \in Seq(Threads)
  BY DEF FindAndRun, CanDispatch, IInv, TypeOK
<1>3. Range(readyList) = {t \in Threads : status[t] = "READY"} /\ IsInjective(readyList)
  BY <1>1 DEF IInv, ReadyListExact
<1>4. /\ next \in Threads /\ next \in Range(readyList)
      /\ Range(Tail(readyList)) = Range(readyList) \ {next}
      /\ IsInjective(Tail(readyList))
  BY <1>2, <1>3, RemoveFacts
<1>5. /\ status[next] = "READY" /\ resume[next] \in InsideKernel
      /\ \A t \in Threads : status[t] # "RUNNING"
  BY <1>1, <1>3, <1>4 DEF IInv, ContinuationInv, OneRunning
<1>6. /\ status'[next] = "RUNNING"
      /\ \A t \in Threads \ {next} : status'[t] = status[t]
  BY <1>1, <1>4 DEF IInv, TypeOK
<1>7. ReadyListExact'
  <2>1. Range(readyList') = {t \in Threads : status'[t] = "READY"}
    BY <1>1, <1>3, <1>4, <1>6
  <2> QED BY <1>1, <1>4, <2>1 DEF ReadyListExact
<1>8. BlockedExact'
  <2>1. \A u \in Threads : status'[u] = "BLOCKED" <=> status[u] = "BLOCKED"
    BY <1>5, <1>6
  <2>2. \A r \in Semaphores : Range(queue[r]) \subseteq Threads
    BY DEF IInv, TypeOK, Range
  <2> QED BY <1>1, <2>1, <2>2 DEF IInv, BlockedExact
<1>9. OneRunning'
  BY <1>1, <1>2, <1>5, <1>6 DEF OneRunning
<1>10. ContinuationInv'
  BY <1>1, <1>5, <1>6 DEF IInv, ContinuationInv, InsideKernel
<1>11. threadToBeDestroyed # NULL => threadToBeDestroyed \in Threads \ {next}
  BY <1>1, <1>5 DEF IInv, CarcassInv, TypeOK
<1>12. CarcassInv' /\ HaltInv'
  BY <1>1, <1>2, <1>6, <1>11 DEF IInv, CarcassInv, HaltInv
<1> QED BY <1>7, <1>8, <1>9, <1>10, <1>12

(* Steps that only move the control of the CPU: interrupts that wake       *)
(* nobody, device requests, the return from OneTick and Idle, and the      *)
(* start of Cleanup.                                                       *)
LEMMA ControlStep ==
    ASSUME IInv, UNCHANGED <<threadVars, semVars>>,
           \/ pc' = pc /\ halted' = halted
           \/ pc = "Sleep" /\ pc' = "Idle" /\ halted' = halted
           \/ pc = "Idle" /\ pc' = "Sleep" /\ halted' = halted
           \/ pc = "OneTick" /\ pc' = "Body" /\ halted' = halted /\ ~halted
           \/ pc = "OneTick" /\ pc' = "Deleting" /\ halted' = halted /\ halted
           \/ pc' \in {"OneTick", "Deleting"} /\ halted' = TRUE /\ ~halted
              /\ pc # "Switched" /\ (pc' = "Deleting" <=> pc = "Body")
           \/ pc' = "Exit" /\ halted /\ halted' = halted
    PROVE  /\ ReadyListExact' /\ OneRunning' /\ BlockedExact' /\ CarcassInv'
           /\ ContinuationInv' /\ HaltInv'
<1>1. UNCHANGED <<currentThread, threadToBeDestroyed, status, resume, readyList, queue>>
  BY DEF threadVars, semVars
<1>2. ReadyListExact' /\ BlockedExact'
  BY <1>1 DEF IInv, ReadyListExact, BlockedExact, HaltInv
<1>3. OneRunning' /\ ContinuationInv'
  BY <1>1 DEF IInv, OneRunning, ContinuationInv, InsideKernel, HaltInv
<1>4. CarcassInv'
  BY <1>1 DEF IInv, CarcassInv, HaltInv, TypeOK, Control
<1>5. HaltInv'
  BY <1>1 DEF IInv, HaltInv
<1> QED BY <1>2, <1>3, <1>4, <1>5

(* Every step of the kernel keeps the invariant. *)
LEMMA InvStep == IInv /\ [Next]_vars => IInv'
<1> SUFFICES ASSUME IInv, [Next]_vars PROVE IInv'
  OBVIOUS
<1> DEFINE Core == /\ ReadyListExact /\ OneRunning /\ BlockedExact /\ CarcassInv
                   /\ ContinuationInv /\ HaltInv
           Levels == /\ pc \in {"OneTick", "Sleep", "Idle", "Switched"} => level = "IntOff"
                     /\ pc = "Body" => level = "IntOn"
                     /\ YieldRequestConsumed
<1>1. /\ TypeOK /\ TypeOK' /\ Levels
      /\ ReadyListExact /\ OneRunning /\ BlockedExact /\ CarcassInv
      /\ ContinuationInv /\ HaltInv
  BY TypeStep DEF IInv, AssertionsHold
<1> HIDE DEF Core, Levels
<1>2. ASSUME NEW t \in Threads, NewThread(t) PROVE Core' /\ Levels'
  <2>1. /\ pc = "Body" /\ status[t] = "NONE"
        /\ status' = [status EXCEPT ![t] = "JUST_CREATED"]
        /\ UNCHANGED <<currentThread, threadToBeDestroyed, resume, readyList, queue, halted,
                       pc, level, yieldOnReturn>>
    BY <1>2 DEF NewThread, semVars, intVars
  <2>2. /\ status'[t] = "JUST_CREATED"
        /\ \A u \in Threads \ {t} : status'[u] = status[u]
    BY <2>1, <1>1 DEF TypeOK
  <2>3. ReadyListExact'
    <3>1. \A u \in Threads : status'[u] = "READY" <=> status[u] = "READY"
      BY <2>1, <2>2
    <3> QED BY <1>1, <2>1, <3>1 DEF ReadyListExact
  <2>4. BlockedExact'
    <3>1. \A u \in Threads : status'[u] = "BLOCKED" <=> status[u] = "BLOCKED"
      BY <2>1, <2>2
    <3>2. \A r \in Semaphores : Range(queue[r]) \subseteq Threads
      BY <1>1 DEF TypeOK, Range
    <3> QED BY <1>1, <2>1, <3>1, <3>2 DEF BlockedExact
  <2>5. OneRunning' /\ ContinuationInv'
    BY <1>1, <2>1, <2>2 DEF OneRunning, ContinuationInv, InsideKernel
  <2>6. CarcassInv' /\ HaltInv'
    BY <1>1, <2>1, <2>2 DEF CarcassInv, HaltInv, OneRunning
  <2>7. Core' BY <2>3, <2>4, <2>5, <2>6 DEF Core
  <2>8. Levels' BY <1>1, <2>1 DEF Levels, YieldRequestConsumed
  <2> QED BY <2>7, <2>8
<1>3. ASSUME NEW t \in Threads, Start(t) PROVE Core' /\ Levels'
  <2>1. Core' BY <1>1, <1>3, StartStep DEF Core
  <2>2. Levels' BY <1>1, <1>3 DEF Start, EnterOneTick, Levels, YieldRequestConsumed
  <2> QED BY <2>1, <2>2
<1>4. ASSUME Yield PROVE Core' /\ Levels'
  <2>1. Core' BY <1>1, <1>4, YieldStep DEF Yield, Core
  <2>2. pc' \in {"OneTick", "Switched"} /\ level' = "IntOff"
    BY <1>4 DEF Yield, DoYield, EnterOneTick
  <2>3. ~yieldOnReturn' BY <1>1, <1>4 DEF Yield, Levels, YieldRequestConsumed
  <2>4. Levels' BY <2>2, <2>3 DEF Levels, YieldRequestConsumed
  <2> QED BY <2>1, <2>4
<1>5. ASSUME NEW s \in Semaphores, P(s) PROVE Core' /\ Levels'
  <2>1. /\ pc = "Body" /\ threadToBeDestroyed = NULL /\ resume[currentThread] = "None"
        /\ UNCHANGED <<currentThread, threadToBeDestroyed, readyList, halted, yieldOnReturn>>
    BY <1>1, <1>5 DEF P, CarcassInv, ContinuationInv, OneRunning, TypeOK
  <2>2. DeleteCarcass = status /\ ForgetCarcass = resume
    BY <1>1, <2>1, ThreadAssumption DEF DeleteCarcass, ForgetCarcass, TypeOK
  <2>3. CASE value[s] = 0
    <3>1. /\ queue' = [queue EXCEPT ![s] = Append(queue[s], currentThread)]
          /\ status' = [status EXCEPT ![currentThread] = "BLOCKED"]
          /\ resume' = [resume EXCEPT ![currentThread] = s]
          /\ pc' = "Sleep" /\ level' = "IntOff"
      BY <1>5, <2>3 DEF P, DoP
    <3>2. Core' BY <1>1, <2>1, <2>2, <3>1, BlockStep DEF Core
    <3>3. Levels' BY <1>1, <2>1, <3>1 DEF Levels, YieldRequestConsumed
    <3> QED BY <3>2, <3>3
  <2>4. CASE value[s] # 0
    <3>1. /\ UNCHANGED <<queue, status, resume>>
          /\ pc' = "OneTick" /\ level' = "IntOff"
      BY <1>5, <2>4 DEF P, DoP, EnterOneTick
    <3>2. resume' = [resume EXCEPT ![currentThread] = "None"]
      BY <1>1, <2>1, <3>1 DEF TypeOK
    <3>3. Core' BY <1>1, <2>1, <2>2, <3>1, <3>2, ContinueStep DEF Core
    <3>4. Levels' BY <1>1, <2>1, <3>1 DEF Levels, YieldRequestConsumed
    <3> QED BY <3>3, <3>4
  <2> QED BY <2>3, <2>4
<1>6. ASSUME NEW s \in Semaphores, V(s) PROVE Core' /\ Levels'
  <2>1. Core' BY <1>1, <1>6, SignalStep DEF V, EnterOneTick, Core
  <2>2. Levels' BY <1>1, <1>6 DEF V, EnterOneTick, Levels, YieldRequestConsumed
  <2> QED BY <2>1, <2>2
<1>7. ASSUME Finish PROVE Core' /\ Levels'
  <2>1. Core' BY <1>1, <1>7, FinishStep DEF Core
  <2>2. Levels' BY <1>1, <1>7 DEF Finish, Levels, YieldRequestConsumed
  <2> QED BY <2>1, <2>2
<1>8. ASSUME NEW d \in Devices, Request(d) PROVE Core' /\ Levels'
  <2>1. Core' BY <1>8, ControlStep DEF Request, Core
  <2>2. Levels' BY <1>1, <1>8 DEF Request, Levels, YieldRequestConsumed
  <2> QED BY <2>1, <2>2
<1>9. ASSUME FindAndRun PROVE Core' /\ Levels'
  <2>1. Core' BY <1>1, <1>9, FindAndRunStep DEF Core
  <2>2. Levels' BY <1>1, <1>9 DEF FindAndRun, intVars, Levels, YieldRequestConsumed
  <2> QED BY <2>1, <2>2
<1>10. ASSUME NEW d \in Devices, IdleDevice(d) \/ DeviceInterrupt(d) PROVE Core' /\ Levels'
  <2>1. DoneSemaphore[d] \in Semaphores
    BY DeviceAssumption
  <2>2. Core'
    BY <1>1, <1>10, <2>1, SignalStep DEF IdleDevice, DeviceInterrupt, Core
  <2>3. Levels' BY <1>1, <1>10 DEF IdleDevice, DeviceInterrupt, Levels, YieldRequestConsumed
  <2> QED BY <2>2, <2>3
<1>11. ASSUME IdleTimer \/ TimerInterrupt \/ IdleReturn PROVE Core' /\ Levels'
  <2>1. Core' BY <1>11, ControlStep DEF IdleTimer, TimerInterrupt, IdleReturn, Core
  <2>2. Levels' BY <1>1, <1>11 DEF IdleTimer, TimerInterrupt, IdleReturn, Levels, YieldRequestConsumed
  <2> QED BY <2>1, <2>2
<1>12. ASSUME OneTickReturn PROVE Core' /\ Levels'
  <2>1. CASE yieldOnReturn
    <3>1. Core' BY <1>1, <1>12, <2>1, YieldStep DEF OneTickReturn, Core
    <3>2. pc' \in {"OneTick", "Switched"} /\ level' = "IntOff"
      BY <1>12, <2>1 DEF OneTickReturn, DoYield, EnterOneTick
    <3>3. Levels' BY <1>12, <3>2 DEF OneTickReturn, Levels, YieldRequestConsumed
    <3> QED BY <3>1, <3>3
  <2>2. CASE ~yieldOnReturn
    <3>1. /\ UNCHANGED <<threadVars, semVars, halted>> /\ pc = "OneTick" /\ level' = "IntOn"
          /\ pc' = (IF halted THEN "Deleting" ELSE "Body") /\ yieldOnReturn' = FALSE
      BY <1>12, <2>2 DEF OneTickReturn, threadVars
    <3>2. Core' BY <3>1, ControlStep DEF Core
    <3>3. Levels' BY <3>1 DEF Levels, YieldRequestConsumed
    <3> QED BY <3>2, <3>3
  <2> QED BY <2>1, <2>2
<1>13. ASSUME ResumeRunning PROVE Core' /\ Levels'
  <2>1. Core' BY <1>1, <1>13, ContinueStep DEF ResumeRunning, EnterOneTick, semVars, Core
  <2>2. Levels' BY <1>1, <1>13 DEF ResumeRunning, EnterOneTick, Levels, YieldRequestConsumed
  <2> QED BY <2>1, <2>2
<1>14. ASSUME NEW s \in Semaphores, ResumeP(s) PROVE Core' /\ Levels'
  <2>1. CASE value[s] = 0
    <3>1. /\ pc = "Switched" /\ pc' = "Sleep" /\ threadToBeDestroyed' = NULL
          /\ queue' = [queue EXCEPT ![s] = Append(queue[s], currentThread)]
          /\ status' = [DeleteCarcass EXCEPT ![currentThread] = "BLOCKED"]
          /\ resume' = ForgetCarcass /\ resume[currentThread] = s
          /\ UNCHANGED <<currentThread, readyList, halted, yieldOnReturn, level>>
      BY <1>14, <2>1 DEF ResumeP
    <3>2. currentThread # threadToBeDestroyed /\ currentThread \in Threads
      BY <3>1 DEF IInv, AssertionsHold, TypeOK
    <3>3. resume' = [ForgetCarcass EXCEPT ![currentThread] = s]
      BY <3>1, <3>2 DEF ForgetCarcass
    <3>4. Core' BY <1>1, <3>1, <3>3, BlockStep DEF Core
    <3>5. Levels' BY <1>1, <3>1 DEF Levels, YieldRequestConsumed
    <3> QED BY <3>4, <3>5
  <2>2. CASE value[s] # 0
    <3>1. Core' BY <1>1, <1>14, <2>2, ContinueStep DEF ResumeP, EnterOneTick, Core
    <3>2. Levels'
      BY <1>1, <1>14, <2>2 DEF ResumeP, EnterOneTick, Levels, YieldRequestConsumed
    <3> QED BY <3>1, <3>2
  <2> QED BY <2>1, <2>2
<1>15. ASSUME Halt \/ IdlePowerdown \/ UserAbort PROVE Core' /\ Levels'
  <2>1. Core'
    BY <1>1, <1>15, ControlStep
       DEF Halt, IdlePowerdown, UserAbort, Cleanup, EnterOneTick, HaltInv, Levels, TypeOK, Core
  <2>2. Levels'
    BY <1>1, <1>15 DEF Halt, IdlePowerdown, UserAbort, Cleanup, EnterOneTick, Levels, TypeOK,
                       YieldRequestConsumed
  <2> QED BY <2>1, <2>2
<1>16. ASSUME DeleteAndExit PROVE Core' /\ Levels'
  <2>1. /\ pc = "Deleting" /\ pc' = "Exit"
        /\ status' = [status EXCEPT ![currentThread] = "NONE"]
        /\ UNCHANGED <<currentThread, threadToBeDestroyed, resume, queue, halted>>
    BY <1>16 DEF DeleteAndExit, semVars
  <2>2. \A t \in Threads : status'[t] = status[t] \/ status'[t] = "NONE"
    BY <1>1, <2>1 DEF TypeOK
  <2>3. ReadyListExact' /\ BlockedExact'
    BY <1>1, <2>1, <2>2 DEF ReadyListExact, BlockedExact
  <2>4. OneRunning' /\ ContinuationInv'
    BY <1>1, <2>1, <2>2 DEF OneRunning, ContinuationInv
  <2>5. CarcassInv' /\ HaltInv'
    BY <1>1, <2>1 DEF CarcassInv, HaltInv
  <2>6. Core' BY <2>3, <2>4, <2>5 DEF Core
  <2>7. Levels' BY <2>1 DEF Levels, YieldRequestConsumed
  <2> QED BY <2>6, <2>7
<1>17. ASSUME Exited \/ UNCHANGED vars PROVE Core' /\ Levels'
  <2>1. UNCHANGED <<threadVars, semVars, intVars, halted, pc>>
    BY <1>17 DEF Exited, vars
  <2>2. Core' BY <2>1, ControlStep DEF Core
  <2>3. Levels' BY <1>1, <2>1 DEF Levels, YieldRequestConsumed, intVars
  <2> QED BY <2>2, <2>3
<1>18. Core' /\ Levels'
  BY <1>2, <1>3, <1>4, <1>5, <1>6, <1>7, <1>8, <1>9, <1>10, <1>11, <1>12, <1>13,
     <1>14, <1>15, <1>16, <1>17 DEF Next, ThreadCall, Dispatch, CheckIfDue, Halting
<1>19. AssertionsHold'
  <2>1. ASSUME pc' = "Switched"
        PROVE  /\ threadToBeDestroyed' # currentThread'
               /\ resume'[currentThread'] \notin {"None", "Finish"}
    <3>1. currentThread' \in Threads /\ status'[currentThread'] = "RUNNING"
      BY <1>1, <1>18, <2>1 DEF Core, TypeOK, OneRunning
    <3>2. resume'[currentThread'] \in InsideKernel
      BY <1>18, <2>1, <3>1 DEF Core, ContinuationInv
    <3>3. threadToBeDestroyed' # currentThread'
      BY <1>18, <2>1, <3>1, ThreadAssumption DEF Core, CarcassInv
    <3> QED BY <3>2, <3>3, SemaphoreAssumption DEF InsideKernel
  <2>2. /\ pc' = "Body" => threadToBeDestroyed' = NULL
        /\ pc' = "Deleting" => status'[currentThread'] # "NONE"
    BY <1>18 DEF Core, CarcassInv, HaltInv
  <2> QED BY <1>18, <2>1, <2>2 DEF Levels, AssertionsHold
<1> QED BY <1>1, <1>18, <1>19 DEF IInv, Core, Levels

(* The scheduling invariant holds in every reachable state. *)
THEOREM Invariance == Spec => []IInv
<1>1. Init => IInv
  <2> SUFFICES ASSUME Init PROVE IInv
    OBVIOUS
  <2>1. TypeOK
    BY InitType
  <2>2. Range(readyList) = {} /\ IsInjective(readyList)
    BY DEF Init, Range, IsInjective
  <2>3. \A s \in Semaphores : Range(queue[s]) = {} /\ IsInjective(queue[s])
    BY DEF Init, Range, IsInjective
  <2>4. ReadyListExact /\ BlockedExact
    BY <2>2, <2>3, ThreadAssumption DEF Init, ReadyListExact, BlockedExact
  <2>5. OneRunning /\ CarcassInv /\ AssertionsHold /\ YieldRequestConsumed
    BY ThreadAssumption DEF Init, OneRunning, CarcassInv, AssertionsHold, YieldRequestConsumed
  <2>6. ContinuationInv /\ HaltInv
    BY ThreadAssumption DEF Init, ContinuationInv, HaltInv
  <2> QED BY <2>1, <2>4, <2>5, <2>6 DEF IInv
<1> QED BY <1>1, InvStep, PTL DEF Spec

(* Each part of the invariant, for the properties the runs check: the      *)
(* ready list is exactly the READY threads, only the thread on the CPU is  *)
(* RUNNING, every BLOCKED thread can be found, a finished thread is        *)
(* deleted once and never dispatched, a yield request does not leak, and   *)
(* no ASSERT of the scheduling code fails.                                 *)
THEOREM SchedulingSafe ==
    Spec => [](/\ ReadyListExact /\ OneRunning /\ BlockedExact /\ CarcassInv
               /\ AssertionsHold /\ YieldRequestConsumed)
<1>1. IInv => /\ ReadyListExact /\ OneRunning /\ BlockedExact /\ CarcassInv
              /\ AssertionsHold /\ YieldRequestConsumed
  BY DEF IInv
<1> QED BY <1>1, Invariance, PTL

(* Scheduler::Stop: once halted, always halted, and the CPU is never       *)
(* given to another thread.                                                *)
THEOREM HaltedKeepsCPU == Spec => NoSwitchAfterHalt
<1>1. ASSUME IInv, [Next]_vars PROVE halted => halted' /\ currentThread' = currentThread
  <2> SUFFICES ASSUME halted PROVE halted' /\ currentThread' = currentThread
    OBVIOUS
  <2>1. pc \in {"OneTick", "Deleting", "Exit"}
    BY <1>1 DEF IInv, HaltInv
  <2>2. CASE ThreadCall \/ Dispatch
    BY <2>1, <2>2 DEF ThreadCall, Dispatch, NewThread, Start, Yield, P, V, Finish, Request,
                      FindAndRun, ResumeRunning, ResumeP
  <2>3. CASE CheckIfDue
    BY <2>1, <2>3 DEF CheckIfDue, IdleDevice, DeviceInterrupt, IdleTimer, TimerInterrupt,
                      IdleReturn, OneTickReturn, DoYield, CanDispatch, threadVars
  <2>4. CASE Halting
    BY <2>1, <2>4 DEF Halting, Halt, IdlePowerdown, UserAbort, DeleteAndExit, Exited, Cleanup,
                      vars, threadVars
  <2>5. CASE UNCHANGED vars
    BY <2>5 DEF vars, threadVars
  <2> QED BY <1>1, <2>2, <2>3, <2>4, <2>5 DEF Next
<1>2. IInv /\ [Next]_vars => [halted => halted' /\ currentThread' = currentThread]_vars
  BY <1>1
<1> QED BY <1>2, Invariance, PTL DEF Spec, NoSwitchAfterHalt

-----------------------------------------------------------------------------
(***************************************************************************)
(* No lost wakeup.                                                         *)
(***************************************************************************)

(* The woken threads of a semaphore are finitely many, and one more or one *)
(* less counts for one.                                                    *)
LEMMA WokenCount ==
    ASSUME NEW A \in SUBSET Threads, NEW x \in Threads
    PROVE  /\ Cardinality(A) \in Nat
           /\ x \notin A => Cardinality(A \cup {x}) = Cardinality(A) + 1
           /\ x \in A => Cardinality(A \ {x}) = Cardinality(A) - 1
<1>1. IsFiniteSet(A)
  BY ThreadAssumption, FS_Subset
<1> QED BY <1>1, FS_CardinalityType, FS_AddElement, FS_RemoveElement

(* Semaphore::V wakes one waiter for the unit it adds. *)
LEMMA SignalWakes ==
    ASSUME IInv, NoLostWakeup, pc # "Exit", NEW s \in Semaphores, Signal(s), UNCHANGED resume
    PROVE  NoLostWakeup'
<1> SUFFICES ASSUME NEW r \in Semaphores, queue'[r] # <<>>
             PROVE  value'[r] <= Cardinality(Woken(r)')
  BY DEF NoLostWakeup
<1>1. /\ value[s] \in Nat /\ value[r] \in Nat /\ value'[s] = value[s] + 1
      /\ r # s => value'[r] = value[r]
  BY DEF Signal, IInv, TypeOK
<1>2. CASE queue[s] = <<>>
  <2>1. UNCHANGED <<queue, status>> BY <1>2 DEF Signal
  <2>2. r # s /\ Woken(r)' = Woken(r) BY <1>2, <2>1 DEF Woken
  <2> QED BY <1>1, <2>1, <2>2 DEF NoLostWakeup
<1>3. CASE queue[s] # <<>>
  <2>1. PICK w \in Threads :
             /\ status[w] = "BLOCKED" /\ resume[w] = s
             /\ status' = [status EXCEPT ![w] = "READY"]
             /\ \A q \in Semaphores \ {s} : queue'[q] = queue[q]
    BY <1>3, SignalMoves
  <2>2. /\ status'[w] = "READY"
        /\ \A t \in Threads \ {w} : status'[t] = status[t]
    BY <2>1 DEF IInv, TypeOK
  <2>3. CASE r = s
    <3>1. Woken(s)' = Woken(s) \cup {w} /\ w \notin Woken(s) /\ Woken(s) \in SUBSET Threads
      BY <2>1, <2>2 DEF Woken
    <3>2. /\ Cardinality(Woken(s)') = Cardinality(Woken(s)) + 1
          /\ Cardinality(Woken(s)) \in Nat
      BY <3>1, WokenCount
    <3>3. value[s] <= Cardinality(Woken(s))
      BY <1>3 DEF NoLostWakeup
    <3> QED BY <1>1, <2>3, <3>2, <3>3
  <2>4. CASE r # s
    <3>1. Woken(r)' = Woken(r)
      BY <2>1, <2>2, <2>4 DEF Woken
    <3> QED BY <1>1, <2>1, <2>4, <3>1 DEF NoLostWakeup
  <2> QED BY <2>3, <2>4
<1> QED BY <1>2, <1>3

(* A step that leaves the semaphores alone and wakes or resumes nobody in  *)
(* P keeps the count.                                                      *)
LEMMA SameWoken ==
    ASSUME NoLostWakeup, pc # "Exit", UNCHANGED semVars,
           \A r \in Semaphores : Woken(r)' = Woken(r)
    PROVE  NoLostWakeup'
  BY DEF NoLostWakeup, semVars

(* A dispatch only turns READY into RUNNING or back, which both count as   *)
(* woken, and puts a thread that was running into Yield.                   *)
LEMMA YieldKeepsWoken ==
    ASSUME IInv, DoYield, pc \in {"Body", "OneTick"}
    PROVE  \A r \in Semaphores : Woken(r)' = Woken(r)
<1>1. CASE ~CanDispatch
  BY <1>1 DEF DoYield, Woken
<1>2. CASE CanDispatch
  <2> DEFINE next == Head(readyList)
             self == currentThread
  <2>1. /\ ~halted /\ readyList # <<>> /\ readyList \in Seq(Threads) /\ self \in Threads
        /\ status \in [Threads -> ThreadStatus] /\ resume \in [Threads -> Continuations]
    BY <1>2 DEF CanDispatch, IInv, TypeOK
  <2>2. next \in Threads /\ next \in Range(readyList)
    BY <2>1, RemoveFacts
  <2>3. status[next] = "READY"
    BY <2>2 DEF IInv, ReadyListExact
  <2>4. status[self] = "RUNNING" /\ resume[self] = "None" /\ next # self
    BY <2>1, <2>3 DEF IInv, OneRunning, ContinuationInv
  <2>5. /\ status' = [status EXCEPT ![self] = "READY", ![next] = "RUNNING"]
        /\ resume' = [resume EXCEPT ![self] = "Yield"]
    BY <1>2 DEF DoYield
  <2>6. ASSUME NEW r \in Semaphores, NEW t \in Threads
        PROVE  t \in Woken(r)' <=> t \in Woken(r)
    <3>1. r \notin {"None", "Yield"} BY SemaphoreAssumption
    <3>2. CASE t = self BY <2>1, <2>4, <2>5, <3>1, <3>2 DEF Woken
    <3>3. CASE t = next BY <2>1, <2>2, <2>3, <2>4, <2>5, <3>3 DEF Woken
    <3>4. CASE t # self /\ t # next BY <2>1, <2>2, <2>5, <3>4 DEF Woken
    <3> QED BY <3>2, <3>3, <3>4
  <2> QED BY <2>6 DEF Woken
<1> QED BY <1>1, <1>2

(* The thread on the CPU is woken exactly when it is back in P's loop, and *)
(* the finished thread never is.                                           *)
LEMMA ResumeWoken ==
    ASSUME IInv, pc = "Switched", NEW r \in Semaphores
    PROVE  /\ currentThread \in Threads /\ threadToBeDestroyed # currentThread
           /\ currentThread \in Woken(r) <=> resume[currentThread] = r
           /\ Woken(r) \in SUBSET Threads
           /\ threadToBeDestroyed \notin Woken(r)
<1>1. currentThread \in Threads /\ status[currentThread] = "RUNNING"
  BY DEF IInv, TypeOK, OneRunning
<1>2. threadToBeDestroyed # currentThread
  BY DEF IInv, AssertionsHold
<1>3. threadToBeDestroyed \notin Woken(r)
  BY ThreadAssumption DEF IInv, CarcassInv, Woken
<1> QED BY <1>1, <1>2, <1>3 DEF Woken

(* Every step keeps a woken thread for every free unit that is waited for. *)
LEMMA NoLostWakeupStep == IInv /\ NoLostWakeup /\ [Next]_vars => NoLostWakeup'
<1> SUFFICES ASSUME IInv, NoLostWakeup, [Next]_vars PROVE NoLostWakeup'
  OBVIOUS
<1> DEFINE Same == \A r \in Semaphores : Woken(r)' = Woken(r)
<1>0. /\ status \in [Threads -> ThreadStatus] /\ resume \in [Threads -> Continuations]
      /\ value \in [Semaphores -> Nat] /\ queue \in [Semaphores -> Seq(Threads)]
      /\ currentThread \in Threads
      /\ \A r \in Semaphores : r \notin {"None", "Root", "Yield", "Finish"}
  BY SemaphoreAssumption DEF IInv, TypeOK
<1>1. ASSUME NEW t \in Threads, NewThread(t) PROVE NoLostWakeup'
  <2>1. Same BY <1>0, <1>1 DEF NewThread, Woken
  <2> QED BY <1>1, <2>1, SameWoken DEF NewThread
<1>2. ASSUME NEW t \in Threads, Start(t) PROVE NoLostWakeup'
  <2>1. resume[t] = "None" BY <1>2 DEF Start, IInv, ContinuationInv
  <2>2. Same BY <1>0, <1>2, <2>1 DEF Start, ReadyToRun, Woken
  <2> QED BY <1>2, <2>2, SameWoken DEF Start
<1>3. CASE Yield
  BY <1>3, YieldKeepsWoken, SameWoken DEF Yield
<1>4. ASSUME NEW s \in Semaphores, P(s) PROVE NoLostWakeup'
  <2>1. status[currentThread] = "RUNNING" /\ resume[currentThread] = "None"
    BY <1>0, <1>4 DEF P, IInv, OneRunning, ContinuationInv
  <2>2. Same
    BY <1>0, <1>4, <2>1 DEF P, DoP, Woken
  <2>3. \A r \in Semaphores : Cardinality(Woken(r)) \in Nat
    BY <1>0, WokenCount DEF Woken
  <2>4. CASE value[s] = 0
    <3>1. value' = value /\ \A r \in Semaphores \ {s} : queue'[r] = queue[r]
      BY <1>0, <1>4, <2>4 DEF P, DoP
    <3> QED BY <1>0, <1>4, <2>2, <2>3, <2>4, <3>1 DEF P, NoLostWakeup
  <2>5. CASE value[s] # 0
    <3>1. /\ queue' = queue /\ value'[s] = value[s] - 1
          /\ \A r \in Semaphores \ {s} : value'[r] = value[r]
      BY <1>0, <1>4, <2>5 DEF P, DoP
    <3>2. ASSUME NEW r \in Semaphores, queue'[r] # <<>>
          PROVE  value'[r] <= Cardinality(Woken(r)')
      <4>1. value[r] <= Cardinality(Woken(r))
        BY <1>4, <3>1, <3>2 DEF P, NoLostWakeup
      <4>2. Woken(r)' = Woken(r) /\ Cardinality(Woken(r)) \in Nat
        BY <2>2, <2>3
      <4>3. value[r] \in Nat /\ value'[r] \in Int /\ value'[r] <= value[r]
        BY <1>0, <3>1
      <4> QED BY <4>1, <4>2, <4>3
    <3> QED BY <3>2 DEF NoLostWakeup
  <2> QED BY <2>4, <2>5
<1>5. ASSUME NEW s \in Semaphores, V(s) PROVE NoLostWakeup'
  BY <1>5, SignalWakes DEF V
<1>6. CASE Finish
  <2>1. resume[currentThread] = "None"
    BY <1>0, <1>6 DEF Finish, IInv, OneRunning, ContinuationInv
  <2>2. Same BY <1>0, <1>6, <2>1 DEF Finish, Woken
  <2> QED BY <1>6, <2>2, SameWoken DEF Finish
<1>7. ASSUME NEW d \in Devices, Request(d) PROVE NoLostWakeup'
  <2>1. Same BY <1>7 DEF Request, threadVars, Woken
  <2> QED BY <1>7, <2>1, SameWoken DEF Request
<1>8. CASE FindAndRun
  <2>1. readyList \in Seq(Threads) /\ readyList # <<>>
    BY <1>8 DEF FindAndRun, CanDispatch, IInv, TypeOK
  <2>2. Head(readyList) \in Threads /\ Head(readyList) \in Range(readyList)
    BY <2>1, RemoveFacts
  <2>3. status[Head(readyList)] = "READY"
    BY <1>8, <2>2 DEF FindAndRun, IInv, ReadyListExact
  <2>4. status' = [status EXCEPT ![Head(readyList)] = "RUNNING"] /\ resume' = resume
    BY <1>8 DEF FindAndRun
  <2>5. Same BY <1>0, <2>2, <2>3, <2>4 DEF Woken
  <2> QED BY <1>8, <2>5, SameWoken DEF FindAndRun
<1>9. ASSUME NEW d \in Devices, IdleDevice(d) \/ DeviceInterrupt(d) PROVE NoLostWakeup'
  <2>1. DoneSemaphore[d] \in Semaphores
    BY DeviceAssumption
  <2> QED BY <1>9, <2>1, SignalWakes DEF IdleDevice, DeviceInterrupt
<1>10. CASE IdleTimer \/ TimerInterrupt \/ IdleReturn
  <2>1. Same BY <1>10 DEF IdleTimer, TimerInterrupt, IdleReturn, threadVars, Woken
  <2> QED BY <1>10, <2>1, SameWoken DEF IdleTimer, TimerInterrupt, IdleReturn
<1>11. CASE OneTickReturn
  <2>1. CASE yieldOnReturn
    BY <1>11, <2>1, YieldKeepsWoken, SameWoken DEF OneTickReturn
  <2>2. CASE ~yieldOnReturn
    <3>1. Same BY <1>11, <2>2 DEF OneTickReturn, Woken
    <3> QED BY <1>11, <3>1, SameWoken DEF OneTickReturn
  <2> QED BY <2>1, <2>2
<1>12. CASE ResumeRunning
  <2>1. /\ pc = "Switched" /\ resume[currentThread] \in {"Root", "Yield"}
        /\ status' = DeleteCarcass
        /\ resume' = [ForgetCarcass EXCEPT ![currentThread] = "None"]
    BY <1>12 DEF ResumeRunning
  <2>2. ASSUME NEW r \in Semaphores PROVE Woken(r)' = Woken(r)
    BY <1>0, <2>1, ResumeWoken DEF DeleteCarcass, ForgetCarcass, Woken
  <2> QED BY <1>12, <2>1, <2>2, SameWoken DEF ResumeRunning
<1>13. ASSUME NEW s \in Semaphores, ResumeP(s) PROVE NoLostWakeup'
  <2>1. pc = "Switched" /\ resume[currentThread] = s
    BY <1>13 DEF ResumeP
  <2>2. ASSUME NEW r \in Semaphores, NEW t \in Threads
        PROVE  t \in Woken(r)' <=> t \in Woken(r) /\ t # currentThread
    <3>1. t = threadToBeDestroyed => t \notin Woken(r) /\ t # currentThread
      BY <2>1, ResumeWoken
    <3>2. CASE value[s] = 0
      <4>1. /\ status' = [DeleteCarcass EXCEPT ![currentThread] = "BLOCKED"]
            /\ resume' = ForgetCarcass
        BY <1>13, <3>2 DEF ResumeP
      <4> QED BY <1>0, <3>1, <4>1 DEF DeleteCarcass, ForgetCarcass, Woken
    <3>3. CASE value[s] # 0
      <4>1. /\ status' = DeleteCarcass
            /\ resume' = [ForgetCarcass EXCEPT ![currentThread] = "None"]
        BY <1>13, <3>3 DEF ResumeP
      <4>2. r # "None" BY <1>0
      <4> QED BY <1>0, <3>1, <4>1, <4>2 DEF DeleteCarcass, ForgetCarcass, Woken
    <3> QED BY <3>2, <3>3
  <2>3. /\ Woken(s)' = Woken(s) \ {currentThread}
        /\ \A r \in Semaphores \ {s} : Woken(r)' = Woken(r)
    <3>1. \A r \in Semaphores : Woken(r)' \subseteq Threads /\ Woken(r) \subseteq Threads
      BY DEF Woken
    <3>2. \A r \in Semaphores \ {s} : currentThread \notin Woken(r)
      BY <2>1 DEF Woken
    <3> QED BY <2>2, <3>1, <3>2
  <2>4. /\ Cardinality(Woken(s)') = Cardinality(Woken(s)) - 1
        /\ Cardinality(Woken(s)') \in Nat /\ Cardinality(Woken(s)) \in Nat
    <3>1. currentThread \in Woken(s) /\ Woken(s) \in SUBSET Threads
      BY <2>1, ResumeWoken
    <3>2. Woken(s)' \in SUBSET Threads
      BY <2>3, <3>1
    <3> QED BY <1>0, <2>3, <3>1, <3>2, WokenCount
  <2>5. CASE value[s] = 0
    <3>1. value' = value /\ \A r \in Semaphores \ {s} : queue'[r] = queue[r]
      BY <1>0, <1>13, <2>5 DEF ResumeP
    <3>2. ASSUME NEW r \in Semaphores, queue'[r] # <<>>
          PROVE  value'[r] <= Cardinality(Woken(r)')
      <4>1. CASE r = s BY <2>4, <2>5, <3>1, <4>1
      <4>2. CASE r # s BY <2>1, <2>3, <3>1, <3>2, <4>2 DEF NoLostWakeup
      <4> QED BY <4>1, <4>2
    <3> QED BY <3>2 DEF NoLostWakeup
  <2>6. CASE value[s] # 0
    <3>1. /\ queue' = queue /\ value'[s] = value[s] - 1
          /\ \A r \in Semaphores \ {s} : value'[r] = value[r]
      BY <1>0, <1>13, <2>6 DEF ResumeP
    <3>2. ASSUME NEW r \in Semaphores, queue'[r] # <<>>
          PROVE  value'[r] <= Cardinality(Woken(r)')
      <4>1. value[r] <= Cardinality(Woken(r))
        BY <2>1, <3>1, <3>2 DEF NoLostWakeup
      <4>2. CASE r = s BY <1>0, <2>4, <3>1, <4>1, <4>2
      <4>3. CASE r # s BY <2>3, <3>1, <4>1, <4>3
      <4> QED BY <4>2, <4>3
    <3> QED BY <3>2 DEF NoLostWakeup
  <2> QED BY <2>5, <2>6
<1>14. CASE Halt \/ IdlePowerdown \/ UserAbort
  <2>1. UNCHANGED <<status, resume>> /\ UNCHANGED semVars
    BY <1>14 DEF Halt, IdlePowerdown, UserAbort, threadVars
  <2>2. Same BY <2>1 DEF Woken
  <2>3. pc # "Exit" BY <1>14 DEF Halt, IdlePowerdown, UserAbort
  <2> QED BY <2>1, <2>2, <2>3, SameWoken
<1>15. CASE DeleteAndExit
  BY <1>15 DEF DeleteAndExit, NoLostWakeup
<1>16. CASE Exited \/ UNCHANGED vars
  <2>1. UNCHANGED <<status, resume, value, queue, pc>>
    BY <1>16 DEF Exited, vars, threadVars, semVars
  <2>2. Same BY <2>1 DEF Woken
  <2> QED BY <2>1, <2>2 DEF NoLostWakeup
<1> QED
  BY <1>1, <1>2, <1>3, <1>4, <1>5, <1>6, <1>7, <1>8, <1>9, <1>10, <1>11, <1>12, <1>13,
     <1>14, <1>15, <1>16 DEF Next, ThreadCall, Dispatch, CheckIfDue, Halting

(* Semaphore::P and V never lose a wakeup, for any number of threads and   *)
(* semaphores and any interleaving with interrupts.                        *)
THEOREM WakeupsKept == Spec => []NoLostWakeup
<1>1. Init => NoLostWakeup
  BY DEF Init, NoLostWakeup
<1> QED BY <1>1, Invariance, NoLostWakeupStep, PTL DEF Spec

(* Interrupt::Idle powers the machine down only when no thread could ever  *)
(* have gone on: no ready thread is forgotten, and nobody sleeps on a free *)
(* semaphore.                                                              *)
THEOREM PowerdownSound == Spec => PowerdownOnlyWhenStuck
<1> DEFINE Stuck == \A t \in Threads :
                \/ status[t] \in {"NONE", "JUST_CREATED"}
                \/ t = threadToBeDestroyed
                \/ \E s \in Semaphores : t \in Range(queue[s]) /\ value[s] = 0
<1>1. ASSUME IInv, NoLostWakeup, [Next]_vars,
             pc = "Sleep" /\ ~halted /\ halted' /\ pending = {}
      PROVE  Stuck
  <2>1. readyList = <<>>
    BY <1>1 DEF Next, ThreadCall, NewThread, Start, Yield, P, V, Finish, Request, Dispatch,
                FindAndRun, ResumeRunning, ResumeP, CheckIfDue, IdleDevice, DeviceInterrupt,
                IdleTimer, TimerInterrupt, IdleReturn, OneTickReturn, Halting, Halt,
                IdlePowerdown, UserAbort, DeleteAndExit, Exited, CanDispatch, vars
  <2>2. Range(readyList) = {}
    BY <2>1 DEF Range
  <2>3. \A t \in Threads : status[t] \in {"NONE", "JUST_CREATED", "BLOCKED"}
    <3>1. \A t \in Threads : status[t] # "READY"
      BY <1>1, <2>2 DEF IInv, ReadyListExact
    <3>2. \A t \in Threads : status[t] # "RUNNING"
      BY <1>1 DEF IInv, OneRunning
    <3> QED BY <1>1, <3>1, <3>2 DEF IInv, TypeOK, ThreadStatus
  <2>4. ASSUME NEW s \in Semaphores, queue[s] # <<>> PROVE value[s] = 0
    <3>1. Woken(s) = {}
      BY <2>3 DEF Woken
    <3>2. Cardinality(Woken(s)) = 0
      BY <3>1, FS_EmptySet
    <3>3. value[s] <= 0 /\ value[s] \in Nat
      BY <1>1, <2>4, <3>2 DEF IInv, TypeOK, NoLostWakeup
    <3> QED BY <3>3
  <2>5. ASSUME NEW t \in Threads, status[t] = "BLOCKED", t # threadToBeDestroyed
        PROVE  \E s \in Semaphores : t \in Range(queue[s]) /\ value[s] = 0
    <3>1. resume[t] \in Semaphores /\ t \in Range(queue[resume[t]])
      BY <1>1, <2>5 DEF IInv, BlockedExact
    <3>2. queue[resume[t]] # <<>>
      BY <3>1 DEF Range
    <3> QED BY <2>4, <3>1, <3>2
  <2> QED BY <2>3, <2>5
<1>2. IInv /\ NoLostWakeup /\ [Next]_vars =>
        [pc = "Sleep" /\ ~halted /\ halted' /\ pending = {} => Stuck]_vars
  BY <1>1
<1> QED BY <1>2, Invariance, WakeupsKept, PTL DEF Spec, PowerdownOnlyWhenStuck

-----------------------------------------------------------------------------
(***************************************************************************)
(* The kernel's semaphores implement AbstractSemaphore.                    *)
(***************************************************************************)

(* The threads inside P on s, as the refinement mapping counts them. *)
Inside(s) == {t \in Threads : resume[t] = s}

(* A step that leaves the values alone, and moves no thread into or out of *)
(* P, is invisible at the abstract level.                                  *)
LEMMA StutterStep ==
    ASSUME UNCHANGED value, \A r \in Semaphores : Inside(r)' = Inside(r)
    PROVE  UNCHANGED Abstract!avars
  BY DEF Abstract!avars, Inside

(* Semaphore::V is the abstract V, whoever calls it. *)
LEMMA GiveStep ==
    ASSUME NEW s \in Semaphores, Signal(s), UNCHANGED resume
    PROVE  Abstract!Give(s)
  BY DEF Signal, Abstract!Give

(* Semaphore::P takes a unit: the abstract Take, whether or not the thread *)
(* had to wait; the finished thread deleted on the way is in no P.         *)
LEMMA TakeStep ==
    ASSUME IInv, pc \in {"Body", "Switched"}, NEW s \in Semaphores, value[s] # 0,
           resume[currentThread] \in {"None", s},
           value' = [value EXCEPT ![s] = value[s] - 1],
           resume' = [ForgetCarcass EXCEPT ![currentThread] = "None"],
           NEW u \in Threads, u = currentThread
    PROVE  Abstract!Take(u, s)
<1>0. /\ currentThread \in Threads /\ value[s] \in Nat
      /\ resume \in [Threads -> Continuations]
      /\ \A r \in Semaphores : r \notin {"None", "Root", "Yield", "Finish"}
      /\ threadToBeDestroyed \in Threads => resume[threadToBeDestroyed] = "Finish"
  BY SemaphoreAssumption, ThreadAssumption DEF IInv, TypeOK, CarcassInv
<1>1. \A t \in Threads : resume'[t] = IF t = currentThread THEN "None"
                                       ELSE IF t = threadToBeDestroyed THEN "None" ELSE resume[t]
  BY <1>0 DEF ForgetCarcass
<1>2. Inside(s)' = Inside(s) \ {currentThread}
  BY <1>0, <1>1 DEF Inside
<1>3. ASSUME NEW r \in Semaphores \ {s} PROVE Inside(r)' = Inside(r)
  BY <1>0, <1>1 DEF Inside
<1>4. [r \in Semaphores |-> Inside(r)]' = [[r \in Semaphores |-> Inside(r)] EXCEPT ![s] = @ \ {currentThread}]
  BY <1>2, <1>3
<1>5. \/ \A r \in Semaphores : currentThread \notin Inside(r)
      \/ currentThread \in Inside(s)
  BY <1>0 DEF Inside
<1> QED BY <1>0, <1>4, <1>5 DEF Abstract!Take, Abstract!Outside, Inside

(* Every step of the kernel is a step of the abstract semaphores or is     *)
(* invisible to them.                                                      *)
LEMMA RefinementStep == IInv /\ [Next]_vars => [Abstract!ANext]_(Abstract!avars)
<1> SUFFICES ASSUME IInv, [Next]_vars PROVE Abstract!ANext \/ UNCHANGED Abstract!avars
  OBVIOUS
<1> DEFINE Same == \A r \in Semaphores : Inside(r)' = Inside(r)
<1>0. /\ resume \in [Threads -> Continuations] /\ value \in [Semaphores -> Nat]
      /\ currentThread \in Threads
      /\ \A r \in Semaphores : r \notin {"None", "Root", "Yield", "Finish"}
      /\ threadToBeDestroyed \in Threads => resume[threadToBeDestroyed] = "Finish"
  BY SemaphoreAssumption, ThreadAssumption DEF IInv, TypeOK, CarcassInv
<1>1. ASSUME UNCHANGED <<value, resume>> PROVE UNCHANGED Abstract!avars
  BY <1>1, StutterStep DEF Inside
<1>2. ASSUME NEW s \in Semaphores, Signal(s), UNCHANGED resume PROVE Abstract!ANext
  BY <1>2, GiveStep DEF Abstract!ANext
<1>3. ASSUME NEW t \in Threads, NewThread(t) PROVE UNCHANGED Abstract!avars
  BY <1>1, <1>3 DEF NewThread, semVars
<1>4. ASSUME NEW t \in Threads, Start(t) PROVE UNCHANGED Abstract!avars
  <2>1. resume[t] = "None" BY <1>4 DEF Start, IInv, ContinuationInv
  <2>2. Same BY <1>0, <1>4, <2>1 DEF Start, Inside
  <2> QED BY <1>4, <2>2, StutterStep DEF Start, semVars
<1>5. ASSUME DoYield, pc \in {"Body", "OneTick"}, UNCHANGED semVars
      PROVE  UNCHANGED Abstract!avars
  <2>1. CASE ~CanDispatch BY <1>1, <1>5, <2>1 DEF DoYield, semVars
  <2>2. CASE CanDispatch
    <3>1. resume[currentThread] = "None"
      BY <1>0, <1>5, <2>2 DEF IInv, OneRunning, ContinuationInv, CanDispatch
    <3>2. Same BY <1>0, <1>5, <2>2, <3>1 DEF DoYield, Inside
    <3> QED BY <1>5, <3>2, StutterStep DEF semVars
  <2> QED BY <2>1, <2>2
<1>6. ASSUME NEW s \in Semaphores, P(s) PROVE Abstract!ANext
  <2>1. resume[currentThread] = "None" /\ threadToBeDestroyed = NULL /\ pc = "Body"
    BY <1>0, <1>6 DEF P, IInv, OneRunning, ContinuationInv, CarcassInv
  <2>2. CASE value[s] = 0
    <3>1. value' = value /\ resume' = [resume EXCEPT ![currentThread] = s]
      BY <1>6, <2>2 DEF P, DoP
    <3>2. Inside(s)' = Inside(s) \cup {currentThread}
      BY <1>0, <3>1 DEF Inside
    <3>3. ASSUME NEW r \in Semaphores \ {s} PROVE Inside(r)' = Inside(r)
      BY <1>0, <2>1, <3>1 DEF Inside
    <3>4. [r \in Semaphores |-> Inside(r)]'
            = [[r \in Semaphores |-> Inside(r)] EXCEPT ![s] = @ \cup {currentThread}]
      BY <3>2, <3>3
    <3>5. \A r \in Semaphores : currentThread \notin Inside(r)
      BY <1>0, <2>1 DEF Inside
    <3>6. PICK u \in Threads : u = currentThread
      BY <1>0
    <3>7. Abstract!Wait(u, s)
      BY <2>2, <3>1, <3>4, <3>5, <3>6 DEF Abstract!Wait, Abstract!Outside, Inside
    <3> QED BY <3>7 DEF Abstract!ANext
  <2>3. CASE value[s] # 0
    <3>1. value' = [value EXCEPT ![s] = value[s] - 1] /\ resume' = resume
      BY <1>6, <2>3 DEF P, DoP
    <3>2. resume' = [ForgetCarcass EXCEPT ![currentThread] = "None"]
      BY <1>0, <2>1, <3>1, ThreadAssumption DEF ForgetCarcass
    <3>3. PICK u \in Threads : u = currentThread
      BY <1>0
    <3>4. Abstract!Take(u, s)
      BY <2>1, <2>3, <3>1, <3>2, <3>3, TakeStep
    <3> QED BY <3>4 DEF Abstract!ANext
  <2> QED BY <2>2, <2>3
<1>7. CASE Finish
  <2>1. resume[currentThread] = "None"
    BY <1>0, <1>7 DEF Finish, IInv, OneRunning, ContinuationInv
  <2>2. Same BY <1>0, <1>7, <2>1 DEF Finish, Inside
  <2> QED BY <1>7, <2>2, StutterStep DEF Finish, semVars
<1>8. CASE ResumeRunning
  <2>1. resume' = [ForgetCarcass EXCEPT ![currentThread] = "None"]
        /\ resume[currentThread] \in {"Root", "Yield"}
    BY <1>8 DEF ResumeRunning
  <2>2. Same BY <1>0, <2>1 DEF ForgetCarcass, Inside
  <2> QED BY <1>8, <2>2, StutterStep DEF ResumeRunning, semVars
<1>9. ASSUME NEW s \in Semaphores, ResumeP(s) PROVE Abstract!ANext \/ UNCHANGED Abstract!avars
  <2>1. CASE value[s] = 0
    <3>1. value' = value /\ resume' = ForgetCarcass
      BY <1>9, <2>1 DEF ResumeP
    <3>2. Same BY <1>0, <3>1 DEF ForgetCarcass, Inside
    <3> QED BY <3>1, <3>2, StutterStep
  <2>2. CASE value[s] # 0
    <3>1. PICK u \in Threads : u = currentThread
      BY <1>0
    <3>2. Abstract!Take(u, s)
      BY <1>9, <2>2, <3>1, TakeStep DEF ResumeP
    <3> QED BY <3>2 DEF Abstract!ANext
  <2> QED BY <2>1, <2>2
<1>10. CASE OneTickReturn
  <2>1. CASE yieldOnReturn BY <1>5, <1>10, <2>1 DEF OneTickReturn
  <2>2. CASE ~yieldOnReturn BY <1>1, <1>10, <2>2 DEF OneTickReturn, semVars
  <2> QED BY <2>1, <2>2
<1>11. ASSUME NEW d \in Devices, IdleDevice(d) \/ DeviceInterrupt(d) PROVE Abstract!ANext
  <2>1. DoneSemaphore[d] \in Semaphores BY DeviceAssumption
  <2> QED BY <1>2, <1>11, <2>1 DEF IdleDevice, DeviceInterrupt
<1>12. CASE FindAndRun \/ IdleTimer \/ TimerInterrupt \/ IdleReturn \/ Halting
  <2>1. UNCHANGED <<value, resume>>
    BY <1>12 DEF FindAndRun, IdleTimer, TimerInterrupt, IdleReturn, Halting, Halt,
                 IdlePowerdown, UserAbort, DeleteAndExit, Exited, vars, threadVars, semVars
  <2> QED BY <1>1, <2>1
<1>13. ASSUME NEW d \in Devices, Request(d) PROVE UNCHANGED Abstract!avars
  BY <1>1, <1>13 DEF Request, threadVars, semVars
<1>14. CASE Yield
  BY <1>5, <1>14 DEF Yield
<1>15. ASSUME NEW s \in Semaphores, V(s) PROVE Abstract!ANext
  BY <1>2, <1>15 DEF V
<1>16. CASE UNCHANGED vars
  BY <1>1, <1>16 DEF vars, threadVars, semVars
<1> QED
  BY <1>3, <1>4, <1>6, <1>7, <1>8, <1>9, <1>10, <1>11, <1>12, <1>13, <1>14, <1>15, <1>16
     DEF Next, ThreadCall, Dispatch, CheckIfDue

(* Queues, wakeups and context switches together implement semaphores      *)
(* whose P is one atomic step, as synch.h promises.                        *)
THEOREM SemaphoreRefinement == Spec => ImplementsSemaphore
<1>1. Init => Abstract!AInit
  <2> SUFFICES ASSUME Init PROVE Abstract!AInit
    OBVIOUS
  <2>1. \A s \in Semaphores : {t \in Threads : resume[t] = s} = {}
    BY SemaphoreAssumption DEF Init
  <2> QED BY <2>1 DEF Init, Abstract!AInit
<1> QED BY <1>1, RefinementStep, Invariance, PTL DEF Spec, ImplementsSemaphore, Abstract!ASpec

=============================================================================
