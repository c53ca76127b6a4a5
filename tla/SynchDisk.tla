------------------------------ MODULE SynchDisk ------------------------------
(***************************************************************************)
(* Synchronous disk accesses (filesys/synchdisk.cc) by several threads     *)
(* over the asynchronous disk (machine/disk.cc), which moves the data when *)
(* the request is made and interrupts later.                               *)
(*                                                                         *)
(* Lock has no implementation in this repository; it is taken to be what   *)
(* synch.h says of it.  Semaphores are those of module Kernel.             *)
(***************************************************************************)
EXTENDS Integers

CONSTANTS Threads, NULL, Sectors, Values, Blank

ASSUME SynchDiskAssumption ==
    /\ NULL \notin Threads /\ Blank \in Values /\ Sectors # {}

VARIABLES
    store,      \* contents of the sectors (the UNIX file)
    active,     \* Disk::active; its interrupt is scheduled
    lock,       \* the thread that holds SynchDisk::lock, or NULL
    semaphore,  \* value of SynchDisk::semaphore
    at,         \* where each thread is in ReadSector or WriteSector
    op,         \* the call it makes: sector, and what it writes or "read"
    data        \* the buffer of each thread's last read

svars == <<store, active, lock, semaphore, at, op, data>>

Ops == [sector : Sectors, write : Values \cup {"read"}]

SynchInit ==
    /\ store = [s \in Sectors |-> Blank]
    /\ active = FALSE
    /\ lock = NULL
    /\ semaphore = 0
    /\ at = [t \in Threads |-> "outside"]
    /\ op = [t \in Threads |-> [sector |-> CHOOSE s \in Sectors : TRUE, write |-> "read"]]
    /\ data = [t \in Threads |-> Blank]

(* Mutant of Call: the lock is not acquired. *)
Call_NoAcquire(t, o) ==
    /\ at[t] = "outside"
    /\ at' = [at EXCEPT ![t] = "request"]
    /\ op' = [op EXCEPT ![t] = o]
    /\ UNCHANGED <<store, active, lock, semaphore, data>>

(* A thread calls ReadSector or WriteSector. *)
Call(t, o) ==
    /\ at[t] = "outside"
    /\ at' = [at EXCEPT ![t] = "acquire"]
    /\ op' = [op EXCEPT ![t] = o]
    /\ UNCHANGED <<store, active, lock, semaphore, data>>

(* lock->Acquire() returns; the thread may be preempted before the request. *)
Acquire(t) ==
    /\ at[t] = "acquire" /\ lock = NULL
    /\ lock' = t
    /\ at' = [at EXCEPT ![t] = "request"]
    /\ UNCHANGED <<store, active, semaphore, op, data>>

(* Disk::ReadRequest or WriteRequest: the transfer, then the interrupt is  *)
(* scheduled.                                                              *)
Request(t) ==
    /\ at[t] = "request"
    /\ IF op[t].write = "read"
         THEN /\ data' = [data EXCEPT ![t] = store[op[t].sector]]
              /\ UNCHANGED store
         ELSE /\ store' = [store EXCEPT ![op[t].sector] = op[t].write]
              /\ UNCHANGED data
    /\ active' = TRUE
    /\ at' = [at EXCEPT ![t] = "wait"]
    /\ UNCHANGED <<lock, semaphore, op>>

(* Mutant of HandleInterrupt: it is scheduled again instead of telling the *)
(* waiting thread.                                                         *)
HandleInterrupt_Again == active /\ UNCHANGED svars

(* Disk::HandleInterrupt calls SynchDisk::RequestDone. *)
HandleInterrupt ==
    /\ active
    /\ active' = FALSE
    /\ semaphore' = semaphore + 1
    /\ UNCHANGED <<store, lock, at, op, data>>

(* Mutant of PDone: the thread does not wait for the interrupt. *)
PDone_NoWait(t) ==
    /\ at[t] = "wait"
    /\ at' = [at EXCEPT ![t] = "release"]
    /\ UNCHANGED <<store, active, lock, semaphore, op, data>>

(* semaphore->P() returns. *)
PDone(t) ==
    /\ at[t] = "wait" /\ semaphore > 0
    /\ semaphore' = semaphore - 1
    /\ at' = [at EXCEPT ![t] = "release"]
    /\ UNCHANGED <<store, active, lock, op, data>>

Release(t) ==
    /\ at[t] = "release"
    /\ lock' = NULL
    /\ at' = [at EXCEPT ![t] = "outside"]
    /\ UNCHANGED <<store, active, semaphore, op, data>>

Inside(t) == Acquire(t) \/ Request(t) \/ PDone(t) \/ Release(t)

SynchNext ==
    \/ \E t \in Threads, o \in Ops : Call(t, o)
    \/ \E t \in Threads : Inside(t)
    \/ HandleInterrupt

SynchSpec == SynchInit /\ [][SynchNext]_svars

(* The scheduler gives each thread the CPU; the lock is assumed to let no  *)
(* thread wait for ever while others take it; a scheduled interrupt comes. *)
SynchFairSpec ==
    /\ SynchSpec
    /\ \A t \in Threads : SF_svars(Inside(t))
    /\ WF_svars(HandleInterrupt)

-----------------------------------------------------------------------------

(* SynchDisk: the semaphore never goes below zero. *)
SynchTypeOK ==
    /\ store \in [Sectors -> Values] /\ active \in BOOLEAN
    /\ lock \in Threads \cup {NULL} /\ semaphore \in Nat
    /\ at \in [Threads -> {"outside", "acquire", "request", "wait", "release"}]
    /\ op \in [Threads -> Ops] /\ data \in [Threads -> Values]

(* SynchDisk::ReadSector and WriteSector: exactly one thread is between    *)
(* Acquire and Release, and the state of the disk and of the semaphore is  *)
(* that thread's: idle before its request, then active or signalled, once. *)
(* So Disk's "only one request at a time" assertion holds, and a thread    *)
(* never takes the completion of another's request.                        *)
OneRequest ==
    /\ SynchTypeOK
    /\ \A t \in Threads : at[t] \in {"request", "wait", "release"} <=> lock = t
    /\ semaphore + (IF active THEN 1 ELSE 0)
         = (IF \E t \in Threads : at[t] = "wait" THEN 1 ELSE 0)

(* SynchDisk::ReadSector, "Return only after the data has been read": what *)
(* a thread is about to return is what the sector holds at that moment,    *)
(* and what it has written is there, from its request until it releases    *)
(* the lock, although others were waiting meanwhile.                       *)
ReturnsCurrent ==
    \A t \in Threads : at[t] \in {"wait", "release"} =>
        store[op[t].sector] = IF op[t].write = "read" THEN data[t] ELSE op[t].write

(* SynchDisk: every call returns, when no thread overtakes another at the  *)
(* lock for ever (a fair lock: synch.h, which leaves Lock to be written,   *)
(* does not promise one).                                                  *)
CallsReturn == \A t \in Threads : at[t] = "acquire" ~> at[t] = "outside"

=============================================================================
