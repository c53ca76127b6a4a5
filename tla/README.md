# Verification of Nachos

TLA+ models of the Nachos instructional operating system kept in `src/nachos/code`, TLC
runs that check them on small instances, and TLAPS proofs of their safety
properties for instances of any size. Every definition is translated from the C++;
`PROJECT.json` maps each of them to the lines it stands for.

## 1. The system

Nachos is a single host process that simulates a uniprocessor machine (`machine/`) and
runs an operating system on it (`threads/`, `userprog/`, `filesys/`, `network/`). Two facts
shape every concurrency question about it:

* Simulated time only moves in `Interrupt::OneTick` (interrupts turned on again, or a user
  instruction executed) and in `Interrupt::Idle`. Interrupt handlers run there and nowhere
  else, with interrupts off and to completion.
* A thread loses the CPU only in `Thread::Yield`, which the timer may provoke at the end of
  a `OneTick`, in `Thread::Sleep` and in `Thread::Finish`. So code between two such points
  is atomic, and these points are the actions of the models.

### Components, their state, operations and interactions

| component | state | operations | talks to |
|---|---|---|---|
| threads, `threads/thread.cc` | status, stack (a continuation in the model), `ThreadList` | constructor, `Start`, `Yield`, `Sleep`, `Finish`, destructor | scheduler, interrupts |
| scheduler, `threads/scheduler.cc` | `readyList`, `halted`, `threadToBeDestroyed` | `ReadyToRun`, `FindNextToRun`, `Run`, `Stop` | threads |
| semaphores, `threads/synch.cc` | `value`, `queue` | `P`, `V` | scheduler; handlers call `V` |
| start and halt, `threads/system.cc` | global objects, `cleaning` | `Initialize`, `Cleanup`, Ctrl-C | all |
| interrupts and clock, `machine/interrupt.cc`, `timer.cc`, `stats.cc` | level, status, `pending`, `yieldOnReturn`, ticks | `SetLevel`, `OneTick`, `Idle`, `Schedule`, `CheckIfDue`, `Powerdown`, `TimerExpired` | threads (yield), devices (handlers) |
| console, `machine/console.cc`, driven by `ConsoleTest` in `userprog/progtest.cc` | one-character buffer, `putBusy`, `readFileNo` | poll, `RX`, `TX`, write-done, destructor | host files, semaphores |
| disk, `machine/disk.cc` | `active`, `lastSector`, `bufferInit` | `ReadRequest`, `WriteRequest`, `HandleInterrupt`, `ComputeLatency` | synchronous disk |
| synchronous disk, `filesys/synchdisk.cc` | lock, semaphore | `ReadSector`, `WriteSector`, `RequestDone` | disk, threads |
| file system, `filesys/filesys.cc`, `directory.cc`, `filehdr.cc`, `userprog/bitmap.cc` | bitmap, directory, headers on disk and copies in memory | `Create`, `Open`, `Remove` | synchronous disk |
| open file, `filesys/openfile.cc` | header copy, `seekPosition` | `Seek`, `Read`, `Write`, `ReadAt`, `WriteAt`, destructor | synchronous disk |
| network and post office, `machine/network.cc`, `network/post.cc` | one-packet buffer, `sendBusy`, semaphores, lock, mailboxes | `Send`, `Receive`, `CheckPktAvail`, `SendDone`, `PostalDelivery` | sockets, synchronized lists |
| network test, `network/nettest.cc` | how far the exchange has come | `MailTest` | post office |
| lists, `threads/list.cc` | `first`, `last`, elements on the heap | `Append`, `Remove`, `SortedInsert`, `SortedRemove`, `Mapcar` | all queues |
| synchronized list, `threads/synchlist.cc` | list, lock, condition | `Append`, `Remove` | mailboxes |
| conversion of executables, `bin/coff2noff.c` | header being built, position in the output | read headers, copy or drop each section, write the header | host files; its output is `StartProcess`'s input |
| address spaces, `userprog/addrspace.cc`, `progtest.cc` | page table, segments | constructor, `InitRegisters`, `RestoreState`, `StartProcess` | executables, processor |
| translation, `machine/translate.cc` | use and dirty bits, memory | `Translate`, `ReadMem`, `WriteMem` | processor |
| processor, `machine/mipssim.cc`, `machine.cc`, `userprog/exception.cc` | registers, memory, delayed load | `OneInstruction`, `Decode`, `Mult`, `DelayedLoad`, `RaiseException`, `ExceptionHandler` | translation, exceptions |

`Lock` and `Condition` are stubs in this repository: every method is `ASSERT(FALSE)`. A
FILESYS or NETWORK build therefore aborts as soon as it constructs a lock. The modules of
the components that use them (SynchDisk, SynchList, PostOffice) take them to be what
`synch.h` says of them, and `PROJECT.json` marks those definitions external.

### What is hard about it

Preemption at every point where interrupts are enabled; a thread woken by `V` that is
overtaken before it runs; a finished thread whose stack is still in use; handlers that run
in `Idle` on the stack of a thread that is already blocked; `Cleanup` turning interrupts on
again while it halts; devices that must reschedule themselves exactly once; a handler that
waits for the user and with it everything else; handshakes between a polling device with a one-element buffer and a semaphore; the destructor of a
device with interrupts outstanding; a metadata update of several sector writes that may
stop half-way; an open file that outlives its file; sector-wise read-modify-write by several
threads; lossy delivery; list pointers through long sequences of insertions and removals; a
conversion that stops half-way; exceptions and interrupts in the middle of a delayed load or branch;
rotation, carry, overflow and byte-shifting arithmetic. `hazards` in `PROJECT.json` lists them at their lines.

## 2. Modules

| module | models | composes |
|---|---|---|
| `Kernel` | threads, scheduler, semaphores, halt path, control skeleton of `OneTick` and `Idle` | refines `AbstractSemaphore` |
| `AbstractSemaphore` | what `synch.h` promises: `P` waits for a unit and takes it in one step | |
| `List` | the linked list, as pointers and a heap | |
| `EventQueue` | the sorted list of pending interrupts | `List` |
| `Interrupt` | clock, pending interrupts, machine status, timer, pollers, idle, powerdown | `EventQueue` |
| `Console` | console device and `ConsoleTest` | |
| `Disk` | timing of disk requests | |
| `SynchDisk` | synchronous sector access | |
| `FileSystem` | `Create` and `Remove` as sector writes, with crashes; `Open` and an `OpenFile`'s writes by place | refines `AbstractFileStore` |
| `AbstractFileStore` | a set of named files with sizes | |
| `OpenFile` | byte ranges through whole sectors, by several threads | refines `AbstractFile` |
| `AbstractFile` | an array of bytes and a position | |
| `PostOffice` | network device, post office and `MailTest` on several machines | |
| `SynchList` | the monitor behind a mailbox | `List` |
| `Word` | words of four bytes and the C operators on them | |
| `Mult` | the processor's double-word multiplication | `Word` |
| `Translation` | address translation, `ReadMem`, `WriteMem` | `Word` |
| `Instruction` | instruction encoding and `Decode` | `Word` |
| `Mips` | all instructions, delayed loads, exceptions | `Instruction`, `Mult`, `Translation` |
| `AddrSpace` | the start of a program: size, page table, loading, registers | `Mips` |
| `Coff2noff` | the conversion of an executable | |
| `UserProgram` | from the COFF file to the end of the program | `Coff2noff`, `AddrSpace` |

`KernelProofs`, `InterruptProofs`, `PostOfficeProofs` and `FileSystemProofs` hold the theorems
about the modules they are named for, `ListProofs` those about `List` and `SynchList`,
`DriverProofs` those about `Console` and `SynchDisk`, `StorageProofs` those about `OpenFile` and
`Disk`, `ProgramProofs` those about `UserProgram` and what it composes (section 4);
`Disk` and `SynchDisk` name their `Init`, `Next` and `Spec` after themselves, so that one module
can extend two of them. `MC*` modules and `.cfg` files hold the instances. Operators named
`X_Something` are mutated forms of `X`; no specification uses them, they show that the
properties can fail.

### How state and actions correspond to the code

**Kernel.** One variable per field (`readyList`, `value`, `queue`, `yieldOnReturn`, ...).
`resume[t]` stands for the stack of a switched-out thread: where it goes on when `SWITCH`
returns in it. `pc` is the control point of the code on the CPU: in a thread's own code
(`Body`), in the loop of `OneTick`, in `Sleep`, in the loop of `Idle`, just after `SWITCH`
(`Switched`), or in `Cleanup`. The user of the kernel is the most general one: a running
thread may make any call at any time. Interrupts are due whenever the code looks; when they
really are is `Interrupt`'s subject. `machineStatus` is needed since `CheckIfDue` behaves
differently in `IdleMode`. A thread object that was deleted may be allocated again. Ctrl-C
(`UserAbort`) arrives between the atomic sections; a signal inside one of them, with the
host's own data structures half changed, is not modelled.

**List.** A list is the record of its two pointers and its heap; `new` takes the least free
address, so that an address is used again as soon as possible. `Interrupt` and `SynchList`
use it as their code uses `List`; the ready list and the semaphores' queues of `Kernel` are
sequences, since only `Append` and `Remove` are used on them, whose pointers `SynchList`
checks.

**Interrupt.** An entry of `pending` holds its time relative to the clock, which makes the
state finite without bounding the clock. `saved[t]` is the local `old` of `OneTick` for a
thread that yielded there. Which thread runs next is left open. A poller is started by its
constructor; a poll schedules the next one (`Poll`), but a console's may drop a byte and
return without it, and then the console is `deaf` until it is deleted; `ClosePoller` is the
destructor, whose mark makes the next poll the last one. A console that is deaf and being
deleted waits for ever, as in the code.

**Console.** Bytes and characters are the code's integers, with the signed `char` and the
UTF-8 encoding computed as in the code. Whether the host's code set is UTF-8 is chosen
initially. The order of two pending interrupts is open. A poll that finds the first byte of
two reads the second one in a call to the host that may have to wait for the user: `lead`
holds the first byte meanwhile, and neither `ConsoleTest` nor another handler takes a step.

**Disk and SynchDisk.** `Disk` has the arithmetic of `ComputeLatency` and an explicit
clock; `SynchDisk` leaves out time and has the data and the threads.

**FileSystem.** `Create` and `Remove` read what they need, decide, and leave a list `todo`
of sector writes; `WriteSector` makes one of them, `Crash` drops the rest and the copies in
memory. The directory takes two sectors, and the name of one entry lies in the second one
while its other fields lie in the first (entry 6 in the code: 200 bytes, 128 per sector).
`files` is a history variable: what the directory said when the last operation returned.
`Open` gives an `OpenFile` with a copy of the header; `WriteData` overwrites one of the
sectors that copy names, whatever is there by then. One file is open at a time. `live`,
`after` and `spoiled` are history: whether the open file still exists, the files created since
it was removed, and the files such a stale `OpenFile` may have hit.

**OpenFile.** One action per sector access. A byte carries the position it was written for,
so that a misplaced byte shows. `last` is a history variable for the refinement: the file
as the calls that have returned left it.

**PostOffice.** Per machine: the device, the office's two semaphores and lock, the client
threads and the postal worker. The wire is an unbounded queue, and `Random()` one of a
few rolls around the limit. Initially the machines either have general clients or all run
`MailTest`, which uses boxes 0 and 1 and powers its machine down at its end.

**Coff2noff.** One action per section, by kind. Every write may fail (the output is unlinked
and the conversion gives up), and the conversion may be interrupted, which leaves what was
written. An output of an earlier conversion may be there at the start. `StartProcess` is called
whatever became of the conversion.

**Processor.** `Word` gives words of four bytes of `ByteBits` bits; everything that depends on
the width (sign bits, masks, shift amounts, immediates of half a word) is computed from it,
and 8 is the code's value. An instruction word is the record of its fields. The general
registers are a subset with the numbers of the code. `Mips` has one operator per kind of
result and four outcomes of an instruction: the fetch traps, the instruction traps, the host's
division instruction kills the process, or it completes. `UserProgram` leaves open which words
are fetched: at each step any instruction of a given set, encoded by the numbers of
`bin/encode.h` and decoded by the tables of `mipssim.h`. That contains every execution of
real code of such instructions. Its history variables (`ran`, `due`, `goes`, `written`) and
the operators from `Immediate` to `Destination` restate the processor from its manual, in
bytes and integers, and are what the properties compare with. `Interrupted` is what the
`OneTick` between two instructions does to the program when an interrupt is due:
`CheckIfDue` applies the load under way before it calls the handler (`interrupt.cc:334`).

## 3. Runs

| run | instance | what it shows |
|---|---|---|
| `kernel` | 3 threads, 2 semaphores, a device, the timer, values up to 2 | the inductive invariant `IInv`; no wakeup is lost; Nachos powers itself down only when every thread is stuck; the halting thread keeps the CPU; `P` and `V` implement atomic semaphores; every ready thread runs; a free unit does not stay beside a waiter |
| `interrupt` | 2 threads, timer delays 1 to 4, a console that is constructed and deleted and may drop bytes, a disk | the pending list keeps its pointers and its order, self-scheduling devices are in it once (a console that has dropped a byte not at all), and no interrupt is served late; the machine status fits the thread after any nesting of preemptions; powerdown abandons no request and no poller but such a console; the loops over `CheckIfDue` end |
| `console` | three keys out of ASCII, Latin-1 and broken UTF-8, end of input at any time | semaphores and buffer in step (the ASSERTs of `RX` and `TX`); exact echo; no interrupt for a deleted console; `q` ends the test, unless a byte was dropped or a poll waits for the second byte of a character |
| `console_drop` | the same | violated: the console can stop polling (section 6) |
| `disk` | 3 tracks of 3 sectors, requests at every tick up to 24 | a request ends just after its sector has passed the head, at the first occasion after the seek; the track buffer is used only for what it holds |
| `synch_disk` | 2 threads, 2 sectors, 2 values | one request at a time; data is current on return; every call returns, with a fair lock |
| `file_system` | 3 names, 9 sectors, 3 entries, files of 0 or 2 data sectors, an open file, a crash | sectors are accounted for exactly; the directory behaves as a set of files; an open file's writes spare every other file, and when it has outlived its own, every file older than the removal; a crash spares the other files |
| `open_file` | 2 threads, 3 bytes in 2 sectors | no garbage or misplaced byte; calls that share no sector with a concurrent write are atomic |
| `post_office` | 2 machines, 2 threads each, 2 letters one way and 1 the other, or `MailTest` on both; loss | one packet at a time out of a machine and into it; order, no duplicates; sends return, with a fair lock; what is not dropped arrives; without a loss `MailTest` ends on both machines, and with one no machine ends before the other has its first message |
| `synch_list` | 4 threads, 3 items | no item forgotten beside a sleeping thread; pointers intact, first in, first out; waiting calls are served |
| `user_program` | 12 COFF files; 4 families of programs of 4 to 6 instructions; bytes of 2 bits, 11 frames of 8 bytes | a program starts only from a complete conversion, with every section at its place, zeros elsewhere and room for the stack; accesses stay in its pages and dirty bits are exact; arithmetic, products, quotients and overflows are exact; delayed loads and branches take effect one instruction later, a load also when an interrupt comes before that instruction; exceptions are precise and end a pending load; stores change exactly their bytes |
| `unaligned_load` | the same | violated: `LWL` loads the wrong bytes (section 6) |

### Bounds

`MaxValue` stops explicit `V`s and device requests at semaphore value 2: one unit more than
a waiter can take at once. Three threads are the least that let one thread overtake another
woken one, and let a thread finish while two others go on. In `interrupt` ticks are scaled
(`SystemTick` 3, `UserTick` 1, poll 4, disk 5) so that a timer delay may be shorter or longer
than a tick and several devices come due in one tick. `MaxTime` in `disk` covers four
rotations, so that the track buffer wraps around. `MaxCrashes` is 1, and a
state constraint ends a behaviour at the first operation completed after the crash, beyond
which nothing is claimed. `NumSectors` leaves four free sectors: enough for one large file and
an empty one, too few for two large ones, so `Create` also fails for want of space, and a
removed file's sectors are soon used again. Names are interchangeable, so the run uses their
symmetry; `ImplementsFileStore` is a property of single steps, for which that is sound. In `open_file` the second sector is partly used, and
requests may start in, end in, or run past either. `MaxSends` bounds the letters; four `Rolls`
sit at the ends and on both sides of the limit. `MaxItems` is 3, so that two threads can wait
while two items come. In `user_program` words have 8 bits: registers take twenty
values around zero, the extremes and the middle, which with the immediates reach every
carry, overflow and sign case, the least integer included; loads and stores go to every
offset of a word, to both ends of the address space and past them; the twelve images include
each kind of section, each reason to refuse one, one that fills its pages badly and one that
is too big. A behaviour has as many instructions as its program (`Len(program)`). Wherever the
program itself may stop, it either stutters explicitly or, in `synch_list` (threads asleep on
an empty list) and `user_program` (the program has ended), deadlock checking is off.

### Fairness

* `Kernel`: weak fairness of what runs on the CPU (thread calls, dispatch, the ends of the
  loops, powerdown, exit), because the host runs the simulation; strong fairness of finding
  the timer due in `OneTick`, because the timer reschedules itself at most `2*TimerTicks`
  ahead and each `OneTick` advances the clock. `ReadyRuns` thus assumes `-rs` and threads
  that keep making kernel calls (user programs do: each instruction ends in `OneTick`).
* `Interrupt`: weak fairness of `Next`: the simulated CPU does not stop, and handlers return
  (`Console` has the one that may not).
* `Console`: weak fairness of the program, the poll and the write-done interrupt: whenever
  the program waits, time passes and scheduled interrupts come, and a read of the host
  returns when there is something to read. Nobody has to type: a poll may wait for a second
  byte for ever, and `QuitEnds` says so.
* `SynchDisk`, `PostOffice`, `SynchList`: weak fairness of interrupts, of the polls (each
  schedules the next one, also when it finds nothing), of the worker and of `MailTest`, all
  only while their machine is up;
  strong fairness of each thread inside a call, because acquiring a lock is enabled again and
  again rather than always. That assumes a fair lock, such as a FIFO one. `synch.h` does not
  promise it, and a lock built like the semaphore of this repository, where a woken thread
  may be overtaken, would not give it; `CallsReturn` and `SendReturns` hold only for a lock
  that does.

## 4. Proofs

All theorems hold for any sets of threads, semaphores, devices, machines, sectors and keys
and any bounds, from the ASSUMEs of the modules and, where
a bullet below names one, a hypothesis. The ASSUMEs say that the bounds are natural
numbers, that `NULL` is no thread and no message, that delays are positive, and the like;
TLC evaluates them on every run.

**KernelProofs**

* `TypeCorrect`: `Spec => []TypeOK`.
* `Invariance`: `Spec => []IInv`. The scheduling invariants are not inductive one by one.
  `IInv` conjoins: the ready list holds exactly the READY threads, once (`ReadyListExact`);
  only the current thread is RUNNING (`OneRunning`); a BLOCKED thread is in exactly one
  queue or is the finished one (`BlockedExact`); the finished thread is deleted by the next
  one to run (`CarcassInv`); the code's ASSERTs (`AssertionsHold`); a request to yield does
  not survive (`YieldRequestConsumed`); which continuation a thread of each status has
  (`ContinuationInv`), without which nothing forbids a dispatch of a finished thread; and
  where a halted machine can be (`HaltInv`). The proof has one lemma per kind of state change
  (`SignalStep`, `YieldStep`, `BlockStep`, `FinishStep`, `FindAndRunStep`, ...) and then one
  case per action.
* `SchedulingSafe`: the parts of `IInv` a reader cares about, as a corollary.
* `HaltedKeepsCPU`, `PowerdownSound`: the action properties `NoSwitchAfterHalt` and
  `PowerdownOnlyWhenStuck`.
* `WakeupsKept`: `NoLostWakeup`, by counting: each `V` that raises the value adds a woken
  thread if one waits, each woken thread that takes a unit lowers both.
* `SemaphoreRefinement`: `Spec => ImplementsSemaphore`; every step of the kernel is a `Wait`, a
  `Take`, a `Give` or a stutter of `AbstractSemaphore`.

**ListProofs** is about the pointers, and about the monitor that uses them. `IsList(l, X)` says that following `next` from `first`
runs through every element on the heap, once, and ends at `last`. `AppendAddsAtEnd`,
`RemoveTakesFirst` and `SortedInsertKeepsOrder` say what the three operations do to the
sequence of items of such a list, of any length. The loop `Walk` is a recursive function; the
provers cannot use the induction theorems of the library, so `LeastNat` replaces induction
by the least counterexample, and `WalkIsChain` derives from it what the walk yields.

**InterruptProofs**, with the lemmas of `ListProofs` for the pending interrupts

* `ThreadsGetTheirStatusBack`: `StatusMatchesThread`, from `StatusInv`, which says of every
  thread what the status saved on its stack is, and that a thread in user mode that is not
  running has one.
* `InterruptsAreServedInTime`: `ServedInTime`, from `AgendaInv`: how late the first entry can
  be at each control point (one tick inside `OneTick`, none in `Idle`, not even due in a
  thread's own code), and, since `Cleanup` passes through `OneTick` in `IdleMode`, that nothing
  but the timer can be left there. `Agenda` counts the entries of each device: one for the
  timer and for every poller that operates and is not deaf (`Periodic`), none for the others.
* `NoPowerdownWhileOperating`: the action property `PowerdownOnlyWhenQuiet`. It is weaker than
  the comment of `interrupt.cc:232`: a console that has dropped a byte may be abandoned.

**DriverProofs** is about the two users of an asynchronous device

* `SemaphoresMatchDevice` and `DeletedConsoleIsQuiet`: `HandshakeInv` and
  `NoInterruptAfterDelete`, from `ConsoleInv`, which adds where `ConsoleTest` and the destructor
  stand while a write or a poll is outstanding, and that what a poll has found when it read
  the first byte of two still holds when the second one comes.
* `EchoIsExact`: `EchoExact`, from `EchoInv`: what is delivered and not displayed is the buffered
  character in the bytes `TX` writes for it. It has a hypothesis: the keys are made of bytes
  that occur in UTF-8 text. `CheckCharAvail` takes 0xC0 and 0xC1, which do not, for the start
  of a character, and `TX` writes that character with another first byte.
* `OnlyOneRequest`, `ReadsAreCurrent`, from `SynchInv`, which spells out which of `active` and
  `semaphore` is set for the thread that holds the lock.

**StorageProofs** is about `OpenFile` and `Disk`. Both compute with quotients and remainders by a
parameter (the sector size, the sectors of a track, the rotation time); a few lemmas
(`Division`, `QuotientIsUnique`, `SameRemainder`) reduce every such fact to linear arithmetic.

* `RequestsEndAfterTheirSector` (`EndsAfterSector`) and `TrackBufferHoldsWhatItServes`
  (`BufferHoldsSector`), for any geometry and speeds, from `TimingInv`, which adds that the
  track buffer began to load at a sector boundary, when the head came to the track.
  `FirstPass` and `LoadedBefore` are the two halves of `ComputeLatency`.
* `BytesStayInPlace`: `BytesInPlace`, from `PlaceInv`: in the buffer of a call that runs, every
  position of the file holds a byte of that position, but where a sector is still to be read or
  the data of a write will cover it. `PrefetchCovers` says that the one or two sectors `WriteAt`
  reads first are enough for that.
* `FileRefinement`: `Spec => ImplementsFile`, from `RefinementInv`, which adds that the disk holds
  the abstract file wherever no write runs (`LastOK`), and that a call no write shares a sector
  with finds its range changed by nobody but itself (`AloneOK`).

**PostOfficeProofs**

* `BuffersHoldOnePacket`: `OnePacketAtATime`, from `PostInv`: one packet on its way out for the
  thread that holds the send lock, one unit of `messageAvailable` or the worker for the one in
  the receive buffer.
* `MailComesInOrder`: `MailInOrder`, from `OrderInv`, which orders everything between a sender and
  a mailbox: what is delivered comes before what the worker has, that before the receive
  buffer, that before the wire, and all of it was sent.
* `NoneDownUnheard`: `[]DownIsHeard`, the safety half of `MailTestEnds`, from `TestingInv`: an
  acknowledgement under way answers a message that was taken out of its box.

**FileSystemProofs**

* `NothingLeaksNothingShared` (`SectorsAccounted`), `OpenFileSparesOlderFiles`
  (`WritesSpareOthers`), `CrashLeavesOtherFiles` (`CrashSparesOthers`) and
  `FileStoreRefinement` (`ImplementsFileStore`), all from `FileInv`. Between operations it
  says that the disk is `Tidy`: names are unique, sectors are marked and not shared, and a free
  entry with the name of a file lies above that file's entry (Add takes the lowest free
  entry), without which an old name on the straddling entry could hide a file after a crash.
  During an operation (`Creating`, `Removing`) there are the tidy disk it has found and the
  tidy disk it is going to leave, and the disk is one of the stages between. After a crash
  (`CrashedInv`) no data sector of a file in the directory is a header, so that
  reading and writing the files that are left does no further harm. `BitsAreClear`
  says what repeated `BitMap::Find` gives.
* All four have the hypothesis `SizesFit`: no file is larger than a header has room for.
  `Allocate` does not check that (section 6), and beyond it the claim is false.

**ProgramProofs** is about the whole path of a user program, from the COFF file to its end

* `ProgramInvariant`: `Spec => []ProgramInv`, with four parts. `ConversionInv` says what the
  header and the output of `coff2noff` are worth when it has come to section `k` (`Converted`):
  every section copied so far lies in the one segment of its kind at its own distance from the
  segment's start, and only a conversion that has ended leaves a header. `MachineInv` is the
  machine's state: registers are words and register 0 is zero, the page table maps page to frame
  one to one with dirty bits as `written` says, and memory is zeros until the program starts.
  `HistoryInv` ties the pending load in `LoadReg` and `LoadValueReg` to the bytes the manual says
  it loads. `LoadInv` says that a program that runs comes from a finished conversion, and that
  before its first instruction memory holds the image and zeros elsewhere. None of the properties
  below is inductive without them.
* Each instruction has four outcomes; `StepOutcome` gives each of them as plain facts about
  registers and memory (`Trapped`, `Crashed`, `Executed`), and the properties are proved from
  these. That `Decode` gives back what `bin/encode.h` encoded is lemma `Decoded`.
* `ImagesAreLoaded` (`ImageLoaded`), for images whose sections lie one after the other in the
  order of the file (`OneAfterTheOther`, which `ImagesAssumption` asks for). `AddrSpace`
  (`addrspace.cc:81`) takes the sum of the segments' sizes for the program's end, so it needs them
  to be contiguous from address 0, as `test/script` lays them out.
* `StoresAreExact` (`StoreExact`), `AccessesAreConfined` (`AccessConfined`) and `TrapsAreHarmless`
  (`TrapHarmless`), for any page size, memory, registers and programs. The parts of a word that
  `SWL` and `SWR` put together from shifts and masks are reduced to their four bytes.
* `SlotsAreDelayed` (`DelaySlots`), from `SlotInv`: after an instruction that was followed by the
  next word, `NextPCReg` is where the manual says control goes. An interrupt between two
  instructions finishes the load under way and changes no other register
  (`InterruptRegisters`). The hypothesis `OneRegion` says that memory fits in one region of the
  jump instructions. The code takes the upper bits of a jump's target from the address behind
  the slot (pc + 8), the manual from the slot (pc + 4), so the two differ for a jump in the
  last but one word of a region; the code's memory is far below 256 megabytes, one region. The
  regions of run `user_program` are smaller than its memory, but its programs execute no jump
  at the end of one: there `DelaySlots` would fail.
* `ResultsAreExact` (`ResultExact`): sums, differences, quotients, remainders, the signed
  comparisons `SLT` and `SLTI`, the shift `SRA` and the immediates of `ADDI` and `ADDIU` are
  those of the integers, `ORI` leaves the high half alone, and overflow is raised exactly when
  the integer has no word, although the code finds that out from sign bits with `^` and `&`.
  The unsigned comparisons, the other shifts, `ANDI`, `XORI` and `LUI` are modelled, but the
  property says nothing of their results.
* `UnsignedProduct`, `SignedProduct`: the shift-and-add loop of `Mult` computes the double word
  that is the product. The loop invariant `MultInv` says that the sum so far and the rest of the
  multiplier times the addend make up the product. The code shifts the multiplier
  arithmetically, so a large unsigned one fills up with ones from above (`Remaining` allows for
  these copies of the sign bit); they are never reached, since the loop ends after one iteration
  per bit.

These theorems hold for bytes of 2, 4 or 8 bits (`WordAssumption`; 8 is the code's, 2 the run's),
since the provers know powers of two only as numbers, case by case. The bits of a word (`Combined`)
and the loop of `Mult` are recursive functions over the bits: `Recursion` shows that such a
function exists and so satisfies its equation, and `UpTo`, once more by the least
counterexample, goes up the bits one by one.

**SynchList**, in `ListProofs`, with the lemmas about the pointers

* `ItemsComeInOrder`: `FirstInFirstOut`, from `ItemInv`: what was removed followed by what is
  in the list is everything appended.
* `NoItemUnattended`: `EachItemAwaited`, from `AwaitInv`: while a thread sleeps there are at least
  as many threads on their way to an item as items. The property itself asks only for one,
  which is not inductive.

Only model-checked: the liveness properties, since fairness and ENABLED are out of the prover's
reach. `UnalignedLoad` and the property of run `console_drop` are false of the code.

## 5. Not modelled

* Pure I/O or display: the host wrappers of `sysdep.cc` other than the blocking of Ctrl-C,
  statistics output, SVG dumps (but for the translations and assertions they make), option
  parsing, `fstest.cc` (sequential callers of what `FileSystem` and `OpenFile` model), the
  debugger.
* `switch.S`, host assembly; the saving of user registers at a context switch, since one user
  program at most exists in this repository.
* In `bin/`: `coff2flat` (a file without a header, which `StartProcess` refuses), the
  disassembler `out.c`, which only prints, and the stand-alone simulator `main.c`, `execute.c`,
  `d.c`, `system.c`, for which `bin/Makefile` has no rule.
* The TLB of a USE_TLB build: nothing fills it, and `translate.cc:211` would fail.
* `Lock` and `Condition`: no implementation. `List::Prepend` and `Length` have no caller;
  `List::Remove(item)` serves only the lists kept for the SVG dumps.
* Negative positions in `OpenFile`; more than one `OpenFile` at a time in `FileSystem`; socket
  limits.

## 6. Observations

Checked as a violation: `CheckCharAvail` returns from its "drop" branches before it schedules
the next poll (`console.cc:137`), although `interrupt.cc:232` says that an operating console
always has an interrupt pending. After one such byte the keyboard is dead, Nachos may power
down under the program, and `~Console` may wait for ever; `QuitEnds` in run `console` and
`PowerdownOnlyWhenQuiet` in run `interrupt` except that case.

Checked as a violation: `LWL` (`mipssim.cc:345-353`) has the cases of offsets 0 and 2
exchanged for the little-endian order that `mipssim.cc:4` announces. Run `unaligned_load`
loads a word with `LWL` at offset 0 and finds three bytes replaced where one should be.
`LWR`, `SWL` and `SWR` are right (`DelaySlots`, `StoreExact`), so a word that `SWL` and `SWR`
stored unaligned is not what `LWL` and `LWR` load. The other properties except what a
register holds after `LWL`.

Met while modelling, not runs of their own:

* `synch.cc:101` says that `V` hands its unit to the thread it wakes; the code makes the
  thread ready and raises the value, so another thread may take the unit first and the woken
  one sleeps again at the end of the queue. One thread may starve.
* `filehdr.cc:49`: `Allocate` does not compare the size with `NumDirect`; a larger file
  overruns `dataSectors`, and its header on disk cannot name all its sectors. The instance's
  sizes stay below; with a larger one `SectorsAccounted` is violated.
* `fstest.cc:124`: the performance test creates its file with size 0; files do not grow, so
  its first write returns 0 and the test ends there.
* `console.cc:142`: after the first byte of a two-byte character `CheckCharAvail` reads the
  second one without `PollFile`. With the input open and nothing more typed, a lone byte such
  as 0xC3 stops the whole Nachos process, all threads and handlers, inside the interrupt
  handler; `QuitEnds` excepts that too.
* `interrupt.cc:334`: an interrupt between a load and the next instruction makes the load
  visible to that instruction, which otherwise sees the old value, and what that instruction
  writes to the register then stays. The NOTE at `mipssim.cc:582` asks for it; a program whose
  load delay slot uses the loaded register behaves differently under `-rs` from run to run.
* A jump in the last but one word of a jump region goes to the next region (`pc + 8` where the
  manual has `pc + 4`; `mipssim.cc:132`, `242`). No memory of this machine is that large.
* At the end of the input `ConsoleTest` displays character 255 again and again, because `RX`'s
  EOF passes through a `char`; `EchoExact` excepts that mark.
* `network.cc`: `sendBusy` is asserted and cleared but never set. `OnePacketAtATime` shows that
  the post office never depends on it. `network.h:50` calls the reliability the chance to
  lose a packet; the code uses it as the chance to deliver one.
* Powering down from `Idle` charges one tick to `userTicks` (`interrupt.cc:162`), which
  `stats.h:33` says equals the number of user instructions.
* `filesys.cc:33-40` documents that the file system is neither synchronized nor robust
  against failures; `BytesInPlace`, `ImplementsFile` and `CrashSparesOthers` state what
  holds all the same.
* `DumpMem` translates an address of every valid page and so sets all use bits before the
  program starts; `AccessConfined` says so.
* `DIV` of the least integer by -1 traps in the host and ends Nachos itself (`mipssim.cc:219`);
  `ResultExact` says that nothing else does. The load before such a `DIV` never shows its bytes,
  since `DelayedLoad` comes after the division; the proof of `DelaySlots` asked for that exception.
* `BGEZAL`, `BLTZAL` and `JALR` write the link register before they read `rs`, so they go wrong
  when `rs` is the link register (`mipssim.cc:184`, `246`). The MIPS manual leaves that case
  undefined, and the programs of the run do not use it.
* `coff2noff.c:118` tests `fdIn` where it means `fdOut`; an output that cannot be opened is
  noticed at the first write. `coff2noff.c:202-220` refuses a second bss section that begins
  after the end of the first, but not one that overlaps it.
* An `OpenFile` keeps writing after its file was removed, into sectors that a later `Create` may
  have given to another file or to its header. Nothing forbids it; `WritesSpareOthers` says
  which files are safe.
* `MailTest` has no time-out: after one lost packet a machine waits for ever.

## 7. Plan

Done, in this order: the kernel core and its proofs; the devices, the file system, the
network and the address space; the whole path of a user program with the instruction set;
open files that outlive their file; `MailTest`; the pointers of lists; the proofs about
lists, interrupts, console, file system, open files, disk, post office, synchronized list
and user programs.
Left:

* Several open files at once in `FileSystem`; user registers at a context switch, once the
  kernel can run more than one user program.
