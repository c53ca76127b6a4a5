------------------------------ MODULE Console ------------------------------
(***************************************************************************)
(* The console device (machine/console.cc) driven by ConsoleTest           *)
(* (userprog/progtest.cc): keyboard polling, the one-character input       *)
(* buffer, the busy output, the two semaphores the handlers signal, and    *)
(* the destructor that waits for the last interrupts.                      *)
(*                                                                         *)
(* ConsoleTest runs alone.  An interrupt comes in only where the code lets *)
(* time pass: while P has to wait (Idle), in the OneTick at the end of a P *)
(* that succeeds, and in the Yields of ~Console.  Which of the two pending *)
(* interrupts comes first is left open.  A poll that has read the first    *)
(* byte of a two-byte character waits for the second one in a call to the  *)
(* host, and with it all of Nachos.  Bytes and characters are the code's   *)
(* integers.                                                               *)
(***************************************************************************)
EXTENDS Integers, Sequences, SequencesExt

CONSTANTS
    Keys,       \* what the user may type: sequences of bytes
    MaxKeys     \* bound: number of keys typed

NOCHAR == -42
EOF    == -1
QUIT   == 113   \* 'q'

ASSUME ConsoleAssumption ==
    Keys \subseteq Seq(0..255) /\ MaxKeys \in Nat

VARIABLES
    readFileNo,     \* "open", "closing" (-1) or "gone" (-2)
    incoming,       \* the buffered character, or NOCHAR
    putBusy,
    readPoll,       \* a ConsoleReadPoll interrupt is scheduled or served
    lead,           \* the first byte, during the second ReadPartial, or NOCHAR
    writeInt,       \* a ConsoleWriteDone interrupt is scheduled
    readAvail, writeDone,   \* values of ConsoleTest's semaphores
    ch, pc,         \* ConsoleTest's local and where it stands
    utf8,           \* nl_langinfo(CODESET) is "UTF-8"
    typed, keys, ended,     \* the host's input: unread bytes, keys typed, end
    unechoed,       \* bytes delivered to the kernel and not displayed yet
    invented        \* something was displayed that was not delivered

device  == <<readFileNo, incoming, putBusy, readPoll, lead, writeInt>>
program == <<readAvail, writeDone, ch, pc>>
host    == <<typed, keys, ended>>
vars    == <<device, program, host, utf8, unechoed, invented>>

(***************************************************************************)
(* Latin-1 characters and their UTF-8 bytes, as console.cc computes them.  *)
(***************************************************************************)

(* c & 0x80;  (c & 0xe0) == 0xc0 and not (c & 0x1c);  (d & 0xc0) == 0x80 *)
IsAscii(c) == c < 128
IsLatin1Lead(c) == c \div 32 = 6 /\ (c \div 4) % 8 = 0
IsContinuation(d) == d \div 64 = 2

(* (c & 0x03) << 6 | d, where d, never masked, has bit 7 set. *)
Decode(c, d) == 64 * (IF c % 4 < 2 THEN (c % 4) + 2 ELSE c % 4) + (d % 64)

(* "char ch = RX()" on a machine with signed chars. *)
ToChar(n) == ((n + 128) % 256) - 128

(* Mutant of Encode: the sign of a non-ASCII char is not compensated. *)
Encode_Signed(c) ==
    IF c < 128 \/ ~utf8 THEN <<c % 256>> ELSE <<192 + (c \div 64), 128 + (c % 64)>>

(* The bytes TX writes for a char. *)
Encode(c) ==
    LET n == IF c < 0 /\ c >= -128 THEN c + 256 ELSE c IN
    IF n < 128 \/ ~utf8 THEN <<n % 256>> ELSE <<192 + (n \div 64), 128 + (n % 64)>>

(***************************************************************************)
(* ConsoleTest creates the console, which starts polling.                  *)
(***************************************************************************)
Init ==
    /\ readFileNo = "open" /\ incoming = NOCHAR /\ putBusy = FALSE
    /\ readPoll = TRUE /\ lead = NOCHAR /\ writeInt = FALSE
    /\ readAvail = 0 /\ writeDone = 0
    /\ ch = 0 /\ pc = "readP"
    /\ utf8 \in BOOLEAN
    /\ typed = <<>> /\ keys = 0 /\ ended = FALSE
    /\ unechoed = <<>> /\ invented = FALSE

(***************************************************************************)
(* The user.                                                               *)
(***************************************************************************)
Type(k) ==
    /\ ~ended /\ keys < MaxKeys
    /\ typed' = typed \o k /\ keys' = keys + 1
    /\ UNCHANGED <<device, program, ended, utf8, unechoed, invented>>

CloseInput ==
    /\ ~ended
    /\ ended' = TRUE
    /\ UNCHANGED <<device, program, typed, keys, utf8, unechoed, invented>>

(***************************************************************************)
(* Interrupts.                                                             *)
(***************************************************************************)
Waiting ==
    \/ pc = "readP" /\ readAvail = 0
    \/ pc = "writeP" /\ writeDone = 0

Interruptible ==
    /\ lead = NOCHAR
    /\ \/ Waiting
       \/ pc \in {"readTick", "writeTick"}
       \/ pc = "drainRead" /\ readFileNo # "gone"
       \/ pc = "drainWrite" /\ putBusy

(* CheckCharAvail puts a character in the buffer, schedules the next poll  *)
(* and calls ReadAvailHandler; bytes were read for it, rest is unread.     *)
Deliver(c, bytes, rest) ==
    /\ incoming' = c
    /\ typed' = rest
    /\ lead' = NOCHAR
    /\ unechoed' = unechoed \o bytes
    /\ readAvail' = readAvail + 1
    /\ UNCHANGED <<readFileNo, putBusy, readPoll, writeInt, writeDone, ch, pc,
                   utf8, keys, ended, invented>>

PollClosing ==
    /\ readPoll /\ Interruptible /\ readFileNo = "closing"
    /\ readFileNo' = "gone" /\ readPoll' = FALSE
    /\ UNCHANGED <<incoming, putBusy, lead, writeInt, program, host, utf8, unechoed, invented>>

(* Mutant of Polling: a buffered character does not stop the next one. *)
Polling_Overwrites == readPoll /\ Interruptible /\ readFileNo = "open"

(* The poll finds the buffer empty; otherwise it only schedules the next,  *)
(* as it does when PollFile finds nothing to read.                         *)
Polling == readPoll /\ Interruptible /\ readFileNo = "open" /\ incoming = NOCHAR

PollEOF ==
    /\ Polling /\ typed = <<>> /\ ended
    /\ Deliver(EOF, <<>>, typed)

PollByte ==
    /\ Polling /\ typed # <<>>
    /\ ~utf8 \/ IsAscii(Head(typed))
    /\ Deliver(Head(typed), <<Head(typed)>>, Tail(typed))

(* The first byte of two: the poll goes on to read the second.             *)
PollLatin1 ==
    /\ Polling /\ typed # <<>> /\ utf8 /\ IsLatin1Lead(Head(typed))
    /\ lead' = Head(typed) /\ typed' = Tail(typed)
    /\ UNCHANGED <<readFileNo, incoming, putBusy, readPoll, writeInt, program, keys, ended,
                   utf8, unechoed, invented>>

(* The second ReadPartial returns: there is a byte, or the input has       *)
(* ended.  Until then no thread and no other handler runs.                 *)
SecondByte ==
    /\ lead # NOCHAR
    /\ \/ /\ typed # <<>> /\ IsContinuation(Head(typed))
          /\ Deliver(Decode(lead, Head(typed)), <<lead, Head(typed)>>, Tail(typed))
       \/ /\ typed = <<>> /\ ended
          /\ Deliver(EOF, <<>>, typed)

(* The "drop" cases return before the next poll is scheduled. *)
PollDrop ==
    /\ typed # <<>>
    /\ \/ Polling /\ utf8 /\ ~IsAscii(Head(typed)) /\ ~IsLatin1Lead(Head(typed))
       \/ lead # NOCHAR /\ ~IsContinuation(Head(typed))
    /\ typed' = Tail(typed)
    /\ lead' = NOCHAR
    /\ readPoll' = FALSE
    /\ UNCHANGED <<readFileNo, incoming, putBusy, writeInt, program, keys, ended,
                   utf8, unechoed, invented>>

(* Mutant of WriteDone: the device stays busy. *)
WriteDone_StaysBusy ==
    /\ writeInt /\ Interruptible
    /\ writeInt' = FALSE
    /\ writeDone' = writeDone + 1
    /\ UNCHANGED <<readFileNo, incoming, putBusy, readPoll, lead, readAvail, ch, pc, host,
                   utf8, unechoed, invented>>

WriteDone ==
    /\ writeInt /\ Interruptible
    /\ writeInt' = FALSE /\ putBusy' = FALSE
    /\ writeDone' = writeDone + 1
    /\ UNCHANGED <<readFileNo, incoming, readPoll, lead, readAvail, ch, pc, host, utf8,
                   unechoed, invented>>

(***************************************************************************)
(* ConsoleTest.                                                            *)
(***************************************************************************)
PReadAvail ==
    /\ pc = "readP" /\ readAvail > 0
    /\ readAvail' = readAvail - 1 /\ pc' = "readTick"
    /\ UNCHANGED <<device, writeDone, ch, host, utf8, unechoed, invented>>

(* RX, then TX, with no chance for an interrupt in between. *)
Echo ==
    /\ pc = "readTick"
    /\ ch' = ToChar(incoming)
    /\ incoming' = NOCHAR
    /\ LET out == Encode(ch') IN
         IF IsPrefix(out, unechoed)
           THEN /\ unechoed' = SubSeq(unechoed, Len(out) + 1, Len(unechoed))
                /\ UNCHANGED invented
           ELSE /\ invented' = TRUE
                /\ UNCHANGED unechoed
    /\ putBusy' = TRUE /\ writeInt' = TRUE
    /\ pc' = "writeP"
    /\ UNCHANGED <<readFileNo, readPoll, lead, readAvail, writeDone, host, utf8>>

PWriteDone ==
    /\ pc = "writeP" /\ writeDone > 0
    /\ writeDone' = writeDone - 1 /\ pc' = "writeTick"
    /\ UNCHANGED <<device, readAvail, ch, host, utf8, unechoed, invented>>

(* 'q' ends the loop; ~Console closes the files. *)
TestQuit ==
    /\ pc = "writeTick"
    /\ IF ch = QUIT
         THEN readFileNo' = "closing" /\ pc' = "drainRead"
         ELSE UNCHANGED readFileNo /\ pc' = "readP"
    /\ UNCHANGED <<incoming, putBusy, readPoll, lead, writeInt, readAvail, writeDone, ch,
                   host, utf8, unechoed, invented>>

(* Mutant of Drained: the destructor does not wait for the poll. *)
Drained_NoWait ==
    /\ \/ pc = "drainRead" /\ pc' = "drainWrite"
       \/ pc = "drainWrite" /\ ~putBusy /\ pc' = "Done"
    /\ UNCHANGED <<device, readAvail, writeDone, ch, host, utf8, unechoed, invented>>

(* The two loops of ~Console end. *)
Drained ==
    /\ \/ pc = "drainRead" /\ readFileNo = "gone" /\ pc' = "drainWrite"
       \/ pc = "drainWrite" /\ ~putBusy /\ pc' = "Done"
    /\ UNCHANGED <<device, readAvail, writeDone, ch, host, utf8, unechoed, invented>>

(* Interrupt::Idle with nothing pending. *)
Powerdown ==
    /\ Waiting /\ ~readPoll /\ ~writeInt
    /\ pc' = "Down"
    /\ UNCHANGED <<device, readAvail, writeDone, ch, host, utf8, unechoed, invented>>

(* A poll that finds the buffer full or nothing to read, the Yields of the *)
(* destructor, and the end of the program.                                 *)
Quiet ==
    /\ \/ readPoll /\ Interruptible
       \/ pc \in {"drainRead", "drainWrite", "Done", "Down"}
    /\ UNCHANGED vars

ReadInterrupt == PollClosing \/ PollEOF \/ PollByte \/ PollLatin1 \/ SecondByte \/ PollDrop

Program ==
    /\ lead = NOCHAR
    /\ PReadAvail \/ Echo \/ PWriteDone \/ TestQuit \/ Drained \/ Powerdown

Next ==
    \/ \E k \in Keys : Type(k)
    \/ CloseInput \/ ReadInterrupt \/ WriteDone \/ Program \/ Quiet

Spec == Init /\ [][Next]_vars

(* Simulated time passes whenever the program waits, so a scheduled        *)
(* interrupt comes; the program itself goes on; and the host's read        *)
(* returns when there is something to read.  Nobody has to type.           *)
FairSpec == Spec /\ WF_vars(Program) /\ WF_vars(ReadInterrupt) /\ WF_vars(WriteDone)

-----------------------------------------------------------------------------

(* Console and ConsoleTest: the input buffer holds a character or a mark,  *)
(* and ch what a C char can hold.                                          *)
TypeOK ==
    /\ readFileNo \in {"open", "closing", "gone"}
    /\ incoming \in {NOCHAR, EOF} \cup 0..255 /\ lead \in {NOCHAR} \cup 0..255
    /\ putBusy \in BOOLEAN /\ readPoll \in BOOLEAN /\ writeInt \in BOOLEAN
    /\ readAvail \in Nat /\ writeDone \in Nat
    /\ ch \in -128..127
    /\ pc \in {"readP", "readTick", "writeP", "writeTick", "drainRead", "drainWrite",
               "Done", "Down"}
    /\ utf8 \in BOOLEAN /\ ended \in BOOLEAN /\ invented \in BOOLEAN
    /\ typed \in Seq(0..255) /\ keys \in 0..MaxKeys /\ unechoed \in Seq(0..255)

(* Console::RX and TX: the semaphores count exactly what the device can    *)
(* do: a unit of readAvail, or one just taken, stands for the buffered     *)
(* character, and one of writeDone for a finished write.  So the ASSERTs   *)
(* of RX (a character has arrived) and TX (not already transferring) hold. *)
HandshakeInv ==
    /\ TypeOK
    /\ readAvail + (IF pc = "readTick" THEN 1 ELSE 0)
         = (IF incoming = NOCHAR THEN 0 ELSE 1)
    /\ putBusy = writeInt
    /\ writeDone = (IF pc = "writeP" /\ ~putBusy THEN 1 ELSE 0)
    /\ pc = "readTick" => ~putBusy

(* Console::~Console: once the console is deleted no interrupt is          *)
(* scheduled that would call it.                                           *)
NoInterruptAfterDelete == pc = "Done" => ~readPoll /\ ~writeInt

(* Interrupt::Idle: "If the console or the network is operating, there are *)
(* *always* pending interrupts": the console never stops polling while it  *)
(* is open, so that Nachos does not power down under it.                   *)
AlwaysPolling == pc # "Done" /\ readFileNo = "open" => readPoll

(* Console::CheckCharAvail, RX, TX and ConsoleTest: the display shows the  *)
(* bytes that were delivered, in order, once, whatever happens between the *)
(* poll and the echo (two-byte characters pass through a signed char), and *)
(* nothing is left to echo when ConsoleTest waits for a key.  The one      *)
(* thing displayed that nobody typed is the mark for the end of the input. *)
EchoExact ==
    [][/\ invented' # invented => incoming = EOF
       /\ pc' = "readP" /\ incoming' = NOCHAR => unechoed' = <<>>]_vars

(* ConsoleTest, "Stop when the user types a 'q'": the destructor's loops   *)
(* end once 'q' has been read, with two exceptions: a dropped byte has     *)
(* ended the polling that the first loop waits for, or a poll that came in *)
(* before the destructor has read the first byte of two and waits for the  *)
(* other one, which the user never types.                                  *)
QuitEnds ==
    (pc = "writeP" /\ ch = QUIT)
        ~> (pc = "Done" \/ (readFileNo = "closing" /\ ~readPoll) \/ [](lead # NOCHAR))

=============================================================================
