----------------------------- MODULE PostOffice -----------------------------
(***************************************************************************)
(* The network device (machine/network.cc) and the post office over it     *)
(* (network/post.cc) on several machines: sending threads, the send-done   *)
(* and polling interrupts, the postal worker and the mailboxes.  The       *)
(* machines run either clients that send and receive at will or the test   *)
(* MailTest (network/nettest.cc).                                          *)
(*                                                                         *)
(* The wire is a UNIX datagram socket: unbounded, in order.  Lock and the  *)
(* mailboxes' SynchList rest on locks that this repository leaves to be    *)
(* written; a mailbox is the atomic queue post.h says it is.  Mail sizes   *)
(* are left out: all mail fits in a packet.                                *)
(***************************************************************************)
EXTENDS Integers, Sequences, SequencesExt, FiniteSets

CONSTANTS
    Machines, Threads, Boxes, NULL,
    Main,           \* the thread that runs MailTest
    ClientBoxes,    \* the boxes other clients send to
    Reliability,    \* the constructors' "reliability", in percent
    Rolls,          \* values of Random() % 100 considered
    MaxSends        \* bound: packets each machine sends

Mail == [from : Machines, to : Machines, box : Boxes, reply : Boxes, id : Nat]

ASSUME PostOfficeAssumption ==
    /\ Main \in Threads /\ {0, 1} \cup ClientBoxes \subseteq Boxes
    /\ NULL \notin Threads /\ NULL \notin Mail /\ Reliability \in 0..100 /\ Rolls \subseteq 0..99
    /\ MaxSends \in [Machines -> Nat]

VARIABLES
    socket,         \* packets on the wire to each machine
    inbox,          \* Network::inbox, or NULL when inHdr.length = 0
    sendBusy,       \* Network::sendBusy
    sendInts,       \* NetworkSendDone interrupts scheduled
    messageAvailable, messageSent,  \* semaphores
    sendLock,       \* its holder, or NULL
    pc, letter,     \* each client: where it is in PostOffice::Send, its mail
    worker,         \* the postal worker: where it is and the mail it holds
    boxes,
    test,           \* where each machine is in MailTest; "none" if it does not run it
    sent, taken,    \* history: packets sent, mail received
    lost            \* history: the network dropped a packet

network == <<socket, inbox, sendBusy, sendInts>>
office  == <<messageAvailable, messageSent, sendLock, worker, boxes>>
pvars   == <<network, office, pc, letter, test, sent, taken, lost>>

Init ==
    /\ socket = [m \in Machines |-> <<>>]
    /\ inbox = [m \in Machines |-> NULL]
    /\ sendBusy = [m \in Machines |-> FALSE]
    /\ sendInts = [m \in Machines |-> 0]
    /\ messageAvailable = [m \in Machines |-> 0]
    /\ messageSent = [m \in Machines |-> 0]
    /\ sendLock = [m \in Machines |-> NULL]
    /\ pc = [m \in Machines |-> [t \in Threads |-> "idle"]]
    /\ letter = [m \in Machines |-> [t \in Threads |-> NULL]]
    /\ worker = [m \in Machines |-> [at |-> "wait", mail |-> NULL]]
    /\ boxes = [m \in Machines |-> [b \in Boxes |-> <<>>]]
    /\ test \in {[m \in Machines |-> "none"], [m \in Machines |-> "start"]}
    /\ sent = [m \in Machines |-> <<>>] /\ lost = FALSE
    /\ taken = [m \in Machines |-> [b \in Boxes |-> <<>>]]

(***************************************************************************)
(* PostOffice::Send.                                                       *)
(***************************************************************************)

Goto(m, t, place) == pc' = [pc EXCEPT ![m][t] = place]

InSend(m) == {t \in Threads : pc[m][t] # "idle"}

Send(m, t, to, b) ==
    /\ pc[m][t] = "idle" /\ test[m] = "none"
    /\ Len(sent[m]) + Cardinality(InSend(m)) < MaxSends[m]
    /\ letter' = [letter EXCEPT ![m][t] = [to |-> to, box |-> b, reply |-> b]]
    /\ Goto(m, t, "acquire")
    /\ UNCHANGED <<network, office, test, sent, taken, lost>>

Acquire(m, t) ==
    /\ pc[m][t] = "acquire" /\ sendLock[m] = NULL
    /\ sendLock' = [sendLock EXCEPT ![m] = t]
    /\ Goto(m, t, "send")
    /\ UNCHANGED <<network, messageAvailable, messageSent, worker, boxes, letter, test, sent, taken, lost>>

(* Network::Send drops the packet. *)
Lost(roll) == roll >= Reliability

Packet(m, t) ==
    [from |-> m, to |-> letter[m][t].to, box |-> letter[m][t].box, reply |-> letter[m][t].reply,
     id |-> Len(sent[m]) + 1]

(* Network::Send, which asserts ~sendBusy. *)
NetworkSend(m, t, roll) ==
    /\ pc[m][t] = "send" /\ ~sendBusy[m]
    /\ sendInts' = [sendInts EXCEPT ![m] = @ + 1]
    /\ socket' = IF Lost(roll) THEN socket
                 ELSE [socket EXCEPT ![letter[m][t].to] = Append(@, Packet(m, t))]
    /\ sent' = [sent EXCEPT ![m] = Append(@, Packet(m, t))]
    /\ lost' = (lost \/ Lost(roll))
    /\ letter' = [letter EXCEPT ![m][t] = NULL]
    /\ Goto(m, t, "wait")
    /\ UNCHANGED <<inbox, sendBusy, office, test, taken>>

(* Mutant of SendDone: it is scheduled again instead of telling the post   *)
(* office.                                                                 *)
SendDone_Again(m) == sendInts[m] > 0 /\ UNCHANGED pvars

(* Network::SendDone calls PostOffice::PacketSent. *)
SendDone(m) ==
    /\ sendInts[m] > 0
    /\ sendInts' = [sendInts EXCEPT ![m] = @ - 1]
    /\ sendBusy' = [sendBusy EXCEPT ![m] = FALSE]
    /\ messageSent' = [messageSent EXCEPT ![m] = @ + 1]
    /\ UNCHANGED <<socket, inbox, messageAvailable, sendLock, worker, boxes, pc, letter, test, sent, taken, lost>>

(* messageSent->P() returns. *)
PSent(m, t) ==
    /\ pc[m][t] = "wait" /\ messageSent[m] > 0
    /\ messageSent' = [messageSent EXCEPT ![m] = @ - 1]
    /\ Goto(m, t, "release")
    /\ UNCHANGED <<network, messageAvailable, sendLock, worker, boxes, letter, test, sent, taken, lost>>

Release(m, t) ==
    /\ pc[m][t] = "release"
    /\ sendLock' = [sendLock EXCEPT ![m] = NULL]
    /\ Goto(m, t, "idle")
    /\ UNCHANGED <<network, messageAvailable, messageSent, worker, boxes, letter, test, sent, taken, lost>>

(***************************************************************************)
(* Receiving.                                                              *)
(***************************************************************************)

(* Mutant of CheckPktAvail: it reads the packet before it looks whether    *)
(* the buffer is free.                                                     *)
CheckPktAvail_ReadsFirst(m) ==
    /\ socket[m] # <<>>
    /\ socket' = [socket EXCEPT ![m] = Tail(@)]
    /\ IF inbox[m] # NULL THEN UNCHANGED <<inbox, messageAvailable>>
       ELSE /\ inbox' = [inbox EXCEPT ![m] = Head(socket[m])]
            /\ messageAvailable' = [messageAvailable EXCEPT ![m] = @ + 1]
    /\ UNCHANGED <<sendBusy, sendInts, messageSent, sendLock, worker, boxes, pc, letter, test, sent, taken, lost>>

(* Network::CheckPktAvail with a packet to read and its buffer free, and   *)
(* PostOffice::IncomingPacket.                                             *)
CheckPktAvail(m) ==
    /\ inbox[m] = NULL /\ socket[m] # <<>>
    /\ inbox' = [inbox EXCEPT ![m] = Head(socket[m])]
    /\ socket' = [socket EXCEPT ![m] = Tail(@)]
    /\ messageAvailable' = [messageAvailable EXCEPT ![m] = @ + 1]
    /\ UNCHANGED <<sendBusy, sendInts, messageSent, sendLock, worker, boxes, pc, letter, test, sent, taken, lost>>

(* PostOffice::PostalDelivery: the semaphore, ... *)
WorkerP(m) ==
    /\ worker[m].at = "wait" /\ messageAvailable[m] > 0
    /\ messageAvailable' = [messageAvailable EXCEPT ![m] = @ - 1]
    /\ worker' = [worker EXCEPT ![m].at = "receive"]
    /\ UNCHANGED <<network, messageSent, sendLock, boxes, pc, letter, test, sent, taken, lost>>

(* Mutant of WorkerReceive: the buffer is not marked free. *)
WorkerReceive_KeepsInbox(m) ==
    /\ worker[m].at = "receive"
    /\ worker' = [worker EXCEPT ![m] = [at |-> "put", mail |-> inbox[m]]]
    /\ UNCHANGED <<network, messageAvailable, messageSent, sendLock, boxes, pc, letter, test, sent, taken, lost>>

(* ... Network::Receive, ... *)
WorkerReceive(m) ==
    /\ worker[m].at = "receive"
    /\ worker' = [worker EXCEPT ![m] = [at |-> "put", mail |-> inbox[m]]]
    /\ inbox' = [inbox EXCEPT ![m] = NULL]
    /\ UNCHANGED <<socket, sendBusy, sendInts, messageAvailable, messageSent, sendLock, boxes, pc,
                   letter, test, sent, taken, lost>>

(* Mutant of WorkerPut: new mail goes to the front. *)
WorkerPut_Front(m) ==
    /\ worker[m].at = "put"
    /\ boxes' = [boxes EXCEPT ![m][worker[m].mail.box] = <<worker[m].mail>> \o @]
    /\ worker' = [worker EXCEPT ![m] = [at |-> "wait", mail |-> NULL]]
    /\ UNCHANGED <<network, messageAvailable, messageSent, sendLock, pc, letter, test, sent, taken, lost>>

(* ... and MailBox::Put. *)
WorkerPut(m) ==
    /\ worker[m].at = "put"
    /\ boxes' = [boxes EXCEPT ![m][worker[m].mail.box] = Append(@, worker[m].mail)]
    /\ worker' = [worker EXCEPT ![m] = [at |-> "wait", mail |-> NULL]]
    /\ UNCHANGED <<network, messageAvailable, messageSent, sendLock, pc, letter, test, sent, taken, lost>>

(* PostOffice::Receive by some thread; it waits for mail. *)
Receive(m, b) ==
    /\ boxes[m][b] # <<>> /\ test[m] = "none"
    /\ taken' = [taken EXCEPT ![m][b] = Append(@, Head(boxes[m][b]))]
    /\ boxes' = [boxes EXCEPT ![m][b] = Tail(@)]
    /\ UNCHANGED <<network, messageAvailable, messageSent, sendLock, worker, pc, letter, test, sent, lost>>

(***************************************************************************)
(* MailTest, run by thread Main.                                           *)
(***************************************************************************)

CallSend(m, to, b, reply) ==
    /\ letter' = [letter EXCEPT ![m][Main] = [to |-> to, box |-> b, reply |-> reply]]
    /\ Goto(m, Main, "acquire")

TakeFrom(m, b) ==
    /\ boxes[m][b] # <<>>
    /\ taken' = [taken EXCEPT ![m][b] = Append(@, Head(boxes[m][b]))]
    /\ boxes' = [boxes EXCEPT ![m][b] = Tail(@)]

Hello(m, farAddr) ==
    /\ test[m] = "start"
    /\ test' = [test EXCEPT ![m] = "hello"]
    /\ CallSend(m, farAddr, 0, 1)
    /\ UNCHANGED <<network, office, sent, taken, lost>>

(* Mutant of Acknowledge: the answer goes to the box the message came to. *)
Acknowledge_SameBox(m) ==
    /\ test[m] = "hello" /\ pc[m][Main] = "idle"
    /\ TakeFrom(m, 0)
    /\ test' = [test EXCEPT ![m] = "acknowledge"]
    /\ CallSend(m, Head(boxes[m][0]).from, Head(boxes[m][0]).box, 1)
    /\ UNCHANGED <<network, messageAvailable, messageSent, sendLock, worker, sent, lost>>

(* The first Receive returns, and its mail is answered. *)
Acknowledge(m) ==
    /\ test[m] = "hello" /\ pc[m][Main] = "idle"
    /\ TakeFrom(m, 0)
    /\ test' = [test EXCEPT ![m] = "acknowledge"]
    /\ CallSend(m, Head(boxes[m][0]).from, Head(boxes[m][0]).reply, 1)
    /\ UNCHANGED <<network, messageAvailable, messageSent, sendLock, worker, sent, lost>>

(* The second one returns, and the machine is powered down. *)
Powerdown(m) ==
    /\ test[m] = "acknowledge" /\ pc[m][Main] = "idle"
    /\ TakeFrom(m, 1)
    /\ test' = [test EXCEPT ![m] = "down"]
    /\ UNCHANGED <<network, messageAvailable, messageSent, sendLock, worker, pc, letter, sent, lost>>

MailTest(m) == (\E farAddr \in Machines \ {m} : Hello(m, farAddr)) \/ Acknowledge(m) \/ Powerdown(m)

-----------------------------------------------------------------------------

Up(m) == test[m] # "down"

Sending(m, t) ==
    \/ Acquire(m, t) \/ PSent(m, t) \/ Release(m, t)
    \/ \E roll \in Rolls : NetworkSend(m, t, roll)

Worker(m) == WorkerP(m) \/ WorkerReceive(m) \/ WorkerPut(m)

(* CheckPktAvail finds its buffer in use or no packet to read: it only     *)
(* schedules the next poll, so a machine that is up never stops.           *)
PollAgain(m) ==
    /\ inbox[m] # NULL \/ socket[m] = <<>>
    /\ UNCHANGED pvars

Exited == (\A m \in Machines : ~Up(m)) /\ UNCHANGED pvars

Next ==
    \/ \E m \in Machines :
         /\ Up(m)
         /\ \/ \E t \in Threads : \/ \E to \in Machines \ {m}, b \in ClientBoxes : Send(m, t, to, b)
                                  \/ Sending(m, t)
            \/ SendDone(m) \/ CheckPktAvail(m) \/ PollAgain(m)
            \/ Worker(m) \/ MailTest(m)
            \/ \E b \in Boxes : Receive(m, b)
    \/ Exited

Spec == Init /\ [][Next]_pvars

(* Scheduled interrupts come, polling goes on for ever, and each machine's *)
(* scheduler runs its threads; the lock is assumed to let no thread wait   *)
(* for ever while others take it.                                          *)
FairSpec ==
    /\ Spec
    /\ \A m \in Machines :
         /\ WF_pvars(Up(m) /\ SendDone(m))
         /\ WF_pvars(Up(m) /\ CheckPktAvail(m))
         /\ WF_pvars(Up(m) /\ Worker(m))
         /\ WF_pvars(MailTest(m))
         /\ \A t \in Threads : SF_pvars(Up(m) /\ Sending(m, t))

-----------------------------------------------------------------------------

(* Network and PostOffice: at most one packet is buffered or announced,    *)
(* and at most one send is in progress per machine.                        *)
TypeOK ==
    \A m \in Machines :
        /\ Range(socket[m]) \subseteq Mail /\ inbox[m] \in Mail \cup {NULL}
        /\ sendBusy[m] \in BOOLEAN /\ sendInts[m] \in 0..1
        /\ messageAvailable[m] \in 0..1 /\ messageSent[m] \in 0..1
        /\ sendLock[m] \in Threads \cup {NULL}
        /\ worker[m].at \in {"wait", "receive", "put"} /\ worker[m].mail \in Mail \cup {NULL}
        /\ \A t \in Threads : pc[m][t] \in {"idle", "acquire", "send", "wait", "release"}
        /\ \A b \in Boxes : Range(boxes[m][b]) \subseteq Mail

(* Network::CheckPktAvail, Receive and PostalDelivery, and PostOffice::    *)
(* Send, "only one outgoing message at a time": a packet is in the         *)
(* network's one-packet buffer exactly as long as the semaphore or the     *)
(* worker owes its removal, so none is overwritten and the worker never    *)
(* reads an empty buffer; a packet is handed to the network only when the  *)
(* one before has been reported sent, and the report wakes its own sender. *)
OnePacketAtATime ==
    TypeOK /\ \A m \in Machines :
        /\ messageAvailable[m] + (IF worker[m].at = "receive" THEN 1 ELSE 0)
             = (IF inbox[m] = NULL THEN 0 ELSE 1)
        /\ worker[m].at = "put" => worker[m].mail # NULL
        /\ \A t \in Threads : pc[m][t] \in {"send", "wait", "release"} <=> sendLock[m] = t
        /\ sendInts[m] + messageSent[m]
             = Cardinality({t \in Threads : pc[m][t] = "wait"})

Delivered(m, b) == taken[m][b] \o boxes[m][b]

(* post.h and network.h, "in order but unreliably": what comes into a      *)
(* mailbox from one machine was sent to this machine and mailbox, in the   *)
(* order in which it was sent, and nothing comes twice.                    *)
MailInOrder ==
    \A m \in Machines, b \in Boxes :
        LET d == Delivered(m, b) IN
        \A i \in DOMAIN d :
            /\ d[i].to = m /\ d[i].box = b /\ d[i] = sent[d[i].from][d[i].id]
            /\ \A j \in DOMAIN d : i < j /\ d[i].from = d[j].from => d[i].id < d[j].id

(* PostOffice::Send returns, whether or not its packet was lost, although  *)
(* other threads send meanwhile (MaxSends times).  The locks are taken to  *)
(* be fair, which synch.h does not promise.                                *)
SendReturns ==
    \A m \in Machines, t \in Threads : pc[m][t] = "acquire" ~> pc[m][t] = "idle"

(* Network::CheckPktAvail and PostalDelivery: what the network has not     *)
(* dropped comes into its mailbox, although the buffer holds one packet    *)
(* only and the polls do not wait for the postal worker.                   *)
MailArrives ==
    \A m \in Machines : \A k \in 1..MaxSends[m] :
        (\E to \in Machines : test[to] = "none" /\ \E p \in Range(socket[to]) : p.from = m /\ p.id = k)
            ~> (\E to \in Machines, b \in Boxes :
                    \E p \in Range(Delivered(to, b)) : p.from = m /\ p.id = k)

(* A machine that MailTest has powered down was heard: some machine's box 0 *)
(* has handed out a message of it.                                         *)
DownIsHeard ==
    \A m \in Machines : test[m] = "down" =>
        \E far \in Machines : \E p \in Range(taken[far][0]) : p.from = m

(* MailTest: a machine powers down only when the other one has received    *)
(* its first message, and when the network drops nothing both of them do,  *)
(* whichever is faster: an acknowledgement is never sent to a machine that *)
(* is down already.                                                        *)
MailTestEnds ==
    /\ []DownIsHeard
    /\ (\A m \in Machines : test[m] # "none") ~> (lost \/ \A m \in Machines : ~Up(m))

=============================================================================
