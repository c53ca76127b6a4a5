-------------------------- MODULE PostOfficeProofs --------------------------
(***************************************************************************)
(* Proofs about PostOffice, for any machines, threads, mailboxes and       *)
(* reliability of the network, and any number of packets.                  *)
(***************************************************************************)
EXTENDS PostOffice, SequenceTheorems, FiniteSetTheorems, TLAPS

Letters == [to : Machines, box : Boxes, reply : Boxes]

PostTypes ==
    /\ socket \in [Machines -> Seq(Mail)]
    /\ inbox \in [Machines -> Mail \cup {NULL}]
    /\ sendBusy \in [Machines -> BOOLEAN]
    /\ sendInts \in [Machines -> Nat] /\ messageSent \in [Machines -> Nat]
    /\ messageAvailable \in [Machines -> Nat]
    /\ sendLock \in [Machines -> Threads \cup {NULL}]
    /\ pc \in [Machines -> [Threads -> {"idle", "acquire", "send", "wait", "release"}]]
    /\ letter \in [Machines -> [Threads -> Letters \cup {NULL}]]
    /\ worker \in [Machines -> [at : {"wait", "receive", "put"}, mail : Mail \cup {NULL}]]
    /\ boxes \in [Machines -> [Boxes -> Seq(Mail)]]
    /\ taken \in [Machines -> [Boxes -> Seq(Mail)]]
    /\ sent \in [Machines -> Seq(Mail)]
    /\ test \in [Machines -> {"none", "start", "hello", "acknowledge", "down"}]

(* The sending half of OnePacketAtATime, without its cardinality: the one  *)
(* thread that may wait is the lock's holder; a thread that has yet to     *)
(* hand over its mail has it, and MailTest starts with no Send under way.  *)
SendInv(m) ==
    /\ \A t \in Threads : pc[m][t] \in {"send", "wait", "release"} <=> sendLock[m] = t
    /\ sendInts[m] + messageSent[m]
         = (IF \E t \in Threads : pc[m][t] = "wait" THEN 1 ELSE 0)
    /\ \A t \in Threads : pc[m][t] \in {"acquire", "send"} => letter[m][t] \in Letters
    /\ test[m] = "start" => pc[m][Main] = "idle"

(* The receiving half. *)
ReceiveInv(m) ==
    /\ messageAvailable[m] + (IF worker[m].at = "receive" THEN 1 ELSE 0)
         = (IF inbox[m] = NULL THEN 0 ELSE 1)
    /\ worker[m].at = "put" => worker[m].mail \in Mail

PostInv == PostTypes /\ \A m \in Machines : SendInv(m) /\ ReceiveInv(m)

LEMMA InitPost == Init => PostInv
<1> SUFFICES ASSUME Init PROVE PostInv
  OBVIOUS
<1>1. \A S : <<>> \in Seq(S)
  BY EmptySeq
<1>2. PostTypes
  BY <1>1, PostOfficeAssumption DEF Init, PostTypes
<1> QED
  BY <1>2, PostOfficeAssumption DEF Init, PostInv, SendInv, ReceiveInv

LEMMA HeadTail ==
    ASSUME NEW S, NEW s \in Seq(S), s # <<>>
    PROVE  Head(s) \in S /\ Tail(s) \in Seq(S)
BY HeadTailProperties

(* What a step needs to show of the machine it is on: the other machines'  *)
(* part of the state stays as it is.                                       *)
LEMMA OtherMachines ==
    ASSUME PostInv, PostTypes', NEW m \in Machines, SendInv(m)', ReceiveInv(m)',
           \A k \in Machines \ {m} :
              /\ sendInts'[k] = sendInts[k] /\ messageSent'[k] = messageSent[k]
              /\ messageAvailable'[k] = messageAvailable[k] /\ inbox'[k] = inbox[k]
              /\ sendLock'[k] = sendLock[k] /\ pc'[k] = pc[k] /\ letter'[k] = letter[k]
              /\ worker'[k] = worker[k] /\ test'[k] = test[k]
    PROVE  PostInv'
<1>1. ASSUME NEW k \in Machines \ {m} PROVE SendInv(k)' /\ ReceiveInv(k)'
  BY <1>1 DEF PostInv, SendInv, ReceiveInv
<1> QED
  BY <1>1 DEF PostInv

(* PostOffice::Send is called by a thread that is not in it. *)
LEMMA CallStep ==
    ASSUME PostInv, PostTypes', NEW m \in Machines, NEW t \in Threads, NEW l \in Letters,
           pc[m][t] = "idle", Goto(m, t, "acquire"), letter' = [letter EXCEPT ![m][t] = l],
           (test'[m] = test[m] /\ test[m] # "start") \/ test'[m] \in {"hello", "acknowledge"},
           \A k \in Machines \ {m} : test'[k] = test[k],
           UNCHANGED <<sendInts, messageSent, messageAvailable, sendLock, worker, inbox>>
    PROVE  PostInv'
<1>1. /\ pc'[m] = [pc[m] EXCEPT ![t] = "acquire"] /\ letter'[m] = [letter[m] EXCEPT ![t] = l]
      /\ pc[m] \in [Threads -> {"idle", "acquire", "send", "wait", "release"}]
      /\ letter[m] \in [Threads -> Letters \cup {NULL}]
  BY DEF PostInv, PostTypes, Goto
<1>2. ReceiveInv(m)'
  BY DEF PostInv, ReceiveInv
<1>3. SendInv(m)'
  <2>1. SendInv(m)
    BY DEF PostInv
  <2> QED
    BY <1>1, <2>1 DEF SendInv
<1> QED
  BY <1>2, <1>3, OtherMachines DEF PostInv, PostTypes, Goto

LEMMA SendStep ==
    ASSUME PostInv, NEW m \in Machines, NEW t \in Threads, NEW to \in Machines,
           NEW b \in ClientBoxes, Send(m, t, to, b)
    PROVE  PostInv'
<1> DEFINE l == [to |-> to, box |-> b, reply |-> b]
<1>1. l \in Letters
  BY PostOfficeAssumption DEF Letters
<1>2. letter' = [letter EXCEPT ![m][t] = l]
  BY DEF Send
<1> HIDE DEF l
<1>3. PostTypes'
  BY <1>1, <1>2 DEF PostInv, PostTypes, Send, Goto, network, office
<1> QED
  BY <1>1, <1>2, <1>3, CallStep DEF Send, network, office

LEMMA AcquireStep ==
    ASSUME PostInv, NEW m \in Machines, NEW t \in Threads, Acquire(m, t)
    PROVE  PostInv'
<1>1. PostTypes'
  BY DEF PostInv, PostTypes, Acquire, Goto, network
<1>2. SendInv(m)'
  BY PostOfficeAssumption DEF PostInv, PostTypes, SendInv, Acquire, Goto, network
<1>3. ReceiveInv(m)'
  BY DEF PostInv, ReceiveInv, Acquire, network
<1> QED
  BY <1>1, <1>2, <1>3, OtherMachines DEF PostInv, PostTypes, Acquire, Goto, network

LEMMA PacketIsMail ==
    ASSUME PostTypes, NEW m \in Machines, NEW t \in Threads, letter[m][t] \in Letters
    PROVE  Packet(m, t) \in Mail
<1>1. sent[m] \in Seq(Mail)
  BY DEF PostTypes
<1>2. Len(sent[m]) + 1 \in Nat
  <2>1. Len(sent[m]) \in Nat
    BY <1>1, LenProperties
  <2> QED
    BY <2>1
<1>3. /\ letter[m][t].to \in Machines
      /\ letter[m][t].box \in Boxes /\ letter[m][t].reply \in Boxes
  BY DEF Letters
<1> QED
  BY <1>2, <1>3 DEF Packet, Mail

LEMMA NetworkSendStep ==
    ASSUME PostInv, NEW m \in Machines, NEW t \in Threads, NEW roll \in Rolls,
           NetworkSend(m, t, roll)
    PROVE  PostInv'
<1>1. letter[m][t] \in Letters
  BY DEF PostInv, SendInv, NetworkSend
<1>2. Packet(m, t) \in Mail
  BY <1>1, PacketIsMail DEF PostInv
<1>3. socket' \in [Machines -> Seq(Mail)]
  <2>1. letter[m][t].to \in Machines
    BY <1>1 DEF Letters
  <2>2. Append(socket[letter[m][t].to], Packet(m, t)) \in Seq(Mail)
    BY <1>2, <2>1 DEF PostInv, PostTypes
  <2>3. [socket EXCEPT ![letter[m][t].to] = Append(@, Packet(m, t))] \in [Machines -> Seq(Mail)]
    BY <2>1, <2>2 DEF PostInv, PostTypes
  <2> QED
    BY <2>3 DEF PostInv, PostTypes, NetworkSend
<1>4. sent' \in [Machines -> Seq(Mail)]
  BY <1>2 DEF PostInv, PostTypes, NetworkSend
<1>5. PostTypes'
  <2>1. letter' \in [Machines -> [Threads -> Letters \cup {NULL}]]
    BY DEF PostInv, PostTypes, NetworkSend
  <2>2. pc' \in [Machines -> [Threads -> {"idle", "acquire", "send", "wait", "release"}]]
    BY DEF PostInv, PostTypes, NetworkSend, Goto
  <2>3. sendInts' \in [Machines -> Nat]
    BY DEF PostInv, PostTypes, NetworkSend
  <2> QED
    BY <1>3, <1>4, <2>1, <2>2, <2>3 DEF PostInv, PostTypes, NetworkSend, office
<1>6. SendInv(m)'
  <2>1. sendLock[m] = t /\ \A u \in Threads \ {t} : pc[m][u] # "wait"
    BY DEF PostInv, SendInv, NetworkSend
  <2>2. sendInts[m] + messageSent[m] = 0
    BY <2>1 DEF PostInv, SendInv, NetworkSend
  <2>3. /\ pc'[m][t] = "wait" /\ \A u \in Threads \ {t} : pc'[m][u] = pc[m][u]
        /\ \A u \in Threads \ {t} : letter'[m][u] = letter[m][u]
        /\ sendInts'[m] = sendInts[m] + 1
    BY DEF PostInv, PostTypes, NetworkSend, Goto
  <2>4. UNCHANGED <<messageSent, sendLock, test>>
    BY DEF NetworkSend, office
  <2>5. sendInts'[m] + messageSent'[m] = 1
    BY <2>2, <2>3, <2>4 DEF PostInv, PostTypes
  <2>6. test[m] = "start" => Main # t
    BY DEF PostInv, SendInv, NetworkSend
  <2>7. SendInv(m)
    BY DEF PostInv
  <2> QED
    BY <2>1, <2>3, <2>4, <2>5, <2>6, <2>7, PostOfficeAssumption DEF SendInv
<1>7. ReceiveInv(m)'
  BY DEF PostInv, ReceiveInv, NetworkSend, office
<1> QED
  BY <1>5, <1>6, <1>7, OtherMachines DEF PostInv, PostTypes, NetworkSend, Goto, office

LEMMA SendDoneStep ==
    ASSUME PostInv, NEW m \in Machines, SendDone(m)
    PROVE  PostInv'
<1>1. PostTypes'
  <2>1. sendInts' \in [Machines -> Nat]
    BY DEF PostInv, PostTypes, SendDone
  <2>2. sendBusy' \in [Machines -> BOOLEAN]
    BY DEF PostInv, PostTypes, SendDone
  <2> QED
    BY <2>1, <2>2 DEF PostInv, PostTypes, SendDone
<1>2. SendInv(m)'
  <2>1. sendInts'[m] + messageSent'[m] = sendInts[m] + messageSent[m]
    BY DEF PostInv, PostTypes, SendDone
  <2>2. SendInv(m) /\ UNCHANGED <<pc, sendLock, letter, test>>
    BY DEF PostInv, SendDone
  <2> QED
    BY <2>1, <2>2 DEF SendInv
<1>3. ReceiveInv(m)'
  BY DEF PostInv, ReceiveInv, SendDone
<1> QED
  BY <1>1, <1>2, <1>3, OtherMachines DEF PostInv, PostTypes, SendDone

LEMMA PSentStep ==
    ASSUME PostInv, NEW m \in Machines, NEW t \in Threads, PSent(m, t)
    PROVE  PostInv'
<1>1. PostTypes'
  <2>1. messageSent' \in [Machines -> Nat]
    BY DEF PostInv, PostTypes, PSent
  <2> QED
    BY <2>1 DEF PostInv, PostTypes, PSent, Goto, network
<1>2. SendInv(m)'
  <2>1. sendLock[m] = t /\ \A u \in Threads \ {t} : pc[m][u] # "wait"
    BY DEF PostInv, SendInv, PSent
  <2>2. sendInts[m] + messageSent[m] = 1
    BY DEF PostInv, SendInv, PSent
  <2>3. /\ pc'[m][t] = "release" /\ \A u \in Threads \ {t} : pc'[m][u] = pc[m][u]
        /\ messageSent'[m] = messageSent[m] - 1
    BY DEF PostInv, PostTypes, PSent, Goto
  <2>4. UNCHANGED <<sendInts, sendLock, test, letter>>
    BY DEF PSent, network
  <2>5. sendInts'[m] + messageSent'[m] = 0
    BY <2>2, <2>3, <2>4 DEF PostInv, PostTypes
  <2>6. test[m] = "start" => Main # t
    BY DEF PostInv, SendInv, PSent
  <2>7. SendInv(m)
    BY DEF PostInv
  <2> QED
    BY <2>1, <2>3, <2>4, <2>5, <2>6, <2>7, PostOfficeAssumption DEF SendInv
<1>3. ReceiveInv(m)'
  BY DEF PostInv, ReceiveInv, PSent, network
<1> QED
  BY <1>1, <1>2, <1>3, OtherMachines DEF PostInv, PostTypes, PSent, Goto, network

LEMMA ReleaseStep ==
    ASSUME PostInv, NEW m \in Machines, NEW t \in Threads, Release(m, t)
    PROVE  PostInv'
<1>1. PostTypes'
  BY DEF PostInv, PostTypes, Release, Goto, network
<1>2. SendInv(m)'
  BY PostOfficeAssumption DEF PostInv, PostTypes, SendInv, Release, Goto, network
<1>3. ReceiveInv(m)'
  BY DEF PostInv, ReceiveInv, Release, network
<1> QED
  BY <1>1, <1>2, <1>3, OtherMachines DEF PostInv, PostTypes, Release, Goto, network

LEMMA CheckPktAvailStep ==
    ASSUME PostInv, NEW m \in Machines, CheckPktAvail(m)
    PROVE  PostInv'
<1>1. Head(socket[m]) \in Mail /\ Tail(socket[m]) \in Seq(Mail)
  BY HeadTail DEF PostInv, PostTypes, CheckPktAvail
<1>2. PostTypes'
  <2>1. inbox' \in [Machines -> Mail \cup {NULL}] /\ socket' \in [Machines -> Seq(Mail)]
    BY <1>1 DEF PostInv, PostTypes, CheckPktAvail
  <2> QED
    BY <2>1 DEF PostInv, PostTypes, CheckPktAvail
<1>3. SendInv(m)'
  BY DEF PostInv, SendInv, CheckPktAvail
<1>4. ReceiveInv(m)'
  <2>1. inbox'[m] # NULL
    BY <1>1, PostOfficeAssumption DEF PostInv, PostTypes, CheckPktAvail
  <2> QED
    BY <2>1 DEF PostInv, PostTypes, ReceiveInv, CheckPktAvail
<1> QED
  BY <1>2, <1>3, <1>4, OtherMachines DEF PostInv, PostTypes, CheckPktAvail

LEMMA WorkerPStep ==
    ASSUME PostInv, NEW m \in Machines, WorkerP(m)
    PROVE  PostInv'
<1>1. worker'[m].at = "receive" /\ worker' \in [Machines -> [at : {"wait", "receive", "put"}, mail : Mail \cup {NULL}]]
  BY DEF PostInv, PostTypes, WorkerP
<1>2. PostTypes'
  <2>1. messageAvailable' \in [Machines -> Nat]
    BY DEF PostInv, PostTypes, WorkerP
  <2> QED
    BY <1>1, <2>1 DEF PostInv, PostTypes, WorkerP, network
<1>3. SendInv(m)'
  BY DEF PostInv, SendInv, WorkerP, network
<1>4. ReceiveInv(m)'
  BY <1>1 DEF PostInv, PostTypes, ReceiveInv, WorkerP, network
<1> QED
  BY <1>2, <1>3, <1>4, OtherMachines DEF PostInv, PostTypes, WorkerP, network

LEMMA WorkerReceiveStep ==
    ASSUME PostInv, NEW m \in Machines, WorkerReceive(m)
    PROVE  PostInv' /\ inbox[m] \in Mail
<1>1. inbox[m] \in Mail
  BY DEF PostInv, PostTypes, ReceiveInv, WorkerReceive
<1>2. worker'[m] = [at |-> "put", mail |-> inbox[m]] /\ inbox'[m] = NULL
  BY DEF PostInv, PostTypes, WorkerReceive
<1>3. worker' \in [Machines -> [at : {"wait", "receive", "put"}, mail : Mail \cup {NULL}]]
  BY <1>1 DEF PostInv, PostTypes, WorkerReceive
<1>4. PostTypes'
  <2>1. inbox' \in [Machines -> Mail \cup {NULL}]
    BY DEF PostInv, PostTypes, WorkerReceive
  <2> QED
    BY <1>3, <2>1 DEF PostInv, PostTypes, WorkerReceive
<1>5. SendInv(m)'
  BY DEF PostInv, SendInv, WorkerReceive
<1>6. ReceiveInv(m)'
  <2>1. messageAvailable[m] = 0
    <3>1. inbox[m] # NULL /\ messageAvailable[m] \in Nat /\ worker[m].at = "receive"
      BY <1>1, PostOfficeAssumption DEF PostInv, PostTypes, WorkerReceive
    <3> QED
      BY <3>1 DEF PostInv, ReceiveInv
  <2>2. messageAvailable' = messageAvailable
    BY DEF WorkerReceive
  <2> QED
    BY <1>1, <1>2, <2>1, <2>2 DEF ReceiveInv
<1> QED
  BY <1>1, <1>4, <1>5, <1>6, OtherMachines DEF PostInv, PostTypes, WorkerReceive

LEMMA WorkerPutStep ==
    ASSUME PostInv, NEW m \in Machines, WorkerPut(m)
    PROVE  PostInv' /\ worker[m].mail \in Mail /\ worker[m].mail.box \in Boxes
<1>1. worker[m].mail \in Mail /\ worker[m].mail.box \in Boxes
  BY DEF PostInv, ReceiveInv, WorkerPut, Mail
<1>2. worker'[m] = [at |-> "wait", mail |-> NULL]
  BY DEF PostInv, PostTypes, WorkerPut
<1>3. worker' \in [Machines -> [at : {"wait", "receive", "put"}, mail : Mail \cup {NULL}]]
  BY DEF PostInv, PostTypes, WorkerPut
<1>4. boxes' \in [Machines -> [Boxes -> Seq(Mail)]]
  <2>1. Append(boxes[m][worker[m].mail.box], worker[m].mail) \in Seq(Mail)
    BY <1>1 DEF PostInv, PostTypes
  <2> QED
    BY <1>1, <2>1 DEF PostInv, PostTypes, WorkerPut
<1>5. PostTypes'
  BY <1>3, <1>4 DEF PostInv, PostTypes, WorkerPut, network
<1>6. SendInv(m)'
  BY DEF PostInv, SendInv, WorkerPut, network
<1>7. ReceiveInv(m)'
  BY <1>2 DEF PostInv, ReceiveInv, WorkerPut, network
<1> QED
  BY <1>1, <1>5, <1>6, <1>7, OtherMachines DEF PostInv, PostTypes, WorkerPut, network

(* Mail is taken from a mailbox. *)
LEMMA TakeTypes ==
    ASSUME PostTypes, NEW m \in Machines, NEW b \in Boxes, TakeFrom(m, b)
    PROVE  /\ Head(boxes[m][b]) \in Mail /\ boxes[m][b] # <<>>
           /\ boxes' \in [Machines -> [Boxes -> Seq(Mail)]]
           /\ taken' \in [Machines -> [Boxes -> Seq(Mail)]]
<1>1. boxes[m][b] \in Seq(Mail) /\ boxes[m][b] # <<>> /\ taken[m][b] \in Seq(Mail)
  BY DEF PostTypes, TakeFrom
<1>2. Head(boxes[m][b]) \in Mail /\ Tail(boxes[m][b]) \in Seq(Mail)
  BY <1>1, HeadTail
<1>3. Append(taken[m][b], Head(boxes[m][b])) \in Seq(Mail)
  BY <1>1, <1>2
<1>4. boxes' \in [Machines -> [Boxes -> Seq(Mail)]]
  BY <1>2 DEF PostTypes, TakeFrom
<1>5. taken' \in [Machines -> [Boxes -> Seq(Mail)]]
  BY <1>3 DEF PostTypes, TakeFrom
<1> QED
  BY <1>1, <1>2, <1>4, <1>5

LEMMA ReceiveStep ==
    ASSUME PostInv, NEW m \in Machines, NEW b \in Boxes, Receive(m, b)
    PROVE  PostInv' /\ TakeFrom(m, b)
<1>1. TakeFrom(m, b)
  BY DEF Receive, TakeFrom
<1>2. PostTypes'
  BY <1>1, TakeTypes DEF PostInv, PostTypes, Receive, network
<1> QED
  BY <1>1, <1>2 DEF PostInv, SendInv, ReceiveInv, Receive, network

LEMMA HelloStep ==
    ASSUME PostInv, NEW m \in Machines, NEW far \in Machines, Hello(m, far)
    PROVE  PostInv'
<1> DEFINE l == [to |-> far, box |-> 0, reply |-> 1]
<1>1. l \in Letters
  BY PostOfficeAssumption DEF Letters
<1>2. letter' = [letter EXCEPT ![m][Main] = l] /\ pc[m][Main] = "idle"
  BY DEF Hello, CallSend, PostInv, SendInv
<1> HIDE DEF l
<1>3. PostTypes' /\ test'[m] = "hello" /\ \A k \in Machines \ {m} : test'[k] = test[k]
  BY <1>1, <1>2, PostOfficeAssumption
     DEF PostInv, PostTypes, Hello, CallSend, Goto, network, office
<1> QED
  BY <1>1, <1>2, <1>3, CallStep, PostOfficeAssumption DEF Hello, CallSend, network, office

LEMMA AcknowledgeStep ==
    ASSUME PostInv, NEW m \in Machines, Acknowledge(m)
    PROVE  PostInv'
<1> DEFINE l == [to |-> Head(boxes[m][0]).from, box |-> Head(boxes[m][0]).reply, reply |-> 1]
<1>1. TakeFrom(m, 0) /\ 0 \in Boxes
  BY PostOfficeAssumption DEF Acknowledge
<1>2. l \in Letters
  <2>1. Head(boxes[m][0]) \in Mail
    BY <1>1, TakeTypes DEF PostInv
  <2> QED
    BY <2>1, PostOfficeAssumption DEF Letters, Mail
<1>3. letter' = [letter EXCEPT ![m][Main] = l]
  BY DEF Acknowledge, CallSend
<1> HIDE DEF l
<1>4. /\ boxes' \in [Machines -> [Boxes -> Seq(Mail)]]
      /\ taken' \in [Machines -> [Boxes -> Seq(Mail)]]
  BY <1>1, TakeTypes DEF PostInv
<1>5. PostTypes' /\ test'[m] = "acknowledge" /\ \A k \in Machines \ {m} : test'[k] = test[k]
  <2>1. letter' \in [Machines -> [Threads -> Letters \cup {NULL}]]
    BY <1>2, <1>3 DEF PostInv, PostTypes
  <2>2. pc' \in [Machines -> [Threads -> {"idle", "acquire", "send", "wait", "release"}]]
    BY PostOfficeAssumption DEF PostInv, PostTypes, Acknowledge, CallSend, Goto
  <2> QED
    BY <1>4, <2>1, <2>2 DEF PostInv, PostTypes, Acknowledge, network
<1> QED
  BY <1>2, <1>3, <1>5, CallStep, PostOfficeAssumption DEF Acknowledge, CallSend, network

LEMMA PowerdownStep ==
    ASSUME PostInv, NEW m \in Machines, Powerdown(m)
    PROVE  PostInv'
<1>1. TakeFrom(m, 1) /\ 1 \in Boxes
  BY PostOfficeAssumption DEF Powerdown
<1>2. PostTypes'
  BY <1>1, TakeTypes DEF PostInv, PostTypes, Powerdown, network
<1>3. SendInv(m)' /\ ReceiveInv(m)'
  BY DEF PostInv, PostTypes, SendInv, ReceiveInv, Powerdown, network
<1> QED
  BY <1>2, <1>3, OtherMachines DEF PostInv, PostTypes, Powerdown, network

LEMMA PostStep == PostInv /\ [Next]_pvars => PostInv'
<1> SUFFICES ASSUME PostInv, [Next]_pvars PROVE PostInv'
  OBVIOUS
<1>1. ASSUME UNCHANGED pvars PROVE PostInv'
  BY <1>1 DEF PostInv, PostTypes, SendInv, ReceiveInv, pvars, network, office
<1>2. ASSUME NEW m \in Machines, NEW t \in Threads, Sending(m, t) PROVE PostInv'
  BY <1>2, AcquireStep, PSentStep, ReleaseStep, NetworkSendStep DEF Sending
<1>3. ASSUME NEW m \in Machines, Worker(m) PROVE PostInv'
  BY <1>3, WorkerPStep, WorkerReceiveStep, WorkerPutStep DEF Worker
<1>4. ASSUME NEW m \in Machines, MailTest(m) PROVE PostInv'
  BY <1>4, HelloStep, AcknowledgeStep, PowerdownStep DEF MailTest
<1> QED
  BY <1>1, <1>2, <1>3, <1>4, SendStep, SendDoneStep, CheckPktAvailStep, ReceiveStep
     DEF Next, PollAgain, Exited

LEMMA PostInvImplies == PostInv => OnePacketAtATime
<1> SUFFICES ASSUME PostInv PROVE OnePacketAtATime
  OBVIOUS
<1>1. ASSUME NEW s \in Seq(Mail) PROVE Range(s) \subseteq Mail
  BY DEF Range
<1>2. ASSUME NEW m \in Machines
      PROVE  Cardinality({t \in Threads : pc[m][t] = "wait"})
               = IF \E t \in Threads : pc[m][t] = "wait" THEN 1 ELSE 0
  <2>1. CASE \E t \in Threads : pc[m][t] = "wait"
    <3>1. PICK t \in Threads : pc[m][t] = "wait"
      BY <2>1
    <3>2. {u \in Threads : pc[m][u] = "wait"} = {t}
      BY <3>1 DEF PostInv, SendInv
    <3> QED
      BY <2>1, <3>2, FS_Singleton
  <2>2. CASE ~\E t \in Threads : pc[m][t] = "wait"
    <3>1. {u \in Threads : pc[m][u] = "wait"} = {}
      BY <2>2
    <3> QED
      BY <2>2, <3>1, FS_EmptySet
  <2> QED
    BY <2>1, <2>2
<1>3. TypeOK
  <2> SUFFICES ASSUME NEW m \in Machines
               PROVE  /\ Range(socket[m]) \subseteq Mail /\ inbox[m] \in Mail \cup {NULL}
                      /\ sendBusy[m] \in BOOLEAN /\ sendInts[m] \in 0..1
                      /\ messageAvailable[m] \in 0..1 /\ messageSent[m] \in 0..1
                      /\ sendLock[m] \in Threads \cup {NULL}
                      /\ worker[m].at \in {"wait", "receive", "put"}
                      /\ worker[m].mail \in Mail \cup {NULL}
                      /\ \A t \in Threads :
                           pc[m][t] \in {"idle", "acquire", "send", "wait", "release"}
                      /\ \A b \in Boxes : Range(boxes[m][b]) \subseteq Mail
    BY DEF TypeOK
  <2>1. sendInts[m] \in Nat /\ messageSent[m] \in Nat /\ messageAvailable[m] \in Nat
    BY DEF PostInv, PostTypes
  <2>2. sendInts[m] \in 0..1 /\ messageSent[m] \in 0..1
    BY <2>1 DEF PostInv, SendInv
  <2>3. messageAvailable[m] \in 0..1
    BY <2>1 DEF PostInv, ReceiveInv
  <2>4. Range(socket[m]) \subseteq Mail /\ \A b \in Boxes : Range(boxes[m][b]) \subseteq Mail
    BY <1>1 DEF PostInv, PostTypes
  <2> QED
    BY <2>2, <2>3, <2>4 DEF PostInv, PostTypes
<1>4. ASSUME NEW m \in Machines
      PROVE  /\ messageAvailable[m] + (IF worker[m].at = "receive" THEN 1 ELSE 0)
                   = (IF inbox[m] = NULL THEN 0 ELSE 1)
             /\ worker[m].at = "put" => worker[m].mail # NULL
             /\ \A t \in Threads : pc[m][t] \in {"send", "wait", "release"} <=> sendLock[m] = t
             /\ sendInts[m] + messageSent[m]
                   = Cardinality({t \in Threads : pc[m][t] = "wait"})
  BY <1>2, PostOfficeAssumption DEF PostInv, SendInv, ReceiveInv
<1> QED
  BY <1>3, <1>4 DEF OnePacketAtATime

(* network.cc and post.cc: on any number of machines and with any number   *)
(* of sending threads, the one-packet buffers are neither overwritten nor  *)
(* read empty, and a completed send wakes the thread whose packet it was.  *)
THEOREM BuffersHoldOnePacket == Spec => []OnePacketAtATime
BY InitPost, PostStep, PostInvImplies, PTL DEF Spec

(***************************************************************************)
(* The order of the mail.                                                  *)
(***************************************************************************)

(* A packet for machine m that its sender has sent, by the history h. *)
Genuine(h, m, p) == p.to = m /\ p.id \in 1..Len(h[p.from]) /\ h[p.from][p.id] = p

Before(p, q) == p.from = q.from => p.id < q.id

InOrder(s) == \A i, j \in 1..Len(s) : i < j => Before(s[i], s[j])

(* Everything on its way to m was sent to m, and what is nearer to the     *)
(* mailboxes was sent earlier: a mailbox, the postal worker, the network's *)
(* buffer, the wire.                                                       *)
WireInv(m) ==
    /\ \A i \in 1..Len(socket[m]) : Genuine(sent, m, socket[m][i])
    /\ InOrder(socket[m])

InboxInv(m) ==
    inbox[m] # NULL => /\ Genuine(sent, m, inbox[m])
                       /\ \A i \in 1..Len(socket[m]) : Before(inbox[m], socket[m][i])

WorkerInv(m) ==
    worker[m].at = "put" =>
        /\ Genuine(sent, m, worker[m].mail)
        /\ inbox[m] # NULL => Before(worker[m].mail, inbox[m])
        /\ \A i \in 1..Len(socket[m]) : Before(worker[m].mail, socket[m][i])

BoxInv(m, b) ==
    /\ \A i \in 1..Len(Delivered(m, b)) :
         /\ Genuine(sent, m, Delivered(m, b)[i]) /\ Delivered(m, b)[i].box = b
         /\ worker[m].at = "put" => Before(Delivered(m, b)[i], worker[m].mail)
         /\ inbox[m] # NULL => Before(Delivered(m, b)[i], inbox[m])
         /\ \A j \in 1..Len(socket[m]) : Before(Delivered(m, b)[i], socket[m][j])
    /\ InOrder(Delivered(m, b))

OrderInv == \A m \in Machines :
    WireInv(m) /\ InboxInv(m) /\ WorkerInv(m) /\ \A b \in Boxes : BoxInv(m, b)

LEMMA DeliveredType ==
    ASSUME PostTypes, NEW m \in Machines, NEW b \in Boxes
    PROVE  /\ Delivered(m, b) \in Seq(Mail) /\ Len(Delivered(m, b)) \in Nat
           /\ \A i \in 1..Len(Delivered(m, b)) : Delivered(m, b)[i] \in Mail
<1>1. Delivered(m, b) \in Seq(Mail)
  BY ConcatProperties DEF PostTypes, Delivered
<1> QED
  BY <1>1, ElementOfSeq

(* Moving mail from a mailbox to its reader keeps what was delivered. *)
LEMMA TakeKeeps ==
    ASSUME NEW S, NEW s \in Seq(S), NEW u \in Seq(S), u # <<>>
    PROVE  Append(s, Head(u)) \o Tail(u) = s \o u
<1> DEFINE a == Append(s, Head(u)) \o Tail(u)
           c == s \o u
<1>1. /\ Head(u) = u[1] /\ Head(u) \in S /\ Tail(u) \in Seq(S) /\ Len(Tail(u)) = Len(u) - 1
      /\ \A i \in 1..Len(Tail(u)) : Tail(u)[i] = u[i + 1]
      /\ Len(u) \in Nat /\ Len(u) >= 1 /\ Len(s) \in Nat
  BY HeadTailProperties, EmptySeq
<1>2. /\ Append(s, Head(u)) \in Seq(S) /\ Len(Append(s, Head(u))) = Len(s) + 1
      /\ \A i \in 1..Len(s) : Append(s, Head(u))[i] = s[i]
      /\ Append(s, Head(u))[Len(s) + 1] = u[1]
  BY <1>1, AppendProperties
<1>3. /\ a \in Seq(S) /\ Len(a) = Len(s) + Len(u)
      /\ \A i \in 1..Len(s) + Len(u) :
           a[i] = IF i <= Len(s) + 1 THEN Append(s, Head(u))[i] ELSE Tail(u)[i - (Len(s) + 1)]
  BY <1>1, <1>2, ConcatProperties
<1>4. /\ c \in Seq(S) /\ Len(c) = Len(s) + Len(u)
      /\ \A i \in 1..Len(s) + Len(u) : c[i] = IF i <= Len(s) THEN s[i] ELSE u[i - Len(s)]
  BY ConcatProperties
<1> HIDE DEF a, c
<1>5. ASSUME NEW i \in 1..Len(a) PROVE a[i] = c[i]
  <2>1. CASE i <= Len(s)
    BY <1>1, <1>2, <1>3, <1>4, <2>1
  <2>2. CASE i = Len(s) + 1
    BY <1>1, <1>2, <1>3, <1>4, <2>2
  <2>3. CASE i > Len(s) + 1
    <3>1. i - (Len(s) + 1) \in 1..Len(Tail(u)) /\ i - (Len(s) + 1) + 1 = i - Len(s)
      BY <1>1, <1>3, <2>3
    <3>2. Tail(u)[i - (Len(s) + 1)] = u[i - Len(s)]
      BY <1>1, <3>1
    <3> QED
      BY <1>1, <1>3, <1>4, <2>3, <3>2
  <2> QED
    BY <1>1, <2>1, <2>2, <2>3
<1>6. a = c
  BY <1>3, <1>4, <1>5, SeqEqual
<1> QED
  BY <1>6 DEF a, c

(* Putting mail into a mailbox appends it to what was delivered. *)
LEMMA PutAppends ==
    ASSUME NEW S, NEW s \in Seq(S), NEW u \in Seq(S), NEW x \in S
    PROVE  s \o Append(u, x) = Append(s \o u, x)
<1>1. /\ Append(u, x) = u \o <<x>> /\ <<x>> \in Seq(S) /\ s \o u \in Seq(S)
      /\ Append(s \o u, x) = (s \o u) \o <<x>>
  BY AppendIsConcat, ConcatProperties
<1> QED
  BY <1>1, ConcatAssociative

LEMMA InitOrder == Init => OrderInv
<1> SUFFICES ASSUME Init, NEW m \in Machines, NEW b \in Boxes
             PROVE  WireInv(m) /\ InboxInv(m) /\ WorkerInv(m) /\ BoxInv(m, b)
  BY PostOfficeAssumption DEF OrderInv
<1>1. <<>> \o <<>> = <<>> /\ Len(<<>>) = 0
  BY ConcatEmptySeq, EmptySeq
<1>2. Delivered(m, b) = <<>> /\ socket[m] = <<>> /\ inbox[m] = NULL /\ worker[m].at = "wait"
  BY <1>1 DEF Init, Delivered
<1> QED
  BY <1>1, <1>2 DEF WireInv, InboxInv, WorkerInv, BoxInv, InOrder

(* Steps that move no packet. *)
LEMMA OrderUnmoved ==
    ASSUME PostTypes, OrderInv, UNCHANGED <<socket, inbox, sent>>,
           \A m \in Machines : worker'[m] = worker[m] \/ worker'[m].at # "put",
           \A m \in Machines, b \in Boxes : Delivered(m, b)' = Delivered(m, b)
    PROVE  OrderInv'
<1> SUFFICES ASSUME NEW m \in Machines, NEW b \in Boxes
             PROVE  WireInv(m)' /\ InboxInv(m)' /\ WorkerInv(m)' /\ BoxInv(m, b)'
  BY PostOfficeAssumption DEF OrderInv
<1>1. WireInv(m) /\ InboxInv(m) /\ WorkerInv(m) /\ BoxInv(m, b)
  BY DEF OrderInv
<1>3. WireInv(m)' /\ InboxInv(m)'
  BY <1>1 DEF WireInv, InboxInv, InOrder
<1>4. WorkerInv(m)'
  BY <1>1 DEF WorkerInv
<1>5. BoxInv(m, b)'
  <2>1. Delivered(m, b)' = Delivered(m, b)
    OBVIOUS
  <2> QED
    BY <1>1, <2>1 DEF BoxInv, InOrder
<1> QED
  BY <1>3, <1>4, <1>5

(* Network::Send hands its packet to the wire behind all that was sent. *)
LEMMA OrderSend ==
    ASSUME PostInv, OrderInv, NEW m \in Machines, NEW t \in Threads, NEW roll \in Rolls,
           NetworkSend(m, t, roll)
    PROVE  OrderInv'
<1> DEFINE q == Packet(m, t)
<1>1. letter[m][t] \in Letters
  BY DEF PostInv, SendInv, NetworkSend
<1>2. q \in Mail /\ q.from = m /\ q.to = letter[m][t].to /\ q.id = Len(sent[m]) + 1
  BY <1>1, PacketIsMail DEF PostInv, Packet
<1>3. /\ sent' = [sent EXCEPT ![m] = Append(@, q)]
      /\ \A k \in Machines : \/ socket'[k] = socket[k]
                             \/ k = q.to /\ socket'[k] = Append(socket[k], q)
      /\ UNCHANGED <<inbox, worker, boxes, taken>>
  BY <1>2 DEF NetworkSend, PostInv, PostTypes, office
<1> HIDE DEF q
<1>4. sent[m] \in Seq(Mail) /\ Len(sent[m]) \in Nat
  BY DEF PostInv, PostTypes
<1>5. /\ sent'[m] = Append(sent[m], q) /\ Len(sent'[m]) = Len(sent[m]) + 1
      /\ sent'[m][Len(sent[m]) + 1] = q
      /\ \A i \in 1..Len(sent[m]) : sent'[m][i] = sent[m][i]
      /\ \A k \in Machines \ {m} : sent'[k] = sent[k]
  <2>1. sent'[m] = Append(sent[m], q) /\ \A k \in Machines \ {m} : sent'[k] = sent[k]
    BY <1>3 DEF PostInv, PostTypes
  <2> QED
    BY <1>2, <1>4, <2>1, AppendProperties
<1>6. ASSUME NEW k \in Machines, NEW p \in Mail, Genuine(sent, k, p)
      PROVE  Genuine(sent', k, p) /\ Before(p, q)
  <2>1. p.from \in Machines /\ p.id \in Nat
    BY DEF Mail
  <2>2. CASE p.from = m
    BY <1>2, <1>4, <1>5, <1>6, <2>1, <2>2 DEF Genuine, Before
  <2>3. CASE p.from # m
    BY <1>2, <1>5, <1>6, <2>1, <2>3 DEF Genuine, Before
  <2> QED
    BY <2>2, <2>3
<1>7. Genuine(sent', q.to, q)
  BY <1>2, <1>4, <1>5 DEF Genuine
<1> SUFFICES ASSUME NEW k \in Machines, NEW b \in Boxes
             PROVE  WireInv(k)' /\ InboxInv(k)' /\ WorkerInv(k)' /\ BoxInv(k, b)'
  BY PostOfficeAssumption DEF OrderInv
<1>8. WireInv(k) /\ InboxInv(k) /\ WorkerInv(k) /\ BoxInv(k, b)
  BY DEF OrderInv
<1>9. socket[k] \in Seq(Mail) /\ Len(socket[k]) \in Nat /\ \A i \in 1..Len(socket[k]) : socket[k][i] \in Mail
  BY DEF PostInv, PostTypes
<1>10. /\ Len(socket'[k]) \in Nat
       /\ \A i \in 1..Len(socket'[k]) : \/ i \in 1..Len(socket[k]) /\ socket'[k][i] = socket[k][i]
                                        \/ k = q.to /\ i = Len(socket[k]) + 1 /\ socket'[k][i] = q
  <2>1. CASE socket'[k] = socket[k]
    BY <1>9, <2>1
  <2>2. CASE k = q.to /\ socket'[k] = Append(socket[k], q)
    BY <1>2, <1>9, <2>2, AppendProperties
  <2> QED
    BY <1>3, <2>1, <2>2
<1>11. WireInv(k)'
  <2>1. ASSUME NEW i \in 1..Len(socket'[k]) PROVE Genuine(sent', k, socket'[k][i])
    BY <1>6, <1>7, <1>8, <1>9, <1>10, <2>1 DEF WireInv
  <2>2. ASSUME NEW i \in 1..Len(socket'[k]), NEW j \in 1..Len(socket'[k]), i < j
        PROVE  Before(socket'[k][i], socket'[k][j])
    <3>1. i \in 1..Len(socket[k]) /\ socket'[k][i] = socket[k][i]
      BY <1>9, <1>10, <2>2
    <3> QED
      BY <1>6, <1>8, <1>9, <1>10, <2>2, <3>1 DEF WireInv, InOrder
  <2> QED
    BY <2>1, <2>2 DEF WireInv, InOrder
<1>12. InboxInv(k)'
  <2>1. inbox[k] # NULL => inbox[k] \in Mail
    BY DEF PostInv, PostTypes
  <2> QED
    BY <1>3, <1>6, <1>8, <1>10, <2>1 DEF InboxInv
<1>13. WorkerInv(k)'
  <2>1. worker[k].at = "put" => worker[k].mail \in Mail
    BY DEF PostInv, ReceiveInv
  <2> QED
    BY <1>3, <1>6, <1>8, <1>10, <2>1 DEF WorkerInv
<1>14. BoxInv(k, b)'
  <2>1. Delivered(k, b)' = Delivered(k, b)
    BY <1>3 DEF Delivered
  <2> DEFINE d == Delivered(k, b)
  <2>2. Len(d) \in Nat /\ \A i \in 1..Len(d) : d[i] \in Mail
    BY DeliveredType DEF PostInv
  <2>3. d' = d
    BY <2>1
  <2>4. /\ InOrder(d)
        /\ \A i \in 1..Len(d) :
             /\ Genuine(sent, k, d[i]) /\ d[i].box = b
             /\ worker[k].at = "put" => Before(d[i], worker[k].mail)
             /\ inbox[k] # NULL => Before(d[i], inbox[k])
             /\ \A j \in 1..Len(socket[k]) : Before(d[i], socket[k][j])
    BY <1>8 DEF BoxInv
  <2>5. BoxInv(k, b)' <=>
          /\ InOrder(d')
          /\ \A i \in 1..Len(d') :
               /\ Genuine(sent', k, d'[i]) /\ d'[i].box = b
               /\ worker'[k].at = "put" => Before(d'[i], worker'[k].mail)
               /\ inbox'[k] # NULL => Before(d'[i], inbox'[k])
               /\ \A j \in 1..Len(socket'[k]) : Before(d'[i], socket'[k][j])
    BY DEF BoxInv, InOrder, Before, Genuine
  <2> HIDE DEF d
  <2> QED
    BY <1>3, <1>6, <1>10, <2>2, <2>3, <2>4, <2>5
<1> QED
  BY <1>11, <1>12, <1>13, <1>14

(* Network::CheckPktAvail moves the first packet of the wire to the buffer. *)
LEMMA OrderPoll ==
    ASSUME PostInv, OrderInv, NEW m \in Machines, CheckPktAvail(m)
    PROVE  OrderInv'
<1> DEFINE s == socket[m]
           x == Head(s)
<1>1. /\ s \in Seq(Mail) /\ s # <<>> /\ Len(s) \in Nat /\ 1 \in 1..Len(s)
      /\ x = s[1] /\ x \in Mail /\ x # NULL
      /\ Len(Tail(s)) = Len(s) - 1 /\ \A i \in 1..Len(s) - 1 : Tail(s)[i] = s[i + 1]
  <2>1. s \in Seq(Mail) /\ s # <<>>
    BY DEF PostInv, PostTypes, CheckPktAvail
  <2> HIDE DEF s
  <2>2. /\ Len(s) \in Nat /\ 1 \in 1..Len(s) /\ Head(s) = s[1] /\ Head(s) \in Mail
        /\ Len(Tail(s)) = Len(s) - 1 /\ \A i \in 1..Len(s) - 1 : Tail(s)[i] = s[i + 1]
    BY <2>1, HeadTailProperties, EmptySeq
  <2> QED
    BY <2>1, <2>2, PostOfficeAssumption
<1>2. /\ inbox[m] = NULL /\ inbox'[m] = x /\ socket'[m] = Tail(s)
      /\ \A k \in Machines \ {m} : inbox'[k] = inbox[k] /\ socket'[k] = socket[k]
      /\ UNCHANGED <<worker, boxes, taken, sent>>
  BY DEF PostInv, PostTypes, CheckPktAvail
<1> HIDE DEF x
<1> SUFFICES ASSUME NEW k \in Machines, NEW b \in Boxes
             PROVE  WireInv(k)' /\ InboxInv(k)' /\ WorkerInv(k)' /\ BoxInv(k, b)'
  BY PostOfficeAssumption DEF OrderInv
<1>3. WireInv(k) /\ InboxInv(k) /\ WorkerInv(k) /\ BoxInv(k, b)
  BY DEF OrderInv
<1>4. Delivered(k, b)' = Delivered(k, b)
  BY <1>2 DEF Delivered
<1>5. CASE k # m
  BY <1>2, <1>3, <1>4, <1>5 DEF WireInv, InboxInv, WorkerInv, BoxInv, InOrder
<1>6. CASE k = m
  <2>1. /\ \A i \in 1..Len(socket'[m]) : i + 1 \in 1..Len(s) /\ socket'[m][i] = s[i + 1]
        /\ Len(socket'[m]) \in Nat
    BY <1>1, <1>2
  <2>2. WireInv(k)'
    <3>1. ASSUME NEW i \in 1..Len(socket'[m]) PROVE Genuine(sent', m, socket'[m][i])
      BY <1>2, <1>3, <1>6, <2>1 DEF WireInv
    <3>2. ASSUME NEW i \in 1..Len(socket'[m]), NEW j \in 1..Len(socket'[m]), i < j
          PROVE  Before(socket'[m][i], socket'[m][j])
      <4>1. i + 1 < j + 1
        BY <2>1, <3>2
      <4> QED
        BY <1>3, <1>6, <2>1, <4>1 DEF WireInv, InOrder
    <3> QED
      BY <1>6, <3>1, <3>2 DEF WireInv, InOrder
  <2>3. InboxInv(k)'
    <3>1. Genuine(sent', m, x)
      BY <1>1, <1>2, <1>3, <1>6 DEF WireInv
    <3>2. ASSUME NEW i \in 1..Len(socket'[m]) PROVE Before(x, socket'[m][i])
      <4>1. 1 < i + 1
        BY <2>1, <3>2
      <4> QED
        BY <1>1, <1>3, <1>6, <2>1, <4>1 DEF WireInv, InOrder
    <3> QED
      BY <1>2, <1>6, <3>1, <3>2 DEF InboxInv
  <2>4. WorkerInv(k)'
    BY <1>1, <1>2, <1>3, <1>6, <2>1 DEF WorkerInv
  <2>5. BoxInv(k, b)'
    <3> DEFINE d == Delivered(m, b)
    <3>1. d' = d
      BY <1>4, <1>6
    <3>2. /\ InOrder(d)
          /\ \A i \in 1..Len(d) :
               /\ Genuine(sent, m, d[i]) /\ d[i].box = b
               /\ worker[m].at = "put" => Before(d[i], worker[m].mail)
               /\ \A j \in 1..Len(s) : Before(d[i], s[j])
      BY <1>3, <1>6 DEF BoxInv
    <3>3. BoxInv(k, b)' <=>
            /\ InOrder(d')
            /\ \A i \in 1..Len(d') :
                 /\ Genuine(sent', m, d'[i]) /\ d'[i].box = b
                 /\ worker'[m].at = "put" => Before(d'[i], worker'[m].mail)
                 /\ inbox'[m] # NULL => Before(d'[i], inbox'[m])
                 /\ \A j \in 1..Len(socket'[m]) : Before(d'[i], socket'[m][j])
      BY <1>6 DEF BoxInv, InOrder, Before, Genuine
    <3> HIDE DEF d, s
    <3> QED
      BY <1>1, <1>2, <2>1, <3>1, <3>2, <3>3
  <2> QED
    BY <2>2, <2>3, <2>4, <2>5
<1> QED
  BY <1>5, <1>6

(* Network::Receive moves the packet from the buffer to the postal worker. *)
LEMMA OrderReceive ==
    ASSUME PostInv, OrderInv, NEW m \in Machines, WorkerReceive(m)
    PROVE  OrderInv'
<1>1. /\ inbox[m] # NULL /\ inbox'[m] = NULL
      /\ worker'[m].at = "put" /\ worker'[m].mail = inbox[m]
      /\ \A k \in Machines \ {m} : inbox'[k] = inbox[k] /\ worker'[k] = worker[k]
      /\ UNCHANGED <<socket, boxes, taken, sent>>
  <2>1. inbox[m] # NULL
    BY WorkerReceiveStep, PostOfficeAssumption
  <2>2. /\ worker' = [worker EXCEPT ![m] = [at |-> "put", mail |-> inbox[m]]]
        /\ inbox' = [inbox EXCEPT ![m] = NULL]
        /\ UNCHANGED <<socket, boxes, taken, sent>>
    BY DEF WorkerReceive
  <2>3. worker'[m] = [at |-> "put", mail |-> inbox[m]] /\ inbox'[m] = NULL
    BY <2>2 DEF PostInv, PostTypes
  <2>4. \A k \in Machines \ {m} : inbox'[k] = inbox[k] /\ worker'[k] = worker[k]
    BY <2>2 DEF PostInv, PostTypes
  <2> QED
    BY <2>1, <2>2, <2>3, <2>4
<1> SUFFICES ASSUME NEW k \in Machines, NEW b \in Boxes
             PROVE  WireInv(k)' /\ InboxInv(k)' /\ WorkerInv(k)' /\ BoxInv(k, b)'
  BY PostOfficeAssumption DEF OrderInv
<1>2. WireInv(k) /\ InboxInv(k) /\ WorkerInv(k) /\ BoxInv(k, b)
  BY DEF OrderInv
<1>3. Delivered(k, b)' = Delivered(k, b)
  BY <1>1 DEF Delivered
<1>4. WireInv(k)' /\ InboxInv(k)' /\ WorkerInv(k)'
  BY <1>1, <1>2 DEF WireInv, InboxInv, WorkerInv, InOrder
<1>5. BoxInv(k, b)'
  BY <1>1, <1>2, <1>3 DEF BoxInv, InOrder
<1> QED
  BY <1>4, <1>5

(* MailBox::Put ends the delivery of the worker's packet. *)
LEMMA OrderPut ==
    ASSUME PostInv, OrderInv, NEW m \in Machines, WorkerPut(m)
    PROVE  OrderInv'
<1> DEFINE x == worker[m].mail
<1>1. /\ x \in Mail /\ x.box \in Boxes /\ worker[m].at = "put" /\ worker'[m].at = "wait"
      /\ boxes' = [boxes EXCEPT ![m][x.box] = Append(@, x)]
      /\ \A k \in Machines \ {m} : worker'[k] = worker[k]
      /\ UNCHANGED <<socket, inbox, taken, sent>>
  <2>1. x \in Mail /\ x.box \in Boxes
    BY WorkerPutStep
  <2>2. /\ worker' = [worker EXCEPT ![m] = [at |-> "wait", mail |-> NULL]]
        /\ worker[m].at = "put" /\ boxes' = [boxes EXCEPT ![m][x.box] = Append(@, x)]
        /\ UNCHANGED <<socket, inbox, taken, sent>>
    BY DEF WorkerPut, network
  <2>3. worker'[m].at = "wait" /\ \A k \in Machines \ {m} : worker'[k] = worker[k]
    BY <2>2 DEF PostInv, PostTypes
  <2> QED
    BY <2>1, <2>2, <2>3
<1>2. Genuine(sent, m, x)
  BY <1>1 DEF OrderInv, WorkerInv
<1> SUFFICES ASSUME NEW k \in Machines, NEW b \in Boxes
             PROVE  WireInv(k)' /\ InboxInv(k)' /\ WorkerInv(k)' /\ BoxInv(k, b)'
  BY PostOfficeAssumption DEF OrderInv
<1>3. WireInv(k) /\ InboxInv(k) /\ WorkerInv(k) /\ BoxInv(k, b)
  BY DEF OrderInv
<1>4. WireInv(k)' /\ InboxInv(k)' /\ WorkerInv(k)'
  BY <1>1, <1>3 DEF WireInv, InboxInv, WorkerInv, InOrder
<1>5. CASE k # m \/ b # x.box
  <2>1. Delivered(k, b)' = Delivered(k, b)
    BY <1>1, <1>5 DEF Delivered, PostInv, PostTypes
  <2>2. BoxInv(k, b)'
    BY <1>1, <1>3, <2>1 DEF BoxInv, InOrder
  <2> QED
    BY <1>4, <2>2
<1>6. CASE k = m /\ b = x.box
  <2> DEFINE d == Delivered(m, b)
  <2>1. Len(d) \in Nat /\ d \in Seq(Mail)
    BY <1>6, DeliveredType DEF PostInv
  <2>2. d' = Append(d, x)
    <3>1. boxes'[m][b] = Append(boxes[m][b], x) /\ taken'[m][b] = taken[m][b]
      BY <1>1, <1>6 DEF PostInv, PostTypes
    <3> DEFINE u == boxes[m][b]
               v == taken[m][b]
    <3>2. u \in Seq(Mail) /\ v \in Seq(Mail) /\ x \in Mail
      BY <1>1 DEF PostInv, PostTypes
    <3> HIDE DEF u, v, x
    <3>3. v \o Append(u, x) = Append(v \o u, x)
      BY <3>2, PutAppends
    <3> QED
      BY <3>1, <3>3 DEF Delivered, u, v
  <2>3. /\ InOrder(d)
        /\ \A i \in 1..Len(d) :
             /\ Genuine(sent, m, d[i]) /\ d[i].box = b /\ Before(d[i], x)
             /\ inbox[m] # NULL => Before(d[i], inbox[m])
             /\ \A j \in 1..Len(socket[m]) : Before(d[i], socket[m][j])
    BY <1>1, <1>3, <1>6 DEF BoxInv
  <2>4. /\ inbox[m] # NULL => Before(x, inbox[m])
        /\ \A j \in 1..Len(socket[m]) : Before(x, socket[m][j])
    BY <1>1, <1>3, <1>6 DEF WorkerInv
  <2>5. BoxInv(k, b)' <=>
          /\ InOrder(d')
          /\ \A i \in 1..Len(d') :
               /\ Genuine(sent', m, d'[i]) /\ d'[i].box = b
               /\ worker'[m].at = "put" => Before(d'[i], worker'[m].mail)
               /\ inbox'[m] # NULL => Before(d'[i], inbox'[m])
               /\ \A j \in 1..Len(socket'[m]) : Before(d'[i], socket'[m][j])
    BY <1>6 DEF BoxInv, InOrder, Before, Genuine
  <2> HIDE DEF d, x
  <2>6. /\ Len(d') = Len(d) + 1 /\ d'[Len(d) + 1] = x
        /\ \A i \in 1..Len(d) : d'[i] = d[i]
    BY <1>1, <2>1, <2>2, AppendProperties
  <2>7. InOrder(d')
    <3> SUFFICES ASSUME NEW i \in 1..Len(d'), NEW j \in 1..Len(d'), i < j
                 PROVE  Before(d'[i], d'[j])
      BY DEF InOrder
    <3>1. i \in 1..Len(d)
      BY <2>1, <2>6
    <3>2. CASE j \in 1..Len(d)
      BY <2>3, <2>6, <3>1, <3>2 DEF InOrder
    <3>3. CASE j = Len(d) + 1
      BY <2>3, <2>6, <3>1, <3>3
    <3> QED
      BY <2>1, <2>6, <3>2, <3>3
  <2>8. \A i \in 1..Len(d') : i \in 1..Len(d) \/ i = Len(d) + 1
    BY <2>1, <2>6
  <2>9. BoxInv(k, b)'
    BY <1>1, <1>2, <1>6, <2>3, <2>4, <2>5, <2>6, <2>7, <2>8
  <2> QED
    BY <1>4, <2>9
<1> QED
  BY <1>4, <1>5, <1>6

(* The receivers take mail from its box. *)
LEMMA OrderTake ==
    ASSUME PostInv, OrderInv, NEW m \in Machines, NEW b \in Boxes, TakeFrom(m, b),
           UNCHANGED <<socket, inbox, worker, sent>>
    PROVE  OrderInv'
<1>1. ASSUME NEW k \in Machines, NEW c \in Boxes PROVE Delivered(k, c)' = Delivered(k, c)
  <2>1. CASE k = m /\ c = b
    <3>1. boxes[m][b] # <<>> /\ boxes[m][b] \in Seq(Mail) /\ taken[m][b] \in Seq(Mail)
      BY DEF TakeFrom, PostInv, PostTypes
    <3>2. taken'[m][b] = Append(taken[m][b], Head(boxes[m][b])) /\ boxes'[m][b] = Tail(boxes[m][b])
      BY DEF TakeFrom, PostInv, PostTypes
    <3>3. Append(taken[m][b], Head(boxes[m][b])) \o Tail(boxes[m][b]) = taken[m][b] \o boxes[m][b]
      BY <3>1, TakeKeeps
    <3> QED
      BY <2>1, <3>2, <3>3 DEF Delivered
  <2>2. CASE k # m \/ c # b
    BY <2>2 DEF Delivered, TakeFrom, PostInv, PostTypes
  <2> QED
    BY <2>1, <2>2
<1> QED
  BY <1>1, OrderUnmoved DEF PostInv

LEMMA OrderStep == PostInv /\ OrderInv /\ [Next]_pvars => OrderInv'
<1> SUFFICES ASSUME PostInv, OrderInv, [Next]_pvars PROVE OrderInv'
  OBVIOUS
<1>1. ASSUME UNCHANGED <<socket, inbox, sent, boxes, taken>>,
             \A k \in Machines : worker'[k] = worker[k] \/ worker'[k].at # "put"
      PROVE  OrderInv'
  BY <1>1, OrderUnmoved DEF PostInv, Delivered
<1>2. ASSUME UNCHANGED pvars PROVE OrderInv'
  BY <1>1, <1>2 DEF pvars, network, office
<1>3. ASSUME NEW m \in Machines, NEW t \in Threads, NEW to \in Machines, NEW b \in ClientBoxes,
             Send(m, t, to, b)
      PROVE  OrderInv'
  BY <1>1, <1>3 DEF Send, network, office
<1>4. ASSUME NEW m \in Machines, NEW t \in Threads, Acquire(m, t) \/ PSent(m, t) \/ Release(m, t)
      PROVE  OrderInv'
  BY <1>1, <1>4 DEF Acquire, PSent, Release, network
<1>5. ASSUME NEW m \in Machines, SendDone(m) PROVE OrderInv'
  BY <1>1, <1>5 DEF SendDone
<1>6. ASSUME NEW m \in Machines, WorkerP(m) PROVE OrderInv'
  <2>1. \A k \in Machines : worker'[k] = worker[k] \/ worker'[k].at # "put"
    BY <1>6 DEF WorkerP, PostInv, PostTypes
  <2> QED
    BY <1>1, <1>6, <2>1 DEF WorkerP, network
<1>7. ASSUME NEW m \in Machines, NEW far \in Machines, Hello(m, far) PROVE OrderInv'
  BY <1>1, <1>7 DEF Hello, network, office
<1>8. ASSUME NEW m \in Machines, Acknowledge(m) \/ Powerdown(m) PROVE OrderInv'
  BY <1>8, OrderTake, PostOfficeAssumption DEF Acknowledge, Powerdown, network
<1>9. ASSUME NEW m \in Machines, NEW b \in Boxes, Receive(m, b) PROVE OrderInv'
  BY <1>9, OrderTake, ReceiveStep DEF Receive, network
<1> QED
  BY <1>2, <1>3, <1>4, <1>5, <1>6, <1>7, <1>8, <1>9, OrderSend, OrderPoll, OrderReceive, OrderPut
     DEF Next, Sending, Worker, MailTest, PollAgain, Exited

(* network.cc, post.cc, "in order but unreliably": on any number of        *)
(* machines, whatever is lost, what comes into a mailbox from one sender   *)
(* was sent there, comes in the order in which it was sent, and only once. *)
THEOREM MailComesInOrder == Spec => []MailInOrder
<1>1. PostInv /\ OrderInv => MailInOrder
  <2> SUFFICES ASSUME PostInv, OrderInv, NEW m \in Machines, NEW b \in Boxes
               PROVE  LET d == Delivered(m, b) IN
                      \A i \in DOMAIN d :
                        /\ d[i].to = m /\ d[i].box = b /\ d[i] = sent[d[i].from][d[i].id]
                        /\ \A j \in DOMAIN d :
                             i < j /\ d[i].from = d[j].from => d[i].id < d[j].id
    BY DEF MailInOrder
  <2>1. DOMAIN Delivered(m, b) = 1..Len(Delivered(m, b))
    BY DeliveredType, LenProperties DEF PostInv
  <2>2. BoxInv(m, b)
    BY DEF OrderInv
  <2> QED
    BY <2>1, <2>2 DEF BoxInv, InOrder, Before, Genuine
<1> QED
  BY <1>1, InitPost, PostStep, InitOrder, OrderStep, PTL DEF Spec

(***************************************************************************)
(* MailTest.                                                               *)
(***************************************************************************)

(* By the history h of mail received, f has read a first message of m. *)
Heard(h, f, m) == \E i \in 1..Len(h[f][0]) : h[f][0][i].from = m

(* What machine m sends is a first message, or goes to one it has heard. *)
Polite(h, m, l) == l.box = 0 \/ Heard(h, m, l.to)

TestInv(m) ==
    /\ test[m] # "none"
    /\ \A t \in Threads : pc[m][t] \in {"acquire", "send"} => Polite(taken, m, letter[m][t])
    /\ \A i \in 1..Len(sent[m]) : Polite(taken, m, sent[m][i])
    /\ test[m] = "down" => \E far \in Machines : Heard(taken, far, m)

TestingInv == (\A m \in Machines : test[m] = "none") \/ (\A m \in Machines : TestInv(m))

LEMMA InitTesting == Init => TestingInv
<1> SUFFICES ASSUME Init PROVE TestingInv
  OBVIOUS
<1>1. CASE test = [m \in Machines |-> "start"]
  <2>1. Len(<<>>) = 0
    BY EmptySeq
  <2> QED
    BY <1>1, <2>1 DEF Init, TestingInv, TestInv
<1> QED
  BY <1>1 DEF Init, TestingInv

(* What was received stays received. *)
LEMMA TakeHeard ==
    ASSUME PostInv, NEW m \in Machines, NEW b \in Boxes, TakeFrom(m, b)
    PROVE  /\ \A f, k \in Machines : Heard(taken, f, k) => Heard(taken', f, k)
           /\ b = 0 => Heard(taken', m, Head(boxes[m][0]).from)
<1> DEFINE x == Head(boxes[m][b])
<1>1. /\ taken[m][b] \in Seq(Mail) /\ x \in Mail /\ taken'[m][b] = Append(taken[m][b], x)
      /\ \A k \in Machines, c \in Boxes : k # m \/ c # b => taken'[k][c] = taken[k][c]
  BY TakeTypes DEF PostInv, PostTypes, TakeFrom
<1> HIDE DEF x
<1>2. /\ Len(taken[m][b]) \in Nat /\ Len(taken'[m][b]) = Len(taken[m][b]) + 1
      /\ \A i \in 1..Len(taken[m][b]) : taken'[m][b][i] = taken[m][b][i]
      /\ taken'[m][b][Len(taken[m][b]) + 1] = x
  BY <1>1, AppendProperties
<1>3. ASSUME NEW f \in Machines, NEW k \in Machines, Heard(taken, f, k) PROVE Heard(taken', f, k)
  <2>1. CASE f = m /\ b = 0
    BY <1>2, <1>3, <2>1 DEF Heard
  <2>2. CASE f # m \/ b # 0
    <3>1. taken'[f][0] = taken[f][0]
      BY <1>1, <2>2, PostOfficeAssumption
    <3> QED
      BY <1>3, <3>1 DEF Heard
  <2> QED
    BY <2>1, <2>2
<1>4. ASSUME b = 0 PROVE Heard(taken', m, x.from)
  <2>1. Len(taken[m][0]) + 1 \in 1..Len(taken'[m][0])
    BY <1>2, <1>4
  <2> QED
    BY <1>2, <1>4, <2>1 DEF Heard
<1> QED
  BY <1>3, <1>4 DEF x

(* Steps that send nothing new. *)
LEMMA TestingKept ==
    ASSUME PostInv, \A m \in Machines : TestInv(m),
           \A f, k \in Machines : Heard(taken, f, k) => Heard(taken', f, k),
           UNCHANGED sent, NEW m \in Machines,
           \/ test'[m] = test[m]
           \/ /\ test'[m] # "none"
              /\ test'[m] = "down" => \E far \in Machines : Heard(taken', far, m),
           \A t \in Threads :
              pc'[m][t] \in {"acquire", "send"}
              => \/ Polite(taken', m, letter'[m][t])
                 \/ pc[m][t] \in {"acquire", "send"} /\ letter'[m][t] = letter[m][t]
    PROVE  TestInv(m)'
<1>1. TestInv(m)
  OBVIOUS
<1>2. ASSUME NEW l \in Letters \cup Mail, Polite(taken, m, l) PROVE Polite(taken', m, l)
  <2>1. l.to \in Machines
    BY DEF Letters, Mail
  <2> QED
    BY <1>2, <2>1 DEF Polite
<1>3. \A t \in Threads : pc'[m][t] \in {"acquire", "send"} => Polite(taken', m, letter'[m][t])
  BY <1>1, <1>2 DEF TestInv, PostInv, SendInv
<1>4. \A i \in 1..Len(sent[m]) : sent[m][i] \in Mail
  BY DEF PostInv, PostTypes
<1>5. \A i \in 1..Len(sent'[m]) : Polite(taken', m, sent'[m][i])
  BY <1>1, <1>2, <1>4 DEF TestInv
<1>6. test'[m] # "none" /\ (test'[m] = "down" => \E far \in Machines : Heard(taken', far, m))
  BY <1>1 DEF TestInv
<1> QED
  BY <1>3, <1>5, <1>6 DEF TestInv

LEMMA TestingSend ==
    ASSUME PostInv, \A k \in Machines : TestInv(k), NEW m \in Machines, NEW t \in Threads,
           NEW roll \in Rolls, NetworkSend(m, t, roll)
    PROVE  \A k \in Machines : TestInv(k)'
<1> SUFFICES ASSUME NEW k \in Machines PROVE TestInv(k)'
  OBVIOUS
<1> DEFINE q == Packet(m, t)
<1>1. q.box = letter[m][t].box /\ q.to = letter[m][t].to /\ q \in Mail
  <2>1. letter[m][t] \in Letters
    BY DEF PostInv, SendInv, NetworkSend
  <2> QED
    BY <2>1, PacketIsMail DEF Packet, PostInv
<1>2. sent' = [sent EXCEPT ![m] = Append(@, q)] /\ pc[m][t] = "send"
  BY DEF NetworkSend
<1> HIDE DEF q
<1>8. Polite(taken, m, q)
  BY <1>1, <1>2 DEF TestInv, Polite
<1>3. sent[m] \in Seq(Mail) /\ Len(sent[m]) \in Nat /\ sent'[m] = Append(sent[m], q)
  BY <1>2 DEF PostInv, PostTypes
<1>4. /\ Len(sent'[m]) = Len(sent[m]) + 1 /\ sent'[m][Len(sent[m]) + 1] = q
      /\ \A i \in 1..Len(sent[m]) : sent'[m][i] = sent[m][i]
  BY <1>1, <1>3, AppendProperties
<1>5. \A i \in 1..Len(sent'[m]) : Polite(taken, m, sent'[m][i])
  <2>1. ASSUME NEW i \in 1..Len(sent'[m]) PROVE i \in 1..Len(sent[m]) \/ i = Len(sent[m]) + 1
    BY <1>3, <1>4
  <2> QED
    BY <1>3, <1>4, <1>8, <2>1 DEF TestInv
<1>6. /\ UNCHANGED <<taken, test>> /\ (k # m => sent'[k] = sent[k])
      /\ \A u \in Threads :
           pc'[k][u] \in {"acquire", "send"}
           => pc[k][u] \in {"acquire", "send"} /\ letter'[k][u] = letter[k][u]
  BY DEF PostInv, PostTypes, NetworkSend, Goto, office
<1>7. TestInv(k)
  OBVIOUS
<1> QED
  BY <1>5, <1>6, <1>7 DEF TestInv

LEMMA TestingStep == PostInv /\ OrderInv /\ TestingInv /\ [Next]_pvars => TestingInv'
<1> SUFFICES ASSUME PostInv, OrderInv, TestingInv, [Next]_pvars PROVE TestingInv'
  OBVIOUS
<1>1. CASE \A m \in Machines : test[m] = "none"
  <2>1. ASSUME NEW m \in Machines PROVE ~MailTest(m)
    BY <1>1 DEF MailTest, Hello, Acknowledge, Powerdown
  <2>2. ASSUME NEW m \in Machines, NEW t \in Threads, Sending(m, t) PROVE test' = test
    BY <2>2 DEF Sending, Acquire, PSent, Release, NetworkSend
  <2>3. ASSUME NEW m \in Machines, Worker(m) \/ SendDone(m) \/ CheckPktAvail(m)
        PROVE  test' = test
    BY <2>3 DEF Worker, WorkerP, WorkerReceive, WorkerPut, SendDone, CheckPktAvail
  <2>4. UNCHANGED pvars => test' = test
    BY DEF pvars
  <2>5. test' = test
    BY <2>1, <2>2, <2>3, <2>4 DEF Next, Send, Receive, PollAgain, Exited
  <2> QED
    BY <1>1, <2>5 DEF TestingInv
<1>2. CASE \A m \in Machines : TestInv(m)
  <2> USE <1>2
  <2> SUFFICES \A m \in Machines : TestInv(m)'
    BY DEF TestingInv
  <2> DEFINE SameLetters(m) ==
        \A t \in Threads : pc'[m][t] \in {"acquire", "send"}
           => pc[m][t] \in {"acquire", "send"} /\ letter'[m][t] = letter[m][t]
  <2>1. ASSUME UNCHANGED <<taken, sent, test>>, \A m \in Machines : SameLetters(m)
        PROVE  \A m \in Machines : TestInv(m)'
    BY <2>1 DEF TestInv
  <2>2. ASSUME NEW m \in Machines, NEW b \in Boxes, TakeFrom(m, b), UNCHANGED sent,
               \A k \in Machines \ {m} : test'[k] = test[k] /\ SameLetters(k), TestInv(m)'
        PROVE  \A k \in Machines : TestInv(k)'
    BY <2>2, TakeHeard, TestingKept
  <2>3. ASSUME UNCHANGED pvars PROVE \A m \in Machines : TestInv(m)'
    BY <2>1, <2>3 DEF pvars, network, office
  <2>4. ASSUME NEW m \in Machines, NEW t \in Threads, Acquire(m, t) \/ PSent(m, t) \/ Release(m, t)
        PROVE  \A k \in Machines : TestInv(k)'
    <3>1. \A k \in Machines : SameLetters(k)
      <4>1. /\ letter' = letter
            /\ \/ pc[m][t] = "acquire" /\ pc' = [pc EXCEPT ![m][t] = "send"]
               \/ pc' = [pc EXCEPT ![m][t] = "release"]
               \/ pc' = [pc EXCEPT ![m][t] = "idle"]
        BY <2>4 DEF Acquire, PSent, Release, Goto
      <4>2. ASSUME NEW k \in Machines, NEW u \in Threads
            PROVE  \/ pc'[k][u] = pc[k][u]
                   \/ pc'[k][u] \in {"release", "idle"}
                   \/ pc[k][u] = "acquire"
        <5>1. pc[k] \in [Threads -> {"idle", "acquire", "send", "wait", "release"}]
          BY DEF PostInv, PostTypes
        <5>2. ASSUME NEW place, pc' = [pc EXCEPT ![m][t] = place]
              PROVE  pc'[k][u] = IF k = m /\ u = t THEN place ELSE pc[k][u]
          BY <5>1, <5>2 DEF PostInv, PostTypes
        <5> QED
          BY <4>1, <5>2
      <4> QED
        BY <4>1, <4>2
    <3> QED
      BY <2>1, <2>4, <3>1 DEF Acquire, PSent, Release
  <2>5. ASSUME NEW m \in Machines, SendDone(m) \/ CheckPktAvail(m) \/ Worker(m)
        PROVE  \A k \in Machines : TestInv(k)'
    BY <2>1, <2>5 DEF SendDone, CheckPktAvail, Worker, WorkerP, WorkerReceive, WorkerPut
  <2>6. ASSUME NEW m \in Machines, NEW far \in Machines, Hello(m, far)
        PROVE  \A k \in Machines : TestInv(k)'
    <3>1. /\ \A k \in Machines \ {m} : SameLetters(k) /\ test'[k] = test[k]
          /\ \A t \in Threads \ {Main} : pc'[m][t] = pc[m][t] /\ letter'[m][t] = letter[m][t]
          /\ letter'[m][Main] = [to |-> far, box |-> 0, reply |-> 1] /\ test'[m] = "hello"
          /\ UNCHANGED <<taken, sent>>
      BY <2>6, PostOfficeAssumption DEF Hello, CallSend, Goto, PostInv, PostTypes
    <3>2. Polite(taken', m, letter'[m][Main])
      BY <3>1 DEF Polite
    <3>3. TestInv(m)'
      BY <3>1, <3>2, TestingKept
    <3> QED
      BY <3>1, <3>3 DEF TestInv
  <2>7. ASSUME NEW m \in Machines, Acknowledge(m) PROVE \A k \in Machines : TestInv(k)'
    <3>1. /\ \A k \in Machines \ {m} : SameLetters(k) /\ test'[k] = test[k]
          /\ \A t \in Threads \ {Main} : pc'[m][t] = pc[m][t] /\ letter'[m][t] = letter[m][t]
          /\ letter'[m][Main].to = Head(boxes[m][0]).from /\ test'[m] = "acknowledge"
          /\ TakeFrom(m, 0) /\ 0 \in Boxes /\ UNCHANGED sent
      BY <2>7, PostOfficeAssumption DEF Acknowledge, CallSend, Goto, PostInv, PostTypes
    <3>2. Polite(taken', m, letter'[m][Main])
      BY <3>1, TakeHeard DEF Polite
    <3>3. TestInv(m)'
      BY <3>1, <3>2, TakeHeard, TestingKept
    <3> QED
      BY <2>2, <3>1, <3>3
  <2>8. ASSUME NEW m \in Machines, Powerdown(m) PROVE \A k \in Machines : TestInv(k)'
    <3>1. /\ \A k \in Machines \ {m} : test'[k] = test[k]
          /\ \A k \in Machines : SameLetters(k)
          /\ test'[m] = "down" /\ TakeFrom(m, 1) /\ 1 \in Boxes /\ UNCHANGED sent
      BY <2>8, PostOfficeAssumption DEF Powerdown, PostInv, PostTypes
    <3> DEFINE x == Head(boxes[m][1])
    <3>2. x \in Mail /\ x.from \in Machines /\ Genuine(sent, m, x) /\ x.box = 1
      <4>1. /\ boxes[m][1] \in Seq(Mail) /\ taken[m][1] \in Seq(Mail) /\ boxes[m][1] # <<>>
            /\ x \in Mail
        BY <3>1, TakeTypes DEF PostInv, PostTypes
      <4> DEFINE n == Len(taken[m][1])
                 u == taken[m][1]
                 v == boxes[m][1]
      <4>2. n \in Nat /\ Len(v) \in Nat /\ Len(v) >= 1 /\ v[1] = x
        BY <4>1, EmptySeq
      <4>3. Len(u \o v) = n + Len(v) /\ (u \o v)[n + 1] = v[1]
        <5>1. u \in Seq(Mail) /\ v \in Seq(Mail) /\ n = Len(u) /\ n \in Nat
          BY <4>1, <4>2
        <5> HIDE DEF u, v, n
        <5>2. n + 1 \in 1..Len(u) + Len(v) /\ ~(n + 1 <= Len(u)) /\ n + 1 - Len(u) = 1
          BY <4>2, <5>1
        <5> QED
          BY <5>1, <5>2, ConcatProperties
      <4>4. Delivered(m, 1) = u \o v
        BY DEF Delivered
      <4> HIDE DEF n, u, v, x
      <4>5. n + 1 \in 1..Len(Delivered(m, 1)) /\ Delivered(m, 1)[n + 1] = x
        BY <4>2, <4>3, <4>4
      <4>6. BoxInv(m, 1)
        BY <3>1 DEF OrderInv
      <4>7. Genuine(sent, m, x) /\ x.box = 1
        BY <4>5, <4>6 DEF BoxInv
      <4> QED
        BY <4>1, <4>7 DEF Mail
    <3> HIDE DEF x
    <3>3. Polite(taken, x.from, x)
      BY <3>2 DEF TestInv, Genuine
    <3>4. Heard(taken, x.from, m)
      BY <3>2, <3>3 DEF Polite, Genuine
    <3>5. Heard(taken', x.from, m)
      BY <3>1, <3>2, <3>4, TakeHeard
    <3>6. TestInv(m)'
      BY <3>1, <3>2, <3>5, TakeHeard, TestingKept
    <3> QED
      BY <2>2, <3>1, <3>6
  <2>9. ASSUME NEW m \in Machines, NEW t \in Threads, NEW to \in Machines, NEW b \in ClientBoxes,
               Send(m, t, to, b)
        PROVE  FALSE
    BY <2>9 DEF Send, TestInv
  <2>10. ASSUME NEW m \in Machines, NEW b \in Boxes, Receive(m, b) PROVE FALSE
    BY <2>10 DEF Receive, TestInv
  <2> QED
    BY <2>3, <2>4, <2>5, <2>6, <2>7, <2>8, <2>9, <2>10, TestingSend
       DEF Next, Sending, MailTest, PollAgain, Exited
<1> QED
  BY <1>1, <1>2 DEF TestingInv

(* nettest.cc: with any number of machines, one powers down only when      *)
(* another has received its first message, whatever the network drops.     *)
THEOREM NoneDownUnheard == Spec => []DownIsHeard
<1>1. PostInv /\ TestingInv => DownIsHeard
  <2> SUFFICES ASSUME PostInv, TestingInv, NEW m \in Machines, test[m] = "down"
               PROVE  \E far \in Machines : \E p \in Range(taken[far][0]) : p.from = m
    BY DEF DownIsHeard
  <2>1. PICK far \in Machines : Heard(taken, far, m)
    BY DEF TestingInv, TestInv
  <2>2. taken[far][0] \in Seq(Mail)
    BY PostOfficeAssumption DEF PostInv, PostTypes
  <2>3. DOMAIN taken[far][0] = 1..Len(taken[far][0])
    BY <2>2, LenProperties
  <2> QED
    BY <2>1, <2>3 DEF Heard, Range
<1> QED
  BY <1>1, InitPost, PostStep, InitOrder, OrderStep, InitTesting, TestingStep, PTL DEF Spec

=============================================================================
