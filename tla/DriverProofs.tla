---------------------------- MODULE DriverProofs ----------------------------
(***************************************************************************)
(* Proofs about the two users of an asynchronous device: Console, with its *)
(* test, for any keys and any number of them, and SynchDisk, for any       *)
(* number of threads and sectors.                                          *)
(***************************************************************************)
EXTENDS Console, SynchDisk, SequenceTheorems, TLAPS

(* HandshakeInv is not inductive: that TX never finds the device busy      *)
(* needs that a write is in progress only while ConsoleTest waits for it,  *)
(* and the end of the polling needs where the destructor stands.  A poll   *)
(* that waits for a second byte holds everybody up, so what it has found   *)
(* still holds when that byte comes.                                       *)
ConsoleInv ==
    /\ HandshakeInv
    /\ putBusy => pc = "writeP"
    /\ readFileNo = "open" <=> pc \in {"readP", "readTick", "writeP", "writeTick", "Down"}
    /\ pc \in {"drainWrite", "Done"} => readFileNo = "gone"
    /\ readFileNo = "gone" => ~readPoll
    /\ lead # NOCHAR => readFileNo = "open" /\ incoming = NOCHAR /\ utf8 /\ IsLatin1Lead(lead)

LEMMA DecodeType ==
    \A c, d \in 0..255 :
        IsLatin1Lead(c) /\ IsContinuation(d)
        => /\ Decode(c, d) \in 128..255
           /\ c \in 192..195 /\ d \in 128..191
           /\ c \in {194, 195} => Decode(c, d) = 64 * (c - 192) + (d - 128)
<1> SUFFICES ASSUME NEW c \in 0..255, NEW d \in 0..255, IsLatin1Lead(c), IsContinuation(d)
             PROVE  /\ Decode(c, d) \in 128..255
                    /\ c \in 192..195 /\ d \in 128..191
                    /\ c \in {194, 195} => Decode(c, d) = 64 * (c - 192) + (d - 128)
  BY DEF IsLatin1Lead, IsContinuation, Decode
<1>1. c \in 192..195
  BY DEF IsLatin1Lead
<1>2. d \in 128..191
  BY DEF IsContinuation
<1>3. d % 64 = d - 128
  BY <1>2
<1>4. c % 4 = c - 192
  BY <1>1
<1> QED
  BY <1>1, <1>2, <1>3, <1>4 DEF Decode

LEMMA ToCharType == \A n \in -42..255 : ToChar(n) \in -128..127
BY DEF ToChar

LEMMA InitConsole == Init => ConsoleInv
<1> SUFFICES ASSUME Init PROVE ConsoleInv
  OBVIOUS
<1>1. <<>> \in Seq(0..255)
  BY EmptySeq
<1>2. /\ putBusy \in BOOLEAN /\ writeInt \in BOOLEAN /\ readPoll \in BOOLEAN
      /\ ended \in BOOLEAN /\ invented \in BOOLEAN
      /\ ~putBusy /\ ~writeInt /\ readPoll /\ putBusy = writeInt
  BY Zenon DEF Init
<1>3. TypeOK
  BY <1>1, <1>2, ConsoleAssumption DEF Init, TypeOK, NOCHAR, EOF
<1> QED
  BY <1>2, <1>3 DEF Init, ConsoleInv, HandshakeInv, NOCHAR

(* The byte CheckCharAvail reads, and the rest. *)
LEMMA ByteRead ==
    ASSUME NEW S, NEW s \in Seq(S), s # <<>>
    PROVE  Head(s) \in S /\ Tail(s) \in Seq(S)
BY HeadTailProperties

(* TX leaves a part of what there is to display. *)
LEMMA RestIsBytes ==
    ASSUME NEW S, NEW s \in Seq(S), NEW n \in 0..Len(s)
    PROVE  SubSeq(s, n + 1, Len(s)) \in Seq(S)
<1>1. \A i \in 1..Len(s) : s[i] \in S
  OBVIOUS
<1> QED
  BY <1>1, SubSeqProperties

(* CheckCharAvail delivers a character to an empty buffer. *)
LEMMA DeliverStep ==
    ASSUME ConsoleInv, incoming = NOCHAR, NEW c \in {EOF} \cup 0..255,
           NEW bytes \in Seq(0..255), NEW rest \in Seq(0..255), Deliver(c, bytes, rest)
    PROVE  ConsoleInv'
<1>1. unechoed' \in Seq(0..255)
  BY ConcatProperties DEF ConsoleInv, HandshakeInv, TypeOK, Deliver
<1>2. TypeOK'
  BY <1>1 DEF ConsoleInv, HandshakeInv, TypeOK, Deliver, EOF, NOCHAR
<1>3. lead' = NOCHAR /\ NOCHAR' = NOCHAR
  BY DEF Deliver, NOCHAR
<1>4. incoming' # NOCHAR /\ readAvail = 0 /\ readAvail' = 1 /\ pc # "readTick"
  <2>1. incoming' = c /\ c # NOCHAR
    BY DEF Deliver, EOF, NOCHAR
  <2>2. readAvail \in Nat /\ readAvail + (IF pc = "readTick" THEN 1 ELSE 0) = 0
    BY DEF ConsoleInv, HandshakeInv, TypeOK
  <2>3. readAvail' = readAvail + 1
    BY DEF Deliver
  <2> QED
    BY <2>1, <2>2, <2>3
<1>5. UNCHANGED <<putBusy, writeInt, writeDone, pc>>
  BY DEF Deliver
<1>6. HandshakeInv'
  BY <1>2, <1>3, <1>4, <1>5 DEF ConsoleInv, HandshakeInv
<1> QED
  BY <1>3, <1>6 DEF ConsoleInv, Deliver

LEMMA ConsoleStep == ConsoleInv /\ [Next]_vars => ConsoleInv'
<1> SUFFICES ASSUME ConsoleInv, [Next]_vars PROVE ConsoleInv'
  OBVIOUS
<1> USE ConsoleAssumption
<1>1. ASSUME NEW k \in Keys, Type(k) PROVE ConsoleInv'
  <2>1. typed' \in Seq(0..255)
    BY <1>1, ConcatProperties DEF ConsoleInv, HandshakeInv, TypeOK, Type
  <2> QED
    BY <1>1, <2>1 DEF ConsoleInv, HandshakeInv, TypeOK, Type, device, program
<1>2. ASSUME CloseInput PROVE ConsoleInv'
  BY <1>2 DEF ConsoleInv, HandshakeInv, TypeOK, CloseInput, device, program
<1>3. ASSUME PollClosing PROVE ConsoleInv'
  BY <1>3 DEF ConsoleInv, HandshakeInv, TypeOK, PollClosing, program, host
<1>i. typed \in Seq(0..255) /\ <<>> \in Seq(0..255)
  BY EmptySeq DEF ConsoleInv, HandshakeInv, TypeOK
<1>4. ASSUME PollEOF PROVE ConsoleInv'
  BY <1>4, <1>i, DeliverStep DEF PollEOF, Polling
<1>5. ASSUME PollByte PROVE ConsoleInv'
  <2>1. Head(typed) \in 0..255 /\ Tail(typed) \in Seq(0..255)
    BY <1>5, <1>i, ByteRead DEF PollByte
  <2>2. <<Head(typed)>> \in Seq(0..255)
    BY <2>1
  <2> QED
    BY <1>5, <2>1, <2>2, DeliverStep DEF PollByte, Polling
<1>6. ASSUME PollLatin1 PROVE ConsoleInv'
  <2>1. Head(typed) \in 0..255 /\ Tail(typed) \in Seq(0..255)
    BY <1>6, <1>i, ByteRead DEF PollLatin1
  <2>2. IsLatin1Lead(lead)'
    BY <1>6 DEF PollLatin1, IsLatin1Lead
  <2> QED
    BY <1>6, <2>1, <2>2 DEF ConsoleInv, HandshakeInv, TypeOK, PollLatin1, Polling, program
<1>s. ASSUME SecondByte PROVE ConsoleInv'
  <2>1. lead \in 0..255 /\ incoming = NOCHAR /\ IsLatin1Lead(lead)
    BY <1>s DEF ConsoleInv, HandshakeInv, TypeOK, SecondByte
  <2>2. CASE /\ typed # <<>> /\ IsContinuation(Head(typed))
             /\ Deliver(Decode(lead, Head(typed)), <<lead, Head(typed)>>, Tail(typed))
    <3> DEFINE d == Head(typed)
    <3>1. d \in 0..255 /\ Tail(typed) \in Seq(0..255)
      BY <1>i, <2>2, ByteRead
    <3>2. IsContinuation(d) /\ Deliver(Decode(lead, d), <<lead, d>>, Tail(typed))
      BY <2>2
    <3> HIDE DEF d
    <3>3. Decode(lead, d) \in 128..255
      BY <2>1, <3>1, <3>2, DecodeType DEF IsLatin1Lead, IsContinuation, Decode
    <3>4. <<lead, d>> \in Seq(0..255) /\ Decode(lead, d) \in {EOF} \cup 0..255
      BY <2>1, <3>1, <3>3
    <3> QED
      BY <2>1, <3>1, <3>2, <3>4, DeliverStep
  <2>3. CASE Deliver(EOF, <<>>, typed)
    BY <1>i, <2>1, <2>3, DeliverStep
  <2> QED
    BY <1>s, <2>2, <2>3 DEF SecondByte
<1>7. ASSUME PollDrop PROVE ConsoleInv'
  <2>1. typed' \in Seq(0..255)
    BY <1>7, <1>i, ByteRead DEF PollDrop
  <2>2. lead' = NOCHAR /\ NOCHAR' = NOCHAR /\ ~readPoll'
    BY <1>7, Zenon DEF PollDrop, NOCHAR
  <2>3. HandshakeInv'
    <3>1. UNCHANGED <<incoming, putBusy, writeInt, program>>
      BY <1>7 DEF PollDrop
    <3>2. readPoll' \in BOOLEAN
      BY <1>7, Zenon DEF PollDrop
    <3>3. TypeOK'
      BY <1>7, <2>1, <2>2, <3>1, <3>2 DEF ConsoleInv, HandshakeInv, TypeOK, PollDrop, program
    <3> QED
      BY <2>2, <3>1, <3>3 DEF ConsoleInv, HandshakeInv, program
  <2> QED
    BY <1>7, <2>2, <2>3 DEF ConsoleInv, PollDrop, program
<1>8. ASSUME WriteDone PROVE ConsoleInv'
  <2>1. putBusy /\ pc = "writeP" /\ writeDone = 0
    BY <1>8, Zenon DEF ConsoleInv, HandshakeInv, WriteDone
  <2>2. ~putBusy' /\ ~writeInt' /\ putBusy' = writeInt'
    BY <1>8, Zenon DEF WriteDone
  <2>3. putBusy' \in BOOLEAN /\ writeInt' \in BOOLEAN
    BY <1>8, Zenon DEF WriteDone
  <2>5. writeDone' = 1
    BY <1>8, <2>1 DEF WriteDone
  <2>4. TypeOK'
    BY <1>8, <2>3, <2>5 DEF ConsoleInv, HandshakeInv, TypeOK, WriteDone, host
  <2> QED
    BY <1>8, <2>1, <2>2, <2>4, <2>5 DEF ConsoleInv, HandshakeInv, TypeOK, WriteDone
<1>9. ASSUME lead = NOCHAR, PReadAvail PROVE ConsoleInv'
  BY <1>9 DEF ConsoleInv, HandshakeInv, TypeOK, PReadAvail, device, host
<1>10. ASSUME lead = NOCHAR, Echo PROVE ConsoleInv'
  <2>1. ch' \in -128..127
    <3>1. incoming \in -42..255
      BY DEF ConsoleInv, HandshakeInv, TypeOK, EOF, NOCHAR
    <3> QED
      BY <1>10, <3>1, ToCharType DEF Echo
  <2>2. unechoed' \in Seq(0..255) /\ invented' \in BOOLEAN
    <3>1. ASSUME IsPrefix(Encode(ch'), unechoed),
                 unechoed' = SubSeq(unechoed, Len(Encode(ch')) + 1, Len(unechoed))
          PROVE  unechoed' \in Seq(0..255)
      <4>1. Len(Encode(ch')) \in 0..Len(unechoed)
        BY <3>1 DEF ConsoleInv, HandshakeInv, TypeOK, Encode, IsPrefix
      <4> QED
        BY <3>1, <4>1, RestIsBytes DEF ConsoleInv, HandshakeInv, TypeOK
    <3> QED
      BY <1>10, <3>1 DEF ConsoleInv, HandshakeInv, TypeOK, Echo
  <2>3. TypeOK'
    BY <1>10, <2>1, <2>2 DEF ConsoleInv, HandshakeInv, TypeOK, Echo, host
  <2> QED
    BY <1>10, <2>3 DEF ConsoleInv, HandshakeInv, TypeOK, Echo
<1>11. ASSUME lead = NOCHAR, PWriteDone PROVE ConsoleInv'
  BY <1>11 DEF ConsoleInv, HandshakeInv, TypeOK, PWriteDone, device, host
<1>12. ASSUME lead = NOCHAR, TestQuit PROVE ConsoleInv'
  BY <1>12 DEF ConsoleInv, HandshakeInv, TypeOK, TestQuit, host
<1>13. ASSUME lead = NOCHAR, Drained PROVE ConsoleInv'
  BY <1>13 DEF ConsoleInv, HandshakeInv, TypeOK, Drained, device, host
<1>14. ASSUME lead = NOCHAR, Powerdown PROVE ConsoleInv'
  BY <1>14 DEF ConsoleInv, HandshakeInv, TypeOK, Powerdown, Waiting, device, host
<1>15. ASSUME UNCHANGED vars PROVE ConsoleInv'
  BY <1>15 DEF ConsoleInv, HandshakeInv, TypeOK, vars, device, program, host
<1> QED
  BY <1>1, <1>2, <1>3, <1>4, <1>5, <1>6, <1>7, <1>8, <1>9, <1>10, <1>11, <1>12, <1>13,
     <1>14, <1>15, <1>s DEF Next, ReadInterrupt, Program, Quiet

(* console.cc, progtest.cc: whatever is typed and whenever the interrupts  *)
(* come, the semaphores tell exactly what the device can do, so RX always  *)
(* finds a character and TX never a busy device.                           *)
THEOREM SemaphoresMatchDevice == Spec => []HandshakeInv
<1>1. ConsoleInv => HandshakeInv
  BY DEF ConsoleInv
<1> QED
  BY <1>1, InitConsole, ConsoleStep, PTL DEF Spec

(* Console::~Console: when the destructor has returned no interrupt is     *)
(* left that would call the deleted console.                               *)
THEOREM DeletedConsoleIsQuiet == Spec => []NoInterruptAfterDelete
<1>1. ConsoleInv => NoInterruptAfterDelete
  BY DEF ConsoleInv, HandshakeInv, TypeOK, NoInterruptAfterDelete
<1> QED
  BY <1>1, InitConsole, ConsoleStep, PTL DEF Spec

(***************************************************************************)
(* The echo.                                                               *)
(***************************************************************************)

(* The bytes 192 and 193 occur in no UTF-8 text; CheckCharAvail takes them *)
(* for the start of a character all the same, which TX would then write    *)
(* with another first byte.                                                *)
TextBytes == (0..255) \ {192, 193}

(* What is delivered and not displayed is the buffered character, in the   *)
(* bytes TX writes for it.                                                 *)
EchoInv ==
    /\ typed \in Seq(TextBytes)
    /\ incoming \in {NOCHAR, EOF} => unechoed = <<>>
    /\ incoming \in 0..255 => unechoed = Encode(incoming)
    /\ lead # NOCHAR => lead \in TextBytes

(* The signed char between RX and TX loses nothing. *)
LEMMA EncodeChar ==
    ASSUME NEW c \in 0..255
    PROVE  /\ Encode(ToChar(c)) = Encode(c)
           /\ Encode(c) \in Seq(0..255)
<1>1. (c + 128) % 256 = IF c < 128 THEN c + 128 ELSE c - 128
  OBVIOUS
<1>2. ToChar(c) = IF c < 128 THEN c ELSE c - 256
  BY <1>1 DEF ToChar
<1>3. Encode(ToChar(c)) = Encode(c)
  BY <1>2 DEF Encode
<1>4. c % 256 = c /\ 192 + (c \div 64) \in 0..255 /\ 128 + (c % 64) \in 0..255
  OBVIOUS
<1>5. Encode(c) = IF c < 128 \/ ~utf8 THEN <<c>> ELSE <<192 + (c \div 64), 128 + (c % 64)>>
  BY <1>4 DEF Encode
<1>6. <<c>> \in Seq(0..255) /\ <<192 + (c \div 64), 128 + (c % 64)>> \in Seq(0..255)
  BY <1>4
<1>7. Encode(c) \in Seq(0..255)
  BY <1>5, <1>6
<1> QED
  BY <1>3, <1>7

LEMMA EchoPrefix ==
    ASSUME NEW S, NEW s \in Seq(S)
    PROVE  IsPrefix(s, s) /\ SubSeq(s, Len(s) + 1, Len(s)) = <<>>
<1>1. Len(s) \in Nat
  OBVIOUS
<1> QED
  BY <1>1, SubSeqEmpty DEF IsPrefix

(* RX and TX display the buffered character, unless it is the mark EOF.    *)
LEMMA EchoShows ==
    ASSUME ConsoleInv, EchoInv, Echo
    PROVE  /\ incoming \in {EOF} \cup 0..255
           /\ unechoed' = <<>>
           /\ incoming # EOF => invented' = invented
<1>1. incoming \in {EOF} \cup 0..255
  BY DEF ConsoleInv, HandshakeInv, TypeOK, Echo, NOCHAR
<1>2. CASE incoming \in 0..255
  <2>1. Encode(ch') = unechoed /\ unechoed \in Seq(0..255)
    BY <1>2, EncodeChar DEF Echo, EchoInv
  <2>2. IsPrefix(Encode(ch'), unechoed) /\ SubSeq(unechoed, Len(Encode(ch')) + 1, Len(unechoed)) = <<>>
    BY <2>1, EchoPrefix
  <2> QED
    BY <1>1, <2>2 DEF Echo
<1>3. CASE incoming = EOF
  <2>1. unechoed = <<>>
    BY <1>3 DEF EchoInv
  <2>2. Encode(ch') # <<>> => Len(Encode(ch')) >= 1
    BY DEF Encode
  <2>3. SubSeq(<<>>, Len(Encode(ch')) + 1, Len(<<>>)) = <<>>
    <3>1. Len(Encode(ch')) \in Nat
      BY DEF Encode
    <3> QED
      BY <3>1, SubSeqEmpty
  <2> QED
    BY <1>1, <1>3, <2>1, <2>3 DEF Echo
<1> QED
  BY <1>1, <1>2, <1>3

(* A byte, or the two bytes of a Latin-1 character, is what TX will write. *)
LEMMA DecodedBytes ==
    ASSUME NEW c \in TextBytes, NEW d \in TextBytes, IsLatin1Lead(c), IsContinuation(d), utf8
    PROVE  Encode(Decode(c, d)) = <<c, d>>
<1>1. c \in {194, 195} /\ d \in 128..191
  BY DecodeType DEF TextBytes, IsLatin1Lead, IsContinuation, Decode
<1> DEFINE n == 64 * (c - 192) + (d - 128)
<1>2. Decode(c, d) = n
  BY <1>1, DecodeType DEF TextBytes, IsLatin1Lead, IsContinuation, Decode
<1>3. n \in 128..255 /\ n \div 64 = c - 192 /\ n % 64 = d - 128
  BY <1>1
<1> HIDE DEF n
<1>4. Encode(n) = <<192 + (n \div 64), 128 + (n % 64)>>
  BY <1>3 DEF Encode
<1> QED
  BY <1>1, <1>2, <1>3, <1>4

(* Delivering a character whose bytes are those that TX will write. *)
LEMMA DeliverEcho ==
    ASSUME EchoInv, incoming = NOCHAR, NEW c \in {EOF} \cup 0..255, NEW bytes,
           NEW rest \in Seq(TextBytes), Deliver(c, bytes, rest),
           bytes = IF c = EOF THEN <<>> ELSE Encode(c)
    PROVE  EchoInv'
<1>1. typed' \in Seq(TextBytes) /\ lead' = NOCHAR
  BY DEF Deliver
<1>2. unechoed = <<>>
  BY DEF EchoInv
<1>3. c = EOF => unechoed' = <<>>
  BY <1>2, ConcatEmptySeq, EmptySeq DEF Deliver
<1>4. ASSUME c # EOF PROVE unechoed' = Encode(c)
  <2>1. c \in 0..255 /\ Encode(c) \in Seq(0..255)
    BY <1>4, EncodeChar
  <2>2. unechoed' = <<>> \o Encode(c)
    BY <1>2, <1>4 DEF Deliver
  <2> QED
    BY <2>1, <2>2, ConcatEmptySeq
<1>5. incoming' = c /\ utf8' = utf8
  BY DEF Deliver
<1>6. incoming' \in {NOCHAR, EOF} => c = EOF
  BY <1>5 DEF EOF, NOCHAR
<1>7. incoming' \in 0..255 => c # EOF
  BY <1>5 DEF EOF
<1>8. Encode(c) = Encode(incoming)'
  BY <1>5 DEF Encode
<1>9. NOCHAR' = NOCHAR
  BY DEF NOCHAR
<1> QED
  BY <1>1, <1>3, <1>4, <1>6, <1>7, <1>8, <1>9 DEF EchoInv

LEMMA EchoStep ==
    ASSUME Keys \subseteq Seq(TextBytes), ConsoleInv, EchoInv, [Next]_vars
    PROVE  EchoInv'
<1> DEFINE Same == UNCHANGED <<incoming, unechoed, utf8>>
<1>0. ASSUME Same, typed' \in Seq(TextBytes), lead' \in TextBytes \cup {lead, NOCHAR} PROVE EchoInv'
  BY <1>0 DEF EchoInv, Encode, NOCHAR
<1>i. typed \in Seq(TextBytes)
  BY DEF EchoInv
<1>1. ASSUME NEW k \in Keys, Type(k) PROVE EchoInv'
  <2>1. typed' \in Seq(TextBytes)
    BY <1>1, ConcatProperties DEF EchoInv, Type
  <2> QED
    BY <1>0, <1>1, <2>1 DEF Type, device
<1>2. ASSUME CloseInput \/ PollClosing \/ WriteDone \/ PReadAvail \/ PWriteDone \/ TestQuit
              \/ Drained \/ Powerdown \/ UNCHANGED vars
      PROVE  EchoInv'
  <2>1. Same /\ typed' = typed /\ lead' = lead
    BY <1>2 DEF CloseInput, PollClosing, WriteDone, PReadAvail, PWriteDone, TestQuit, Drained,
                Powerdown, vars, device, host
  <2> QED
    BY <1>0, <2>1 DEF EchoInv
<1>3. ASSUME PollEOF PROVE EchoInv'
  BY <1>3, <1>i, DeliverEcho DEF PollEOF, Polling
<1>4. ASSUME PollByte PROVE EchoInv'
  <2> DEFINE c == Head(typed)
  <2>1. c \in TextBytes /\ Tail(typed) \in Seq(TextBytes)
    BY <1>4, <1>i, ByteRead DEF PollByte
  <2>2. (~utf8 \/ c < 128) /\ incoming = NOCHAR /\ Deliver(c, <<c>>, Tail(typed))
    BY <1>4 DEF PollByte, Polling, IsAscii
  <2> HIDE DEF c
  <2>3. c \in 0..255 /\ c # EOF
    BY <2>1 DEF TextBytes, EOF
  <2>4. Encode(c) = <<c>>
    BY <2>2, <2>3 DEF Encode
  <2> QED
    BY <2>1, <2>2, <2>3, <2>4, DeliverEcho
<1>5. ASSUME PollLatin1 PROVE EchoInv'
  <2>1. Head(typed) \in TextBytes /\ Tail(typed) \in Seq(TextBytes)
    BY <1>5, <1>i, ByteRead DEF PollLatin1
  <2> QED
    BY <1>0, <1>5, <2>1 DEF PollLatin1
<1>s. ASSUME SecondByte PROVE EchoInv'
  <2>1. lead \in TextBytes /\ incoming = NOCHAR /\ utf8 /\ IsLatin1Lead(lead)
    BY <1>s DEF ConsoleInv, EchoInv, SecondByte
  <2>2. CASE /\ typed # <<>> /\ IsContinuation(Head(typed))
             /\ Deliver(Decode(lead, Head(typed)), <<lead, Head(typed)>>, Tail(typed))
    <3> DEFINE d == Head(typed)
    <3>1. d \in TextBytes /\ Tail(typed) \in Seq(TextBytes)
      BY <1>i, <2>2, ByteRead
    <3>2. IsContinuation(d) /\ Deliver(Decode(lead, d), <<lead, d>>, Tail(typed))
      BY <2>2
    <3> HIDE DEF d
    <3>3. Encode(Decode(lead, d)) = <<lead, d>>
      BY <2>1, <3>1, <3>2, DecodedBytes DEF IsLatin1Lead, IsContinuation
    <3>4. lead \in 0..255 /\ d \in 0..255
      BY <2>1, <3>1 DEF TextBytes
    <3>5. Decode(lead, d) \in 128..255
      BY <2>1, <3>2, <3>4, DecodeType DEF IsLatin1Lead, IsContinuation, Decode
    <3>6. \A n \in 128..255 : n \in {EOF} \cup 0..255 /\ n # EOF
      BY DEF EOF
    <3> QED
      BY <2>1, <3>1, <3>2, <3>3, <3>5, <3>6, DeliverEcho
  <2>3. CASE Deliver(EOF, <<>>, typed)
    BY <1>i, <2>1, <2>3, DeliverEcho
  <2> QED
    BY <1>s, <2>2, <2>3 DEF SecondByte
<1>6. ASSUME PollDrop PROVE EchoInv'
  <2>1. typed' \in Seq(TextBytes)
    BY <1>6, <1>i, ByteRead DEF PollDrop
  <2> QED
    BY <1>0, <1>6, <2>1 DEF PollDrop
<1>7. ASSUME Echo PROVE EchoInv'
  <2>1. incoming' = NOCHAR /\ typed' = typed /\ unechoed' = <<>> /\ lead' = lead
    BY <1>7, EchoShows DEF Echo, host
  <2> QED
    BY <2>1 DEF EchoInv, NOCHAR
<1> QED
  BY <1>1, <1>2, <1>3, <1>4, <1>5, <1>6, <1>7, <1>s DEF Next, ReadInterrupt, Program, Quiet

(* console.cc, progtest.cc: for any UTF-8 or Latin-1 text the display shows *)
(* the bytes that were delivered, in order and once, and only the mark for  *)
(* the end of the input is displayed though nobody typed it.                *)
THEOREM EchoIsExact ==
    ASSUME Keys \subseteq Seq(TextBytes)
    PROVE  Spec => EchoExact
<1>1. Init => EchoInv
  BY EmptySeq DEF Init, EchoInv, NOCHAR
<1>2. ConsoleInv /\ EchoInv /\ [Next]_vars => EchoInv'
  BY EchoStep
<1>3. ConsoleInv /\ EchoInv /\ EchoInv' /\ [Next]_vars
      => [/\ invented' # invented => incoming = EOF
          /\ pc' = "readP" /\ incoming' = NOCHAR => unechoed' = <<>>]_vars
  <2> SUFFICES ASSUME ConsoleInv, EchoInv, EchoInv', Next
               PROVE  /\ invented' # invented => incoming = EOF
                      /\ pc' = "readP" /\ incoming' = NOCHAR => unechoed' = <<>>
    OBVIOUS
  <2>1. Echo \/ invented' = invented
    BY DEF Next, ReadInterrupt, Program, Quiet, Type, CloseInput, PollClosing, PollEOF, PollByte,
           PollLatin1, SecondByte, PollDrop, Deliver, WriteDone, PReadAvail, PWriteDone, TestQuit, Drained,
           Powerdown, vars
  <2>2. invented' # invented => incoming = EOF
    BY <2>1, EchoShows
  <2> QED
    BY <2>2 DEF EchoInv
<1> QED
  BY <1>1, <1>2, <1>3, InitConsole, ConsoleStep, PTL DEF Spec, EchoExact

-----------------------------------------------------------------------------

(* OneRequest with its count written out: which of "active" and            *)
(* "semaphore" is set, and that a thread waits then.                       *)
SynchInv ==
    /\ SynchTypeOK
    /\ \A t \in Threads : at[t] \in {"request", "wait", "release"} <=> lock = t
    /\ active => semaphore = 0 /\ lock \in Threads /\ at[lock] = "wait"
    /\ semaphore \in {0, 1}
    /\ semaphore = 1 => lock \in Threads /\ at[lock] = "wait"
    /\ \A t \in Threads : at[t] = "wait" => active \/ semaphore = 1
    /\ ReturnsCurrent

LEMMA SynchStart == SynchInit => SynchInv
<1> SUFFICES ASSUME SynchInit PROVE SynchInv
  OBVIOUS
<1>1. (CHOOSE s \in Sectors : TRUE) \in Sectors
  BY SynchDiskAssumption
<1>2. op \in [Threads -> Ops]
  BY <1>1 DEF SynchInit, Ops
<1>3. SynchTypeOK
  BY <1>2, SynchDiskAssumption DEF SynchInit, SynchTypeOK
<1> QED
  BY <1>3, SynchDiskAssumption DEF SynchInit, SynchInv, ReturnsCurrent

LEMMA SynchStep == SynchInv /\ [SynchNext]_svars => SynchInv'
<1> SUFFICES ASSUME SynchInv, [SynchNext]_svars PROVE SynchInv'
  OBVIOUS
<1> USE SynchDiskAssumption
<1>1. ASSUME NEW t \in Threads, NEW o \in Ops, Call(t, o) PROVE SynchInv'
  BY <1>1 DEF SynchInv, SynchTypeOK, ReturnsCurrent, Call, Ops
<1>2. ASSUME NEW t \in Threads, Acquire(t) PROVE SynchInv'
  BY <1>2 DEF SynchInv, SynchTypeOK, ReturnsCurrent, Acquire
<1>3. ASSUME NEW t \in Threads, Request(t) PROVE SynchInv'
  <2>1. SynchTypeOK'
    BY <1>3 DEF SynchInv, SynchTypeOK, Request, Ops
  <2>2. lock = t /\ semaphore = 0 /\ ~active
    BY <1>3 DEF SynchInv, SynchTypeOK, Request
  <2>3. \A u \in Threads : at[u] \in {"wait", "release"} => u = t
    BY <2>2 DEF SynchInv
  <2>4. ReturnsCurrent'
    BY <1>3, <2>1, <2>2, <2>3 DEF SynchInv, SynchTypeOK, ReturnsCurrent, Request, Ops
  <2> QED
    BY <1>3, <2>1, <2>2, <2>4 DEF SynchInv, SynchTypeOK, Request
<1>4. ASSUME NEW t \in Threads, PDone(t) PROVE SynchInv'
  BY <1>4 DEF SynchInv, SynchTypeOK, ReturnsCurrent, PDone
<1>5. ASSUME NEW t \in Threads, Release(t) PROVE SynchInv'
  BY <1>5 DEF SynchInv, SynchTypeOK, ReturnsCurrent, Release
<1>6. ASSUME HandleInterrupt PROVE SynchInv'
  <2>1. semaphore = 0 /\ semaphore' = 1 /\ ~active' /\ lock \in Threads /\ at[lock] = "wait"
    BY <1>6 DEF SynchInv, HandleInterrupt
  <2>2. SynchTypeOK'
    <3>1. active' \in BOOLEAN
      BY <1>6, Zenon DEF HandleInterrupt
    <3> QED
      BY <1>6, <2>1, <3>1 DEF SynchInv, SynchTypeOK, HandleInterrupt
  <2>3. ReturnsCurrent'
    BY <1>6 DEF SynchInv, ReturnsCurrent, HandleInterrupt
  <2> QED
    BY <1>6, <2>1, <2>2, <2>3 DEF SynchInv, HandleInterrupt
<1>7. ASSUME UNCHANGED svars PROVE SynchInv'
  BY <1>7 DEF SynchInv, SynchTypeOK, ReturnsCurrent, svars
<1> QED
  BY <1>1, <1>2, <1>3, <1>4, <1>5, <1>6, <1>7 DEF SynchNext, Inside

(* synchdisk.cc, disk.cc: in every reachable state at most one request is  *)
(* in progress, and its completion belongs to the thread holding the lock, *)
(* for any number of threads.                                              *)
THEOREM OnlyOneRequest == SynchSpec => []OneRequest
<1>1. SynchInv => OneRequest
  <2> SUFFICES ASSUME SynchInv
      PROVE semaphore + (IF active THEN 1 ELSE 0)
              = (IF \E t \in Threads : at[t] = "wait" THEN 1 ELSE 0)
    BY DEF SynchInv, OneRequest
  <2> QED
    BY DEF SynchInv, SynchTypeOK
<1> QED
  BY <1>1, SynchStart, SynchStep, PTL DEF SynchSpec

(* synchdisk.cc: a read returns what the sector holds when it returns, and *)
(* a write is there.                                                       *)
THEOREM ReadsAreCurrent == SynchSpec => []ReturnsCurrent
<1>1. SynchInv => ReturnsCurrent
  BY DEF SynchInv
<1> QED
  BY <1>1, SynchStart, SynchStep, PTL DEF SynchSpec

=============================================================================
