---------------------------- MODULE AbstractFile ----------------------------
(***************************************************************************)
(* What filesys/openfile.h promises: a file is an array of bytes of fixed  *)
(* length; a read or a write is one step on the part of its range that     *)
(* lies in the file, and returns how many bytes that is.                   *)
(***************************************************************************)
EXTENDS Integers

CONSTANTS FileLength, Threads, Movers, Values, Lengths, Positions

VARIABLES
    bytes,      \* the file: the value written last at each position
    position,   \* each open file's seek position
    returned    \* the last call: the count, and what it read

avars == <<bytes, position, returned>>

InFile(pos, n) == {p \in pos..(pos + n - 1) : p < FileLength}

Count(pos, n) == IF n <= 0 \/ pos >= FileLength THEN 0
                 ELSE IF pos + n > FileLength THEN FileLength - pos ELSE n

AInit ==
    /\ bytes = [p \in 0..(FileLength - 1) |-> 0]
    /\ position = [t \in Threads |-> 0]
    /\ returned = [count |-> 0, data |-> <<>>]

(* Read and Write go on from the seek position and move it. *)
AMove(t, pos, n) ==
    /\ t \in Movers => pos = position[t]
    /\ position' = IF t \in Movers THEN [position EXCEPT ![t] = @ + Count(pos, n)]
                                   ELSE position

ARead(t, pos, n) ==
    /\ AMove(t, pos, n)
    /\ returned' = [count |-> Count(pos, n),
                    data  |-> [k \in 1..Count(pos, n) |-> bytes[pos + k - 1]]]
    /\ UNCHANGED bytes

AWrite(t, pos, n, v) ==
    /\ AMove(t, pos, n)
    /\ bytes' = [p \in DOMAIN bytes |-> IF p \in InFile(pos, n) THEN v ELSE bytes[p]]
    /\ returned' = [count |-> Count(pos, n), data |-> <<>>]

ASeek(t, p) ==
    /\ position' = [position EXCEPT ![t] = p]
    /\ UNCHANGED <<bytes, returned>>

ANext ==
    \E t \in Threads :
        \/ t \in Movers /\ \E p \in Positions : ASeek(t, p)
        \/ \E pos \in Positions \cup {position[t]}, n \in Lengths :
              ARead(t, pos, n) \/ \E v \in Values : AWrite(t, pos, n, v)

=============================================================================
