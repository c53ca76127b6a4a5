-------------------------- MODULE AbstractFileStore --------------------------
(***************************************************************************)
(* What filesys/filesys.h promises of Create and Remove, with no disk: a   *)
(* set of named files of fixed sizes, each operation one step.             *)
(***************************************************************************)
EXTENDS Naturals

CONSTANTS Names, Sizes

VARIABLE sizes      \* function from the names of the existing files to sizes

svars == <<sizes>>

SInit == sizes = <<>>

(* Create succeeds only for a name that is not in use. *)
ACreate(n, size) ==
    /\ n \notin DOMAIN sizes
    /\ sizes' = [m \in DOMAIN sizes \cup {n} |-> IF m = n THEN size ELSE sizes[m]]

ARemove(n) ==
    /\ n \in DOMAIN sizes
    /\ sizes' = [m \in DOMAIN sizes \ {n} |-> sizes[m]]

SNext == \E n \in Names : ARemove(n) \/ \E size \in Sizes : ACreate(n, size)

=============================================================================
