---------------------------- MODULE AbstractLock ----------------------------
(***************************************************************************)
(* What a spinlock promises its callers: every lock has at most one owner *)
(* CPU; a CPU takes a lock only when nobody owns it, and only the owner   *)
(* gives it back.  Spinlock.tla is checked to implement this.             *)
(***************************************************************************)
CONSTANTS CPU, Lock, NoCpu

VARIABLE owner      \* owner[l]: the CPU owning lock l, or NoCpu

TypeOK == owner \in [Lock -> CPU \cup {NoCpu}]

Init == owner = [l \in Lock |-> NoCpu]

Take(c, l) ==
    /\ owner[l] = NoCpu
    /\ owner' = [owner EXCEPT ![l] = c]

Give(c, l) ==
    /\ owner[l] = c
    /\ owner' = [owner EXCEPT ![l] = NoCpu]

Next == \E c \in CPU, l \in Lock : Take(c, l) \/ Give(c, l)

Spec == Init /\ [][Next]_owner
=============================================================================
