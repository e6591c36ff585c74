-------------------------- MODULE AbstractProcess --------------------------
(***************************************************************************)
(* What a process object of process.c promises its users, for one object  *)
(* slot: it is allocated, handed out through one handle, gains threads     *)
(* from its running threads, loses them as they exit and are removed, is   *)
(* signalled terminated once no thread is left running, and is freed only  *)
(* when neither the handle nor any thread refers to it.  References, the   *)
(* PID and the locks are below this level.                                 *)
(***************************************************************************)
CONSTANT Slot       \* thread slots of the process

VARIABLES
    life,       \* "none", "alive" or "freed"
    held,       \* the creator holds the handle
    members,    \* threads in the process's thread list
    live,       \* members that have not exited
    ended,      \* the termination event is signalled
    waited      \* a wait for termination has returned

avars == <<life, held, members, live, ended, waited>>

Init ==
    /\ life = "none"
    /\ held = FALSE
    /\ members = {}
    /\ live = {}
    /\ ended = FALSE
    /\ waited = FALSE

\* A fresh object with its main thread.
Create ==
    /\ life \in {"none", "freed"}
    /\ life' = "alive"
    /\ members' = {1}
    /\ live' = {1}
    /\ UNCHANGED held
    /\ ended' = FALSE
    /\ waited' = FALSE

\* A creation that fails frees the fresh object it allocated.
Fail ==
    /\ life \in {"none", "freed"}
    /\ life' = "freed"
    /\ ended' = FALSE
    /\ waited' = FALSE
    /\ UNCHANGED <<held, members, live>>

\* The creator receives the handle.
Return ==
    /\ life = "alive" /\ ~held
    /\ held' = TRUE
    /\ UNCHANGED <<life, members, live, ended, waited>>

\* A thread that has not exited starts thread i.
Spawn(i) ==
    /\ life = "alive" /\ live # {} /\ i \notin members
    /\ members' = members \cup {i}
    /\ live' = live \cup {i}
    /\ UNCHANGED <<life, held, ended, waited>>

\* Thread i exits; the last one to exit signals termination.
Exit(i) ==
    /\ i \in live
    /\ live' = live \ {i}
    /\ ended' = (ended \/ live' = {})
    /\ UNCHANGED <<life, held, members, waited>>

\* The exited thread i leaves the list.
Remove(i) ==
    /\ i \in members \ live
    /\ members' = members \ {i}
    /\ UNCHANGED <<life, held, live, ended, waited>>

\* The object is freed once nothing refers to it.
Free ==
    /\ life = "alive" /\ ~held /\ members = {}
    /\ life' = "freed"
    /\ UNCHANGED <<held, members, live, ended, waited>>

\* The handle is closed, which may free an object no thread refers to.
Close ==
    /\ held
    /\ held' = FALSE
    /\ life' \in IF members = {} THEN {life, "freed"} ELSE {life}
    /\ UNCHANGED <<members, live, ended, waited>>

\* A wait through the handle returns once termination is signalled.
Wait ==
    /\ held /\ ended /\ ~waited
    /\ waited' = TRUE
    /\ UNCHANGED <<life, held, members, live, ended>>

Next ==
    \/ Create \/ Fail \/ Return \/ Free \/ Close \/ Wait
    \/ \E i \in Slot : Spawn(i) \/ Exit(i) \/ Remove(i)

Spec == Init /\ [][Next]_avars
=============================================================================
