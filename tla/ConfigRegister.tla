--------------------------- MODULE ConfigRegister ---------------------------
(***************************************************************************)
(* What the configuration file of a monome promises to the servers that    *)
(* use it, however many there are at a time: a register.  Whoever reads it *)
(* gets the last value that was written as a whole; only while somebody    *)
(* writes may a reader find nothing, and only a write that was begun and   *)
(* given up may lose the value.  Nobody ever gets a part of a value.       *)
(***************************************************************************)
CONSTANTS Users, Values, Nothing

VARIABLES
    value,      \* the last value written as a whole, or Nothing
    writers,    \* the users that are writing
    got         \* what each user got when it last read

vars == <<value, writers, got>>

Init == value = Nothing /\ writers = {} /\ got = [u \in Users |-> Nothing]

Get(u) ==
    /\ \E v \in {value} \cup (IF writers = {} THEN {} ELSE {Nothing}) :
          got' = [got EXCEPT ![u] = v]
    /\ UNCHANGED <<value, writers>>

Begin(u) ==
    /\ u \notin writers
    /\ writers' = writers \cup {u}
    /\ UNCHANGED <<value, got>>

Finish(u) ==
    /\ u \in writers
    /\ writers' = writers \ {u}
    /\ value' \in Values
    /\ UNCHANGED got

GiveUp(u) ==
    /\ u \in writers
    /\ writers' = writers \ {u}
    /\ value' \in {value, Nothing}
    /\ UNCHANGED got

Next == \E u \in Users : Get(u) \/ Begin(u) \/ Finish(u) \/ GiveUp(u)

Spec == Init /\ [][Next]_vars
=============================================================================
