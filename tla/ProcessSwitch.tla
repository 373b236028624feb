---------------------------- MODULE ProcessSwitch ----------------------------
(***************************************************************************)
(* What serialoscd promises of its child processes: a switch with four     *)
(* positions in front of a set of processes.  Turned on it has one child,  *)
(* the detector; further children come only while the detector lives; it   *)
(* is off only when no child is left, and only then can it be turned on    *)
(* again.                                                                  *)
(***************************************************************************)
CONSTANTS Devs, Detector

VARIABLES mode, kids

pvars == <<mode, kids>>

Init == mode = "starting" /\ kids = {Detector}

\* supervisor_enable(): from off only, with nothing left of an earlier life.
TurnOn ==
    /\ mode = "off" /\ kids = {}
    /\ mode' = "starting" /\ kids' = {Detector}

Started == mode = "starting" /\ mode' = "on" /\ UNCHANGED kids

\* supervisor_disable(): from on only.
TurnOff == mode = "on" /\ mode' = "stopping" /\ UNCHANGED kids

\* The switch is off once every child is gone.
Stopped ==
    /\ mode = "stopping" /\ kids = {}
    /\ mode' = "off" /\ UNCHANGED kids

\* The detector's report of some devices is acted upon, a teardown in progress
\* or not.
Spawn(S) ==
    /\ mode \in {"on", "stopping"}
    /\ Detector \in kids
    /\ S \cap kids = {}
    /\ kids' = kids \cup S
    /\ UNCHANGED mode

Reap(s) == s \in kids /\ kids' = kids \ {s} /\ UNCHANGED mode

Next ==
    \/ TurnOn \/ Started \/ TurnOff \/ Stopped
    \/ \E S \in SUBSET Devs : Spawn(S)
    \/ \E s \in Devs \cup {Detector} : Reap(s)

Spec == Init /\ [][Next]_pvars

=============================================================================
