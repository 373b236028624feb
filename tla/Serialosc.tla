----------------------------- MODULE Serialosc -----------------------------
(***************************************************************************)
(* serialosc as a whole, on Linux: the Detector, in every detail, and the  *)
(* device processes behind the switch that the Supervisor was shown to     *)
(* implement (ProcessSwitch).  A report goes through the detector's pipe   *)
(* to the daemon, which starts a device process with the node's name; the  *)
(* process opens whatever is behind the node by then.                      *)
(***************************************************************************)
EXTENDS Naturals, Sequences, FiniteSets

CONSTANTS
    Nodes, QueueSize, MaxPlugs, \* those of Detector
    Devs,           \* processes; enough for each report of a detector
    DetectorProc,   \* the process that runs the detector
    NoNode          \* what a process that is not there serves

ASSUME ProcsAssumption == DetectorProc \notin Devs /\ NoNode \notin Nodes
ASSUME BoundsAssumption == QueueSize \in Nat /\ MaxPlugs \in Nat

VARIABLES
    mode, kids,     \* the switch and its processes
    pc, plugged, pending, found, events, overrun, plugs, reports, served,
    unseen, late,   \* the detector, udevd and the monomes
    pipe,           \* nodes reported and not read by the daemon yet
    node,           \* the argument of each device process
    life,           \* where it is
    asked           \* the processes that were sent PROCESS_SHOULD_EXIT

switch == <<mode, kids>>
detection == <<pc, plugged, pending, found, events, overrun, plugs, reports, served,
               unseen, late>>
devices == <<node, life, asked>>
vars == <<switch, detection, pipe, devices>>

S == INSTANCE ProcessSwitch WITH Detector <- DetectorProc
D == INSTANCE Detector

TypeOK ==
    /\ mode \in {"starting", "on", "stopping", "off"}
    /\ kids \subseteq Devs \cup {DetectorProc}
    /\ D!TypeOK
    /\ pipe \in Seq(Nodes)
    /\ node \in [Devs -> Nodes \cup {NoNode}]
    /\ life \in [Devs -> {"none", "start", "serving", "lost", "left"}]
    /\ asked \subseteq Devs
    /\ \A d \in Devs : (d \in kids) = (life[d] # "none") /\ (d \in kids) = (node[d] # NoNode)

----------------------------------------------------------------------------
(***************************************************************************)
(* Monomes                                                                 *)
(***************************************************************************)

Plug(n) == D!Plug(n) /\ UNCHANGED <<switch, pipe, devices>>

\* The processes that have the node open have lost their monome.
Unplug(n) ==
    /\ D!Unplug(n)
    /\ life' = [d \in Devs |-> IF node[d] = n /\ life[d] = "serving" THEN "lost"
                               ELSE life[d]]
    /\ UNCHANGED <<switch, pipe, node, asked>>

Broadcast(n) == D!Broadcast(n) /\ UNCHANGED <<switch, pipe, devices>>

----------------------------------------------------------------------------
(***************************************************************************)
(* The detector                                                            *)
(***************************************************************************)

\* A step of the detector; what it reports goes into its pipe.
Detect ==
    /\ D!Step
    /\ LET new == {n \in Nodes : reports'[n] > reports[n]}
       IN  pipe' = IF new = {} THEN pipe ELSE Append(pipe, CHOOSE n \in new : TRUE)
    /\ UNCHANGED <<switch, devices>>

\* The detector's process has ended.
Ended == pc \in {"dead", "failed"}

\* SIGTERM
DetectorEnds ==
    /\ mode = "stopping" /\ ~Ended
    /\ pc' = "dead"
    /\ UNCHANGED <<switch, plugged, pending, found, events, overrun, plugs, reports,
                   served, unseen, late, pipe, devices>>

----------------------------------------------------------------------------
(***************************************************************************)
(* The daemon                                                              *)
(***************************************************************************)

\* Mutant: a message is not taken out of what was read.
KeepsMessage == pipe

NextMessages == Tail(pipe)

\* detector_read_cb(), handle_connection(): a new process for each report.
Launch(d) ==
    /\ pipe # <<>>
    /\ S!Spawn({d})
    /\ pipe' = NextMessages
    /\ node' = [node EXCEPT ![d] = Head(pipe)]
    /\ life' = [life EXCEPT ![d] = "start"]
    /\ UNCHANGED <<detection, asked>>

Released(d) == [node EXCEPT ![d] = NoNode]

\* device_exit_cb()
Reap(d) ==
    /\ life[d] = "left"
    /\ S!Reap(d)
    /\ node' = Released(d)
    /\ life' = [life EXCEPT ![d] = "none"]
    /\ asked' = asked \ {d}
    /\ UNCHANGED <<detection, pipe>>

\* detector_exit_cb(): what it had still to read is lost with the pipe.
ReapDetector ==
    /\ Ended
    /\ S!Reap(DetectorProc)
    /\ pipe' = <<>>
    /\ UNCHANGED <<detection, devices>>

\* supervisor_disable(): SIGTERM for the detector, a message for each device.
Disable ==
    /\ S!TurnOff
    /\ asked' = kids \cap Devs
    /\ UNCHANGED <<detection, pipe, node, life>>

\* Mutant: the new detector takes what is plugged in for known.
ScansNothing == pc' = "monitor"

Scans == pc' = "start"

\* The pluggings that a new detector may hear of: those udevd has still to announce,
\* or else the one that is there.
StillToSee(n) ==
    IF pending[n] = <<>> THEN (IF n \in plugged THEN 1 ELSE 0)
    ELSE Cardinality({i \in 1..Len(pending[n]) : pending[n][i] = "add"})

\* supervisor_enable(): a new detector.
Enable ==
    /\ S!TurnOn
    /\ Scans
    /\ found' = {} /\ events' = <<>> /\ overrun' = FALSE
    /\ plugs' = [n \in Nodes |-> StillToSee(n)]
    /\ reports' = [n \in Nodes |-> 0]
    /\ served' = {} /\ unseen' = {} /\ late' = {} /\ pipe' = <<>>
    /\ UNCHANGED <<plugged, pending, devices>>

Settle == (S!Started \/ S!Stopped) /\ UNCHANGED <<detection, pipe, devices>>

----------------------------------------------------------------------------
(***************************************************************************)
(* The device processes                                                    *)
(***************************************************************************)

\* monome_open()
Opens(n) == n \in plugged

Open(d) ==
    /\ life[d] = "start"
    /\ life' = [life EXCEPT ![d] = IF Opens(node[d]) THEN "serving" ELSE "left"]
    /\ UNCHANGED <<switch, detection, pipe, node, asked>>

\* The event loop ends: the monome is gone, or the daemon has asked for it.
Leave(d) ==
    /\ life[d] = "lost" \/ (life[d] = "serving" /\ d \in asked)
    /\ life' = [life EXCEPT ![d] = "left"]
    /\ UNCHANGED <<switch, detection, pipe, node, asked>>

----------------------------------------------------------------------------
Init ==
    /\ S!Init /\ D!Init
    /\ pipe = <<>>
    /\ node = [d \in Devs |-> NoNode] /\ life = [d \in Devs |-> "none"]
    /\ asked = {}

Daemon ==
    \/ (\E d \in Devs : Launch(d) \/ Reap(d)) \/ ReapDetector
    \/ Disable \/ Enable \/ Settle

Next ==
    \/ \E n \in Nodes : Plug(n) \/ Unplug(n) \/ Broadcast(n)
    \/ Detect \/ DetectorEnds
    \/ Daemon
    \/ \E d \in Devs : Open(d) \/ Leave(d)

Spec == Init /\ [][Next]_vars

\* Every process runs, udevd too, and the daemon reads and reaps (the fairness under
\* which the Supervisor does).  Nobody has to plug, unplug, disable or enable.
FairSpec ==
    /\ Spec
    /\ WF_vars(Detect) /\ WF_vars(DetectorEnds)
    /\ \A n \in Nodes : WF_vars(Broadcast(n))
    /\ WF_vars(\E d \in Devs : Launch(d))
    /\ WF_vars(ReapDetector) /\ WF_vars(Settle)
    /\ \A d \in Devs : WF_vars(Reap(d)) /\ WF_vars(Open(d)) /\ WF_vars(Leave(d))

----------------------------------------------------------------------------
(***************************************************************************)
(* Properties                                                              *)
(***************************************************************************)

Serving(n) == {d \in Devs : node[d] = n /\ life[d] = "serving"}

\* A monome gets one process for each plugging, and one more at most if the
\* detector had it in its list before udevd announced it; however often the daemon
\* is disabled and enabled and its detector scans again: the daemon comes back only
\* when the last process of its former life is gone.
SurplusServerIsLate ==
    \A n \in Nodes :
       Cardinality({d \in Devs : node[d] = n}) <= plugs[n] + (IF n \in late THEN 1 ELSE 0)

\* A monome that is plugged in while the daemon is on is served, in the end, as
\* long as it stays, the daemon stays on and its detector lives, unless it was
\* announced between the list and the monitor; above all one that was there when
\* the daemon was enabled again.
EnabledServes ==
    \A n \in Nodes :
       (n \in plugged \ unseen /\ mode \in {"starting", "on"} /\ ~Ended)
         ~> (Serving(n) # {} \/ n \notin plugged \/ n \in unseen \/ mode = "stopping"
             \/ Ended)

\* The daemon spawns "a dedicated server process" for a monome (README.md):
\* there are never two.  This is NOT so: a monome that is listed before udevd has
\* announced it, or plugged in again while its first report is under way, gets two.
DedicatedServer == \A n \in Nodes : Cardinality(Serving(n)) <= 1
=============================================================================
