------------------------------ MODULE Detector ------------------------------
(***************************************************************************)
(* serialosc-detector on Linux, src/serialosc-detector/libudev.c.          *)
(*                                                                         *)
(* The detector lists the tty devices udev knows, reports the compatible   *)
(* ones, and only then opens a udev monitor and reports what it hears of.  *)
(* A report is a DEVICE_CONNECTION message that carries a device node.     *)
(*                                                                         *)
(* Monomes are plugged and unplugged at any moment.  The scan finds them   *)
(* as soon as the kernel has made their tty; the monitor, whose source is  *)
(* "udev", hears of them only when udevd has run its rules.                *)
(***************************************************************************)
EXTENDS Naturals, Sequences, FiniteSets

CONSTANTS
    Nodes,      \* the device nodes a monome may get
    QueueSize,  \* how many events the monitor's socket holds
    MaxPlugs    \* bound: how often a node is plugged in

ASSUME BoundsAssumption == QueueSize \in Nat /\ MaxPlugs \in Nat

VARIABLES
    pc,         \* where main() is
    plugged,    \* the nodes with a monome behind them
    pending,    \* for each node the kernel's events udevd has not passed on yet
    found,      \* the enumerated nodes scan_connected_devices() has still to see
    events,     \* the add and remove events the monitor has queued
    overrun,    \* an event found no room
    plugs,      \* history: how often each node was plugged in
    reports,    \* history: how often each node was reported
    served,     \* history: nodes reported since they were plugged in
    unseen,     \* history: nodes announced between the scan and the monitor
    late        \* history: nodes enumerated before udevd had announced them

vars == <<pc, plugged, pending, found, events, overrun, plugs, reports, served,
          unseen, late>>

Event == [action : {"add", "remove"}, node : Nodes]

TypeOK ==
    /\ pc \in {"start", "scan", "open", "monitor", "dead", "failed"}
    /\ plugged \subseteq Nodes
    /\ pending \in [Nodes -> Seq({"add", "remove"})]
    /\ found \subseteq Nodes
    /\ events \in Seq(Event) /\ overrun \in BOOLEAN
    /\ plugs \in [Nodes -> Nat] /\ reports \in [Nodes -> Nat]
    /\ served \subseteq plugged /\ unseen \subseteq plugged
    /\ late \subseteq Nodes

(***************************************************************************)
(* The outside world                                                       *)
(***************************************************************************)

\* Mutants: the monitor listens from the beginning, or never.
ListensFirst == TRUE
NeverListens == FALSE

\* udev_monitor_enable_receiving() has been called: events are queued.
Listening == pc = "monitor"

\* The kernel makes or removes the tty and tells udevd.
KernelTells(action, n) == pending' = [pending EXCEPT ![n] = Append(@, action)]

Plug(n) ==
    /\ n \notin plugged
    /\ plugs[n] < MaxPlugs
    /\ plugged' = plugged \cup {n}
    /\ plugs' = [plugs EXCEPT ![n] = @ + 1]
    /\ KernelTells("add", n)
    /\ UNCHANGED <<pc, found, events, overrun, reports, served, unseen, late>>

Unplug(n) ==
    /\ n \in plugged
    /\ plugged' = plugged \ {n}
    /\ served' = served \ {n}
    /\ unseen' = unseen \ {n}
    /\ KernelTells("remove", n)
    /\ UNCHANGED <<pc, found, events, overrun, plugs, reports, late>>

\* What udevd broadcasts reaches a monitor that listens and has room.
Announce(action, n) ==
    LET fits == Len(events) < QueueSize
    IN  /\ events' = IF Listening /\ fits
                     THEN Append(events, [action |-> action, node |-> n]) ELSE events
        /\ overrun' = (overrun \/ (Listening /\ ~fits))

\* A monome that is plugged in is announced now for the last time.
LastWord(n) == n \in plugged /\ Tail(pending[n]) = <<>>

\* The detector is past the node in its list and does not listen yet.
Deaf(n) == n \notin served /\ (pc = "open" \/ (pc = "scan" /\ n \notin found))

\* udevd has run its rules for the next event of a device, and broadcasts it: in
\* order for one device, in any order for several.
Broadcast(n) ==
    /\ pending[n] # <<>>
    /\ pending' = [pending EXCEPT ![n] = Tail(@)]
    /\ Announce(Head(pending[n]), n)
    /\ unseen' = IF LastWord(n) /\ Deaf(n) THEN unseen \cup {n} ELSE unseen
    /\ UNCHANGED <<pc, plugged, found, plugs, reports, served, late>>

(***************************************************************************)
(* The detector                                                            *)
(***************************************************************************)

\* send_connect(), for a node whose device is still there: once it is gone its
\* parents cannot be looked up and is_device_compatible() says no.
Report(n) ==
    IF n \in plugged
      THEN reports' = [reports EXCEPT ![n] = @ + 1] /\ served' = served \cup {n}
      ELSE UNCHANGED <<reports, served>>

\* udev_enumerate_scan_devices(): what is in sysfs, with no condition that udevd
\* has been there.
Enumerate ==
    /\ pc = "start"
    /\ pc' = "scan"
    /\ found' = plugged
    /\ late' = {n \in plugged : pending[n] # <<>>}
    /\ UNCHANGED <<plugged, pending, events, overrun, plugs, reports, served, unseen>>

\* One turn of the do loop of scan_connected_devices().  A device that udevd has
\* not handled yet is reported if it has a usb-serial parent, and not if it has to
\* be known by its properties.
ScanOne(n) ==
    /\ pc = "scan"
    /\ n \in found
    /\ found' = found \ {n}
    /\ \/ Report(n)
       \/ pending[n] # <<>> /\ UNCHANGED <<reports, served>>
    /\ UNCHANGED <<pc, plugged, pending, events, overrun, plugs, unseen, late>>

ScanEnds ==
    /\ pc = "scan"
    /\ found = {}
    /\ pc' = "open"
    /\ UNCHANGED <<plugged, pending, found, events, overrun, plugs, reports,
                   served, unseen, late>>

\* udev_monitor_new_from_netlink(), the filter, udev_monitor_enable_receiving()
OpenMonitor ==
    /\ pc = "open"
    /\ pc' = "monitor"
    /\ UNCHANGED <<plugged, pending, found, events, overrun, plugs, reports,
                   served, unseen, late>>

\* udev_enumerate_new() or udev_monitor_new_from_netlink() fails: main() returns.
Fails ==
    /\ pc \in {"start", "open"}
    /\ pc' = "failed"
    /\ UNCHANGED <<plugged, pending, found, events, overrun, plugs, reports,
                   served, unseen, late>>

IsAdd(e) == e.action = "add"

\* One turn of the loop of monitor_attach()
Receive ==
    /\ pc = "monitor"
    /\ ~overrun
    /\ events # <<>>
    /\ events' = Tail(events)
    /\ IF IsAdd(Head(events)) THEN Report(Head(events).node)
       ELSE UNCHANGED <<reports, served>>
    /\ UNCHANGED <<pc, plugged, pending, found, overrun, plugs, unseen, late>>

\* The socket answers an overrun with an error, and udev_monitor_receive_device()
\* with NULL, whose action is looked at all the same.
ReceiveNothing ==
    /\ pc = "monitor"
    /\ overrun
    /\ pc' = "dead"
    /\ UNCHANGED <<plugged, pending, found, events, overrun, plugs, reports,
                   served, unseen, late>>

-----------------------------------------------------------------------------

\* What is there when the detector starts has been announced long ago.
Init ==
    /\ pc = "start"
    /\ plugged \in SUBSET Nodes
    /\ pending = [n \in Nodes |-> <<>>]
    /\ found = {} /\ events = <<>> /\ overrun = FALSE
    /\ plugs = [n \in Nodes |-> IF n \in plugged THEN 1 ELSE 0]
    /\ reports = [n \in Nodes |-> 0]
    /\ served = {} /\ unseen = {} /\ late = {}

Step ==
    \/ Enumerate \/ (\E n \in Nodes : ScanOne(n)) \/ ScanEnds
    \/ OpenMonitor \/ Fails \/ Receive \/ ReceiveNothing

Next == Step \/ \E n \in Nodes : Plug(n) \/ Unplug(n) \/ Broadcast(n)

Spec == Init /\ [][Next]_vars

\* The detector and udevd run; monomes come and go as they like.
FairSpec == Spec /\ WF_vars(Step) /\ \A n \in Nodes : WF_vars(Broadcast(n))

(***************************************************************************)
(* Properties                                                              *)
(***************************************************************************)

\* A monome is reported once for each plugging, and a second time at most for the
\* one plugging whose announcement came after the list was made: it may be in the
\* list and come through the monitor (libudev.c:190-191, 218-222), and then the
\* daemon starts two device processes on the node.
SurplusIsLate ==
    \A n \in Nodes : reports[n] <= plugs[n] + (IF n \in late THEN 1 ELSE 0)

\* The detector has given up: the monitor held less than happened at once, or
\* udev refused to be asked.
GivenUp == (pc = "dead" /\ overrun) \/ pc = "failed"

\* A monome that is plugged in is reported, or it is unplugged first, or it was
\* announced between the list and the monitor, or the detector has given up:
\* nothing else ends it.
SeenIsReported ==
    \A n \in Nodes :
       n \in plugged ~> (n \in served \cup unseen \/ n \notin plugged \/ GivenUp)

\* The daemon "waits for you to plug a monome in, then it spawns off a dedicated
\* server process" (README.md): every monome that stays is reported, by a detector
\* that has come to listen.
PluggedIsReported ==
    \A n \in Nodes :
       n \in plugged ~> (n \in served \/ n \notin plugged \/ GivenUp)

=============================================================================
