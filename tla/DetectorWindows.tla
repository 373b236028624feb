-------------------------- MODULE DetectorWindows --------------------------
(***************************************************************************)
(* serialosc-detector on Windows, src/serialosc-detector/windows.c.        *)
(*                                                                         *)
(* Here the detector asks for the arrival of COM ports first and lists the *)
(* ports that are there afterwards, so that none is missed; one that       *)
(* arrives in between is reported twice.  It reports every port: the       *)
(* device process finds out whether there is a monome behind it.           *)
(***************************************************************************)
EXTENDS Naturals, Sequences

CONSTANTS
    Nodes,      \* the names of COM ports
    MaxPlugs    \* bound: how often a port arrives

VARIABLES
    pc,         \* where main() is
    plugged,    \* the ports that are there
    found,      \* the listed ports scan_connected_devices() has still to see
    messages,   \* the arrivals the window has still to be told of
    plugs,      \* history: how often each port has arrived
    early,      \* history: how often it did between the notification and the list
    reports,    \* history: how often each port was reported
    served      \* history: ports reported since they arrived

vars == <<pc, plugged, found, messages, plugs, early, reports, served>>

TypeOK ==
    /\ pc \in {"start", "list", "scan", "loop"}
    /\ plugged \subseteq Nodes /\ found \subseteq Nodes
    /\ messages \in Seq(Nodes)
    /\ plugs \in [Nodes -> Nat] /\ early \in [Nodes -> Nat]
    /\ reports \in [Nodes -> Nat]
    /\ served \subseteq plugged

----------------------------------------------------------------------------
\* Mutant: the notification is asked for after the scan.
NotifiesAfterScan == pc = "loop"

\* RegisterDeviceNotification() has been called.
Notifies == pc # "start"

Plug(n) ==
    /\ n \notin plugged
    /\ plugs[n] < MaxPlugs
    /\ plugged' = plugged \cup {n}
    /\ plugs' = [plugs EXCEPT ![n] = @ + 1]
    /\ messages' = IF Notifies THEN Append(messages, n) ELSE messages
    /\ early' = IF pc = "list" THEN [early EXCEPT ![n] = @ + 1] ELSE early
    /\ UNCHANGED <<pc, found, reports, served>>

\* Removals are notified as well; wndproc() looks at arrivals only.
Unplug(n) ==
    /\ n \in plugged
    /\ plugged' = plugged \ {n}
    /\ served' = served \ {n}
    /\ UNCHANGED <<pc, found, messages, plugs, early, reports>>

----------------------------------------------------------------------------
\* send_connect()
Report(n) ==
    /\ reports' = [reports EXCEPT ![n] = @ + 1]
    /\ served' = served \cup ({n} \cap plugged)

\* open_msg_window(), RegisterDeviceNotification()
Register ==
    /\ pc = "start"
    /\ pc' = "list"
    /\ UNCHANGED <<plugged, found, messages, plugs, early, reports, served>>

\* SetupDiGetClassDevs() lists the ports that are present.
List ==
    /\ pc = "list"
    /\ pc' = "scan"
    /\ found' = plugged
    /\ UNCHANGED <<plugged, messages, plugs, early, reports, served>>

\* Mutant: the index of the list is not counted up.
ScanSame(n) == found

ScanRest(n) == found \ {n}

\* One turn of the loop of scan_connected_devices(); the name of a port that
\* has gone in the meantime can or cannot be read.
ScanOne(n) ==
    /\ pc = "scan"
    /\ n \in found
    /\ found' = ScanRest(n)
    /\ \/ Report(n)
       \/ n \notin plugged /\ UNCHANGED <<reports, served>>
    /\ UNCHANGED <<pc, plugged, messages, plugs, early>>

ScanEnds ==
    /\ pc = "scan"
    /\ found = {}
    /\ pc' = "loop"
    /\ UNCHANGED <<plugged, found, messages, plugs, early, reports, served>>

\* event_loop(), wndproc(), handle_device_arrival()
Arrival ==
    /\ pc = "loop"
    /\ messages # <<>>
    /\ messages' = Tail(messages)
    /\ Report(Head(messages))
    /\ UNCHANGED <<pc, plugged, found, plugs, early>>

----------------------------------------------------------------------------
Init ==
    /\ pc = "start"
    /\ plugged \in SUBSET Nodes
    /\ found = {} /\ messages = <<>>
    /\ plugs = [n \in Nodes |-> IF n \in plugged THEN 1 ELSE 0]
    /\ early = [n \in Nodes |-> 0] /\ reports = [n \in Nodes |-> 0]
    /\ served = {}

Step == Register \/ List \/ (\E n \in Nodes : ScanOne(n)) \/ ScanEnds \/ Arrival

Next == Step \/ \E n \in Nodes : Plug(n) \/ Unplug(n)

Spec == Init /\ [][Next]_vars

\* The detector runs; ports come and go as they like.
FairSpec == Spec /\ WF_vars(Step)

----------------------------------------------------------------------------
(***************************************************************************)
(* Properties                                                              *)
(***************************************************************************)

\* A port is reported once for each arrival, and a second time at most for one
\* between the notification and the list: only then are there two device
\* processes for one arrival (one of which cannot open the port).
SurplusIsEarly == \A n \in Nodes : reports[n] <= plugs[n] + early[n]

\* Every port that stays is reported: there is no moment at which it is neither
\* listed nor notified (windows.c:268 and 273).
PluggedIsReported ==
    \A n \in Nodes : n \in plugged ~> (n \in served \/ n \notin plugged)
=============================================================================
