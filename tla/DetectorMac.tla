---------------------------- MODULE DetectorMac ----------------------------
(***************************************************************************)
(* serialosc-detector on macOS, src/serialosc-detector/iokitlib.c.         *)
(*                                                                         *)
(* One iterator holds the serial ports that are there and then those that  *)
(* arrive; the notification for new ones is armed when it has been read to *)
(* its end.  A port's device node is copied into a buffer on the stack,    *)
(* whose size the library takes and overwrites with that of the node.      *)
(***************************************************************************)
EXTENDS Naturals, FiniteSets

CONSTANTS
    Nodes,          \* device nodes of serial ports
    Usb,            \* those with a USB device above them
    NodeLength,     \* the bytes each takes
    Garbage,        \* what lies in a buffer that nothing was copied to
    MaxPlugs        \* bound: how often a port arrives

BufferLength == 256

ASSUME NodesAssumption ==
    /\ Usb \subseteq Nodes /\ Garbage \notin Nodes
    /\ NodeLength \in [Nodes -> 1..BufferLength]
ASSUME MaxPlugsAssumption == MaxPlugs \in Nat

VARIABLES
    pc,         \* "start", in "iterate_devices", or in the "loop"
    plugged,    \* the ports that are there
    iter,       \* the ports in the iterator
    len,        \* the local variable of iterate_devices()
    devnode,    \* its buffer
    plugs,      \* history: how often each port has arrived
    reports,    \* history: how often each node was reported
    served      \* history: nodes reported since their port arrived

vars == <<pc, plugged, iter, len, devnode, plugs, reports, served>>

TypeOK ==
    /\ pc \in {"start", "iterate", "loop"}
    /\ plugged \subseteq Nodes /\ iter \subseteq Nodes
    /\ len \in 1..BufferLength /\ devnode \in Nodes \cup {Garbage}
    /\ plugs \in [Nodes -> Nat]
    /\ reports \in [Nodes \cup {Garbage} -> Nat]
    /\ served \subseteq plugged

----------------------------------------------------------------------------
\* From the notification on, a port that arrives is put into the iterator.
Plug(n) ==
    /\ n \notin plugged
    /\ plugs[n] < MaxPlugs
    /\ plugged' = plugged \cup {n}
    /\ plugs' = [plugs EXCEPT ![n] = @ + 1]
    /\ iter' = IF pc = "start" THEN iter ELSE iter \cup {n}
    /\ UNCHANGED <<pc, len, devnode, reports, served>>

Unplug(n) ==
    /\ n \in plugged
    /\ plugged' = plugged \ {n}
    /\ served' = served \ {n}
    /\ UNCHANGED <<pc, iter, len, devnode, plugs, reports>>

----------------------------------------------------------------------------
\* Mutant: what arrives is not put into the iterator that is read.
NotifyEmpty ==
    /\ pc = "start"
    /\ pc' = "iterate"
    /\ UNCHANGED <<plugged, iter, len, devnode, plugs, reports, served>>

\* IOServiceAddMatchingNotification(), and the first call of iterate_devices().
AddNotification ==
    /\ pc = "start"
    /\ pc' = "iterate"
    /\ iter' = plugged
    /\ UNCHANGED <<plugged, len, devnode, plugs, reports, served>>

\* Mutant: the iterator is started over for each port.
IteratorKept(n) == iter

IteratorNext(n) == iter \ {n}

\* IORegistryEntryGetProperty(): nothing is copied if len is too small.
Fits(n) == NodeLength[n] <= len

\* wait_on_parent_usbdevice() has found the USB device.
Sent(n) == n \in Usb \cap plugged

\* One turn of the loop of iterate_devices().
IterateOne(n) ==
    /\ pc = "iterate"
    /\ n \in iter
    /\ iter' = IteratorNext(n)
    /\ len' = IF Fits(n) THEN NodeLength[n] ELSE len
    /\ devnode' = IF Fits(n) THEN n ELSE devnode
    /\ IF Sent(n)
       THEN /\ reports' = [reports EXCEPT ![devnode'] = @ + 1]
            /\ served' = served \cup ({devnode'} \cap plugged)
       ELSE UNCHANGED <<reports, served>>
    /\ UNCHANGED <<pc, plugged, plugs>>

\* The iterator is empty, and the notification armed.
IterateEnds ==
    /\ pc = "iterate"
    /\ iter = {}
    /\ pc' = "loop"
    /\ UNCHANGED <<plugged, iter, len, devnode, plugs, reports, served>>

LenFirst == BufferLength

\* CFRunLoopRun() calls iterate_devices(), with locals of its own.
Notified ==
    /\ pc = "loop"
    /\ iter # {}
    /\ pc' = "iterate"
    /\ len' = LenFirst
    /\ devnode' = Garbage
    /\ UNCHANGED <<plugged, iter, plugs, reports, served>>

----------------------------------------------------------------------------
Init ==
    /\ pc = "start"
    /\ plugged \in SUBSET Nodes
    /\ iter = {} /\ len = BufferLength /\ devnode = Garbage
    /\ plugs = [n \in Nodes |-> IF n \in plugged THEN 1 ELSE 0]
    /\ reports = [n \in Nodes \cup {Garbage} |-> 0]
    /\ served = {}

Step ==
    \/ AddNotification \/ (\E n \in Nodes : IterateOne(n))
    \/ IterateEnds \/ Notified

Next == Step \/ \E n \in Nodes : Plug(n) \/ Unplug(n)

Spec == Init /\ [][Next]_vars

\* The detector runs; ports come and go as they like.
FairSpec == Spec /\ WF_vars(Step)

----------------------------------------------------------------------------
(***************************************************************************)
(* Properties                                                              *)
(***************************************************************************)

\* If the nodes of USB ports are as long as each other and no other port has a
\* shorter one, a node is not reported more often than its port has arrived,
\* and nothing is reported that is no node.
Even ==
    \A n \in Nodes, u \in Usb :
       NodeLength[n] >= NodeLength[u] /\ (n \in Usb => NodeLength[n] = NodeLength[u])
NoSurplusReport ==
    Even => /\ \A n \in Nodes : reports[n] <= plugs[n]
            /\ reports[Garbage] = 0

\* The daemon "waits for you to plug a monome in, then it spawns off a dedicated
\* server process" (README.md): every USB serial port that stays is reported, if
\* the lengths are even.  If not, a port with a longer node may never be: with
\* two monomes, 24 and 28 bytes, TLC finds it as soon as Even is left out.
PluggedIsReported ==
    Even => \A n \in Usb : n \in plugged ~> (n \in served \/ n \notin plugged)
=============================================================================
