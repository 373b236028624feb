----------------------------- MODULE MCDetectors -----------------------------
\* DetectorMac and DetectorWindows for TLC: the detector is the one of a system
\* that is chosen at the start.
EXTENDS DetectorMac, Sequences

VARIABLES
    system,                     \* "mac" or "windows"
    found, messages, early      \* those of DetectorWindows alone

\* On Windows every COM port is one that may have a monome behind it.
Windows == INSTANCE DetectorWindows WITH Nodes <- Usb

windowsOnly == <<found, messages, early>>
macOnly == <<iter, len, devnode>>
allVars == <<vars, system, windowsOnly>>

\* Two monomes, and a port that is not on USB and has a longer node.
CONSTANTS n1, n2, other
EvenLengths == [n \in Nodes |-> IF n = other THEN 33 ELSE 28]

MCInit ==
    \/ /\ system = "mac" /\ Init
       /\ found = {} /\ messages = <<>> /\ early = [n \in Usb |-> 0]
    \/ /\ system = "windows" /\ Windows!Init
       /\ iter = {} /\ len = BufferLength /\ devnode = Garbage

MCStep ==
    \/ system = "mac" /\ Step /\ UNCHANGED <<system, windowsOnly>>
    \/ system = "windows" /\ Windows!Step /\ UNCHANGED <<system, macOnly>>
MCNext ==
    \/ system = "mac" /\ Next /\ UNCHANGED <<system, windowsOnly>>
    \/ system = "windows" /\ Windows!Next /\ UNCHANGED <<system, macOnly>>

MCSpec == MCInit /\ [][MCNext]_allVars /\ WF_allVars(MCStep)

\* NoSurplusReport of the detector on macOS, and PluggedIsReported of each.
MacNoSurplusReport == system = "mac" => NoSurplusReport
MacPluggedIsReported == system = "mac" => PluggedIsReported
WindowsSurplusIsEarly == system = "windows" => Windows!SurplusIsEarly
WindowsPluggedIsReported == system = "windows" => Windows!PluggedIsReported
==============================================================================
