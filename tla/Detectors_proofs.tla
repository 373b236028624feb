-------------------------- MODULE Detectors_proofs --------------------------
(***************************************************************************)
(* Proofs about the detectors for macOS and Windows.  On macOS no port is  *)
(* reported more often than it has arrived, as long as their nodes are of  *)
(* the same length; on Windows only those that arrived between the         *)
(* notification and the list.  On neither is a port forgotten.             *)
(***************************************************************************)
EXTENDS MCDetectors, TLAPS

(***************************************************************************)
(* macOS                                                                   *)
(***************************************************************************)

\* What may still be reported for n.
Owed(n) == IF n \in iter THEN 1 ELSE 0

\* Before the notification nothing has been reported.
Phases ==
    pc = "start" => /\ iter = {}
                    /\ \A n \in Nodes : reports[n] = 0
                    /\ \A n \in plugged : plugs[n] >= 1

\* There is room for the node of any USB port.
Room == \A u \in Usb : len >= NodeLength[u]

\* What was reported and what may still be has arrived.
Covered ==
    /\ \A n \in Nodes : reports[n] + Owed(n) <= plugs[n]
    /\ reports[Garbage] = 0

IInv == TypeOK /\ Phases /\ (Even => Room /\ Covered)

-----------------------------------------------------------------------------
\* The invariant holds when the detector starts.
LEMMA Initially == Init => IInv
<1> SUFFICES ASSUME Init PROVE IInv
  OBVIOUS
<1>1. TypeOK
  BY DEF Init, TypeOK, BufferLength
<1>2. Phases
  BY DEF Init, Phases
<1>3. Room
  BY NodesAssumption DEF Init, Room
<1>4. Covered
  BY NodesAssumption DEF Init, Covered, Owed
<1> QED
  BY <1>1, <1>2, <1>3, <1>4 DEF IInv

\* A turn of the loop reports the port it has taken from the iterator, or none.
LEMMA OneTurn ==
    ASSUME IInv, NEW n \in Nodes, IterateOne(n)
    PROVE  IInv'
<1>1. /\ len \in 1..BufferLength /\ devnode \in Nodes \cup {Garbage}
      /\ reports \in [Nodes \cup {Garbage} -> Nat] /\ plugs \in [Nodes -> Nat]
      /\ served \subseteq plugged /\ iter \subseteq Nodes /\ plugged \subseteq Nodes
  BY DEF IInv, TypeOK
<1>2. /\ pc = "iterate" /\ pc' = pc /\ n \in iter /\ iter' = iter \ {n}
      /\ plugged' = plugged /\ plugs' = plugs
      /\ len' = IF Fits(n) THEN NodeLength[n] ELSE len
      /\ devnode' = IF Fits(n) THEN n ELSE devnode
  BY DEF IterateOne, IteratorNext
<1>3. CASE Sent(n)
  <2>1. /\ reports' = [reports EXCEPT ![devnode'] = @ + 1]
        /\ served' = served \cup ({devnode'} \cap plugged)
    BY <1>3 DEF IterateOne
  <2>2. len' \in 1..BufferLength /\ devnode' \in Nodes \cup {Garbage}
    BY <1>1, <1>2, NodesAssumption
  <2>3. reports' \in [Nodes \cup {Garbage} -> Nat]
    BY <1>1, <2>1, <2>2
  <2>4. TypeOK'
    BY <1>1, <1>2, <2>1, <2>2, <2>3 DEF TypeOK
  <2>5. Phases'
    BY <1>2 DEF Phases
  <2>6. ASSUME Even PROVE Room' /\ Covered'
    <3>1. Room /\ Covered
      BY <2>6 DEF IInv
    <3>2. n \in Usb
      BY <1>3 DEF Sent
    <3>3. Fits(n)
      BY <3>1, <3>2 DEF Room, Fits
    <3>4. devnode' = n /\ len' = NodeLength[n]
      BY <1>2, <3>3
    <3>5. Room'
      BY <2>6, <3>4 DEF Even, Room
    <3>6. reports' = [reports EXCEPT ![n] = @ + 1]
      BY <2>1, <3>4
    <3>7. n # Garbage
      BY NodesAssumption
    <3>8. ASSUME NEW m \in Nodes PROVE reports'[m] + Owed(m)' <= plugs'[m]
      <4>1. reports'[m] = IF m = n THEN reports[m] + 1 ELSE reports[m]
        BY <1>1, <3>6
      <4>2. Owed(m)' = IF m = n THEN 0 ELSE Owed(m)
        BY <1>2 DEF Owed
      <4>3. m = n => Owed(m) = 1
        BY <1>2 DEF Owed
      <4>4. Owed(m) \in 0..1 /\ reports[m] \in Nat /\ plugs[m] \in Nat
        BY <1>1 DEF Owed
      <4>5. reports[m] + Owed(m) <= plugs[m]
        BY <3>1 DEF Covered
      <4> QED
        BY <1>2, <4>1, <4>2, <4>3, <4>4, <4>5
    <3>9. reports'[Garbage] = 0
      BY <1>1, <3>1, <3>6, <3>7 DEF Covered
    <3> QED
      BY <3>5, <3>8, <3>9 DEF Covered
  <2> QED
    BY <2>4, <2>5, <2>6 DEF IInv, Even
<1>4. CASE ~Sent(n)
  <2>1. reports' = reports /\ served' = served
    BY <1>4 DEF IterateOne
  <2>2. len' \in 1..BufferLength /\ devnode' \in Nodes \cup {Garbage}
    BY <1>1, <1>2, NodesAssumption
  <2>3. TypeOK'
    BY <1>1, <1>2, <2>1, <2>2 DEF TypeOK
  <2>4. Phases'
    BY <1>2 DEF Phases
  <2>5. ASSUME Even PROVE Room' /\ Covered'
    <3>1. Room /\ Covered
      BY <2>5 DEF IInv
    <3>2. Room'
      BY <1>2, <2>5, <3>1 DEF Even, Room
    <3>3. ASSUME NEW m \in Nodes PROVE reports'[m] + Owed(m)' <= plugs'[m]
      <4>1. Owed(m)' <= Owed(m) /\ Owed(m) \in 0..1 /\ Owed(m)' \in 0..1
        BY <1>2 DEF Owed
      <4>2. reports[m] \in Nat /\ plugs[m] \in Nat
        BY <1>1
      <4>3. reports[m] + Owed(m) <= plugs[m]
        BY <3>1 DEF Covered
      <4> QED
        BY <1>2, <2>1, <4>1, <4>2, <4>3
    <3> QED
      BY <2>1, <3>1, <3>2, <3>3 DEF Covered
  <2> QED
    BY <2>3, <2>4, <2>5 DEF IInv, Even
<1> QED
  BY <1>3, <1>4

\* A port arrives.
LEMMA Arrives ==
    ASSUME IInv, NEW n \in Nodes, Plug(n)
    PROVE  IInv'
<1>1. /\ reports \in [Nodes \cup {Garbage} -> Nat] /\ plugs \in [Nodes -> Nat]
      /\ TypeOK /\ Phases
  BY DEF IInv, TypeOK
<1>2. /\ n \notin plugged /\ plugged' = plugged \cup {n}
      /\ plugs' = [plugs EXCEPT ![n] = @ + 1]
      /\ iter' = IF pc = "start" THEN iter ELSE iter \cup {n}
      /\ pc' = pc /\ len' = len /\ devnode' = devnode /\ reports' = reports /\ served' = served
  BY DEF Plug
<1>3. \A m \in Nodes : plugs'[m] = IF m = n THEN plugs[m] + 1 ELSE plugs[m]
  BY <1>1, <1>2
<1>4. TypeOK'
  BY <1>1, <1>2 DEF TypeOK
<1>5. Phases'
  BY <1>1, <1>2, <1>3 DEF Phases, TypeOK
<1>6. ASSUME Even PROVE Room' /\ Covered'
  <2>1. Room /\ Covered
    BY <1>6 DEF IInv
  <2>2. ASSUME NEW m \in Nodes PROVE reports'[m] + Owed(m)' <= plugs'[m]
    <3>1. /\ Owed(m)' <= Owed(m) + (IF m = n THEN 1 ELSE 0)
          /\ Owed(m) \in 0..1 /\ Owed(m)' \in 0..1
      BY <1>2 DEF Owed
    <3>2. reports[m] \in Nat /\ plugs[m] \in Nat /\ reports[m] + Owed(m) <= plugs[m]
      BY <1>1, <2>1 DEF Covered
    <3> QED
      BY <1>2, <1>3, <3>1, <3>2
  <2> QED
    BY <1>2, <2>1, <2>2 DEF Covered, Room
<1> QED
  BY <1>4, <1>5, <1>6 DEF IInv, Even

\* Every step preserves the invariant.
LEMMA Inductive == IInv /\ [Next]_vars => IInv'
<1> SUFFICES ASSUME IInv, [Next]_vars PROVE IInv'
  OBVIOUS
<1>1. CASE UNCHANGED vars
  BY <1>1 DEF vars, IInv, TypeOK, Phases, Even, Room, Covered, Owed
<1>2. CASE AddNotification
  <2>1. TypeOK' /\ Phases'
    BY <1>2 DEF AddNotification, IInv, TypeOK, Phases
  <2>2. ASSUME Even PROVE Room' /\ Covered'
    <3>1. Room /\ Covered
      BY <2>2 DEF IInv
    <3>2. ASSUME NEW m \in Nodes PROVE reports[m] + Owed(m)' <= plugs[m]
      <4>1. reports[m] = 0 /\ plugs[m] \in Nat /\ m \in plugged => plugs[m] >= 1
        BY <1>2 DEF AddNotification, IInv, TypeOK, Phases
      <4>2. Owed(m)' = IF m \in plugged THEN 1 ELSE 0
        BY <1>2 DEF AddNotification, Owed
      <4>3. reports[m] = 0 /\ plugs[m] \in Nat
        BY <1>2 DEF AddNotification, IInv, TypeOK, Phases
      <4> QED
        BY <4>1, <4>2, <4>3
    <3> QED
      BY <1>2, <3>1, <3>2 DEF AddNotification, Room, Covered
  <2> QED
    BY <2>1, <2>2 DEF IInv, Even
<1>3. ASSUME NEW n \in Nodes, IterateOne(n) PROVE IInv'
  BY <1>3, OneTurn
<1>4. CASE IterateEnds
  BY <1>4 DEF IterateEnds, IInv, TypeOK, Phases, Even, Room, Covered, Owed
<1>5. CASE Notified
  <2>1. TypeOK' /\ Phases'
    BY <1>5 DEF Notified, LenFirst, BufferLength, IInv, TypeOK, Phases
  <2>2. Room'
    BY <1>5, NodesAssumption DEF Notified, LenFirst, Room
  <2>3. Covered => Covered'
    BY <1>5 DEF Notified, Covered, Owed
  <2> QED
    BY <2>1, <2>2, <2>3 DEF IInv, Even
<1>6. ASSUME NEW n \in Nodes, Plug(n) PROVE IInv'
  BY <1>6, Arrives
<1>7. ASSUME NEW n \in Nodes, Unplug(n) PROVE IInv'
  BY <1>7 DEF Unplug, IInv, TypeOK, Phases, Even, Room, Covered, Owed
<1> QED
  BY <1>1, <1>2, <1>3, <1>4, <1>5, <1>6, <1>7 DEF Next, Step

-----------------------------------------------------------------------------
\* The invariant holds in every state the detector reaches.
THEOREM Invariance == Spec => []IInv
  BY Initially, Inductive, PTL DEF Spec

\* The detector's variables keep their types: among others, the length never
\* leaves the buffer's, whatever the lengths of the nodes.
THEOREM TypeCorrect == Spec => []TypeOK
<1>1. IInv => TypeOK
  BY DEF IInv
<1> QED
  BY <1>1, Invariance, PTL

\* Of what is covered nothing is reported too often.
LEMMA CoveredSuffices ==
    ASSUME IInv PROVE NoSurplusReport
<1> SUFFICES ASSUME Even
             PROVE  (\A n \in Nodes : reports[n] <= plugs[n]) /\ reports[Garbage] = 0
  BY DEF NoSurplusReport
<1>1. Covered /\ TypeOK
  BY DEF IInv
<1>2. ASSUME NEW n \in Nodes PROVE reports[n] <= plugs[n]
  <2>1. Owed(n) \in 0..1 /\ reports[n] \in Nat /\ plugs[n] \in Nat
    BY <1>1 DEF Owed, TypeOK
  <2> QED
    BY <1>1, <2>1 DEF Covered
<1> QED
  BY <1>1, <1>2 DEF Covered

\* If the nodes of USB ports are as long as each other, a port is not reported
\* more often than it has arrived, and nothing but nodes is reported.
THEOREM NoneTwice == Spec => []NoSurplusReport
  BY CoveredSuffices, Invariance, PTL

-----------------------------------------------------------------------------
(***************************************************************************)
(* Windows                                                                 *)
(***************************************************************************)

\* How often a sequence holds an element, and how that changes with Append and
\* Tail, is in the proofs about the Linux detector; of its variables only the
\* queue has a counterpart here.
Linux == INSTANCE Detector_proofs WITH
    Nodes <- Usb, QueueSize <- 0, events <- messages, overrun <- FALSE,
    pending <- <<>>, unseen <- {}, late <- {}

\* What may still be reported for n: an entry of the list, or messages.
WindowsOwed(n) == (IF n \in found THEN 1 ELSE 0) + Linux!Times(messages, n)

\* Until the list is made nothing is reported, and every message is of a port
\* that the list will have, too, if it stays.
WindowsPhases ==
    pc \in {"start", "list"} =>
      /\ found = {}
      /\ \A n \in Usb : reports[n] = 0 /\ Linux!Times(messages, n) <= early[n]
      /\ \A n \in plugged : plugs[n] >= 1

\* What was reported and what may still be has arrived, the early ones twice.
WindowsCovered ==
    \A n \in Usb : reports[n] + WindowsOwed(n) <= plugs[n] + early[n]

WindowsInv == Windows!TypeOK /\ WindowsPhases /\ WindowsCovered

\* Counts are numbers.
LEMMA WindowsCounts ==
    ASSUME Windows!TypeOK, NEW n \in Usb
    PROVE  /\ Linux!Times(messages, n) \in Nat /\ WindowsOwed(n) \in Nat
           /\ reports[n] \in Nat /\ plugs[n] \in Nat /\ early[n] \in Nat
<1>1. Linux!Times(messages, n) \in Nat
  BY MaxPlugsAssumption, Linux!TimesType DEF Windows!TypeOK
<1>2. reports[n] \in Nat /\ plugs[n] \in Nat /\ early[n] \in Nat
  BY DEF Windows!TypeOK
<1> QED BY <1>1, <1>2 DEF WindowsOwed

\* The invariant holds when the detector starts.
LEMMA WindowsInitially == Windows!Init => WindowsInv
<1> SUFFICES ASSUME Windows!Init PROVE WindowsInv
  OBVIOUS
<1>1. /\ pc = "start" /\ plugged \subseteq Usb /\ found = {} /\ messages = <<>>
      /\ plugs = [n \in Usb |-> IF n \in plugged THEN 1 ELSE 0]
      /\ early = [n \in Usb |-> 0] /\ reports = [n \in Usb |-> 0] /\ served = {}
  BY DEF Windows!Init
<1>2. Windows!TypeOK
  <2>1. plugs \in [Usb -> Nat] /\ early \in [Usb -> Nat] /\ reports \in [Usb -> Nat]
        /\ messages \in Seq(Usb)
    BY <1>1
  <2> QED BY <1>1, <2>1 DEF Windows!TypeOK
<1>3. \A n \in Usb : Linux!Times(messages, n) = 0
  BY <1>1, MaxPlugsAssumption, Linux!TimesEmpty
<1>4. WindowsPhases
  BY <1>1, <1>3 DEF WindowsPhases
<1>5. WindowsCovered
  BY <1>1, <1>3 DEF WindowsCovered, WindowsOwed
<1> QED BY <1>2, <1>4, <1>5 DEF WindowsInv

\* send_connect() reports one port.
LEMMA WindowsReport ==
    ASSUME Windows!TypeOK, NEW n \in Usb, Windows!Report(n)
    PROVE  /\ reports' \in [Usb -> Nat] /\ served' \subseteq plugged
           /\ \A m \in Usb : reports'[m] = IF m = n THEN reports[m] + 1 ELSE reports[m]
<1>1. reports \in [Usb -> Nat] /\ served \subseteq plugged
  BY DEF Windows!TypeOK
<1>2. /\ reports' = [reports EXCEPT ![n] = @ + 1]
      /\ served' = served \cup ({n} \cap plugged)
  BY DEF Windows!Report
<1> QED BY <1>1, <1>2

\* A port arrives.
LEMMA WindowsArrives ==
    ASSUME WindowsInv, NEW n \in Usb, Windows!Plug(n)
    PROVE  WindowsInv'
<1>0. Windows!TypeOK /\ WindowsPhases /\ WindowsCovered
  BY DEF WindowsInv
<1>1. /\ plugged \subseteq Usb /\ messages \in Seq(Usb)
      /\ plugs \in [Usb -> Nat] /\ early \in [Usb -> Nat] /\ reports \in [Usb -> Nat]
  BY <1>0 DEF Windows!TypeOK
<1>2. /\ plugged' = plugged \cup {n} /\ plugs' = [plugs EXCEPT ![n] = @ + 1]
      /\ messages' = IF pc # "start" THEN Append(messages, n) ELSE messages
      /\ early' = IF pc = "list" THEN [early EXCEPT ![n] = @ + 1] ELSE early
      /\ pc' = pc /\ found' = found /\ reports' = reports /\ served' = served
  BY DEF Windows!Plug, Windows!Notifies
<1>3. Windows!TypeOK'
  BY <1>0, <1>1, <1>2 DEF Windows!TypeOK
<1>4. \A m \in Usb : plugs'[m] = IF m = n THEN plugs[m] + 1 ELSE plugs[m]
  BY <1>1, <1>2
<1>5. \A m \in Usb : early'[m] = IF pc = "list" /\ m = n THEN early[m] + 1 ELSE early[m]
  BY <1>1, <1>2
<1>6. ASSUME NEW m \in Usb
      PROVE  Linux!Times(messages', m) = IF pc # "start" /\ m = n
                                         THEN Linux!Times(messages, m) + 1
                                         ELSE Linux!Times(messages, m)
  <2>1. Linux!Times(Append(messages, n), m) = IF n = m THEN Linux!Times(messages, m) + 1
                                              ELSE Linux!Times(messages, m)
    BY <1>1, MaxPlugsAssumption, Linux!TimesAppend
  <2> QED BY <1>2, <2>1
<1>7. WindowsPhases'
  <2> SUFFICES ASSUME pc \in {"start", "list"}
               PROVE  /\ found' = {}
                      /\ \A m \in Usb : reports'[m] = 0
                                        /\ Linux!Times(messages', m) <= early'[m]
                      /\ \A m \in plugged' : plugs'[m] >= 1
    BY <1>2 DEF WindowsPhases
  <2>1. found' = {} /\ \A m \in Usb : reports'[m] = 0
    BY <1>0, <1>2 DEF WindowsPhases
  <2>2. ASSUME NEW m \in Usb PROVE Linux!Times(messages', m) <= early'[m]
    <3>1. Linux!Times(messages, m) <= early[m]
      BY <1>0 DEF WindowsPhases
    <3> QED BY <1>0, <1>5, <1>6, <3>1, WindowsCounts
  <2>3. ASSUME NEW m \in plugged' PROVE plugs'[m] >= 1
    <3>1. m \in Usb /\ plugs[m] \in Nat
      BY <1>1, <1>2
    <3>2. m # n => plugs[m] >= 1
      BY <1>0, <1>2 DEF WindowsPhases
    <3> QED BY <1>4, <3>1, <3>2
  <2> QED BY <2>1, <2>2, <2>3
<1>8. WindowsCovered'
  <2> SUFFICES ASSUME NEW m \in Usb
               PROVE  reports'[m] + WindowsOwed(m)' <= plugs'[m] + early'[m]
    BY DEF WindowsCovered
  <2>1. reports[m] + WindowsOwed(m) <= plugs[m] + early[m]
    BY <1>0 DEF WindowsCovered
  <2>2. early[m] <= early'[m] /\ early'[m] \in Nat
    BY <1>0, <1>5, WindowsCounts
  <2>3. plugs'[m] = plugs[m] + (IF m = n THEN 1 ELSE 0)
    BY <1>0, <1>4, WindowsCounts
  <2>4. WindowsOwed(m)' <= WindowsOwed(m) + (IF m = n THEN 1 ELSE 0)
        /\ WindowsOwed(m)' \in Nat
    BY <1>0, <1>2, <1>6, WindowsCounts DEF WindowsOwed
  <2>5. /\ reports'[m] = reports[m] /\ reports[m] \in Nat /\ plugs[m] \in Nat
        /\ early[m] \in Nat /\ WindowsOwed(m) \in Nat
    BY <1>0, <1>2, WindowsCounts
  <2> HIDE DEF WindowsOwed
  <2> QED BY <2>1, <2>2, <2>3, <2>4, <2>5
<1> QED BY <1>3, <1>7, <1>8 DEF WindowsInv

\* A listed port is reported, or has gone and is not.
LEMMA WindowsScan ==
    ASSUME WindowsInv, NEW n \in Usb, Windows!ScanOne(n)
    PROVE  WindowsInv'
<1>0. Windows!TypeOK /\ WindowsPhases /\ WindowsCovered
  BY DEF WindowsInv
<1>1. /\ pc = "scan" /\ n \in found /\ found' = found \ {n} /\ pc' = pc
      /\ plugged' = plugged /\ messages' = messages /\ plugs' = plugs /\ early' = early
      /\ Windows!Report(n) \/ (reports' = reports /\ served' = served)
  BY DEF Windows!ScanOne, Windows!ScanRest
<1>2. /\ reports' \in [Usb -> Nat] /\ served' \subseteq plugged
      /\ \A m \in Usb : reports'[m] <= reports[m] + (IF m = n THEN 1 ELSE 0)
  <2>1. CASE Windows!Report(n)
    BY <1>0, <2>1, WindowsReport, WindowsCounts
  <2>2. CASE reports' = reports /\ served' = served
    BY <1>0, <2>2, WindowsCounts DEF Windows!TypeOK
  <2> QED BY <1>1, <2>1, <2>2
<1>3. Windows!TypeOK'
  BY <1>0, <1>1, <1>2 DEF Windows!TypeOK
<1>4. WindowsPhases'
  BY <1>1 DEF WindowsPhases
<1>5. WindowsCovered'
  <2> SUFFICES ASSUME NEW m \in Usb
               PROVE  reports'[m] + WindowsOwed(m)' <= plugs'[m] + early'[m]
    BY DEF WindowsCovered
  <2>1. reports[m] + WindowsOwed(m) <= plugs[m] + early[m]
    BY <1>0 DEF WindowsCovered
  <2>2. WindowsOwed(m) = WindowsOwed(m)' + (IF m = n THEN 1 ELSE 0)
        /\ WindowsOwed(m)' \in Nat
    BY <1>0, <1>1, WindowsCounts DEF WindowsOwed
  <2>3. reports'[m] \in Nat /\ reports'[m] <= reports[m] + (IF m = n THEN 1 ELSE 0)
    BY <1>2
  <2> QED BY <1>0, <1>1, <2>1, <2>2, <2>3, WindowsCounts
<1> QED BY <1>3, <1>4, <1>5 DEF WindowsInv

\* The window is told of an arrival.
LEMMA WindowsMessage ==
    ASSUME WindowsInv, Windows!Arrival
    PROVE  WindowsInv'
<1> DEFINE n == Head(messages)
<1>0. Windows!TypeOK /\ WindowsPhases /\ WindowsCovered
  BY DEF WindowsInv
<1>1. /\ pc = "loop" /\ messages # <<>> /\ messages' = Tail(messages) /\ Windows!Report(n)
      /\ pc' = pc /\ plugged' = plugged /\ found' = found /\ plugs' = plugs /\ early' = early
  BY DEF Windows!Arrival
<1>2. messages \in Seq(Usb) /\ n \in Usb /\ messages' \in Seq(Usb)
  BY <1>0, <1>1 DEF Windows!TypeOK
<1>3. \A m \in Usb : Linux!Times(messages, m) = IF n = m THEN Linux!Times(messages', m) + 1
                                                ELSE Linux!Times(messages', m)
  <2> SUFFICES ASSUME NEW m \in Usb
               PROVE  Linux!Times(messages, m) = IF n = m THEN Linux!Times(Tail(messages), m) + 1
                                                 ELSE Linux!Times(Tail(messages), m)
    BY <1>1
  <2> QED BY <1>1, <1>2, MaxPlugsAssumption, Linux!TimesTail
<1>4. \A m \in Usb : Linux!Times(messages', m) \in Nat
  BY <1>2, MaxPlugsAssumption, Linux!TimesType
<1> HIDE DEF n
<1>5. /\ reports' \in [Usb -> Nat] /\ served' \subseteq plugged
      /\ \A m \in Usb : reports'[m] = IF m = n THEN reports[m] + 1 ELSE reports[m]
  BY <1>0, <1>1, <1>2, WindowsReport
<1>6. Windows!TypeOK'
  BY <1>0, <1>1, <1>2, <1>5 DEF Windows!TypeOK
<1>7. WindowsPhases'
  BY <1>1 DEF WindowsPhases
<1>8. WindowsCovered'
  <2> SUFFICES ASSUME NEW m \in Usb
               PROVE  reports'[m] + WindowsOwed(m)' <= plugs'[m] + early'[m]
    BY DEF WindowsCovered
  <2>1. reports[m] + WindowsOwed(m) <= plugs[m] + early[m]
    BY <1>0 DEF WindowsCovered
  <2>2. WindowsOwed(m) = WindowsOwed(m)' + (IF m = n THEN 1 ELSE 0)
        /\ WindowsOwed(m)' \in Nat
    BY <1>1, <1>3, <1>4 DEF WindowsOwed
  <2> QED BY <1>0, <1>1, <1>5, <2>1, <2>2, WindowsCounts
<1> QED BY <1>6, <1>7, <1>8 DEF WindowsInv

\* Every step preserves the invariant.
LEMMA WindowsInductive ==
    ASSUME WindowsInv, Windows!Next \/ UNCHANGED Windows!vars
    PROVE  WindowsInv'
<1>0. Windows!TypeOK /\ WindowsPhases /\ WindowsCovered
  BY DEF WindowsInv
<1>1. CASE UNCHANGED Windows!vars
  BY <1>0, <1>1 DEF Windows!vars, WindowsInv, Windows!TypeOK, WindowsPhases,
       WindowsCovered, WindowsOwed, Linux!Times, Linux!Places
<1>2. CASE Windows!Register
  <2>1. pc = "start" /\ pc' = "list"
        /\ UNCHANGED <<plugged, found, messages, plugs, early, reports, served>>
    BY <1>2 DEF Windows!Register
  <2> QED BY <1>0, <2>1 DEF WindowsInv, Windows!TypeOK, WindowsPhases,
       WindowsCovered, WindowsOwed, Linux!Times, Linux!Places
<1>3. CASE Windows!List
  <2>1. /\ pc = "list" /\ pc' = "scan" /\ found' = plugged
        /\ UNCHANGED <<plugged, messages, plugs, early, reports, served>>
    BY <1>3 DEF Windows!List
  <2>2. Windows!TypeOK' /\ WindowsPhases'
    BY <1>0, <2>1 DEF Windows!TypeOK, WindowsPhases
  <2>3. ASSUME NEW m \in Usb
        PROVE  reports'[m] + WindowsOwed(m)' <= plugs'[m] + early'[m]
    <3>1. /\ reports[m] = 0 /\ Linux!Times(messages, m) <= early[m]
          /\ m \in plugged => plugs[m] >= 1
      BY <1>0, <2>1 DEF WindowsPhases
    <3>2. WindowsOwed(m)' = (IF m \in plugged THEN 1 ELSE 0) + Linux!Times(messages, m)
      BY <2>1 DEF WindowsOwed
    <3> QED BY <1>0, <2>1, <3>1, <3>2, WindowsCounts
  <2> QED BY <2>2, <2>3 DEF WindowsInv, WindowsCovered
<1>4. ASSUME NEW n \in Usb, Windows!ScanOne(n) PROVE WindowsInv'
  BY <1>4, WindowsScan
<1>5. CASE Windows!ScanEnds
  <2>1. pc' = "loop" /\ UNCHANGED <<plugged, found, messages, plugs, early, reports, served>>
    BY <1>5 DEF Windows!ScanEnds
  <2> QED BY <1>0, <2>1 DEF WindowsInv, Windows!TypeOK, WindowsPhases,
       WindowsCovered, WindowsOwed, Linux!Times, Linux!Places
<1>6. CASE Windows!Arrival
  BY <1>6, WindowsMessage
<1>7. ASSUME NEW n \in Usb, Windows!Plug(n) PROVE WindowsInv'
  BY <1>7, WindowsArrives
<1>8. ASSUME NEW n \in Usb, Windows!Unplug(n) PROVE WindowsInv'
  <2>1. /\ plugged' = plugged \ {n} /\ served' = served \ {n}
        /\ UNCHANGED <<pc, found, messages, plugs, early, reports>>
    BY <1>8 DEF Windows!Unplug
  <2>2. Windows!TypeOK'
    BY <1>0, <2>1 DEF Windows!TypeOK
  <2>3. WindowsPhases'
    BY <1>0, <2>1 DEF WindowsPhases
  <2>4. WindowsCovered'
    BY <1>0, <2>1 DEF WindowsCovered, WindowsOwed, Linux!Times, Linux!Places
  <2> QED BY <2>2, <2>3, <2>4 DEF WindowsInv
<1> QED
  BY <1>1, <1>2, <1>3, <1>4, <1>5, <1>6, <1>7, <1>8 DEF Windows!Next, Windows!Step

-----------------------------------------------------------------------------
(***************************************************************************)
(* The detector of the system it was built for                             *)
(***************************************************************************)

EitherInv ==
    /\ system \in {"mac", "windows"}
    /\ system = "mac" => IInv
    /\ system = "windows" => WindowsInv

\* The invariant of the system's detector holds in every state it reaches.
THEOREM EitherInvariance == MCSpec => []EitherInv
<1>1. MCInit => EitherInv
  BY Initially, WindowsInitially DEF MCInit, EitherInv
<1>2. EitherInv /\ [MCNext]_allVars => EitherInv'
  <2> SUFFICES ASSUME EitherInv, [MCNext]_allVars PROVE EitherInv'
    OBVIOUS
  <2>1. CASE system = "mac" /\ Next /\ UNCHANGED <<system, windowsOnly>>
    BY <2>1, Inductive DEF EitherInv
  <2>2. CASE system = "windows" /\ Windows!Next /\ UNCHANGED <<system, macOnly>>
    BY <2>2, WindowsInductive DEF EitherInv
  <2>3. CASE UNCHANGED allVars
    <3>1. UNCHANGED vars /\ UNCHANGED Windows!vars /\ system' = system
      BY <2>3 DEF allVars, vars, windowsOnly, Windows!vars
    <3> QED BY <3>1, Inductive, WindowsInductive DEF EitherInv
  <2> QED BY <2>1, <2>2, <2>3 DEF MCNext
<1> QED BY <1>1, <1>2, PTL DEF MCSpec

\* On macOS no port is reported more often than it has arrived, if the nodes
\* are of one length.
THEOREM NoneTwiceOnMac == MCSpec => []MacNoSurplusReport
<1>1. EitherInv => MacNoSurplusReport
  <2> SUFFICES ASSUME IInv PROVE NoSurplusReport
    BY DEF EitherInv, MacNoSurplusReport
  <2> QED BY CoveredSuffices
<1> QED BY <1>1, EitherInvariance, PTL

\* On Windows a port is reported once for each arrival, and a second time at
\* most for one between the notification and the list, whatever arrives and
\* goes while the list is made and the window told.
THEOREM OnlyEarlyTwice == MCSpec => []WindowsSurplusIsEarly
<1>1. EitherInv => WindowsSurplusIsEarly
  <2> SUFFICES ASSUME WindowsInv, NEW n \in Usb
               PROVE  reports[n] <= plugs[n] + early[n]
    BY DEF EitherInv, WindowsSurplusIsEarly, Windows!SurplusIsEarly
  <2>1. reports[n] + WindowsOwed(n) <= plugs[n] + early[n]
    BY DEF WindowsInv, WindowsCovered
  <2> QED BY <2>1, WindowsCounts DEF WindowsInv
<1> QED BY <1>1, EitherInvariance, PTL

-----------------------------------------------------------------------------
(***************************************************************************)
(* Nothing is forgotten                                                    *)
(***************************************************************************)

\* What PluggedIsReported rests on, on macOS: a USB port that is there has been
\* reported, or the iterator still holds it or will.
MacNotForgotten ==
    Even => \A n \in Usb \cap plugged : n \in served \/ n \in iter \/ pc = "start"

\* A message for n that the window has still to be told of.
Told(n) == \E i \in 1..Len(messages) : messages[i] = n

\* On Windows, a port that is there has been reported, or it will be in the list
\* or is still in it, or the window will be told of it.
WindowsNotForgotten ==
    \A n \in plugged :
       \/ n \in served \/ Told(n)
       \/ pc \in {"start", "list"}
       \/ pc = "scan" /\ n \in found

\* Every step of the macOS detector keeps it, as there is room for the node of
\* a USB port.
LEMMA MacNotForgottenKept ==
    ASSUME IInv, MacNotForgotten, [Next]_vars
    PROVE  MacNotForgotten'
<1> SUFFICES ASSUME Even, NEW n \in Usb \cap plugged'
             PROVE  n \in served' \/ n \in iter' \/ pc' = "start"
  BY DEF MacNotForgotten, Even
<1>0. n \in Nodes /\ Room
  BY NodesAssumption DEF IInv
<1>1. n \in plugged => n \in served \/ n \in iter \/ pc = "start"
  BY DEF MacNotForgotten
<1>2. ASSUME NEW m \in Nodes, IterateOne(m) PROVE n \in served' \/ n \in iter'
  <2>1. /\ n \in plugged /\ pc # "start" /\ iter' = iter \ {m} /\ served \subseteq served'
    BY <1>2 DEF IterateOne, IteratorNext
  <2>2. ASSUME n = m PROVE n \in served'
    <3>1. Fits(n) /\ Sent(n)
      BY <1>0, <2>1 DEF Room, Fits, Sent
    <3> QED BY <1>2, <2>1, <2>2, <3>1 DEF IterateOne
  <2> QED BY <1>1, <2>1, <2>2
<1>3. CASE AddNotification \/ IterateEnds \/ Notified
  BY <1>1, <1>3 DEF AddNotification, IterateEnds, Notified
<1>4. ASSUME NEW m \in Nodes, Plug(m) \/ Unplug(m)
      PROVE  n \in served' \/ n \in iter' \/ pc' = "start"
  BY <1>1, <1>4 DEF Plug, Unplug
<1>5. CASE UNCHANGED vars
  BY <1>1, <1>5 DEF vars
<1> QED BY <1>2, <1>3, <1>4, <1>5 DEF Next, Step

\* Every step of the Windows detector keeps it.
LEMMA WindowsNotForgottenKept ==
    ASSUME Windows!TypeOK, WindowsNotForgotten, Windows!Next \/ UNCHANGED Windows!vars
    PROVE  WindowsNotForgotten'
<1>0. plugged \subseteq Usb /\ messages \in Seq(Usb)
  BY DEF Windows!TypeOK
<1>1. CASE UNCHANGED Windows!vars
  BY <1>1 DEF Windows!vars, WindowsNotForgotten, Told
<1>2. CASE Windows!Register \/ Windows!List \/ Windows!ScanEnds
  BY <1>2 DEF Windows!Register, Windows!List, Windows!ScanEnds, WindowsNotForgotten, Told
<1>3. ASSUME NEW n \in Usb, Windows!ScanOne(n) PROVE WindowsNotForgotten'
  BY <1>3 DEF Windows!ScanOne, Windows!ScanRest, Windows!Report, WindowsNotForgotten, Told
<1>4. CASE Windows!Arrival
  <2>1. /\ pc = "loop" /\ messages # <<>> /\ messages' = Tail(messages) /\ pc' = pc
        /\ plugged' = plugged /\ served' = served \cup ({Head(messages)} \cap plugged)
    BY <1>4 DEF Windows!Arrival, Windows!Report
  <2>2. /\ Len(messages) \in Nat /\ Len(messages') = Len(messages) - 1
        /\ \A i \in 1..Len(messages') : messages'[i] = messages[i + 1]
        /\ Head(messages) = messages[1]
    BY <1>0, <2>1
  <2>3. ASSUME NEW n \in plugged, Told(n) PROVE n \in served' \/ Told(n)'
    <3>1. PICK i \in 1..Len(messages) : messages[i] = n
      BY <2>3 DEF Told
    <3>2. CASE i = 1
      BY <2>1, <2>2, <3>1, <3>2
    <3>3. CASE i # 1
      <4>1. i - 1 \in 1..Len(messages') /\ (i - 1) + 1 = i
        BY <2>2, <3>1, <3>3
      <4>2. messages'[i - 1] = n
        BY <2>2, <3>1, <4>1
      <4> QED BY <4>1, <4>2 DEF Told
    <3> QED BY <3>2, <3>3
  <2> QED BY <2>1, <2>3 DEF WindowsNotForgotten
<1>5. ASSUME NEW n \in Usb, Windows!Plug(n) PROVE WindowsNotForgotten'
  <2>1. /\ plugged' = plugged \cup {n} /\ pc' = pc /\ found' = found /\ served' = served
        /\ messages' = IF pc # "start" THEN Append(messages, n) ELSE messages
    BY <1>5 DEF Windows!Plug, Windows!Notifies
  <2>2. CASE pc = "start"
    BY <2>1, <2>2 DEF WindowsNotForgotten
  <2>3. CASE pc # "start"
    <3>1. /\ Len(messages) \in Nat /\ Len(messages') = Len(messages) + 1
          /\ messages'[Len(messages) + 1] = n
          /\ \A i \in 1..Len(messages) : messages'[i] = messages[i]
      BY <1>0, <2>1, <2>3
    <3>2. Told(n)'
      BY <3>1 DEF Told
    <3>3. \A m \in plugged : Told(m) => Told(m)'
      BY <3>1 DEF Told
    <3> QED BY <2>1, <3>2, <3>3 DEF WindowsNotForgotten
  <2> QED BY <2>2, <2>3
<1>6. ASSUME NEW n \in Usb, Windows!Unplug(n) PROVE WindowsNotForgotten'
  BY <1>6 DEF Windows!Unplug, WindowsNotForgotten, Told
<1> QED
  BY <1>1, <1>2, <1>3, <1>4, <1>5, <1>6 DEF Windows!Next, Windows!Step

\* NotForgotten of the detector that runs.
NotForgotten ==
    /\ system = "mac" => MacNotForgotten
    /\ system = "windows" => WindowsNotForgotten

\* Whichever of the two systems runs, a port that is there has been reported or
\* its report is ahead: on Windows without a condition, on macOS if the nodes of
\* USB ports are of one length.
THEOREM NothingForgotten == MCSpec => []NotForgotten
<1>1. MCInit => NotForgotten
  BY DEF MCInit, Init, Windows!Init, NotForgotten, MacNotForgotten, WindowsNotForgotten
<1>2. EitherInv /\ NotForgotten /\ [MCNext]_allVars => NotForgotten'
  <2> SUFFICES ASSUME EitherInv, NotForgotten, [MCNext]_allVars PROVE NotForgotten'
    OBVIOUS
  <2>1. CASE system = "mac" /\ Next /\ UNCHANGED <<system, windowsOnly>>
    BY <2>1, MacNotForgottenKept DEF EitherInv, NotForgotten
  <2>2. CASE system = "windows" /\ Windows!Next /\ UNCHANGED <<system, macOnly>>
    BY <2>2, WindowsNotForgottenKept DEF EitherInv, WindowsInv, NotForgotten
  <2>3. CASE UNCHANGED allVars
    <3>1. UNCHANGED vars /\ UNCHANGED Windows!vars /\ system' = system
      BY <2>3 DEF allVars, vars, windowsOnly, Windows!vars
    <3> QED BY <3>1, MacNotForgottenKept, WindowsNotForgottenKept
            DEF EitherInv, WindowsInv, NotForgotten
  <2> QED BY <2>1, <2>2, <2>3 DEF MCNext
<1> QED BY <1>1, <1>2, EitherInvariance, PTL DEF MCSpec
=============================================================================
