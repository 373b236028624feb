--------------------------- MODULE Serialosc_proofs ---------------------------
(***************************************************************************)
(* Proofs about serialosc as a whole: its types, that no monome gets more  *)
(* device processes than it was plugged in for but for one that udevd was  *)
(* late to announce, that none is lost on the way to its process, and that *)
(* the processes are behind the switch that the Supervisor implements.  The detector's part is its own invariants,  *)
(* proved in Detector_proofs; what is added here follows a report through  *)
(* the pipe and into the process it starts.                                *)
(***************************************************************************)
EXTENDS Serialosc, FiniteSetTheorems, TLAPS

\* The detector with what is proved about it.
DP == INSTANCE Detector_proofs

\* The processes that have been started for a node.
Launched(n) == {d \in Devs : node[d] = n}

\* There are no more children than were started.
KidsFinite == IsFiniteSet(kids)

\* A report is in the pipe or has become a process, or it is lost.
Handed ==
    \A n \in Nodes : DP!Times(pipe, n) + Cardinality(Launched(n)) <= reports[n]

IInv == TypeOK /\ KidsFinite /\ DP!Phases /\ DP!Ordered /\ DP!Covered /\ Handed

USE BoundsAssumption, ProcsAssumption

-----------------------------------------------------------------------------
\* A step of the detector of Serialosc is one of the detector proved about.
LEMMA SameStep ==
    ASSUME D!Step
    PROVE  DP!Step
<1>1. CASE D!Enumerate
  BY <1>1 DEF D!Enumerate, DP!Enumerate, DP!Step
<1>2. ASSUME NEW n \in Nodes, D!ScanOne(n) PROVE DP!Step
  <2>1. DP!ScanOne(n)
    BY <1>2 DEF D!ScanOne, DP!ScanOne, D!Report, DP!Report
  <2> QED BY <2>1 DEF DP!Step
<1>3. CASE D!ScanEnds
  BY <1>3 DEF D!ScanEnds, DP!ScanEnds, DP!Step
<1>4. CASE D!OpenMonitor
  BY <1>4 DEF D!OpenMonitor, DP!OpenMonitor, DP!Step
<1>5. CASE D!Receive
  <2>1. DP!Receive
    BY <1>5 DEF D!Receive, DP!Receive, D!Report, DP!Report, D!IsAdd, DP!IsAdd
  <2> QED BY <2>1 DEF DP!Step
<1>6. CASE D!Fails
  BY <1>6 DEF D!Fails, DP!Fails, DP!Step
<1>7. CASE D!ReceiveNothing
  BY <1>7 DEF D!ReceiveNothing, DP!ReceiveNothing, DP!Step
<1> QED BY <1>1, <1>2, <1>3, <1>4, <1>5, <1>6, <1>7 DEF D!Step

\* A device that udevd announces is announced to both.
LEMMA SameBroadcast ==
    ASSUME NEW n \in Nodes, D!Broadcast(n)
    PROVE  DP!Broadcast(n)
BY DEF D!Broadcast, DP!Broadcast, D!Announce, DP!Announce, D!Listening, DP!Listening,
       D!LastWord, DP!LastWord, D!Deaf, DP!Deaf

\* The detector of Serialosc is the one that was proved about.
LEMMA SameDetector ==
    /\ D!TypeOK <=> DP!TypeOK
    /\ D!Init => DP!Init
    /\ D!Step => DP!Next
    /\ \A n \in Nodes : D!Plug(n) => DP!Next
    /\ \A n \in Nodes : D!Unplug(n) => DP!Next
    /\ \A n \in Nodes : D!Broadcast(n) => DP!Next
<1>1. D!TypeOK <=> DP!TypeOK
  BY DEF D!TypeOK, DP!TypeOK, D!Event, DP!Event
<1>2. D!Init => DP!Init
  BY DEF D!Init, DP!Init
<1>3. ASSUME D!Step PROVE DP!Next
  BY <1>3, SameStep DEF DP!Next
<1>4. ASSUME NEW n \in Nodes, D!Plug(n) PROVE DP!Next
  <2>1. DP!Plug(n)
    BY <1>4 DEF D!Plug, DP!Plug, D!KernelTells, DP!KernelTells
  <2> QED BY <2>1 DEF DP!Next
<1>5. ASSUME NEW n \in Nodes, D!Unplug(n) PROVE DP!Next
  <2>1. DP!Unplug(n)
    BY <1>5 DEF D!Unplug, DP!Unplug, D!KernelTells, DP!KernelTells
  <2> QED BY <2>1 DEF DP!Next
<1>6. ASSUME NEW n \in Nodes, D!Broadcast(n) PROVE DP!Next
  BY <1>6, SameBroadcast DEF DP!Next
<1> QED BY <1>1, <1>2, <1>3, <1>4, <1>5, <1>6

\* What the detector keeps, it keeps here.
LEMMA DetectorKeeps ==
    ASSUME IInv, [DP!Next]_DP!vars
    PROVE  D!TypeOK' /\ DP!Phases' /\ DP!Ordered' /\ DP!Covered'
<1>1. DP!IInv
  BY SameDetector DEF IInv, TypeOK, DP!IInv
<1>2. DP!IInv'
  BY <1>1, DP!Inductive
<1>3. DP!TypeOK' => D!TypeOK'
  BY DEF D!TypeOK, DP!TypeOK, D!Event, DP!Event
<1> QED BY <1>2, <1>3 DEF DP!IInv

\* A step of the detector reports one node, or none.
LEMMA OneReport ==
    ASSUME D!TypeOK, D!Step
    PROVE  \/ reports' = reports
           \/ \E n \in Nodes : reports' = [reports EXCEPT ![n] = @ + 1]
<1>1. ASSUME NEW n \in Nodes, D!ScanOne(n)
      PROVE  reports' = reports \/ reports' = [reports EXCEPT ![n] = @ + 1]
  BY <1>1 DEF D!ScanOne, D!Report
<1>2. CASE D!Receive
  <2>1. Head(events) \in D!Event
    BY <1>2 DEF D!Receive, D!TypeOK
  <2>2. Head(events).node \in Nodes
    BY <2>1 DEF D!Event
  <2> QED BY <1>2, <2>2 DEF D!Receive, D!Report
<1>3. CASE D!Enumerate \/ D!ScanEnds \/ D!OpenMonitor \/ D!Fails \/ D!ReceiveNothing
  BY <1>3 DEF D!Enumerate, D!ScanEnds, D!OpenMonitor, D!Fails, D!ReceiveNothing
<1> QED BY <1>1, <1>2, <1>3 DEF D!Step

\* Counts are numbers.
LEMMA Counts ==
    ASSUME IInv, NEW n \in Nodes
    PROVE  /\ DP!Times(pipe, n) \in Nat /\ reports[n] \in Nat /\ plugs[n] \in Nat
           /\ IsFiniteSet(Launched(n)) /\ Cardinality(Launched(n)) \in Nat
<1>1. Launched(n) \subseteq kids
  BY DEF IInv, TypeOK, Launched
<1>2. IsFiniteSet(Launched(n)) /\ Cardinality(Launched(n)) \in Nat
  BY <1>1, FS_Subset, FS_CardinalityType DEF IInv, KidsFinite
<1>3. DP!Times(pipe, n) \in Nat
  BY DP!TimesType DEF IInv, TypeOK
<1>4. reports[n] \in Nat /\ plugs[n] \in Nat
  BY DEF IInv, TypeOK, D!TypeOK
<1> QED BY <1>2, <1>3, <1>4

-----------------------------------------------------------------------------
\* The invariant holds at the start.
LEMMA Initially == Init => IInv
<1> SUFFICES ASSUME Init PROVE IInv
  OBVIOUS
<1>1. DP!IInv
  BY SameDetector, DP!Initially DEF Init
<1>2. TypeOK
  <2>1. D!TypeOK
    BY <1>1, SameDetector DEF DP!IInv
  <2>2. kids = {DetectorProc} /\ mode = "starting"
    BY DEF Init, S!Init
  <2> QED BY <2>1, <2>2 DEF Init, TypeOK
<1>3. KidsFinite
  BY FS_Singleton DEF Init, S!Init, KidsFinite
<1>4. Handed
  <2> SUFFICES ASSUME NEW n \in Nodes
               PROVE  DP!Times(pipe, n) + Cardinality(Launched(n)) <= reports[n]
    BY DEF Handed
  <2>1. Launched(n) = {}
    BY DEF Init, Launched
  <2>2. Cardinality(Launched(n)) = 0
    BY <2>1, FS_EmptySet
  <2>3. DP!Times(pipe, n) = 0
    BY DP!TimesEmpty DEF Init
  <2>4. reports[n] = 0
    BY DEF Init, D!Init
  <2> QED BY <2>2, <2>3, <2>4
<1> QED BY <1>1, <1>2, <1>3, <1>4 DEF IInv, DP!IInv

\* A step that leaves pipe, reports and processes alone hands nothing over.
LEMMA HandedKept ==
    ASSUME Handed, UNCHANGED <<pipe, reports, node>>
    PROVE  Handed'
  BY DEF Handed, Launched, DP!Times, DP!Places

\* Detect: what is reported goes into the pipe.
LEMMA HandedDetect ==
    ASSUME IInv, Detect
    PROVE  pipe' \in Seq(Nodes) /\ Handed'
<1> DEFINE new == {n \in Nodes : reports'[n] > reports[n]}
<1>1. /\ D!Step /\ D!TypeOK /\ pipe \in Seq(Nodes) /\ node' = node
      /\ reports \in [Nodes -> Nat]
      /\ pipe' = IF new = {} THEN pipe ELSE Append(pipe, CHOOSE n \in new : TRUE)
  BY DEF IInv, TypeOK, Detect, devices, D!TypeOK
<1>2. CASE reports' = reports
  <2>1. new = {}
    BY <1>1, <1>2
  <2>2. pipe' = pipe
    BY <1>1, <2>1
  <2> QED BY <1>1, <1>2, <2>2, HandedKept DEF IInv
<1>3. ASSUME NEW m \in Nodes, reports' = [reports EXCEPT ![m] = @ + 1]
      PROVE  pipe' \in Seq(Nodes) /\ Handed'
  <2>1. \A n \in Nodes : reports'[n] = IF n = m THEN reports[n] + 1 ELSE reports[n]
    BY <1>1, <1>3
  <2>2. new = {m}
    BY <1>1, <2>1
  <2>3. pipe' = Append(pipe, m)
    BY <1>1, <2>2
  <2>4. ASSUME NEW n \in Nodes
        PROVE  DP!Times(pipe', n) + Cardinality(Launched(n)') <= reports'[n]
    <3>1. Launched(n)' = Launched(n)
      BY <1>1 DEF Launched
    <3>2. DP!Times(pipe', n) = IF m = n THEN DP!Times(pipe, n) + 1 ELSE DP!Times(pipe, n)
      <4>1. pipe \in Seq(Nodes)
        BY <1>1
      <4>2. DP!Times(Append(pipe, m), n) = IF m = n THEN DP!Times(pipe, n) + 1
                                           ELSE DP!Times(pipe, n)
        BY <4>1, DP!TimesAppend
      <4> QED BY <2>3, <4>2
    <3>3. DP!Times(pipe, n) + Cardinality(Launched(n)) <= reports[n]
      BY DEF IInv, Handed
    <3> QED BY <2>1, <3>1, <3>2, <3>3, Counts
  <2> QED BY <1>1, <2>3, <2>4 DEF Handed
<1> QED BY <1>1, <1>2, <1>3, OneReport

\* Launch: a report leaves the pipe and becomes a process.
LEMMA HandedLaunch ==
    ASSUME IInv, NEW d \in Devs, Launch(d)
    PROVE  Handed'
<1>1. /\ pipe \in Seq(Nodes) /\ pipe # <<>> /\ pipe' = Tail(pipe) /\ reports' = reports
      /\ node \in [Devs -> Nodes \cup {NoNode}] /\ node' = [node EXCEPT ![d] = Head(pipe)]
      /\ d \notin kids
  BY DEF IInv, TypeOK, Launch, S!Spawn, NextMessages, detection
<1>2. node[d] = NoNode
  BY <1>1 DEF IInv, TypeOK
<1> SUFFICES ASSUME NEW n \in Nodes
             PROVE  DP!Times(pipe', n) + Cardinality(Launched(n)') <= reports'[n]
  BY DEF Handed
<1>3. DP!Times(pipe, n) = IF Head(pipe) = n THEN DP!Times(pipe', n) + 1 ELSE DP!Times(pipe', n)
  BY <1>1, DP!TimesTail
<1>4. DP!Times(pipe', n) \in Nat
  <2>1. pipe' \in Seq(Nodes)
    BY <1>1
  <2> QED BY <2>1, DP!TimesType
<1>5. d \notin Launched(n)
  BY <1>2 DEF Launched
<1>6. Launched(n)' = IF Head(pipe) = n THEN Launched(n) \cup {d} ELSE Launched(n)
  BY <1>1, <1>2 DEF Launched
<1>7. Cardinality(Launched(n) \cup {d}) = Cardinality(Launched(n)) + 1
  BY <1>5, Counts, FS_AddElement
<1>8. DP!Times(pipe, n) + Cardinality(Launched(n)) <= reports[n]
  BY DEF IInv, Handed
<1>9. Cardinality(Launched(n)') = IF Head(pipe) = n THEN Cardinality(Launched(n)) + 1
                                   ELSE Cardinality(Launched(n))
  BY <1>6, <1>7
<1> QED BY <1>1, <1>3, <1>4, <1>8, <1>9, Counts

\* Reap: a process less, and no more for another node.
LEMMA HandedReap ==
    ASSUME IInv, NEW d \in Devs, Reap(d)
    PROVE  Handed'
<1>1. /\ pipe' = pipe /\ reports' = reports /\ node' = [node EXCEPT ![d] = NoNode]
      /\ node \in [Devs -> Nodes \cup {NoNode}]
  BY DEF IInv, TypeOK, Reap, Released, detection
<1> SUFFICES ASSUME NEW n \in Nodes
             PROVE  DP!Times(pipe', n) + Cardinality(Launched(n)') <= reports'[n]
  BY DEF Handed
<1>2. Launched(n)' \subseteq Launched(n)
  BY <1>1 DEF Launched
<1>3. /\ Cardinality(Launched(n)') \in Nat
      /\ Cardinality(Launched(n)') <= Cardinality(Launched(n))
  BY <1>2, Counts, FS_Subset, FS_CardinalityType
<1>4. DP!Times(pipe', n) = DP!Times(pipe, n)
  BY <1>1
<1>5. DP!Times(pipe, n) + Cardinality(Launched(n)) <= reports[n]
  BY DEF IInv, Handed
<1> QED BY <1>1, <1>3, <1>4, <1>5, Counts

\* ReapDetector: what is in the pipe is lost.
LEMMA HandedLost ==
    ASSUME IInv, pipe' = <<>>, UNCHANGED <<reports, node>>
    PROVE  Handed'
<1> SUFFICES ASSUME NEW n \in Nodes
             PROVE  DP!Times(pipe', n) + Cardinality(Launched(n)') <= reports'[n]
  BY DEF Handed
<1>1. DP!Times(pipe', n) = 0
  BY DP!TimesEmpty
<1>2. Launched(n)' = Launched(n)
  BY DEF Launched
<1>3. DP!Times(pipe, n) + Cardinality(Launched(n)) <= reports[n]
  BY DEF IInv, Handed
<1> QED BY <1>1, <1>2, <1>3, Counts

\* What a new detector may hear of covers what udevd has still to announce.
LEMMA StillToSeeIs ==
    ASSUME NEW n \in Nodes, pending \in [Nodes -> Seq({"add", "remove"})], DP!Ordered
    PROVE  /\ StillToSee(n) \in Nat /\ DP!Unsaid(n) <= StillToSee(n)
           /\ n \in plugged => StillToSee(n) >= 1
<1>1. pending[n] \in Seq({"add", "remove"})
  OBVIOUS
<1>2. /\ DP!IsFiniteSet(DP!Places(pending[n], "add"))
      /\ DP!Times(pending[n], "add") \in Nat
  BY <1>1, DP!TimesType
<1>3. DP!Unsaid(n) = DP!Times(pending[n], "add")
  BY DEF DP!Unsaid
<1>4. CASE pending[n] = <<>>
  <2>1. DP!Unsaid(n) = 0
    BY <1>3, <1>4, DP!TimesEmpty
  <2> QED BY <1>4, <2>1 DEF StillToSee
<1>5. CASE pending[n] # <<>>
  <2>1. StillToSee(n) = DP!Times(pending[n], "add")
    BY <1>5 DEF StillToSee, DP!Times, DP!Places, Cardinality, DP!Cardinality
  <2>2. ASSUME n \in plugged PROVE DP!Times(pending[n], "add") # 0
    <3>1. /\ pending[n][Len(pending[n])] = "add"
          /\ Len(pending[n]) \in 1..Len(pending[n])
      BY <1>1, <1>5, <2>2 DEF DP!Ordered
    <3>2. DP!Places(pending[n], "add") # {}
      BY <3>1 DEF DP!Places
    <3> QED BY <1>2, <3>2, DP!FS_EmptySet DEF DP!Times
  <2> QED BY <1>2, <1>3, <2>1, <2>2
<1> QED BY <1>4, <1>5

\* Enable: no process of the former life is left.
LEMMA EnableStep ==
    ASSUME IInv, Enable
    PROVE  D!TypeOK' /\ DP!Phases' /\ DP!Ordered' /\ DP!Covered' /\ Handed'
<1>1. /\ kids = {} /\ pc' = "start" /\ found' = {} /\ events' = <<>> /\ overrun' = FALSE
      /\ plugs' = [n \in Nodes |-> StillToSee(n)]
      /\ reports' = [n \in Nodes |-> 0] /\ served' = {} /\ unseen' = {} /\ late' = {}
      /\ pipe' = <<>> /\ plugged' = plugged /\ pending' = pending /\ node' = node
  BY DEF Enable, S!TurnOn, Scans, devices
<1>2. plugged \subseteq Nodes /\ pending \in [Nodes -> Seq({"add", "remove"})]
  BY DEF IInv, TypeOK, D!TypeOK
<1>3. ASSUME NEW n \in Nodes
      PROVE  /\ StillToSee(n) \in Nat /\ DP!Unsaid(n) <= StillToSee(n)
             /\ n \in plugged => StillToSee(n) >= 1
  BY <1>2, StillToSeeIs DEF IInv
<1>4. D!TypeOK' /\ DP!Ordered'
  <2>1. plugs' \in [Nodes -> Nat] /\ reports' \in [Nodes -> Nat] /\ events' \in Seq(D!Event)
    BY <1>1, <1>3
  <2> QED BY <1>1, <1>2, <2>1 DEF D!TypeOK, DP!Ordered, IInv
<1>5. DP!Phases'
  BY <1>1, <1>2, <1>3 DEF DP!Phases, DP!Unsaid
<1>7. DP!Covered'
  <2> SUFFICES ASSUME NEW n \in Nodes
               PROVE  reports'[n] + DP!Owed(n)' <= plugs'[n] + DP!Excess(n)'
    BY DEF DP!Covered
  <2>1. DP!Times(events', DP!Added(n)) = 0
    BY <1>1, DP!TimesEmpty
  <2>2. /\ DP!Times(events, DP!Added(n))' = 0 /\ DP!Listed(n)' = 0 /\ DP!Excess(n)' = 0
        /\ DP!Unsaid(n)' = DP!Unsaid(n)
    BY <1>1, <2>1 DEF DP!Listed, DP!Excess, DP!Added, DP!Unsaid
  <2>3. DP!Unsaid(n) \in Nat
    BY <1>2, DP!TimesType DEF DP!Unsaid
  <2> QED BY <1>1, <1>3, <2>2, <2>3 DEF DP!Owed
<1>6. Handed'
  <2> SUFFICES ASSUME NEW n \in Nodes
               PROVE  DP!Times(pipe', n) + Cardinality(Launched(n)') <= reports'[n]
    BY DEF Handed
  <2>1. Launched(n)' = {}
    BY <1>1 DEF IInv, TypeOK, Launched
  <2>2. Cardinality(Launched(n)') = 0
    BY <2>1, FS_EmptySet
  <2>3. DP!Times(pipe', n) = 0
    BY <1>1, DP!TimesEmpty
  <2> QED BY <1>1, <2>2, <2>3
<1> QED BY <1>4, <1>5, <1>6, <1>7

\* Every step preserves the invariant.
LEMMA Inductive == IInv /\ [Next]_vars => IInv'
<1> SUFFICES ASSUME IInv, [Next]_vars PROVE IInv'
  OBVIOUS
<1>0. TypeOK /\ KidsFinite /\ DP!Phases /\ DP!Ordered /\ DP!Covered /\ Handed /\ D!TypeOK
  BY DEF IInv, TypeOK
\* What leaves the detector alone.
<1>d. ASSUME UNCHANGED detection
      PROVE  D!TypeOK' /\ DP!Phases' /\ DP!Ordered' /\ DP!Covered'
  BY <1>d, DetectorKeeps DEF detection, DP!vars
<1>1. CASE UNCHANGED vars
  <2>1. UNCHANGED <<mode, kids, detection, pipe, node, life, asked>>
    BY <1>1 DEF vars, switch, devices
  <2>2. Handed'
    BY <1>0, <2>1, HandedKept DEF detection
  <2> QED BY <1>0, <1>d, <2>1, <2>2 DEF IInv, TypeOK, KidsFinite
<1>2. ASSUME NEW n \in Nodes, Plug(n) PROVE IInv'
  <2>1. D!Plug(n) /\ UNCHANGED <<mode, kids, pipe, node, life, asked>>
    BY <1>2 DEF Plug, switch, devices
  <2>2. D!TypeOK' /\ DP!Phases' /\ DP!Ordered' /\ DP!Covered'
    BY <2>1, SameDetector, DetectorKeeps
  <2>3. Handed'
    BY <1>0, <2>1, HandedKept DEF D!Plug
  <2> QED BY <1>0, <2>1, <2>2, <2>3 DEF IInv, TypeOK, KidsFinite
<1>3. ASSUME NEW n \in Nodes, Unplug(n) PROVE IInv'
  <2>1. /\ D!Unplug(n) /\ UNCHANGED <<mode, kids, pipe, node, asked>>
        /\ life' = [d \in Devs |-> IF node[d] = n /\ life[d] = "serving" THEN "lost"
                                   ELSE life[d]]
    BY <1>3 DEF Unplug, switch
  <2>2. D!TypeOK' /\ DP!Phases' /\ DP!Ordered' /\ DP!Covered'
    BY <2>1, SameDetector, DetectorKeeps
  <2>3. Handed'
    BY <1>0, <2>1, HandedKept DEF D!Unplug
  <2>4. /\ life' \in [Devs -> {"none", "start", "serving", "lost", "left"}]
        /\ \A d \in Devs : (life'[d] # "none") = (life[d] # "none")
    BY <1>0, <2>1 DEF TypeOK
  <2> QED BY <1>0, <2>1, <2>2, <2>3, <2>4 DEF IInv, TypeOK, KidsFinite
<1>4. CASE Detect
  <2>1. D!Step /\ UNCHANGED <<mode, kids, node, life, asked>>
    BY <1>4 DEF Detect, switch, devices
  <2>2. D!TypeOK' /\ DP!Phases' /\ DP!Ordered' /\ DP!Covered'
    BY <2>1, SameDetector, DetectorKeeps
  <2>3. pipe' \in Seq(Nodes) /\ Handed'
    BY <1>4, HandedDetect
  <2> QED BY <1>0, <2>1, <2>2, <2>3 DEF IInv, TypeOK, KidsFinite
<1>5. CASE DetectorEnds
  <2>1. /\ pc' = "dead"
        /\ UNCHANGED <<mode, kids, plugged, pending, found, events, overrun, plugs,
                       reports, served, unseen, late, pipe, node, life, asked>>
    BY <1>5 DEF DetectorEnds, switch, devices
  <2>2. D!TypeOK' /\ DP!Phases' /\ DP!Ordered'
    BY <1>0, <2>1 DEF D!TypeOK, D!Event, DP!Phases, DP!Ordered
  <2>3. DP!Covered'
    BY <1>0, <2>1 DEF DP!Covered, DP!Owed, DP!Listed, DP!Unsaid, DP!Excess, DP!Times,
                      DP!Places, DP!Added
  <2>4. Handed'
    BY <1>0, <2>1, HandedKept
  <2> QED BY <1>0, <2>1, <2>2, <2>3, <2>4 DEF IInv, TypeOK, KidsFinite
<1>6. ASSUME NEW d \in Devs, Launch(d) PROVE IInv'
  <2>1. /\ pipe # <<>> /\ pipe' = Tail(pipe) /\ kids' = kids \cup {d} /\ mode' = mode
        /\ node' = [node EXCEPT ![d] = Head(pipe)] /\ life' = [life EXCEPT ![d] = "start"]
        /\ UNCHANGED <<detection, asked>>
    BY <1>6 DEF Launch, S!Spawn, NextMessages
  <2>2. Head(pipe) \in Nodes /\ pipe' \in Seq(Nodes)
    BY <1>0, <2>1 DEF TypeOK
  <2>3. KidsFinite'
    BY <1>0, <2>1, FS_AddElement DEF KidsFinite
  <2>4. TypeOK'
    BY <1>0, <1>d, <2>1, <2>2 DEF TypeOK
  <2> QED BY <1>6, <1>d, <2>1, <2>3, <2>4, HandedLaunch DEF IInv
<1>7. ASSUME NEW d \in Devs, Reap(d) PROVE IInv'
  <2>1. /\ kids' = kids \ {d} /\ mode' = mode /\ asked' = asked \ {d}
        /\ node' = [node EXCEPT ![d] = NoNode] /\ life' = [life EXCEPT ![d] = "none"]
        /\ UNCHANGED <<detection, pipe>>
    BY <1>7 DEF Reap, S!Reap, Released
  <2>2. KidsFinite'
    BY <1>0, <2>1, FS_Subset DEF KidsFinite
  <2>3. TypeOK'
    BY <1>0, <1>d, <2>1 DEF TypeOK
  <2> QED BY <1>7, <1>d, <2>1, <2>2, <2>3, HandedReap DEF IInv
<1>8. CASE ReapDetector
  <2>1. /\ kids' = kids \ {DetectorProc} /\ mode' = mode /\ pipe' = <<>>
        /\ UNCHANGED <<detection, node, life, asked>>
    BY <1>8 DEF ReapDetector, S!Reap, devices
  <2>2. KidsFinite'
    BY <1>0, <2>1, FS_Subset DEF KidsFinite
  <2>3. TypeOK'
    BY <1>0, <1>d, <2>1 DEF TypeOK
  <2>4. Handed'
    BY <2>1, HandedLost DEF detection
  <2> QED BY <1>d, <2>1, <2>2, <2>3, <2>4 DEF IInv
<1>9. CASE Disable
  <2>1. /\ mode' = "stopping" /\ asked' = kids \cap Devs
        /\ UNCHANGED <<kids, detection, pipe, node, life>>
    BY <1>9 DEF Disable, S!TurnOff
  <2>2. Handed'
    BY <1>0, <2>1, HandedKept DEF detection
  <2> QED BY <1>0, <1>d, <2>1, <2>2 DEF IInv, TypeOK, KidsFinite
<1>10. CASE Enable
  <2>1. /\ mode' = "starting" /\ kids = {} /\ kids' = {DetectorProc} /\ pipe' = <<>>
        /\ UNCHANGED <<node, life, asked>>
    BY <1>10 DEF Enable, S!TurnOn, devices
  <2>2. D!TypeOK' /\ DP!Phases' /\ DP!Ordered' /\ DP!Covered' /\ Handed'
    BY <1>10, EnableStep
  <2>3. KidsFinite'
    BY <2>1, FS_Singleton DEF KidsFinite
  <2>4. TypeOK'
    BY <1>0, <2>1, <2>2 DEF TypeOK
  <2> QED BY <2>2, <2>3, <2>4 DEF IInv
<1>11. CASE Settle
  <2>1. mode' \in {"on", "off"} /\ UNCHANGED <<kids, detection, pipe, node, life, asked>>
    BY <1>11 DEF Settle, S!Started, S!Stopped, devices
  <2>2. Handed'
    BY <1>0, <2>1, HandedKept DEF detection
  <2> QED BY <1>0, <1>d, <2>1, <2>2 DEF IInv, TypeOK, KidsFinite
<1>12. ASSUME NEW d \in Devs, Open(d) \/ Leave(d) PROVE IInv'
  <2>1. /\ UNCHANGED <<mode, kids, detection, pipe, node, asked>> /\ life[d] # "none"
        /\ \E l \in {"serving", "left"} : life' = [life EXCEPT ![d] = l]
    BY <1>12 DEF Open, Leave, switch
  <2>2. Handed'
    BY <1>0, <2>1, HandedKept DEF detection
  <2> QED BY <1>0, <1>d, <2>1, <2>2 DEF IInv, TypeOK, KidsFinite
<1>13. ASSUME NEW n \in Nodes, Broadcast(n) PROVE IInv'
  <2>1. D!Broadcast(n) /\ UNCHANGED <<mode, kids, pipe, node, life, asked>>
    BY <1>13 DEF Broadcast, switch, devices
  <2>2. D!TypeOK' /\ DP!Phases' /\ DP!Ordered' /\ DP!Covered'
    BY <2>1, SameDetector, DetectorKeeps
  <2>3. Handed'
    BY <1>0, <2>1, HandedKept DEF D!Broadcast
  <2> QED BY <1>0, <2>1, <2>2, <2>3 DEF IInv, TypeOK, KidsFinite
<1> QED
  BY <1>1, <1>2, <1>3, <1>4, <1>5, <1>6, <1>7, <1>8, <1>9, <1>10, <1>11, <1>12, <1>13
     DEF Next, Daemon

-----------------------------------------------------------------------------
\* The invariant holds in every state of the whole.
THEOREM Invariance == Spec => []IInv
  BY Initially, Inductive, PTL DEF Spec

\* Every variable keeps its type, those of the detector among them, and a
\* device process is there exactly as long as the daemon has not reaped it.
THEOREM TypeCorrect == Spec => []TypeOK
<1>1. IInv => TypeOK
  BY DEF IInv
<1> QED BY <1>1, Invariance, PTL

\* Whatever is plugged and unplugged, however late udevd is, and however often the
\* daemon is disabled and enabled and scans again, a monome has a process for each
\* plugging at most, and one more only if it was listed before it was announced.
THEOREM OnlyLateServedTwice == Spec => []SurplusServerIsLate
<1>1. IInv => SurplusServerIsLate
  <2> SUFFICES ASSUME IInv, NEW n \in Nodes
               PROVE  Cardinality(Launched(n)) <= plugs[n] + DP!Excess(n)
    BY DEF SurplusServerIsLate, Launched, DP!Excess
  <2>1. DP!TypeOK
    BY SameDetector DEF IInv, TypeOK
  <2>2. DP!Owed(n) \in Nat /\ DP!Excess(n) \in 0..1
    BY <2>1, DP!Counts DEF DP!Owed
  <2>3. reports[n] + DP!Owed(n) <= plugs[n] + DP!Excess(n)
    BY DEF IInv, DP!Covered
  <2>4. DP!Times(pipe, n) + Cardinality(Launched(n)) <= reports[n]
    BY DEF IInv, Handed
  <2> QED BY <2>2, <2>3, <2>4, Counts
<1> QED BY <1>1, Invariance, PTL

-----------------------------------------------------------------------------
\* Every step moves the switch as the abstract one may, or leaves it alone.
LEMMA SwitchStep == [Next]_vars => [S!Next]_S!pvars
<1> SUFFICES ASSUME [Next]_vars PROVE S!Next \/ UNCHANGED <<mode, kids>>
  BY DEF S!pvars
<1>1. CASE UNCHANGED vars
  BY <1>1 DEF vars, switch
<1>2. ASSUME NEW n \in Nodes, Plug(n) \/ Unplug(n) \/ Broadcast(n)
      PROVE  UNCHANGED <<mode, kids>>
  BY <1>2 DEF Plug, Unplug, Broadcast, switch
<1>3. CASE Detect \/ DetectorEnds
  BY <1>3 DEF Detect, DetectorEnds, switch
<1>4. ASSUME NEW d \in Devs, Launch(d) PROVE S!Next
  <2>1. S!Spawn({d}) /\ {d} \in SUBSET Devs
    BY <1>4 DEF Launch
  <2> QED BY <2>1 DEF S!Next
<1>5. ASSUME NEW d \in Devs, Reap(d) PROVE S!Next
  BY <1>5 DEF Reap, S!Next
<1>6. CASE ReapDetector
  BY <1>6 DEF ReapDetector, S!Next
<1>7. CASE Disable \/ Enable \/ Settle
  BY <1>7 DEF Disable, Enable, Settle, S!Next
<1>8. ASSUME NEW d \in Devs, Open(d) \/ Leave(d)
      PROVE  UNCHANGED <<mode, kids>>
  BY <1>8 DEF Open, Leave, switch
<1> QED
  BY <1>1, <1>2, <1>3, <1>4, <1>5, <1>6, <1>7, <1>8 DEF Next, Daemon

\* The daemon of the whole is the one that the Supervisor was shown to
\* implement: its processes come and go behind the switch as ProcessSwitch says.
THEOREM ImplementsSwitch == Spec => S!Spec
<1>1. Init => S!Init
  BY DEF Init
<1> QED BY <1>1, SwitchStep, PTL DEF Spec, S!Spec

-----------------------------------------------------------------------------
(***************************************************************************)
(* Nothing gets lost on the way                                            *)
(***************************************************************************)

\* The daemon is on and has its detector.
Watching == mode \in {"starting", "on"} /\ ~Ended

\* A report about n the daemon has not read, or a process for it that has not
\* begun to leave.
Waits(n) == \E i \in 1..Len(pipe) : pipe[i] = n
Attended(n) == \E d \in Devs : node[d] = n /\ life[d] \in {"start", "serving"}

\* The safety half of EnabledServes: a monome that is plugged in and was not
\* missed between the scan and the monitor has its report ahead of it, or under
\* way, or it has a process.
OnItsWay ==
    Watching => \A n \in plugged \ unseen :
                    DP!Ahead(n) \/ overrun \/ Waits(n) \/ Attended(n)

\* While the daemon is on no process has been asked to leave.
NobodyAsked ==
    /\ asked \subseteq kids
    /\ mode \in {"starting", "on"} => asked = {}

\* What the detector has reported since it was plugged in has not been lost.
ServedWay == Watching => \A n \in served : Waits(n) \/ Attended(n)

Way == OnItsWay /\ ServedWay

\* All of them, with the invariant they rest on.
WayInv == IInv /\ Way /\ NobodyAsked

\* The steps that leave the switch and the processes that were asked alone.
LEMMA NobodyAskedKept ==
    ASSUME NobodyAsked, asked' = asked, mode' = mode, kids \subseteq kids'
    PROVE  NobodyAsked'
  BY DEF NobodyAsked

\* A new monome is ahead of the detector.
LEMMA WayPlug ==
    ASSUME WayInv, NEW n \in Nodes, Plug(n)
    PROVE  Way'
<1>1. /\ D!Plug(n) /\ UNCHANGED <<mode, pipe, node, life>>
      /\ DP!TypeOK /\ plugged \subseteq Nodes
  BY SameDetector DEF WayInv, IInv, TypeOK, D!TypeOK, Plug, switch, devices
<1>2. /\ DP!KernelTells("add", n) /\ plugged' = plugged \cup {n}
      /\ UNCHANGED <<pc, found, events, overrun, served, unseen>>
  BY <1>1 DEF D!Plug, D!KernelTells, DP!KernelTells
<1>3. (\A m \in Nodes : DP!Ahead(m) => DP!Ahead(m)') /\ (DP!Ahead(n)' \/ Ended)
  BY <1>1, <1>2, DP!AheadTells DEF Ended
<1>4. \A m : Waits(m)' = Waits(m) /\ Attended(m)' = Attended(m)
  BY <1>1 DEF Waits, Attended
<1>5. Watching' = Watching
  BY <1>1, <1>2 DEF Watching, Ended
<1> QED BY <1>1, <1>2, <1>3, <1>4, <1>5 DEF WayInv, Way, OnItsWay, ServedWay, Watching

\* The processes of the other monomes go on.
LEMMA WayUnplug ==
    ASSUME WayInv, NEW n \in Nodes, Unplug(n)
    PROVE  Way'
<1>1. /\ D!Unplug(n) /\ UNCHANGED <<mode, pipe, node>>
      /\ DP!TypeOK /\ plugged \subseteq Nodes /\ served \subseteq plugged
      /\ life' = [d \in Devs |-> IF node[d] = n /\ life[d] = "serving" THEN "lost"
                                 ELSE life[d]]
  BY SameDetector DEF WayInv, IInv, TypeOK, D!TypeOK, Unplug, switch
<1>2. /\ DP!KernelTells("remove", n)
      /\ plugged' = plugged \ {n} /\ unseen' = unseen \ {n} /\ served' = served \ {n}
      /\ UNCHANGED <<pc, found, events, overrun>>
  BY <1>1 DEF D!Unplug, D!KernelTells, DP!KernelTells
<1>3. \A m \in Nodes : DP!Ahead(m) => DP!Ahead(m)'
  BY <1>1, <1>2, DP!AheadTells
<1>4. \A m \in plugged' : (Waits(m) => Waits(m)') /\ (Attended(m) => Attended(m)')
  BY <1>1, <1>2 DEF Waits, Attended
<1>5. Watching' = Watching
  BY <1>1, <1>2 DEF Watching, Ended
<1> QED BY <1>1, <1>2, <1>3, <1>4, <1>5 DEF WayInv, Way, OnItsWay, ServedWay

\* udevd announces a monome: the monitor hears of it, or it was missed, or it had
\* been reported.
LEMMA WayBroadcast ==
    ASSUME WayInv, NEW n \in Nodes, Broadcast(n)
    PROVE  Way'
<1>1. /\ D!Broadcast(n) /\ UNCHANGED <<mode, pipe, node, life>>
      /\ DP!TypeOK /\ DP!Ordered /\ plugged \subseteq Nodes
  BY SameDetector DEF WayInv, IInv, TypeOK, D!TypeOK, Broadcast, switch, devices
<1>2. /\ plugged' = plugged /\ pc' = pc /\ served' = served /\ unseen \subseteq unseen'
  BY <1>1 DEF D!Broadcast
<1>3. /\ \A m \in plugged : \/ DP!Ahead(m) => DP!Ahead(m)' \/ overrun'
                            \/ m \in served \cup unseen'
      /\ overrun => overrun'
  BY <1>1, SameBroadcast, DP!AheadBroadcast
<1>4. \A m : Waits(m)' = Waits(m) /\ Attended(m)' = Attended(m)
  BY <1>1 DEF Waits, Attended
<1>5. Watching' = Watching
  BY <1>1, <1>2 DEF Watching, Ended
<1> QED BY <1>2, <1>3, <1>4, <1>5 DEF WayInv, Way, OnItsWay, ServedWay

\* What the detector reports is in the pipe.
LEMMA WayDetect ==
    ASSUME WayInv, Detect
    PROVE  Way'
<1> DEFINE new == {n \in Nodes : reports'[n] > reports[n]}
<1>1. /\ D!Step /\ D!TypeOK /\ pipe \in Seq(Nodes)
      /\ UNCHANGED <<mode, node, life>>
      /\ reports \in [Nodes -> Nat] /\ served \subseteq plugged /\ plugged \subseteq Nodes
      /\ pipe' = IF new = {} THEN pipe ELSE Append(pipe, CHOOSE n \in new : TRUE)
  BY DEF WayInv, IInv, TypeOK, Detect, switch, devices, D!TypeOK
<1>2. plugged' = plugged /\ unseen' = unseen /\ overrun' = overrun
  BY <1>1 DEF D!Step, D!Enumerate, D!ScanOne, D!ScanEnds, D!OpenMonitor, D!Fails,
              D!Receive, D!ReceiveNothing
<1>3. ~Ended
  BY <1>1 DEF Ended, D!Step, D!Enumerate, D!ScanOne, D!ScanEnds, D!OpenMonitor, D!Fails,
              D!Receive, D!ReceiveNothing
<1>4. \A m : Attended(m)' = Attended(m)
  BY <1>1 DEF Attended
<1>5. /\ \A m \in Nodes : Waits(m) => Waits(m)'
      /\ \A m \in Nodes : reports'[m] = reports[m] + 1 => Waits(m)'
  <2>1. CASE reports' = reports
    <3>1. new = {} /\ \A m \in Nodes : reports'[m] # reports[m] + 1
      BY <1>1, <2>1
    <3>2. pipe' = pipe
      BY <1>1, <3>1
    <3> QED BY <3>1, <3>2 DEF Waits
  <2>2. ASSUME NEW k \in Nodes, reports' = [reports EXCEPT ![k] = @ + 1]
        PROVE  /\ \A m \in Nodes : Waits(m) => Waits(m)'
               /\ \A m \in Nodes : reports'[m] = reports[m] + 1 => Waits(m)'
    <3>1. \A n \in Nodes : reports'[n] = IF n = k THEN reports[n] + 1 ELSE reports[n]
      BY <1>1, <2>2
    <3>2. new = {k}
      BY <1>1, <3>1
    <3>3. pipe' = Append(pipe, k)
      BY <1>1, <3>2
    <3>4. /\ Len(pipe) \in Nat /\ Len(pipe') = Len(pipe) + 1 /\ pipe'[Len(pipe) + 1] = k
          /\ \A i \in 1..Len(pipe) : pipe'[i] = pipe[i]
      BY <1>1, <3>3
    <3>5. \A m \in Nodes : Waits(m) => Waits(m)'
      BY <3>4 DEF Waits
    <3>6. Waits(k)'
      BY <3>4 DEF Waits
    <3>7. \A m \in Nodes : reports'[m] = reports[m] + 1 => m = k
      BY <1>1, <3>1
    <3> QED BY <3>5, <3>6, <3>7
  <2> QED BY <1>1, <2>1, <2>2, OneReport
<1>6. DP!TypeOK /\ DP!Step
  <2>1. DP!TypeOK
    BY <1>1, SameDetector
  <2> QED BY <1>1, <2>1, SameStep
<1>7. \A n \in plugged : DP!Ahead(n) => \/ DP!Ahead(n)' \/ reports'[n] = reports[n] + 1
                                        \/ overrun \/ pc' = "failed"
  BY <1>6, DP!AheadStep
<1>8. served' \subseteq Nodes
      /\ \A n \in served' : n \in served \/ reports'[n] = reports[n] + 1
  <2>1. ASSUME NEW n \in Nodes, D!Report(n)
        PROVE  \/ served' = served
               \/ served' = served \cup {n} /\ reports'[n] = reports[n] + 1
    BY <1>1, <2>1 DEF D!Report
  <2>2. CASE \E n \in Nodes : D!Report(n)
    BY <1>1, <2>1, <2>2
  <2>3. CASE served' = served
    BY <1>1, <2>3
  <2>4. CASE D!Receive
    <3>1. Head(events) \in D!Event
      BY <1>1, <2>4 DEF D!Receive, D!TypeOK
    <3>2. Head(events).node \in Nodes
      BY <3>1 DEF D!Event
    <3> QED BY <2>2, <2>3, <2>4, <3>2 DEF D!Receive
  <2>5. CASE ~D!Receive
    BY <1>1, <2>2, <2>3, <2>5 DEF D!Step, D!Enumerate, D!ScanOne, D!ScanEnds,
          D!OpenMonitor, D!Fails, D!ReceiveNothing
  <2> QED BY <2>4, <2>5
<1>9. Watching' => Watching /\ pc' # "failed"
  BY <1>1, <1>3 DEF Watching, Ended
<1>10. OnItsWay'
  BY <1>1, <1>2, <1>4, <1>5, <1>7, <1>9 DEF WayInv, Way, OnItsWay
<1>11. ServedWay'
  BY <1>4, <1>5, <1>8, <1>9, <1>1 DEF WayInv, Way, ServedWay
<1> QED BY <1>10, <1>11 DEF Way

\* A report that is taken out of the pipe has become a process.
LEMMA WayLaunch ==
    ASSUME WayInv, NEW d \in Devs, Launch(d)
    PROVE  Way'
<1>1. /\ pipe \in Seq(Nodes) /\ pipe # <<>> /\ pipe' = Tail(pipe)
      /\ node \in [Devs -> Nodes \cup {NoNode}] /\ node' = [node EXCEPT ![d] = Head(pipe)]
      /\ life \in [Devs -> {"none", "start", "serving", "lost", "left"}]
      /\ life' = [life EXCEPT ![d] = "start"]
      /\ mode' = mode /\ UNCHANGED detection
      /\ life[d] = "none"
  BY DEF WayInv, IInv, TypeOK, Launch, S!Spawn, NextMessages
<1>2. \A m : Attended(m) => Attended(m)'
  BY <1>1 DEF Attended
<1>3. ASSUME NEW m, Waits(m) PROVE Waits(m)' \/ Attended(m)'
  <2>1. PICK i \in 1..Len(pipe) : pipe[i] = m
    BY <1>3 DEF Waits
  <2>2. /\ Len(pipe) \in Nat /\ Len(pipe') = Len(pipe) - 1
        /\ \A j \in 1..Len(pipe') : pipe'[j] = pipe[j + 1]
        /\ Head(pipe) = pipe[1]
    BY <1>1
  <2>3. CASE i = 1
    BY <1>1, <2>1, <2>2, <2>3 DEF Attended
  <2>4. CASE i # 1
    <3>1. i - 1 \in 1..Len(pipe') /\ (i - 1) + 1 = i
      BY <2>1, <2>2, <2>4
    <3>2. pipe'[i - 1] = m
      BY <2>1, <2>2, <3>1
    <3> QED BY <3>1, <3>2 DEF Waits
  <2> QED BY <2>3, <2>4
<1>4. \A m : DP!Ahead(m)' = DP!Ahead(m)
  BY <1>1 DEF detection, DP!Ahead, DP!Heard
<1> QED BY <1>1, <1>2, <1>3, <1>4 DEF WayInv, Way, OnItsWay, ServedWay, Watching, Ended,
                                     detection

\* A process is reaped, opens its monome or leaves it.
LEMMA WayProcess ==
    ASSUME WayInv, NEW d \in Devs, Reap(d) \/ Open(d) \/ Leave(d)
    PROVE  Way'
<1>1. /\ node \in [Devs -> Nodes \cup {NoNode}]
      /\ life \in [Devs -> {"none", "start", "serving", "lost", "left"}]
      /\ mode' = mode /\ UNCHANGED <<detection, pipe>> /\ served \subseteq plugged
  BY DEF WayInv, IInv, TypeOK, D!TypeOK, Reap, S!Reap, Open, Leave, switch
<1>2. \A m : DP!Ahead(m)' = DP!Ahead(m) /\ Waits(m)' = Waits(m)
  BY <1>1 DEF detection, DP!Ahead, DP!Heard, Waits
<1>3. ASSUME NEW m \in plugged, Watching, Attended(m) PROVE Attended(m)'
  <2>1. PICK e \in Devs : node[e] = m /\ life[e] \in {"start", "serving"}
    BY <1>3 DEF Attended
  <2>2. CASE Reap(d)
    BY <1>1, <2>1, <2>2 DEF Reap, Released, Attended
  <2>3. CASE Open(d)
    BY <1>1, <2>1, <2>3 DEF Open, Opens, Attended
  <2>4. CASE Leave(d)
    <3>1. asked = {}
      BY <1>3 DEF WayInv, NobodyAsked, Watching
    <3> QED BY <1>1, <2>1, <2>4, <3>1 DEF Leave, Attended
  <2> QED BY <2>2, <2>3, <2>4
<1> QED BY <1>1, <1>2, <1>3 DEF WayInv, Way, OnItsWay, ServedWay, Watching, Ended, detection

\* Every step keeps them.
LEMMA WayKept == WayInv /\ [Next]_vars => WayInv'
<1> SUFFICES ASSUME WayInv, [Next]_vars PROVE WayInv'
  OBVIOUS
<1>0. IInv /\ OnItsWay /\ ServedWay /\ NobodyAsked
  BY DEF WayInv, Way
<1>i. IInv'
  BY <1>0, Inductive
<1>1. CASE UNCHANGED vars
  <2>1. Way'
    BY <1>0, <1>1 DEF vars, switch, detection, devices, Way, OnItsWay, ServedWay, Watching,
                      Ended, Waits, Attended, DP!Ahead, DP!Heard
  <2>2. NobodyAsked'
    BY <1>0, <1>1 DEF vars, switch, devices, NobodyAsked
  <2> QED BY <1>i, <2>1, <2>2 DEF WayInv
<1>2. ASSUME NEW n \in Nodes, Plug(n) PROVE WayInv'
  <2>1. NobodyAsked'
    BY <1>0, <1>2, NobodyAskedKept DEF Plug, switch, devices
  <2> QED BY <1>i, <1>2, <2>1, WayPlug DEF WayInv
<1>3. ASSUME NEW n \in Nodes, Unplug(n) PROVE WayInv'
  <2>1. NobodyAsked'
    BY <1>0, <1>3, NobodyAskedKept DEF Unplug, switch
  <2> QED BY <1>i, <1>3, <2>1, WayUnplug DEF WayInv
<1>4. CASE Detect
  <2>1. NobodyAsked'
    BY <1>0, <1>4, NobodyAskedKept DEF Detect, switch, devices
  <2> QED BY <1>i, <1>4, <2>1, WayDetect DEF WayInv
<1>5. CASE DetectorEnds
  <2>1. NobodyAsked'
    BY <1>0, <1>5, NobodyAskedKept DEF DetectorEnds, switch, devices
  <2>2. Way'
    BY <1>5 DEF DetectorEnds, Way, OnItsWay, ServedWay, Watching, Ended
  <2> QED BY <1>i, <2>1, <2>2 DEF WayInv
<1>6. ASSUME NEW d \in Devs, Launch(d) PROVE WayInv'
  <2>1. NobodyAsked'
    BY <1>0, <1>6, NobodyAskedKept DEF Launch, S!Spawn
  <2> QED BY <1>i, <1>6, <2>1, WayLaunch DEF WayInv
<1>7. ASSUME NEW d \in Devs, Reap(d) PROVE WayInv'
  <2>1. NobodyAsked'
    BY <1>0, <1>7 DEF Reap, S!Reap, NobodyAsked
  <2> QED BY <1>i, <1>7, <2>1, WayProcess DEF WayInv
<1>8. CASE ReapDetector
  <2>1. /\ Ended /\ pc' = pc /\ mode' = mode /\ asked' = asked
        /\ kids' = kids \ {DetectorProc}
    BY <1>8 DEF ReapDetector, S!Reap, detection, devices
  <2>2. Way'
    BY <2>1 DEF Way, OnItsWay, ServedWay, Watching, Ended
  <2>3. DetectorProc \notin asked
    BY <1>0 DEF IInv, TypeOK
  <2>4. NobodyAsked'
    BY <1>0, <2>1, <2>3 DEF NobodyAsked
  <2> QED BY <1>i, <2>2, <2>4 DEF WayInv
<1>9. CASE Disable
  <2>1. mode' = "stopping" /\ asked' = kids \cap Devs /\ kids' = kids
    BY <1>9 DEF Disable, S!TurnOff
  <2> QED BY <1>i, <2>1 DEF WayInv, Way, OnItsWay, ServedWay, Watching, NobodyAsked
<1>10. CASE Enable
  <2>1. kids = {} /\ pc' = "start" /\ served' = {} /\ asked' = asked
    BY <1>10 DEF Enable, S!TurnOn, Scans, devices
  <2>2. Way'
    BY <2>1 DEF Way, OnItsWay, ServedWay, DP!Ahead
  <2>3. NobodyAsked'
    BY <1>0, <2>1 DEF NobodyAsked
  <2> QED BY <1>i, <2>2, <2>3 DEF WayInv
<1>11. CASE Settle
  <2>1. /\ UNCHANGED <<kids, detection, pipe, node, life, asked>>
        /\ (mode = "starting" /\ mode' = "on") \/ mode' = "off"
    BY <1>11 DEF Settle, S!Started, S!Stopped, devices
  <2>2. NobodyAsked'
    BY <1>0, <2>1 DEF NobodyAsked
  <2>3. Way'
    BY <1>0, <2>1 DEF Way, OnItsWay, ServedWay, Watching, Ended, detection, Waits, Attended,
                      DP!Ahead, DP!Heard
  <2> QED BY <1>i, <2>2, <2>3 DEF WayInv
<1>12. ASSUME NEW d \in Devs, Open(d) \/ Leave(d) PROVE WayInv'
  <2>1. NobodyAsked'
    BY <1>0, <1>12, NobodyAskedKept DEF Open, Leave, switch
  <2> QED BY <1>i, <1>12, <2>1, WayProcess DEF WayInv
<1>13. ASSUME NEW n \in Nodes, Broadcast(n) PROVE WayInv'
  <2>1. NobodyAsked'
    BY <1>0, <1>13, NobodyAskedKept DEF Broadcast, switch, devices
  <2> QED BY <1>i, <1>13, <2>1, WayBroadcast DEF WayInv
<1> QED
  BY <1>1, <1>2, <1>3, <1>4, <1>5, <1>6, <1>7, <1>8, <1>9, <1>10, <1>11, <1>12, <1>13
     DEF Next, Daemon

\* As long as the daemon is on and its detector lives, a monome that is plugged
\* in and was not missed between the scan and the monitor has its report ahead of
\* it, or under way, or it has a process that has not begun to leave; or more has
\* happened at once than the monitor holds.
THEOREM NothingLost == Spec => []OnItsWay
<1>1. Init => WayInv
  <2> SUFFICES ASSUME Init PROVE WayInv
    OBVIOUS
  <2>1. IInv
    BY Initially
  <2> QED BY <2>1 DEF WayInv, Way, Init, D!Init, OnItsWay, ServedWay, DP!Ahead, NobodyAsked
<1>2. WayInv => OnItsWay
  BY DEF WayInv, Way
<1> QED BY <1>1, <1>2, WayKept, PTL DEF Spec
=============================================================================
