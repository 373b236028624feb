-------------------------- MODULE Supervisor_proofs --------------------------
(***************************************************************************)
(* Proofs about Supervisor, for every set of device records and clients,   *)
(* every bound on notifications, and whether or not uv_spawn() may fail    *)
(* and SIGPIPE may kill.                                                   *)
(***************************************************************************)
EXTENDS Supervisor, TLAPS

(***************************************************************************)
(* The inductive invariant, in parts                                       *)
(***************************************************************************)

\* Pipes close before the process handle, which lives until a whole round of
\* close callbacks later; a child lives only behind open pipes.  A detector
\* that could not be spawned leaves its handles open for ever.
HandleOrder(s) ==
    /\ proc[s] \in {"absent", "closing"} => pipes[s] = "absent" /\ child[s] = "none"
    /\ proc[s] = "open" =>
         \/ child[s] # "none" /\ pipes[s] = "open"
         \/ child[s] = "none" /\ pipes[s] = "closing"
         \/ /\ s = Detector /\ SpawnMayFail /\ state = "DISABLED" /\ ~check_active
            /\ child[s] = "none" /\ pipes[s] = "open"
    /\ child[s] = "none" => fromQ[s] = <<>>

HandlesInv == \A s \in Subs : HandleOrder(s)

\* The position of the switch and what may exist in it.
SwitchInv ==
    /\ check_active /\ pending = "ENABLED" => state = "DISABLED"
    /\ check_active /\ pending = "DISABLED" => state = "ENABLED"
    /\ state = "DISABLED" =>
         Detector \notin armed /\ \A d \in Devs : proc[d] = "absent"
    /\ state = "DISABLED" /\ ~check_active =>
         /\ child[Detector] = "none"
         /\ ~SpawnMayFail => proc[Detector] = "absent"

\* A record that is not in use is blank, as calloc() makes it.
Blank(d) ==
    /\ ~serial[d] /\ ~port[d] /\ ~ready[d] /\ ~late[d]
    /\ told[d] = "none" /\ exitReqs[d] = 0

\* What was announced follows from the record and its process.
ToldOf(d) == IF ~ready[d] THEN "none"
             ELSE IF child[d] = "none" THEN "removed" ELSE "added"

RecordInv ==
    \A d \in Devs :
      /\ proc[d] = "absent" => Blank(d)
      /\ told[d] = ToldOf(d)
      /\ ready[d] => serial[d] /\ port[d]

\* What a device has sent is in its pipe or in its record, in order.
StartupOrder(d) ==
    LET q == fromQ[d] IN
    /\ child[d] = "start" => q = <<>> /\ ~ready[d]
    /\ child[d] \in {"info", "port"} =>
         /\ ~ready[d] /\ ~Holds(q, "DEVICE_READY")
         /\ serial[d] \/ Holds(q, "DEVICE_INFO")
    /\ child[d] = "port" => port[d] \/ Holds(q, "OSC_PORT_CHANGE")
    /\ Holds(q, "DEVICE_READY") => ~ready[d] /\ KnownAtReady(d, q)

MessagesInv == \A d \in Devs : StartupOrder(d)

\* An exit request is a sign of a teardown that has not ended.
ExitInv ==
    \A d \in Devs :
      /\ exitReqs[d] <= 1
      /\ exitReqs[d] > 0 => check_active /\ pending = "DISABLED"

\* Between two drains the list holds waiting endpoints only; from osc_notify()
\* to the drain it holds none.
NotifyInv ==
    /\ phase \in {"closing", "idle"} => ~drain_active
    /\ phase \in {"poll", "check"} => notified = drain_active
    /\ \A i \in DOMAIN notifications :
         (notifications[i].mark = "waiting") <=> ~drain_active

IInv ==
    /\ TypeOK /\ HandlesInv /\ SwitchInv /\ RecordInv /\ MessagesInv
    /\ ExitInv /\ NotifyInv /\ HandlesIntact

-----------------------------------------------------------------------------
(***************************************************************************)
(* Lemmas about the queues and the lists                                   *)
(***************************************************************************)

\* Appending a message adds that message and no other.
LEMMA AppendHolds ==
    ASSUME NEW q \in Seq(Message), NEW x \in Message, NEW m
    PROVE  Holds(Append(q, x), m) <=> Holds(q, m) \/ x = m
<1>1. /\ Append(q, x) \in Seq(Message)
      /\ Len(Append(q, x)) = Len(q) + 1
      /\ \A i \in 1..Len(q) : Append(q, x)[i] = q[i]
      /\ Append(q, x)[Len(q) + 1] = x
      /\ Len(q) \in Nat
  OBVIOUS
<1>2. DOMAIN q = 1..Len(q) /\ DOMAIN Append(q, x) = 1..(Len(q) + 1)
  BY <1>1
<1>3. ASSUME Holds(q, m) \/ x = m PROVE Holds(Append(q, x), m)
  BY <1>1, <1>2, <1>3 DEF Holds
<1>4. ASSUME Holds(Append(q, x), m) PROVE Holds(q, m) \/ x = m
  <2>1. PICK i \in 1..(Len(q) + 1) : Append(q, x)[i] = m
    BY <1>2, <1>4 DEF Holds
  <2>2. CASE i = Len(q) + 1
    BY <1>1, <2>1, <2>2
  <2>3. CASE i # Len(q) + 1
    <3>1. i \in 1..Len(q)
      BY <1>1, <2>3
    <3> QED
      BY <1>1, <1>2, <2>1, <3>1 DEF Holds
  <2> QED
    BY <2>2, <2>3
<1> QED
  BY <1>3, <1>4

\* A message that comes before the first DEVICE_READY still does when another
\* is appended, and so does any message once DEVICE_READY is appended to a
\* queue that had none.
LEMMA AppendPrecedes ==
    ASSUME NEW q \in Seq(Message), NEW x \in Message, NEW m
    PROVE  /\ Precedes(m, q) => Precedes(m, Append(q, x))
           /\ Holds(q, m) /\ ~Holds(q, "DEVICE_READY") => Precedes(m, Append(q, x))
<1>1. /\ \A i \in 1..Len(q) : Append(q, x)[i] = q[i]
      /\ DOMAIN q = 1..Len(q) /\ DOMAIN Append(q, x) = 1..(Len(q) + 1)
      /\ Len(q) \in Nat
  OBVIOUS
<1>2. ASSUME Precedes(m, q) PROVE Precedes(m, Append(q, x))
  <2>1. PICK i \in 1..Len(q) : q[i] = m /\ \A j \in 1..i : q[j] # "DEVICE_READY"
    BY <1>1, <1>2 DEF Precedes
  <2>2. i \in DOMAIN Append(q, x) /\ \A j \in 1..i : j \in 1..Len(q)
    BY <1>1, <2>1
  <2> QED
    BY <1>1, <2>1, <2>2 DEF Precedes
<1>3. ASSUME Holds(q, m), ~Holds(q, "DEVICE_READY")
      PROVE  Precedes(m, q)
  <2>1. PICK i \in 1..Len(q) : q[i] = m
    BY <1>1, <1>3 DEF Holds
  <2>2. \A j \in 1..i : j \in DOMAIN q
    BY <1>1, <2>1
  <2> QED
    BY <1>1, <1>3, <2>1, <2>2 DEF Holds, Precedes
<1> QED
  BY <1>2, <1>3

Entry == [to : Clients, mark : {"waiting", "late", "told"}]

\* osc_notify() keeps the endpoints and marks each of them.
LEMMA ServeAll ==
    ASSUME NEW list \in Seq(Entry)
    PROVE  /\ Serve(list) \in Seq(Entry)
           /\ DOMAIN Serve(list) = DOMAIN list
           /\ \A i \in DOMAIN list : /\ Serve(list)[i].to = list[i].to
                                     /\ Serve(list)[i].mark = "told"
<1>1. DOMAIN list = 1..Len(list) /\ Len(list) \in Nat
  OBVIOUS
<1>2. \A i \in 1..Len(list) : list[i] \in Entry
  OBVIOUS
<1>3. \A i \in 1..Len(list) : /\ Told(list[i]) \in Entry
                              /\ Told(list[i]).to = list[i].to
                              /\ Told(list[i]).mark = "told"
  BY <1>2 DEF Told, Entry
<1>4. Serve(list) = [i \in 1..Len(list) |-> Told(list[i])]
  BY <1>1 DEF Serve
<1> QED
  BY <1>1, <1>3, <1>4

(***************************************************************************)
(* Type correctness                                                        *)
(***************************************************************************)

\* Empty queues are queues of messages and of entries.
LEMMA EmptyTypes == <<>> \in Seq(Message) /\ <<>> \in Seq(Entry)
  OBVIOUS

\* The types of the three messages a device writes as it starts.
LEMMA StartupTypes ==
    /\ StartupMessages[1] = "DEVICE_INFO"
    /\ StartupMessages[2] = "OSC_PORT_CHANGE"
    /\ StartupMessages[3] = "DEVICE_READY"
  BY DEF StartupMessages

\* The daemon's first state has its types.
LEMMA TypeInit == Init => TypeOK
<1> SUFFICES ASSUME Init PROVE TypeOK
  OBVIOUS
<1>1. notifications \in Seq([to : Clients, mark : {"waiting", "late", "told"}])
  BY EmptyTypes DEF Init, Entry
<1>2. fromQ \in [Subs -> Seq(Message)]
  BY EmptyTypes DEF Init
<1>3. /\ pipes \in [Subs -> HandleState] /\ proc \in [Subs -> HandleState]
      /\ child \in [Subs -> ChildState]
  BY DEF Init, HandleState, ChildState
<1>4. /\ serial \in [Devs -> BOOLEAN] /\ port \in [Devs -> BOOLEAN]
      /\ ready \in [Devs -> BOOLEAN] /\ late \in [Devs -> BOOLEAN]
      /\ told \in [Devs -> {"none", "added", "anonymous", "removed"}]
      /\ exitReqs \in [Devs -> Nat]
  BY DEF Init
<1> QED
  BY <1>1, <1>2, <1>3, <1>4 DEF Init, TypeOK, SwitchState

\* The phases of the loop (state change, drain, close callbacks) keep the types.
LEMMA LoopType ==
    ASSUME TypeOK, Loop
    PROVE  TypeOK'
<1>1. CASE RunIdle
  BY <1>1 DEF TypeOK, RunIdle, handleVars, osVars, devVars, historyVars
<1>2. CASE EndPoll
  BY <1>2 DEF TypeOK, EndPoll, switchVars, notifyVars, handleVars, osVars,
              devVars, historyVars
<1>3. CASE RunCheck
  BY <1>3, EmptyTypes DEF Entry, TypeOK, RunCheck, AfterDrain, DrainGoesOn, switchVars, handleVars,
              osVars, devVars, historyVars
<1>4. CASE RunClosing
  BY <1>4 DEF TypeOK, RunClosing, HandleState, switchVars, notifyVars, osVars
<1> QED
  BY <1>1, <1>2, <1>3, <1>4 DEF Loop

\* osc_notify() keeps the list well typed.
LEMMA NotifyType ==
    ASSUME TypeOK, Notify
    PROVE  /\ notifications' \in
                Seq([to : Clients, mark : {"waiting", "late", "told"}])
           /\ drain_active' \in BOOLEAN /\ notified' \in BOOLEAN
  BY ServeAll DEF TypeOK, Notify, Entry

\* The callbacks of the poll phase keep the types.
LEMMA CallbackType ==
    ASSUME TypeOK, Callback
    PROVE  TypeOK'
<1>1. ASSUME NEW d \in Devs, DeviceRead(d) PROVE TypeOK'
  <2>1. d \in Subs
    BY DEF Subs
  <2>2. /\ notifications' \in
             Seq([to : Clients, mark : {"waiting", "late", "told"}])
        /\ drain_active' \in BOOLEAN /\ notified' \in BOOLEAN
        /\ told' \in [Devs -> {"none", "added", "anonymous", "removed"}]
    BY <1>1, NotifyType DEF TypeOK, DeviceRead, notifyVars
  <2>3. fromQ' \in [Subs -> Seq(Message)]
    BY <1>1, <2>1 DEF TypeOK, DeviceRead
  <2>4. /\ serial' \in [Devs -> BOOLEAN] /\ port' \in [Devs -> BOOLEAN]
        /\ ready' \in [Devs -> BOOLEAN]
    BY <1>1 DEF TypeOK, DeviceRead, Holds
  <2> QED
    BY <1>1, <2>2, <2>3, <2>4 DEF TypeOK, DeviceRead, switchVars, handleVars
<1>2. ASSUME NEW d \in Devs, DeviceExit(d) PROVE TypeOK'
  <2>1. d \in Subs
    BY DEF Subs
  <2>2. /\ notifications' \in
             Seq([to : Clients, mark : {"waiting", "late", "told"}])
        /\ drain_active' \in BOOLEAN /\ notified' \in BOOLEAN
        /\ told' \in [Devs -> {"none", "added", "anonymous", "removed"}]
    BY <1>2, NotifyType DEF TypeOK, DeviceExit, notifyVars
  <2> QED
    BY <1>2, <2>1, <2>2
    DEF TypeOK, DeviceExit, Reap, CloseSubprocess, ChildState, HandleState,
        loopVars, switchVars, devVars
<1>3. CASE DetectorRead
  <2>1. Detector \in Subs
    BY DEF Subs
  <2>2. fromQ' \in [Subs -> Seq(Message)] /\ armed' \subseteq Subs
    BY <1>3, <2>1 DEF TypeOK, DetectorRead
  <2> QED
    BY <1>3, <2>2
    DEF TypeOK, DetectorRead, HandleState, ChildState, switchVars, notifyVars,
        devVars
<1>4. CASE DetectorExit
  BY <1>4 DEF TypeOK, DetectorExit, Reap, CloseSubprocess, ChildState, Subs,
              HandleState, loopVars, switchVars, notifyVars, devVars, historyVars
<1>5. CASE Enable
  BY <1>5 DEF TypeOK, Enable, LaunchDetector, StartChange, HandleState, Subs,
              ChildState, SwitchState, loopVars, notifyVars, devVars, historyVars
<1>6. CASE EnableFails
  BY <1>6 DEF TypeOK, EnableFails, LaunchDetector, HandleState, Subs, loopVars,
              switchVars, notifyVars, osVars, devVars, historyVars
<1>7. CASE Disable
  BY <1>7 DEF TypeOK, Disable, StartChange, ChildState, SwitchState, Subs,
              loopVars, notifyVars, handleVars, devVars
<1>8. ASSUME NEW c \in Clients, Register(c) PROVE TypeOK'
  BY <1>8 DEF TypeOK, Register, loopVars, switchVars, handleVars, osVars,
              devVars, historyVars
<1> QED
  BY <1>1, <1>2, <1>3, <1>4, <1>5, <1>6, <1>7, <1>8 DEF Callback

\* What the children and clients do keeps the types.
LEMMA OutsideType ==
    ASSUME TypeOK, Outside
    PROVE  TypeOK'
<1> USE DEF loopVars, switchVars, notifyVars, handleVars, devVars, historyVars
<1>1. ASSUME NEW d \in Devs, DeviceStarts(d) PROVE TypeOK'
  <2>1. PICK from \in ChildState, m \in Message, to \in ChildState : Writes(d, from, m, to)
    BY <1>1, StartupTypes DEF DeviceStarts, ChildState, Message
  <2>2. child' \in [Subs -> ChildState] /\ fromQ' \in [Subs -> Seq(Message)]
    BY <2>1 DEF TypeOK, Writes, Subs
  <2> QED
    BY <1>1, <2>2 DEF TypeOK, DeviceStarts
<1>2. ASSUME NEW d \in Devs, DeviceLeaves(d) PROVE TypeOK'
  BY <1>2 DEF TypeOK, DeviceLeaves, Writes, ChildState, Message, Subs
<1>3. ASSUME NEW s \in Subs, ChildDies(s) PROVE TypeOK'
  BY <1>3 DEF TypeOK, ChildDies, ChildState
<1>4. CASE DetectorReports
  BY <1>4 DEF TypeOK, DetectorReports, Message, Subs
<1> QED
  BY <1>1, <1>2, <1>3, <1>4 DEF Outside

\* A step that changes nothing keeps the types.
LEMMA StutterType ==
    ASSUME TypeOK, UNCHANGED vars
    PROVE  TypeOK'
  BY DEF TypeOK, vars, loopVars, switchVars, notifyVars, handleVars, osVars,
         devVars, historyVars

\* The state of the daemon stays in its types, for every set of records and
\* clients and with every fault.
THEOREM TypeCorrect == Spec => []TypeOK
<1>1. TypeOK /\ [Next]_vars => TypeOK'
  BY LoopType, CallbackType, OutsideType, StutterType DEF Next
<1> QED
  BY TypeInit, <1>1, PTL DEF Spec

(***************************************************************************)
(* The parts of the inductive invariant, one lemma each                    *)
(***************************************************************************)

\* The detector and the device records are different subprocesses.
LEMMA Distinct == Detector \in Subs /\ \A d \in Devs : d \in Subs /\ d # Detector
  BY DetectorAssumption DEF Subs

\* Every step keeps the order in which a subprocess's three handles open and close.
LEMMA HandlesStep ==
    ASSUME IInv, Next
    PROVE  HandlesInv'
<1> SUFFICES ASSUME NEW s \in Subs PROVE HandleOrder(s)'
  BY DEF HandlesInv
<1>a. HandleOrder(s) /\ TypeOK /\ SwitchInv
  BY DEF IInv, HandlesInv
<1>b. /\ child[s] \in ChildState /\ pipes[s] \in HandleState
      /\ proc[s] \in HandleState
  BY <1>a DEF TypeOK
<1>1. CASE RunIdle
  BY <1>1, <1>a DEF RunIdle, HandleOrder, handleVars, osVars
<1>2. CASE EndPoll \/ RunCheck
  BY <1>2, <1>a DEF EndPoll, RunCheck, HandleOrder, handleVars, osVars, switchVars
<1>3. CASE RunClosing
  <2>1. /\ pipes'[s] = IF pipes[s] = "closing" THEN "absent" ELSE pipes[s]
        /\ proc'[s] = IF pipes[s] = "closing" THEN "closing"
                      ELSE IF proc[s] = "closing" THEN "absent" ELSE proc[s]
    BY <1>3 DEF RunClosing, ClosingPipes, ClosingProcs, NextToClose
  <2> QED
    BY <1>3, <1>a, <1>b, <2>1
    DEF RunClosing, HandleOrder, HandleState, osVars, switchVars
<1>4. ASSUME NEW d \in Devs, DeviceRead(d) PROVE HandleOrder(s)'
  BY <1>4, <1>a DEF DeviceRead, HandleOrder, TypeOK, handleVars, switchVars
<1>5. ASSUME NEW x \in Subs, Reap(x), child[x] = "exited", UNCHANGED switchVars
      PROVE  HandleOrder(s)'
  <2>1. pipes[x] = "open" /\ proc[x] = "open"
    BY <1>5 DEF IInv, HandlesInv, HandleOrder, TypeOK, HandleState
  <2> QED
    BY <1>5, <1>a, <2>1 DEF Reap, CloseSubprocess, HandleOrder, TypeOK, switchVars
<1>6. CASE DetectorRead
  <2>1. PICK S \in SUBSET Free :
          /\ pipes' = [x \in Subs |-> IF x \in S THEN "open" ELSE pipes[x]]
          /\ proc' = [x \in Subs |-> IF x \in S THEN "open" ELSE proc[x]]
          /\ child' = [x \in Subs |-> IF x \in S THEN "start" ELSE child[x]]
    BY <1>6 DEF DetectorRead
  <2>2. fromQ'[s] = IF s = Detector THEN <<>> ELSE fromQ[s]
    BY <1>6, <1>a DEF DetectorRead, TypeOK
  <2>3. UNCHANGED <<state, check_active>>
    BY <1>6 DEF DetectorRead, switchVars
  <2> QED
    BY <1>a, <1>b, <2>1, <2>2, <2>3 DEF HandleOrder
<1>7. CASE Enable
  BY <1>7, <1>a, <1>b, Distinct
  DEF Enable, MayChange, LaunchDetector, StartChange, HandleOrder, TypeOK
<1>8. CASE EnableFails
  <2>1. child[Detector] = "none" /\ state = "DISABLED" /\ ~check_active
    BY <1>8, <1>a DEF EnableFails, MayChange, SwitchInv, TypeOK, SwitchState
  <2> QED
    BY <1>8, <1>a, <2>1, Distinct
    DEF EnableFails, LaunchDetector, HandleOrder, TypeOK, switchVars, osVars
<1>9. CASE Disable
  <2>1. state # "DISABLED" /\ state' = state
    BY <1>9 DEF Disable, MayChange, StartChange
  <2>2. child'[s] = "none" <=> child[s] = "none"
    BY <1>9, <1>a, Distinct DEF Disable, TypeOK
  <2> QED
    BY <1>9, <1>a, <2>1, <2>2 DEF Disable, HandleOrder, handleVars
<1>10. ASSUME NEW c \in Clients, Register(c) PROVE HandleOrder(s)'
  BY <1>10, <1>a DEF Register, HandleOrder, handleVars, osVars, switchVars
<1>11. ASSUME NEW x \in Subs, NEW m, NEW from, NEW to,
              Writes(x, from, m, to), from # "none", to # "none",
              UNCHANGED <<switchVars, handleVars>>
       PROVE  HandleOrder(s)'
  BY <1>11, <1>a DEF Writes, HandleOrder, TypeOK, switchVars, handleVars
<1>12. ASSUME NEW x \in Subs, ChildDies(x) PROVE HandleOrder(s)'
  BY <1>12, <1>a
  DEF ChildDies, Alive, HandleOrder, TypeOK, switchVars, handleVars
<1>13. CASE DetectorReports
  BY <1>13, <1>a
  DEF DetectorReports, Alive, HandleOrder, TypeOK, switchVars, handleVars
<1>14. ASSUME NEW d \in Devs, DeviceExit(d) PROVE HandleOrder(s)'
  BY <1>14, <1>5, Distinct DEF DeviceExit
<1>15. CASE DetectorExit
  BY <1>15, <1>5, Distinct DEF DetectorExit
<1>16. ASSUME NEW d \in Devs, DeviceStarts(d) \/ DeviceLeaves(d)
       PROVE  HandleOrder(s)'
  BY <1>16, <1>11, Distinct DEF DeviceStarts, DeviceLeaves
<1> QED
  BY <1>1, <1>2, <1>3, <1>4, <1>6, <1>7, <1>8, <1>9, <1>10, <1>12, <1>13,
     <1>14, <1>15, <1>16 DEF Next, Loop, Callback, Outside

\* Every step keeps the state switch in line with the open subprocesses.
LEMMA SwitchStep ==
    ASSUME IInv, Next
    PROVE  SwitchInv'
<1>a. TypeOK /\ SwitchInv /\ HandlesInv
  BY DEF IInv
<1>b. /\ \A d \in Devs : proc[d] \in HandleState
      /\ proc[Detector] \in HandleState
  BY <1>a, Distinct DEF TypeOK
<1>1. CASE RunIdle
  <2>1. CASE check_active /\ FinishedChanging
    <3>1. CASE pending = "ENABLED"
      BY <1>1, <2>1, <3>1 DEF RunIdle, SwitchInv
    <3>2. CASE pending = "DISABLED"
      <4>1. \A s \in Subs : proc[s] = "absent"
        BY <2>1, <3>2 DEF FinishedChanging, Remaining
      <4>2. child[Detector] = "none"
        BY <4>1, <1>a, Distinct DEF HandlesInv, HandleOrder
      <4> QED
        BY <1>1, <2>1, <3>2, <4>1, <4>2, Distinct
        DEF RunIdle, SwitchInv, handleVars, osVars
    <3> QED
      BY <3>1, <3>2, <1>a DEF TypeOK, SwitchState
  <2>2. CASE ~(check_active /\ FinishedChanging)
    <3>1. UNCHANGED <<state, check_active, pending, proc, child>>
      BY <1>1, <2>2 DEF RunIdle, handleVars, osVars
    <3>2. ~(check_active /\ pending = "ENABLED")
      BY <2>2 DEF FinishedChanging
    <3>3. ~(state = "DISABLED" /\ check_active)
      BY <1>a, <3>2 DEF SwitchInv, TypeOK, SwitchState
    <3>4. state = "DISABLED" => Detector \notin armed'
      BY <1>1, <1>a, <3>3 DEF RunIdle, SwitchInv
    <3> QED
      BY <1>a, <3>1, <3>2, <3>4 DEF SwitchInv
  <2> QED
    BY <2>1, <2>2
<1>2. CASE EndPoll \/ RunCheck
  BY <1>2, <1>a DEF EndPoll, RunCheck, SwitchInv, switchVars, handleVars, osVars
<1>3. CASE RunClosing
  <2>1. \A s \in Subs : proc[s] = "absent" => proc'[s] = "absent"
    BY <1>3, <1>a
    DEF RunClosing, NextToClose, ClosingPipes, ClosingProcs, HandlesInv, HandleOrder
  <2> QED
    BY <1>3, <1>a, <2>1, Distinct DEF RunClosing, SwitchInv, switchVars, osVars
<1>4. ASSUME NEW d \in Devs, DeviceRead(d) PROVE SwitchInv'
  BY <1>4, <1>a DEF DeviceRead, SwitchInv, switchVars, handleVars
<1>5. ASSUME NEW x \in Subs, Reap(x), UNCHANGED <<switchVars, armed>>
      PROVE  SwitchInv'
  BY <1>5, <1>a, Distinct
  DEF Reap, CloseSubprocess, SwitchInv, TypeOK, switchVars
<1>6. CASE DetectorRead
  <2>1. state = "ENABLED"
    <3>1. child[Detector] # "none"
      BY <1>6, <1>a, Distinct DEF DetectorRead, HandlesInv, HandleOrder
    <3> QED
      BY <1>6, <1>a, <3>1 DEF DetectorRead, SwitchInv, TypeOK, SwitchState
  <2> QED
    BY <1>6, <1>a, <2>1 DEF DetectorRead, SwitchInv, switchVars
<1>7. CASE Enable
  BY <1>7, <1>a, Distinct
  DEF Enable, MayChange, LaunchDetector, StartChange, SwitchInv, TypeOK,
      SwitchState, loopVars
<1>8. CASE EnableFails
  BY <1>8, <1>a, Distinct
  DEF EnableFails, LaunchDetector, SwitchInv, TypeOK, switchVars, osVars, loopVars
<1>9. CASE Disable
  BY <1>9, <1>a
  DEF Disable, MayChange, StartChange, SwitchInv, TypeOK, SwitchState, loopVars
<1>10. ASSUME NEW c \in Clients, Register(c) PROVE SwitchInv'
  BY <1>10, <1>a DEF Register, SwitchInv, loopVars, switchVars, handleVars, osVars
<1>11. ASSUME UNCHANGED <<switchVars, handleVars, armed>>,
              child[Detector] = "none" => child'[Detector] = "none"
       PROVE  SwitchInv'
  BY <1>11, <1>a DEF SwitchInv, switchVars, handleVars
<1>12. ASSUME NEW d \in Devs, DeviceStarts(d) \/ DeviceLeaves(d)
       PROVE  SwitchInv'
  <2>1. child'[Detector] = child[Detector]
    BY <1>12, <1>a, Distinct DEF DeviceStarts, DeviceLeaves, Writes, TypeOK
  <2> QED
    BY <1>11, <1>12, <2>1 DEF DeviceStarts, DeviceLeaves, loopVars
<1>13. ASSUME NEW x \in Subs, ChildDies(x) PROVE SwitchInv'
  <2>1. child[Detector] = "none" => child'[Detector] = "none"
    BY <1>13, <1>a, Distinct DEF ChildDies, Alive, TypeOK
  <2> QED
    BY <1>11, <1>13, <2>1 DEF ChildDies, loopVars
<1>14. CASE DetectorReports
  BY <1>11, <1>14 DEF DetectorReports, loopVars
<1>15. ASSUME NEW d \in Devs, DeviceExit(d) PROVE SwitchInv'
  BY <1>15, <1>5, Distinct DEF DeviceExit, loopVars
<1>16. CASE DetectorExit
  BY <1>16, <1>5, Distinct DEF DetectorExit, loopVars
<1> QED
  BY <1>1, <1>2, <1>3, <1>4, <1>6, <1>7, <1>8, <1>9, <1>10, <1>12, <1>13,
     <1>14, <1>15, <1>16 DEF Next, Loop, Callback, Outside

\* After every step a device has had one exit request at most, and that during a
\* disable.
LEMMA ExitStep ==
    ASSUME IInv, Next
    PROVE  ExitInv'
<1>a. TypeOK /\ ExitInv /\ RecordInv
  BY DEF IInv
<1>1. CASE RunIdle
  <2>1. CASE check_active /\ FinishedChanging /\ pending = "DISABLED"
    <3>1. \A d \in Devs : proc[d] = "absent"
      BY <2>1, Distinct DEF FinishedChanging, Remaining
    <3>2. \A d \in Devs : exitReqs[d] = 0
      BY <1>a, <3>1 DEF RecordInv, Blank
    <3> QED
      BY <1>1, <3>2 DEF RunIdle, ExitInv, historyVars
  <2>2. CASE ~(check_active /\ FinishedChanging /\ pending = "DISABLED")
    BY <1>1, <1>a, <2>2 DEF RunIdle, ExitInv, TypeOK, SwitchState, historyVars
  <2> QED
    BY <2>1, <2>2
<1>2. CASE RunClosing
  BY <1>2, <1>a DEF RunClosing, ExitInv, TypeOK, switchVars
<1>3. CASE Enable
  BY <1>3, <1>a DEF Enable, MayChange, ExitInv, TypeOK, historyVars
<1>4. CASE Disable
  <2>1. \A d \in Devs : exitReqs[d] = 0
    BY <1>4, <1>a DEF Disable, MayChange, ExitInv, TypeOK
  <2>2. \A d \in Devs : exitReqs'[d] \in {0, 1}
    BY <1>4, <2>1 DEF Disable
  <2> QED
    BY <1>4, <2>2 DEF Disable, StartChange, ExitInv
<1>5. ASSUME UNCHANGED <<switchVars, exitReqs>> PROVE ExitInv'
  BY <1>5, <1>a DEF ExitInv, switchVars
<1>6. CASE EndPoll \/ RunCheck
  BY <1>5, <1>6 DEF EndPoll, RunCheck, historyVars
<1>7. ASSUME NEW d \in Devs, DeviceRead(d) \/ DeviceExit(d) PROVE ExitInv'
  BY <1>5, <1>7 DEF DeviceRead, DeviceExit
<1>8. CASE DetectorRead \/ DetectorExit \/ EnableFails
  BY <1>5, <1>8 DEF DetectorRead, DetectorExit, EnableFails, historyVars
<1>9. ASSUME NEW c \in Clients, Register(c) PROVE ExitInv'
  BY <1>5, <1>9 DEF Register, historyVars
<1>10. CASE Outside
  BY <1>5, <1>10
  DEF Outside, DeviceStarts, DeviceLeaves, ChildDies, DetectorReports, historyVars
<1> QED
  BY <1>1, <1>2, <1>3, <1>4, <1>6, <1>7, <1>8, <1>9, <1>10 DEF Next, Loop, Callback

\* Every step keeps the notification list and its drain in line.
LEMMA NotifyStep ==
    ASSUME IInv, Next
    PROVE  NotifyInv'
<1>a. TypeOK /\ NotifyInv
  BY DEF IInv
<1>1. CASE RunIdle
  <2>1. drain_active = FALSE
    BY <1>1, <1>a DEF At, RunIdle, NotifyInv, TypeOK
  <2>2. /\ phase' = "poll" /\ notified' = FALSE
        /\ UNCHANGED <<notifications, drain_active>>
    BY <1>1 DEF At, RunIdle
  <2> QED
    BY <1>a, <2>1, <2>2 DEF NotifyInv
<1>2. CASE EndPoll
  BY <1>2, <1>a DEF At, EndPoll, NotifyInv, notifyVars
<1>3. CASE RunCheck
  BY <1>3, <1>a DEF At, RunCheck, AfterDrain, DrainGoesOn, NotifyInv
<1>4. CASE RunClosing
  BY <1>4, <1>a DEF At, RunClosing, NotifyInv, notifyVars
<1>5. ASSUME Notify, phase = "poll", phase' = phase PROVE NotifyInv'
  BY <1>5, <1>a, ServeAll DEF Notify, NotifyInv, TypeOK, Entry
<1>6. ASSUME UNCHANGED <<notifyVars, phase>> PROVE NotifyInv'
  BY <1>6, <1>a DEF NotifyInv, notifyVars
<1>7. ASSUME NEW d \in Devs, DeviceRead(d) \/ DeviceExit(d) PROVE NotifyInv'
  BY <1>5, <1>6, <1>7 DEF At, DeviceRead, DeviceExit, loopVars
<1>8. ASSUME NEW c \in Clients, Register(c) PROVE NotifyInv'
  <2> DEFINE e == [to |-> c, mark |-> IF notified THEN "late" ELSE "waiting"]
  <2>1. notifications \in Seq(Entry) /\ e \in Entry
    BY <1>a DEF TypeOK, Entry
  <2>2. /\ DOMAIN notifications = 1..Len(notifications)
        /\ DOMAIN Append(notifications, e) = 1..(Len(notifications) + 1)
        /\ \A i \in 1..Len(notifications) :
             Append(notifications, e)[i] = notifications[i]
        /\ Append(notifications, e)[Len(notifications) + 1] = e
        /\ Len(notifications) \in Nat
    BY <2>1
  <2>3. (e.mark = "waiting") <=> ~notified
    OBVIOUS
  <2>4. notified = drain_active
    BY <1>8, <1>a DEF At, Register, NotifyInv
  <2> HIDE DEF e
  <2>5. notifications' = Append(notifications, e)
    BY <1>8 DEF At, Register, e
  <2>6. \A i \in DOMAIN notifications' :
          (notifications'[i].mark = "waiting") <=> ~drain_active
    <3> TAKE i \in DOMAIN notifications'
    <3>1. CASE i = Len(notifications) + 1
      BY <2>2, <2>3, <2>4, <2>5, <3>1
    <3>2. CASE i # Len(notifications) + 1
      <4>1. i \in DOMAIN notifications
        BY <2>2, <2>5, <3>2
      <4> QED
        BY <2>2, <2>5, <4>1, <1>a DEF NotifyInv
    <3> QED
      BY <3>1, <3>2
  <2> QED
    BY <1>8, <1>a, <2>6 DEF At, Register, NotifyInv, loopVars
<1>9. CASE DetectorRead \/ DetectorExit \/ Enable \/ EnableFails \/ Disable
  BY <1>6, <1>9
  DEF DetectorRead, DetectorExit, Enable, EnableFails, Disable, loopVars
<1>10. CASE Outside
  BY <1>6, <1>10
  DEF Outside, DeviceStarts, DeviceLeaves, ChildDies, DetectorReports, loopVars
<1> QED
  BY <1>1, <1>2, <1>3, <1>4, <1>7, <1>8, <1>9, <1>10 DEF Next, Loop, Callback

\* No step frees or links a handle that is linked, unless uv_spawn() may fail.
LEMMA IntactStep ==
    ASSUME IInv, Next
    PROVE  HandlesIntact'
<1> SUFFICES ASSUME ~SpawnMayFail PROVE fate' # "corrupt"
  BY DEF HandlesIntact
<1>a. /\ fate # "corrupt"
      /\ TypeOK /\ HandlesInv /\ SwitchInv
  BY DEF IInv, HandlesIntact
<1>1. CASE RunClosing
  <2>1. \A d \in Freed : proc[d] = "closing" /\ pipes[d] = "absent"
    BY <1>a DEF Freed, ClosingProcs, HandlesInv, HandleOrder
  <2> QED
    BY <1>1, <1>a, <2>1 DEF RunClosing
<1>2. CASE DetectorRead
  BY <1>2, <1>a DEF DetectorRead
<1>3. CASE Enable
  <2>1. proc[Detector] = "absent"
    BY <1>3, <1>a DEF Enable, MayChange, SwitchInv, TypeOK, SwitchState
  <2>2. ~Relinks
    BY <1>a, <2>1, Distinct DEF Relinks, HandlesInv, HandleOrder
  <2> QED
    BY <1>3, <1>a, <2>2 DEF Enable, LaunchDetector
<1>4. CASE Disable
  BY <1>4, <1>a DEF Disable
<1>5. CASE RunIdle \/ EndPoll \/ RunCheck \/ DetectorExit \/ EnableFails
  BY <1>5, <1>a DEF RunIdle, EndPoll, RunCheck, DetectorExit, EnableFails
<1>6. ASSUME NEW d \in Devs, DeviceRead(d) \/ DeviceExit(d)
      PROVE  fate' # "corrupt"
  BY <1>6, <1>a DEF DeviceRead, DeviceExit
<1>7. ASSUME NEW c \in Clients, Register(c) PROVE fate' # "corrupt"
  BY <1>7, <1>a DEF Register
<1>8. CASE Outside
  BY <1>8, <1>a
  DEF Outside, DeviceStarts, DeviceLeaves, ChildDies, DetectorReports
<1> QED
  BY <1>1, <1>2, <1>3, <1>4, <1>5, <1>6, <1>7, <1>8 DEF Next, Loop, Callback

\* Every step keeps what a record knows in line with what has been announced of it.
LEMMA RecordStep ==
    ASSUME IInv, Next
    PROVE  RecordInv'
<1> DEFINE Rec(d) == /\ proc[d] = "absent" => Blank(d)
                     /\ told[d] = ToldOf(d)
                     /\ ready[d] => serial[d] /\ port[d]
<1> SUFFICES ASSUME NEW d \in Devs PROVE Rec(d)'
  BY DEF RecordInv
<1>a. /\ TypeOK /\ HandleOrder(d) /\ SwitchInv /\ Rec(d) /\ StartupOrder(d)
      /\ d \in Subs /\ d # Detector
  BY Distinct DEF IInv, HandlesInv, RecordInv, MessagesInv
<1>b. /\ child[d] \in ChildState /\ pipes[d] \in HandleState
      /\ proc[d] \in HandleState
      /\ told[d] \in {"none", "added", "anonymous", "removed"}
      /\ ready[d] \in BOOLEAN /\ serial[d] \in BOOLEAN /\ port[d] \in BOOLEAN
  BY <1>a DEF TypeOK
<1> DEFINE Same == /\ child'[d] = "none" <=> child[d] = "none"
                   /\ UNCHANGED <<proc[d], serial[d], port[d], ready[d],
                                  late[d], told[d], exitReqs[d]>>
<1>0. ASSUME Same PROVE Rec(d)'
  BY <1>0, <1>a DEF Blank, ToldOf
<1>1. CASE RunIdle \/ EndPoll \/ RunCheck
  BY <1>0, <1>1 DEF RunIdle, EndPoll, RunCheck, handleVars, osVars, devVars,
                    historyVars
<1>2. CASE RunClosing
  <2>1. CASE d \in Freed
    <3>1. ~serial'[d] /\ ~port'[d] /\ ~ready'[d] /\ ~late'[d]
      BY <1>2, <2>1 DEF RunClosing
    <3>2. told'[d] = "none" /\ exitReqs'[d] = 0
      BY <1>2, <2>1 DEF RunClosing
    <3> QED
      BY <3>1, <3>2 DEF Blank, ToldOf
  <2>2. CASE d \notin Freed
    <3>1. proc[d] # "closing"
      BY <1>a, <2>2 DEF Freed, ClosingProcs
    <3>2. proc'[d] = "absent" => proc[d] = "absent"
      BY <1>2, <1>a, <3>1 DEF RunClosing, ClosingPipes, ClosingProcs, NextToClose
    <3>3. /\ told'[d] = told[d] /\ exitReqs'[d] = exitReqs[d]
          /\ serial'[d] = serial[d] /\ port'[d] = port[d] /\ ready'[d] = ready[d]
          /\ ~late[d] => ~late'[d]
      BY <1>2, <1>b, <2>2 DEF RunClosing
    <3>4. child' = child
      BY <1>2 DEF RunClosing, osVars
    <3> QED
      BY <1>a, <3>2, <3>3, <3>4 DEF Blank, ToldOf
  <2> QED
    BY <2>1, <2>2
<1>3. ASSUME NEW x \in Devs, DeviceRead(x) PROVE Rec(d)'
  <2>1. CASE x # d
    BY <1>0, <1>3, <1>a, <2>1
    DEF DeviceRead, TypeOK, handleVars
  <2>2. CASE x = d
    <3>1. proc[d] = "open" /\ child[d] # "none" /\ proc' = proc /\ child' = child
      BY <1>3, <1>a, <1>b, <2>2
      DEF DeviceRead, HandleOrder, HandleState, handleVars
    <3>2. CASE Holds(fromQ[d], "DEVICE_READY")
      <4>1. KnownAtReady(d, fromQ[d]) /\ told'[d] = "added" /\ ready'[d]
        BY <1>3, <1>a, <2>2, <3>2 DEF DeviceRead, StartupOrder, TypeOK
      <4>2. serial'[d] /\ port'[d]
        <5>1. \A m : Precedes(m, fromQ[d]) => Holds(fromQ[d], m)
          BY DEF Precedes, Holds
        <5>2. /\ serial'[d] <=> serial[d] \/ Holds(fromQ[d], "DEVICE_INFO")
              /\ port'[d] <=> port[d] \/ Holds(fromQ[d], "OSC_PORT_CHANGE")
          BY <1>3, <1>a, <2>2 DEF DeviceRead, TypeOK
        <5> QED
          BY <4>1, <5>1, <5>2 DEF KnownAtReady
      <4> QED
        BY <3>1, <4>1, <4>2 DEF ToldOf
    <3>3. CASE ~Holds(fromQ[d], "DEVICE_READY")
      <4>1. told' = told
        BY <1>3, <2>2, <3>3 DEF DeviceRead
      <4>2. ready'[d] <=> ready[d]
        BY <1>3, <1>a, <2>2, <3>3 DEF DeviceRead, TypeOK
      <4>3. /\ serial[d] => serial'[d]
            /\ port[d] => port'[d]
        BY <1>3, <1>a, <2>2 DEF DeviceRead, TypeOK
      <4> QED
        BY <1>a, <3>1, <4>1, <4>2, <4>3 DEF ToldOf
    <3> QED
      BY <3>2, <3>3
  <2> QED
    BY <2>1, <2>2
<1>4. ASSUME NEW x \in Devs, DeviceExit(x) PROVE Rec(d)'
  <2>1. CASE x # d
    BY <1>0, <1>4, <1>a, <2>1
    DEF DeviceExit, Reap, CloseSubprocess, TypeOK, devVars
  <2>2. CASE x = d
    <3>1. proc[d] = "open" /\ proc' = proc /\ child'[d] = "none" /\ child[d] # "none"
      BY <1>4, <1>a, <1>b, <2>2
      DEF DeviceExit, Reap, CloseSubprocess, HandleOrder, HandleState, TypeOK
    <3>2. told'[d] = IF ready[d] THEN "removed" ELSE told[d]
      BY <1>4, <1>a, <2>2 DEF DeviceExit, AnnouncesRemoval, TypeOK
    <3>3. UNCHANGED devVars
      BY <1>4 DEF DeviceExit
    <3> QED
      BY <1>a, <3>1, <3>2, <3>3 DEF ToldOf, devVars
  <2> QED
    BY <2>1, <2>2
<1>5. CASE DetectorRead
  <2>1. PICK S \in SUBSET Free :
          /\ proc' = [x \in Subs |-> IF x \in S THEN "open" ELSE proc[x]]
          /\ child' = [x \in Subs |-> IF x \in S THEN "start" ELSE child[x]]
          /\ late' = [x \in Devs |-> IF x \in S THEN check_active ELSE late[x]]
    BY <1>5 DEF DetectorRead
  <2>2. UNCHANGED <<serial, port, ready, told, exitReqs>>
    BY <1>5 DEF DetectorRead, devVars
  <2>3. CASE d \in S
    <3>1. proc[d] = "absent" /\ proc'[d] = "open"
      BY <1>a, <2>1, <2>3 DEF Free
    <3> QED
      BY <1>a, <2>2, <3>1 DEF Blank, ToldOf
  <2>4. CASE d \notin S
    BY <1>0, <1>a, <2>1, <2>2, <2>4
  <2> QED
    BY <2>3, <2>4
<1>6. CASE DetectorExit
  BY <1>0, <1>6, <1>a DEF DetectorExit, Reap, CloseSubprocess, TypeOK, devVars,
                          historyVars
<1>7. CASE Enable
  BY <1>0, <1>7, <1>a DEF Enable, LaunchDetector, TypeOK, devVars, historyVars
<1>8. CASE EnableFails
  BY <1>0, <1>8, <1>a DEF EnableFails, LaunchDetector, TypeOK, osVars, devVars,
                          historyVars
<1>9. CASE Disable
  <2>1. proc[d] = "absent" => exitReqs'[d] = exitReqs[d]
    BY <1>9 DEF Disable, AskedToExit
  <2>2. child'[d] = child[d]
    BY <1>9, <1>a DEF Disable, TypeOK
  <2> QED
    BY <1>9, <1>a, <2>1, <2>2 DEF Disable, Blank, ToldOf, handleVars, devVars
<1>10. ASSUME NEW c \in Clients, Register(c) PROVE Rec(d)'
  BY <1>0, <1>10 DEF Register, handleVars, osVars, devVars, historyVars
<1>11. ASSUME NEW x \in Devs, DeviceStarts(x) \/ DeviceLeaves(x) PROVE Rec(d)'
  <2>1. child'[d] = "none" <=> child[d] = "none"
    BY <1>11, <1>a, Distinct DEF DeviceStarts, DeviceLeaves, Writes, TypeOK
  <2> QED
    BY <1>0, <1>11, <2>1
    DEF DeviceStarts, DeviceLeaves, handleVars, devVars, historyVars
<1>12. ASSUME NEW x \in Subs, ChildDies(x) PROVE Rec(d)'
  <2>1. child'[d] = "none" <=> child[d] = "none"
    BY <1>12, <1>a DEF ChildDies, Alive, TypeOK
  <2> QED
    BY <1>0, <1>12, <2>1 DEF ChildDies, handleVars, devVars, historyVars
<1>13. CASE DetectorReports
  BY <1>0, <1>13 DEF DetectorReports, handleVars, devVars, historyVars
<1> QED
  BY <1>1, <1>2, <1>3, <1>4, <1>5, <1>6, <1>7, <1>8, <1>9, <1>10, <1>11,
     <1>12, <1>13 DEF Next, Loop, Callback, Outside

\* Every step keeps a child's startup messages in the order of their writing.
LEMMA MessagesStep ==
    ASSUME IInv, Next
    PROVE  MessagesInv'
<1> SUFFICES ASSUME NEW d \in Devs PROVE StartupOrder(d)'
  BY DEF MessagesInv
<1>a. /\ TypeOK /\ HandleOrder(d) /\ StartupOrder(d)
      /\ d \in Subs /\ d # Detector
      /\ proc[d] = "absent" => Blank(d)
  BY Distinct DEF IInv, HandlesInv, MessagesInv, RecordInv
<1>b. /\ child[d] \in ChildState /\ pipes[d] \in HandleState
      /\ fromQ[d] \in Seq(Message)
  BY <1>a DEF TypeOK
<1>c. \A m : ~Holds(<<>>, m)
  BY DEF Holds
<1>0. ASSUME UNCHANGED <<child[d], fromQ[d], serial[d], port[d], ready[d]>>
      PROVE  StartupOrder(d)'
  BY <1>0, <1>a DEF StartupOrder, KnownAtReady
<1>1. CASE RunIdle \/ EndPoll \/ RunCheck
  BY <1>0, <1>1 DEF RunIdle, EndPoll, RunCheck, osVars, devVars
<1>2. CASE RunClosing
  <2>1. CASE d \in Freed
    <3>1. child[d] = "none" /\ fromQ[d] = <<>>
      BY <1>a, <2>1 DEF Freed, ClosingProcs, HandleOrder
    <3>2. child' = child /\ fromQ' = fromQ
      BY <1>2 DEF RunClosing, osVars
    <3> QED
      BY <1>c, <3>1, <3>2 DEF StartupOrder
  <2>2. CASE d \notin Freed
    <3>1. serial'[d] = serial[d] /\ port'[d] = port[d] /\ ready'[d] = ready[d]
      BY <1>2, <1>a, <2>2 DEF RunClosing, TypeOK
    <3> QED
      BY <1>0, <1>2, <3>1 DEF RunClosing, osVars
  <2> QED
    BY <2>1, <2>2
<1>3. ASSUME NEW x \in Devs, DeviceRead(x) PROVE StartupOrder(d)'
  <2>1. CASE x # d
    BY <1>0, <1>3, <1>a, <2>1, Distinct DEF DeviceRead, TypeOK
  <2>2. CASE x = d
    <3>1. fromQ'[d] = <<>> /\ child' = child /\ fromQ[d] # <<>>
      BY <1>3, <1>a, <2>2 DEF DeviceRead, TypeOK
    <3>2. /\ serial'[d] <=> serial[d] \/ Holds(fromQ[d], "DEVICE_INFO")
          /\ port'[d] <=> port[d] \/ Holds(fromQ[d], "OSC_PORT_CHANGE")
          /\ ready'[d] <=> ready[d] \/ Holds(fromQ[d], "DEVICE_READY")
      BY <1>3, <1>a, <2>2 DEF DeviceRead, TypeOK
    <3> QED
      BY <1>a, <1>c, <3>1, <3>2 DEF StartupOrder
  <2> QED
    BY <2>1, <2>2
<1>4. ASSUME NEW x \in Devs, DeviceExit(x) PROVE StartupOrder(d)'
  <2>1. CASE x # d
    BY <1>0, <1>4, <1>a, <2>1, Distinct DEF DeviceExit, Reap, TypeOK, devVars
  <2>2. CASE x = d
    <3>1. fromQ'[d] = <<>> /\ child'[d] = "none"
      BY <1>4, <1>a, <2>2 DEF DeviceExit, Reap, TypeOK
    <3> QED
      BY <1>c, <3>1 DEF StartupOrder
  <2> QED
    BY <2>1, <2>2
<1>5. CASE DetectorRead
  <2>1. PICK S \in SUBSET Free :
          child' = [x \in Subs |-> IF x \in S THEN "start" ELSE child[x]]
    BY <1>5 DEF DetectorRead
  <2>2. UNCHANGED <<serial, port, ready>> /\ fromQ'[d] = fromQ[d]
    BY <1>5, <1>a DEF DetectorRead, devVars, TypeOK
  <2>3. CASE d \in S
    <3>1. fromQ[d] = <<>> /\ ~ready[d]
      BY <1>a, <2>3 DEF Free, HandleOrder, Blank
    <3>2. child'[d] = "start"
      BY <1>a, <2>1, <2>3
    <3> QED
      BY <1>c, <2>2, <3>1, <3>2 DEF StartupOrder
  <2>4. CASE d \notin S
    BY <1>0, <1>a, <2>1, <2>2, <2>4
  <2> QED
    BY <2>3, <2>4
<1>6. CASE DetectorExit
  BY <1>0, <1>6, <1>a DEF DetectorExit, Reap, TypeOK, devVars
<1>7. CASE Enable \/ EnableFails
  BY <1>0, <1>7, <1>a DEF Enable, EnableFails, TypeOK, osVars, devVars
<1>8. CASE Disable
  BY <1>0, <1>8, <1>a DEF Disable, TypeOK, devVars
<1>9. ASSUME NEW c \in Clients, Register(c) PROVE StartupOrder(d)'
  BY <1>0, <1>9 DEF Register, osVars, devVars
<1>10. ASSUME NEW x \in Devs, x # d, DeviceStarts(x) \/ DeviceLeaves(x)
       PROVE  StartupOrder(d)'
  BY <1>0, <1>10, <1>a DEF DeviceStarts, DeviceLeaves, Writes, TypeOK, devVars
<1>11. ASSUME DeviceStarts(d) PROVE StartupOrder(d)'
  <2> DEFINE q == fromQ[d]
  <2>0. UNCHANGED <<serial, port, ready>>
    BY <1>11 DEF DeviceStarts, devVars
  <2>1. CASE Writes(d, "start", "DEVICE_INFO", "info")
    <3>1. /\ child[d] = "start" /\ child'[d] = "info"
          /\ fromQ'[d] = Append(q, "DEVICE_INFO")
      BY <2>1, <1>a DEF Writes, TypeOK
    <3>2. /\ Holds(fromQ'[d], "DEVICE_INFO") /\ ~Holds(fromQ'[d], "DEVICE_READY")
      BY <1>a, <1>b, <1>c, <3>1, AppendHolds DEF StartupOrder, Message
    <3> QED
      BY <1>a, <2>0, <3>1, <3>2 DEF StartupOrder
  <2>2. CASE Writes(d, "info", "OSC_PORT_CHANGE", "port")
    <3>1. /\ child[d] = "info" /\ child'[d] = "port"
          /\ fromQ'[d] = Append(q, "OSC_PORT_CHANGE")
      BY <2>2, <1>a DEF Writes, TypeOK
    <3>2. /\ Holds(fromQ'[d], "OSC_PORT_CHANGE")
          /\ Holds(fromQ'[d], "DEVICE_INFO") <=> Holds(q, "DEVICE_INFO")
          /\ Holds(fromQ'[d], "DEVICE_READY") <=> Holds(q, "DEVICE_READY")
      BY <1>b, <3>1, AppendHolds DEF Message
    <3> QED
      BY <1>a, <2>0, <3>1, <3>2 DEF StartupOrder
  <2>3. CASE Writes(d, "port", "DEVICE_READY", "serving")
    <3>1. /\ child[d] = "port" /\ child'[d] = "serving"
          /\ fromQ'[d] = Append(q, "DEVICE_READY")
      BY <2>3, <1>a DEF Writes, TypeOK
    <3>2. /\ ~ready[d] /\ ~Holds(q, "DEVICE_READY")
          /\ serial[d] \/ Holds(q, "DEVICE_INFO")
          /\ port[d] \/ Holds(q, "OSC_PORT_CHANGE")
      BY <1>a, <3>1 DEF StartupOrder
    <3>3. KnownAtReady(d, fromQ[d])'
      BY <1>b, <2>0, <3>1, <3>2, AppendPrecedes DEF KnownAtReady, Message
    <3> QED
      BY <2>0, <3>1, <3>2, <3>3 DEF StartupOrder
  <2> QED
    BY <1>11, <2>1, <2>2, <2>3, StartupTypes DEF DeviceStarts
<1>12. ASSUME DeviceLeaves(d) PROVE StartupOrder(d)'
  <2> DEFINE q == fromQ[d]
  <2>1. /\ child'[d] = "done" /\ fromQ'[d] = Append(q, "DEVICE_DISCONNECTION")
        /\ UNCHANGED <<serial, port, ready>>
    BY <1>12, <1>a DEF DeviceLeaves, Writes, TypeOK, devVars
  <2>2. Holds(fromQ'[d], "DEVICE_READY") <=> Holds(q, "DEVICE_READY")
    BY <1>b, <2>1, AppendHolds DEF Message
  <2>3. KnownAtReady(d, q) => KnownAtReady(d, fromQ[d])'
    BY <1>b, <2>1, AppendPrecedes DEF KnownAtReady, Message
  <2> QED
    BY <1>a, <2>1, <2>2, <2>3 DEF StartupOrder
<1>13. ASSUME NEW x \in Subs, ChildDies(x) PROVE StartupOrder(d)'
  <2>1. CASE x # d
    BY <1>0, <1>13, <1>a, <2>1 DEF ChildDies, TypeOK, devVars
  <2>2. CASE x = d
    <3>1. child'[d] = "exited" /\ UNCHANGED <<fromQ, serial, port, ready>>
      BY <1>13, <1>a, <2>2 DEF ChildDies, TypeOK, devVars
    <3> QED
      BY <1>a, <3>1 DEF StartupOrder, KnownAtReady
  <2> QED
    BY <2>1, <2>2
<1>14. CASE DetectorReports
  BY <1>0, <1>14, <1>a DEF DetectorReports, TypeOK, devVars
<1> QED
  BY <1>1, <1>2, <1>3, <1>4, <1>5, <1>6, <1>7, <1>8, <1>9, <1>10, <1>11,
     <1>12, <1>13, <1>14 DEF Next, Loop, Callback, Outside

-----------------------------------------------------------------------------
(***************************************************************************)
(* Theorems                                                                *)
(***************************************************************************)

\* The inductive invariant holds when the daemon starts.
LEMMA InvInit == Init => IInv
<1> SUFFICES ASSUME Init PROVE IInv
  OBVIOUS
<1>1. TypeOK
  BY TypeInit
<1>2. HandlesInv
  BY DEF Init, HandlesInv, HandleOrder
<1>3. SwitchInv
  BY Distinct DEF Init, SwitchInv
<1>4. RecordInv
  BY Distinct DEF Init, RecordInv, Blank, ToldOf
<1>5. MessagesInv
  <2>1. \A d \in Devs : fromQ[d] = <<>> /\ child[d] = "none"
    BY Distinct DEF Init
  <2> QED
    BY <2>1 DEF MessagesInv, StartupOrder, Holds
<1>6. ExitInv /\ NotifyInv /\ HandlesIntact
  BY DEF Init, ExitInv, NotifyInv, HandlesIntact
<1> QED
  BY <1>1, <1>2, <1>3, <1>4, <1>5, <1>6 DEF IInv

\* A step that changes nothing keeps the inductive invariant.
LEMMA InvStutter ==
    ASSUME IInv, UNCHANGED vars
    PROVE  IInv'
<1> USE DEF vars, loopVars, switchVars, notifyVars, handleVars, osVars, devVars,
            historyVars
<1>1. TypeOK'
  BY StutterType DEF IInv
<1>2. HandlesInv' /\ SwitchInv'
  BY DEF IInv, HandlesInv, HandleOrder, SwitchInv
<1>3. RecordInv' /\ ExitInv' /\ NotifyInv' /\ HandlesIntact'
  BY DEF IInv, RecordInv, Blank, ToldOf, ExitInv, NotifyInv, HandlesIntact
<1>4. MessagesInv'
  BY DEF IInv, MessagesInv, StartupOrder, KnownAtReady
<1> QED
  BY <1>1, <1>2, <1>3, <1>4 DEF IInv

\* The inductive invariant holds in every reachable state.
THEOREM Invariance == Spec => []IInv
<1>1. ASSUME IInv, Next PROVE IInv'
  <2>1. TypeOK'
    BY <1>1, LoopType, CallbackType, OutsideType DEF Next, IInv
  <2> QED
    BY <1>1, <2>1, HandlesStep, SwitchStep, RecordStep, MessagesStep, ExitStep,
       NotifyStep, IntactStep DEF IInv
<1>2. IInv /\ [Next]_vars => IInv'
  BY <1>1, InvStutter
<1> QED
  BY InvInit, <1>2, PTL DEF Spec

\* Once a disable has taken effect nothing of the daemon's children is left.
THEOREM QuietWhenDisabled == Spec => []DisabledMeansQuiet
<1>1. IInv => DisabledMeansQuiet
  BY Distinct DEF IInv, SwitchInv, HandlesInv, HandleOrder, DisabledMeansQuiet
<1> QED
  BY <1>1, Invariance, PTL

\* Without uv_spawn() failures no handle of the loop is ever inside released
\* storage or initialised twice.
THEOREM MemorySafety == Spec => []HandlesIntact
<1>1. IInv => HandlesIntact
  BY DEF IInv
<1> QED
  BY <1>1, Invariance, PTL

\* No client is ever shown a device without serial or port.
THEOREM NoAnonymousDevice == Spec => []NamedWhenShown
<1>1. IInv => NamedWhenShown
  BY DEF IInv, RecordInv, ToldOf, NamedWhenShown, Listed
<1> QED
  BY <1>1, Invariance, PTL

\* One PROCESS_SHOULD_EXIT is the most a device ever gets.
THEOREM SingleExitRequest == Spec => []AskedToExitOnce
<1>1. IInv => AskedToExitOnce
  BY DEF IInv, ExitInv, AskedToExitOnce
<1> QED
  BY <1>1, Invariance, PTL

\* Outside the poll and check phases the list holds waiting endpoints only.
THEOREM RegistrationIsOneShot == Spec => []OneShot
<1>1. IInv => OneShot
  BY DEF IInv, NotifyInv, OneShot
<1> QED
  BY <1>1, Invariance, PTL

\* A waiting endpoint stays in the list until it is served.
THEOREM WaitersStay == Spec => NoWaiterDropped
<1> DEFINE Stays ==
      \A i \in DOMAIN notifications :
        notifications[i].mark = "waiting" =>
          i \in DOMAIN notifications' /\ notifications'[i].to = notifications[i].to
<1>1. ASSUME IInv, Next PROVE Stays
  <2>a. TypeOK /\ NotifyInv
    BY <1>1 DEF IInv
  <2>1. CASE RunCheck
    BY <2>1, <2>a DEF At, RunCheck, NotifyInv
  <2>2. ASSUME Notify PROVE Stays
    BY <2>2, <2>a, ServeAll DEF Notify, TypeOK, Entry
  <2>3. CASE notifications' = notifications
    BY <2>3
  <2>4. ASSUME NEW d \in Devs, DeviceRead(d) \/ DeviceExit(d) PROVE Stays
    BY <2>2, <2>3, <2>4 DEF DeviceRead, DeviceExit, notifyVars
  <2>5. ASSUME NEW c \in Clients, Register(c) PROVE Stays
    <3>1. PICK e \in Entry : notifications' = Append(notifications, e)
      BY <2>5 DEF Register, Entry
    <3> QED
      BY <3>1, <2>a DEF TypeOK, Entry
  <2>6. CASE RunIdle \/ EndPoll \/ RunClosing
    BY <2>3, <2>6 DEF RunIdle, EndPoll, RunClosing, notifyVars
  <2>7. CASE DetectorRead \/ DetectorExit \/ Enable \/ EnableFails \/ Disable
    BY <2>3, <2>7
    DEF DetectorRead, DetectorExit, Enable, EnableFails, Disable, notifyVars
  <2>8. CASE Outside
    BY <2>3, <2>8
    DEF Outside, DeviceStarts, DeviceLeaves, ChildDies, DetectorReports, notifyVars
  <2> QED
    BY <1>1, <2>1, <2>4, <2>5, <2>6, <2>7, <2>8 DEF Next, Loop, Callback
<1>2. IInv /\ [Next]_vars => [Stays]_vars
  BY <1>1
<1> QED
  BY <1>2, Invariance, PTL DEF Spec, NoWaiterDropped

\* Every /serialosc/add is followed by one /serialosc/remove before the record
\* is released, and no remove comes without its add.
THEOREM AddThenRemove == Spec => AnnouncedInPairs
<1> DEFINE Paired(d) ==
      /\ told'[d] = "added" => told[d] \in {"none", "added"}
      /\ told'[d] = "removed" => told[d] \in {"added", "removed"}
      /\ told'[d] = "none" => told[d] \in {"none", "removed"}
<1>1. ASSUME IInv, Next, NEW d \in Devs PROVE Paired(d)
  <2>a. /\ TypeOK /\ HandleOrder(d) /\ StartupOrder(d) /\ told[d] = ToldOf(d)
        /\ d \in Subs
    BY <1>1, Distinct DEF IInv, HandlesInv, MessagesInv, RecordInv
  <2>0. CASE told'[d] = told[d]
    BY <2>0, <2>a DEF ToldOf
  <2>1. CASE RunClosing
    <3>1. CASE d \in Freed
      <4>1. child[d] = "none"
        BY <2>a, <3>1 DEF Freed, ClosingProcs, HandleOrder
      <4>2. told'[d] = "none" /\ told[d] \in {"none", "removed"}
        BY <2>1, <2>a, <3>1, <4>1 DEF RunClosing, ToldOf
      <4> QED
        BY <4>2
    <3>2. CASE d \notin Freed
      BY <2>0, <2>1, <3>2 DEF RunClosing
    <3> QED
      BY <3>1, <3>2
  <2>2. ASSUME NEW x \in Devs, DeviceRead(x) PROVE Paired(d)
    <3>1. CASE x = d /\ Holds(fromQ[d], "DEVICE_READY")
      <4>1. told[d] = "none" /\ told'[d] = "added"
        BY <2>2, <2>a, <3>1 DEF DeviceRead, StartupOrder, ToldOf, TypeOK
      <4> QED
        BY <4>1
    <3>2. CASE ~(x = d /\ Holds(fromQ[d], "DEVICE_READY"))
      BY <2>0, <2>2, <2>a, <3>2 DEF DeviceRead, TypeOK
    <3> QED
      BY <3>1, <3>2
  <2>3. ASSUME NEW x \in Devs, DeviceExit(x) PROVE Paired(d)
    <3>1. CASE x = d /\ ready[d]
      <4>1. told[d] = "added" /\ told'[d] = "removed"
        BY <2>3, <2>a, <3>1 DEF DeviceExit, AnnouncesRemoval, ToldOf, TypeOK
      <4> QED
        BY <4>1
    <3>2. CASE ~(x = d /\ ready[d])
      BY <2>0, <2>3, <2>a, <3>2 DEF DeviceExit, AnnouncesRemoval, TypeOK
    <3> QED
      BY <3>1, <3>2
  <2>4. CASE RunIdle \/ EndPoll \/ RunCheck
    BY <2>0, <2>4 DEF RunIdle, EndPoll, RunCheck, historyVars
  <2>5. CASE DetectorRead \/ DetectorExit \/ Enable \/ EnableFails \/ Disable
    BY <2>0, <2>5
    DEF DetectorRead, DetectorExit, Enable, EnableFails, Disable, historyVars
  <2>6. ASSUME NEW c \in Clients, Register(c) PROVE Paired(d)
    BY <2>0, <2>6 DEF Register, historyVars
  <2>7. CASE Outside
    BY <2>0, <2>7
    DEF Outside, DeviceStarts, DeviceLeaves, ChildDies, DetectorReports, historyVars
  <2> QED
    BY <1>1, <2>1, <2>2, <2>3, <2>4, <2>5, <2>6, <2>7 DEF Next, Loop, Callback
<1>2. IInv /\ [Next]_vars => [\A d \in Devs : Paired(d)]_vars
  BY <1>1
<1> QED
  BY <1>2, Invariance, PTL DEF Spec, AnnouncedInPairs

(***************************************************************************)
(* The refinement of ProcessSwitch                                         *)
(***************************************************************************)

\* The abstract mode is a function of the check handle and the two states.
LEMMA ModeCases ==
    ASSUME TypeOK
    PROVE  /\ Mode = "starting" <=> check_active /\ pending = "ENABLED"
           /\ Mode = "stopping" <=> check_active /\ pending = "DISABLED"
           /\ Mode = "on" <=> ~check_active /\ state = "ENABLED"
           /\ Mode = "off" <=> ~check_active /\ state = "DISABLED"
           /\ Mode \in {"starting", "stopping", "on", "off"}
  BY DEF TypeOK, SwitchState, Mode

\* Every step of the daemon is a step of the switch or leaves it alone.
LEMMA SwitchSimulation ==
    ASSUME IInv, IInv', Next
    PROVE  [Switch!Next]_(<<Mode, Kids>>)
<1> USE DEF Switch!Next
<1>a. TypeOK /\ SwitchInv /\ HandlesInv /\ TypeOK'
  BY DEF IInv
<1>b. \A s \in Subs : proc[s] = "absent" => child[s] = "none"
  BY <1>a DEF HandlesInv, HandleOrder
<1>0. ASSUME UNCHANGED switchVars, Kids' = Kids
      PROVE  UNCHANGED <<Mode, Kids>>
  BY <1>0 DEF switchVars, Mode
<1>1. CASE RunIdle
  <2>1. Kids' = Kids /\ pending' = pending
    BY <1>1 DEF RunIdle, Kids, osVars
  <2>2. CASE check_active /\ FinishedChanging
    <3>1. ~check_active' /\ state' = pending
      BY <1>1, <2>2 DEF RunIdle
    <3>2. CASE pending = "ENABLED"
      <4>1. Mode = "starting" /\ Mode' = "on"
        BY <1>a, <2>2, <3>1, <3>2 DEF Mode
      <4> QED
        BY <2>1, <4>1 DEF Switch!Started
    <3>3. CASE pending = "DISABLED"
      <4>1. Mode = "stopping" /\ Mode' = "off"
        BY <1>a, <2>2, <3>1, <3>3 DEF Mode
      <4>2. Kids = {}
        BY <1>b, <2>2, <3>3 DEF FinishedChanging, Remaining, Kids
      <4> QED
        BY <2>1, <4>1, <4>2 DEF Switch!Stopped
    <3> QED
      BY <1>a, <3>2, <3>3 DEF TypeOK, SwitchState
  <2>3. CASE ~(check_active /\ FinishedChanging)
    BY <1>0, <1>1, <2>1, <2>3 DEF RunIdle, switchVars
  <2> QED
    BY <2>2, <2>3
<1>2. CASE EndPoll \/ RunCheck \/ RunClosing \/ EnableFails \/ DetectorReports
  <2>1. Kids' = Kids /\ UNCHANGED switchVars
    BY <1>2 DEF EndPoll, RunCheck, RunClosing, EnableFails, DetectorReports, Kids,
                osVars
  <2> QED
    BY <1>0, <2>1
<1>3. ASSUME NEW d \in Devs, DeviceRead(d) PROVE UNCHANGED <<Mode, Kids>>
  BY <1>0, <1>3 DEF DeviceRead, Kids
<1>4. ASSUME NEW s \in Subs, Reap(s), child[s] = "exited", UNCHANGED switchVars
      PROVE  Switch!Reap(s)
  <2>1. s \in Kids /\ Kids' = Kids \ {s}
    BY <1>4, <1>a DEF Reap, Kids, TypeOK
  <2>2. Mode' = Mode
    BY <1>4 DEF Mode, switchVars
  <2> QED
    BY <2>1, <2>2 DEF Switch!Reap
<1>5. CASE DetectorRead
  <2>1. PICK S \in SUBSET Free :
          child' = [s \in Subs |-> IF s \in S THEN "start" ELSE child[s]]
    BY <1>5 DEF DetectorRead
  <2>2. child[Detector] # "none"
    BY <1>5, <1>a, Distinct DEF DetectorRead, HandlesInv, HandleOrder
  <2>3. S \in SUBSET Devs /\ S \cap Kids = {} /\ Kids' = Kids \cup S
    BY <1>b, <2>1, Distinct DEF Free, Kids
  <2>4. Mode' = Mode
    BY <1>5 DEF DetectorRead, Mode, switchVars
  <2>5. Detector \in Kids
    BY <2>2, Distinct DEF Kids
  <2>6. state = "ENABLED"
    BY <1>5, <1>a DEF DetectorRead, SwitchInv, TypeOK, SwitchState
  <2>7. Mode \in {"on", "stopping"}
    BY <1>a, <2>6 DEF Mode, SwitchInv, TypeOK, SwitchState
  <2> QED
    BY <2>3, <2>4, <2>5, <2>7 DEF Switch!Spawn
<1>6. CASE Enable
  <2>1. Mode = "off" /\ Mode' = "starting"
    BY <1>6, <1>a DEF Enable, MayChange, StartChange, Mode, TypeOK, SwitchState
  <2>2. \A s \in Subs : child[s] = "none"
    BY <1>6, <1>a, <1>b, Distinct
    DEF Enable, MayChange, SwitchInv, TypeOK, SwitchState, Subs
  <2>3. Kids = {} /\ Kids' = {Detector}
    BY <1>6, <1>a, <2>2, Distinct DEF Enable, Kids, TypeOK
  <2> QED
    BY <2>1, <2>3 DEF Switch!TurnOn
<1>7. CASE Disable
  <2>1. Mode = "on" /\ Mode' = "stopping"
    BY <1>7, <1>a DEF Disable, MayChange, StartChange, Mode, TypeOK, SwitchState
  <2>2. \A s \in Subs : child'[s] = "none" <=> child[s] = "none"
    BY <1>7, <1>a, Distinct DEF Disable, TypeOK
  <2>3. Kids' = Kids
    BY <2>2 DEF Kids
  <2> QED
    BY <2>1, <2>3 DEF Switch!TurnOff
<1>8. ASSUME NEW c \in Clients, Register(c) PROVE UNCHANGED <<Mode, Kids>>
  BY <1>0, <1>8 DEF Register, Kids, osVars
<1>9. ASSUME NEW d \in Devs, DeviceStarts(d) \/ DeviceLeaves(d)
      PROVE  UNCHANGED <<Mode, Kids>>
  <2>1. \A s \in Subs : child'[s] = "none" <=> child[s] = "none"
    BY <1>9, <1>a, Distinct DEF DeviceStarts, DeviceLeaves, Writes, TypeOK
  <2> QED
    BY <1>0, <1>9, <2>1 DEF DeviceStarts, DeviceLeaves, Kids
<1>10. ASSUME NEW x \in Subs, ChildDies(x) PROVE UNCHANGED <<Mode, Kids>>
  <2>1. \A s \in Subs : child'[s] = "none" <=> child[s] = "none"
    BY <1>10, <1>a DEF ChildDies, Alive, TypeOK
  <2> QED
    BY <1>0, <1>10, <2>1 DEF ChildDies, Kids
<1>11. ASSUME NEW d \in Devs, DeviceExit(d) PROVE Switch!Reap(d)
  BY <1>4, <1>11, Distinct DEF DeviceExit
<1>12. CASE DetectorExit
  <2>1. Switch!Reap(Detector)
    BY <1>4, <1>12, Distinct DEF DetectorExit
  <2> QED
    BY <2>1
<1> QED
  BY <1>1, <1>2, <1>3, <1>5, <1>6, <1>7, <1>8, <1>9, <1>10, <1>11, <1>12
  DEF Next, Loop, Callback, Outside

\* serialoscd implements the process switch, with every fault.
THEOREM Refinement == Spec => ImplementsSwitch
<1>1. Init => Switch!Init
  BY Distinct DEF Init, Switch!Init, Mode, Kids
<1>2. ASSUME UNCHANGED vars PROVE UNCHANGED <<Mode, Kids>>
  BY <1>2 DEF vars, switchVars, osVars, Mode, Kids
<1>3. IInv /\ IInv' /\ [Next]_vars => [Switch!Next]_(Switch!pvars)
  BY <1>2, SwitchSimulation DEF Switch!pvars
<1> QED
  BY <1>1, <1>3, Invariance, PTL DEF Spec, ImplementsSwitch, Switch!Spec

=============================================================================
