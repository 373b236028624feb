----------------------------- MODULE Supervisor -----------------------------
(***************************************************************************)
(* serialoscd, the supervisor of src/serialoscd/uv.c.                      *)
(*                                                                         *)
(* One libuv loop runs every callback of the daemon.  It starts one        *)
(* detector process, which reports each monome it sees over its stdout;    *)
(* for each report the daemon starts one device process and keeps a        *)
(* heap-allocated record of it (struct sosc_device_subprocess) until the   *)
(* last of the record's handles is closed.  OSC clients turn the daemon on *)
(* and off, list the devices and register for one-shot notifications.      *)
(*                                                                         *)
(* A step is one callback of the loop, one phase change of the loop, or    *)
(* one step of the outside world: a child process, the kernel.  A member   *)
(* of Devs is the storage of a device record, not a device node: a record  *)
(* that was freed is allocated again for a later connection.               *)
(***************************************************************************)
EXTENDS Naturals, Sequences, FiniteSets

CONSTANTS
    Devs,           \* storage of the device records
    Detector,       \* self->detector
    Clients,        \* OSC clients that ask to be notified
    MaxNotify,      \* bound: notification requests pending at a time
    SpawnMayFail,   \* may uv_spawn() return an error?
    SigpipeKills    \* does a write to a pipe nobody reads end the daemon?

ASSUME DetectorAssumption == Detector \notin Devs
ASSUME DevsAssumption == IsFiniteSet(Devs)
ASSUME MaxNotifyAssumption == MaxNotify \in Nat
ASSUME FaultsAssumption == SpawnMayFail \in BOOLEAN /\ SigpipeKills \in BOOLEAN

Subs == Devs \cup {Detector}

SwitchState == {"DISABLED", "ENABLED"}
HandleState == {"absent", "open", "closing"}
ChildState ==
    {"none", "start", "info", "port", "serving", "terminated", "done", "exited"}
Message ==
    {"DEVICE_CONNECTION", "DEVICE_DISCONNECTION", "DEVICE_INFO",
     "DEVICE_READY", "OSC_PORT_CHANGE"}

VARIABLES
    phase,          \* where the loop is: idle, poll, check or closing callbacks
    armed,          \* the from_proc pipes this poll phase watches
    state, pending, \* self->state, self->state_change.pending
    check_active,   \* the idle handle of a state change is running
    notifications,  \* self->notifications, each entry with its history
    drain_active,   \* the check handle that clears it is running
    notified,       \* history: osc_notify() ran in this iteration of the loop
    pipes,          \* to_proc and from_proc of each subprocess
    proc,           \* its process handle; a device record lives as long
    child,          \* the operating system's process, up to its exit callback
    fromQ,          \* what the child wrote and the daemon has not read
    serial, port,   \* is dev->serial set?  dev->port?
    ready,          \* dev->ready
    told,           \* history: what /serialosc/add and /remove said of the record
    exitReqs,       \* history: PROCESS_SHOULD_EXIT messages written to to_proc
    late,           \* history: launched while a state change was under way
    fate            \* "running", or how the daemon's memory or process ended

loopVars == <<phase, armed>>
switchVars == <<state, pending, check_active>>
notifyVars == <<notifications, drain_active, notified>>
handleVars == <<pipes, proc>>
osVars == <<child, fromQ>>
devVars == <<serial, port, ready>>
historyVars == <<told, exitReqs, late>>
vars == <<loopVars, switchVars, notifyVars, handleVars, osVars, devVars,
          historyVars, fate>>

TypeOK ==
    /\ phase \in {"idle", "poll", "check", "closing"}
    /\ armed \subseteq Subs
    /\ state \in SwitchState /\ pending \in SwitchState
    /\ check_active \in BOOLEAN
    /\ notifications \in
         Seq([to : Clients, mark : {"waiting", "late", "told"}])
    /\ drain_active \in BOOLEAN /\ notified \in BOOLEAN
    /\ pipes \in [Subs -> HandleState] /\ proc \in [Subs -> HandleState]
    /\ child \in [Subs -> ChildState]
    /\ fromQ \in [Subs -> Seq(Message)]
    /\ serial \in [Devs -> BOOLEAN]
    /\ port \in [Devs -> BOOLEAN]
    /\ ready \in [Devs -> BOOLEAN]
    /\ told \in [Devs -> {"none", "added", "anonymous", "removed"}]
    /\ exitReqs \in [Devs -> Nat]
    /\ late \in [Devs -> BOOLEAN]
    /\ fate \in {"running", "corrupt", "sigpipe"}

(***************************************************************************)
(* The loop.  uv_run() repeats: idle callbacks, poll for events and run    *)
(* their callbacks, check callbacks, close callbacks.                      *)
(***************************************************************************)

\* Once a handle is left in released storage, or SIGPIPE has been delivered,
\* what the daemon does is not defined by its source any more.
At(p) == fate = "running" /\ phase = p

\* Mutants: the walk looks for one kind of subprocess only.
RemainingDetector == {s \in {Detector} : proc[s] # "absent"}
RemainingDevices == {s \in Devs : proc[s] # "absent"}

\* handle->data of a process handle outlives uv_spawn() failures and is seen
\* by uv_walk() until the handle's close callback has run.
Remaining == {s \in Subs : proc[s] # "absent"}

FinishedChanging == pending = "ENABLED" \/ Remaining = {}

\* The idle callback of a state change, then the poll set of this iteration.
RunIdle ==
    /\ At("idle")
    /\ phase' = "poll"
    \* uv_read_start() was called if the launch succeeded
    /\ armed' = {s \in Subs : pipes[s] = "open" /\ child[s] # "none"}
    /\ notified' = FALSE
    /\ IF check_active /\ FinishedChanging
         THEN state' = pending /\ check_active' = FALSE
         ELSE UNCHANGED <<state, check_active>>
    /\ UNCHANGED <<pending, notifications, drain_active, handleVars, osVars,
                   devVars, historyVars, fate>>

EndPoll ==
    /\ At("poll")
    /\ phase' = "check"
    /\ armed' = {}
    /\ UNCHANGED <<switchVars, notifyVars, handleVars, osVars, devVars,
                   historyVars, fate>>

\* Mutants: no VECTOR_CLEAR, no uv_check_stop.
KeepsList == notifications
NeverStops == TRUE

\* drain_notifications_cb: the list it leaves, and whether it runs again.
AfterDrain == <<>>
DrainGoesOn == FALSE

RunCheck ==
    /\ At("check")
    /\ phase' = "closing"
    /\ IF drain_active
         THEN notifications' = AfterDrain /\ drain_active' = DrainGoesOn
         ELSE UNCHANGED <<notifications, drain_active>>
    /\ UNCHANGED <<armed, notified, switchVars, handleVars, osVars, devVars,
                   historyVars, fate>>

ClosingPipes == {s \in Subs : pipes[s] = "closing"}
ClosingProcs == {s \in Subs : proc[s] = "closing"}

\* Mutant: device_pipe_close_cb frees the record itself.
FreedTooEarly == ClosingPipes \ {Detector}

\* device_proc_close_cb: the records whose storage is released.
Freed == ClosingProcs \ {Detector}

\* Mutants: one of the two close callbacks does not close the process handle.
DetectorProcOnly == ClosingPipes \cap {Detector}
DeviceProcsOnly == ClosingPipes \cap Devs

\* device_pipe_close_cb and detector_pipe_close_cb: the process handles
\* whose closing starts once their pipes are gone.
NextToClose == ClosingPipes

\* Every close callback that was queued before this phase began runs; a
\* handle closed by one of them is left for the next iteration.
RunClosing ==
    /\ At("closing")
    /\ phase' = "idle"
    /\ pipes' = [s \in Subs |-> IF s \in ClosingPipes THEN "absent" ELSE pipes[s]]
    /\ proc' = [s \in Subs |-> IF s \in NextToClose THEN "closing"
                               ELSE IF s \in ClosingProcs THEN "absent"
                               ELSE proc[s]]
    /\ serial' = [d \in Devs |-> serial[d] /\ d \notin Freed]
    /\ port' = [d \in Devs |-> port[d] /\ d \notin Freed]
    /\ ready' = [d \in Devs |-> ready[d] /\ d \notin Freed]
    /\ told' = [d \in Devs |-> IF d \in Freed THEN "none" ELSE told[d]]
    /\ exitReqs' = [d \in Devs |-> IF d \in Freed THEN 0 ELSE exitReqs[d]]
    /\ late' = [d \in Devs |-> late[d] /\ d \notin Freed]
    \* a handle inside released storage must be out of the loop by then
    /\ fate' = IF \E d \in Freed : pipes[d] # "absent" \/ proc[d] # "closing"
                 THEN "corrupt" ELSE fate
    /\ UNCHANGED <<armed, switchVars, notifyVars, osVars>>

(***************************************************************************)
(* Notifications                                                           *)
(***************************************************************************)

Told(n) == [n EXCEPT !.mark = "told"]

\* osc_notify(): every endpoint registered so far hears of the device ...
Serve(list) == [i \in DOMAIN list |-> Told(list[i])]

\* ... and the list is cleared when the poll phase ends.
Notify ==
    /\ notifications' = Serve(notifications)
    /\ drain_active' = TRUE
    /\ notified' = TRUE

\* osc_add_notification_endpoint.  The mark is history: an endpoint that comes
\* after this iteration's osc_notify() is late.
Register(c) ==
    /\ At("poll")
    /\ Len(notifications) < MaxNotify
    /\ notifications' =
         Append(notifications,
                [to |-> c, mark |-> IF notified THEN "late" ELSE "waiting"])
    /\ UNCHANGED <<drain_active, notified, loopVars, switchVars, handleVars,
                   osVars, devVars, historyVars, fate>>

(***************************************************************************)
(* Messages from the detector and from the devices                         *)
(***************************************************************************)

Holds(q, m) == \E i \in DOMAIN q : q[i] = m

\* Is m handled no later than the first DEVICE_READY of q?
Precedes(m, q) ==
    \E i \in DOMAIN q : q[i] = m /\ \A j \in 1..i : q[j] # "DEVICE_READY"

\* Does osc_notify(), called for the DEVICE_READY in q, know the record's
\* serial and port?
KnownAtReady(d, q) ==
    /\ serial[d] \/ Precedes("DEVICE_INFO", q)
    /\ port[d] \/ Precedes("OSC_PORT_CHANGE", q)

\* device_read_cb: one read takes what the pipe holds; dispatch_ipc_msgs()
\* hands every message of it to handle_device_msg().
DeviceRead(d) ==
    LET q == fromQ[d] IN
    /\ At("poll")
    /\ d \in armed /\ pipes[d] = "open" /\ q # <<>>
    /\ armed' = armed \ {d}
    /\ fromQ' = [fromQ EXCEPT ![d] = <<>>]
    /\ serial' = [serial EXCEPT ![d] = @ \/ Holds(q, "DEVICE_INFO")]
    /\ port' = [port EXCEPT ![d] = @ \/ Holds(q, "OSC_PORT_CHANGE")]
    /\ ready' = [ready EXCEPT ![d] = @ \/ Holds(q, "DEVICE_READY")]
    /\ IF Holds(q, "DEVICE_READY")
         THEN /\ Notify
              /\ told' = [told EXCEPT ![d] = IF KnownAtReady(d, q)
                                               THEN "added" ELSE "anonymous"]
         ELSE UNCHANGED <<notifyVars, told>>
    /\ UNCHANGED <<phase, switchVars, handleVars, child, exitReqs, late, fate>>

Free == {d \in Devs : proc[d] = "absent"}

\* detector_read_cb: handle_connection() for each DEVICE_CONNECTION of the
\* read.  Every launch succeeds (S), or uv_spawn() fails for some (F): their
\* records are freed while their three handles stay linked in the loop.
DetectorRead ==
    /\ At("poll")
    /\ Detector \in armed /\ pipes[Detector] = "open" /\ fromQ[Detector] # <<>>
    /\ armed' = armed \ {Detector}
    /\ fromQ' = [fromQ EXCEPT ![Detector] = <<>>]
    /\ \E S, F \in SUBSET Free :
         /\ S \cap F = {}
         /\ Cardinality(S) + Cardinality(F) = Len(fromQ[Detector])
         /\ F # {} => SpawnMayFail
         /\ pipes' = [s \in Subs |-> IF s \in S THEN "open" ELSE pipes[s]]
         /\ proc' = [s \in Subs |-> IF s \in S THEN "open" ELSE proc[s]]
         /\ child' = [s \in Subs |-> IF s \in S THEN "start" ELSE child[s]]
         /\ late' = [d \in Devs |-> IF d \in S THEN check_active ELSE late[d]]
         /\ fate' = IF F # {} THEN "corrupt" ELSE fate
    /\ UNCHANGED <<phase, switchVars, notifyVars, devVars, told, exitReqs>>

(***************************************************************************)
(* Exit callbacks                                                          *)
(***************************************************************************)

\* Mutants: no test of dev->ready, or no call of osc_notify().
RemovesAlways(d) == TRUE
RemovesNever(d) == FALSE

AnnouncesRemoval(d) == ready[d]

\* What the exit callbacks close: the two pipes now, the process handle from
\* the close callback of from_proc.
CloseSubprocess(s) ==
    /\ pipes' = [pipes EXCEPT ![s] = "closing"]
    /\ proc' = proc

Reap(s) ==
    /\ child' = [child EXCEPT ![s] = "none"]
    /\ fromQ' = [fromQ EXCEPT ![s] = <<>>]   \* unread data dies with the pipe
    /\ CloseSubprocess(s)

\* device_exit_cb
DeviceExit(d) ==
    /\ At("poll")
    /\ child[d] = "exited"
    /\ IF AnnouncesRemoval(d)
         THEN Notify /\ told' = [told EXCEPT ![d] = "removed"]
         ELSE UNCHANGED <<notifyVars, told>>
    /\ Reap(d)
    /\ UNCHANGED <<loopVars, switchVars, devVars, exitReqs, late, fate>>

\* detector_exit_cb
DetectorExit ==
    /\ At("poll")
    /\ child[Detector] = "exited"
    /\ Reap(Detector)
    /\ UNCHANGED <<loopVars, switchVars, notifyVars, devVars, historyVars, fate>>

(***************************************************************************)
(* /serialosc/enable and /serialosc/disable                                *)
(***************************************************************************)

\* Mutant: no uv_is_active() test.
MayChangeAnyTime(new) == state # new

\* supervisor__change_state() returns early, changing nothing, unless
MayChange(new) == state # new /\ ~check_active

\* uv_pipe_init() and uv_spawn() link the detector's handles into the loop
\* again; they must have left it.
Relinks == pipes[Detector] # "absent" \/ proc[Detector] # "absent"

StartChange(new) == pending' = new /\ check_active' = TRUE /\ UNCHANGED state

\* The detector's handles after launch_subprocess(), which opens the pipes
\* first and does not close them when uv_spawn() fails.
LaunchDetector ==
    /\ pipes' = [pipes EXCEPT ![Detector] = "open"]
    /\ proc' = [proc EXCEPT ![Detector] = "open"]
    /\ fate' = IF Relinks THEN "corrupt" ELSE fate

Enable ==
    /\ At("poll")
    /\ MayChange("ENABLED")
    /\ LaunchDetector
    /\ child' = [child EXCEPT ![Detector] = "serving"]
    /\ StartChange("ENABLED")
    /\ UNCHANGED <<loopVars, notifyVars, fromQ, devVars, historyVars>>

\* uv_spawn() fails: the state does not change and nobody is told.
EnableFails ==
    /\ SpawnMayFail
    /\ At("poll")
    /\ MayChange("ENABLED")
    /\ LaunchDetector
    /\ UNCHANGED <<loopVars, switchVars, notifyVars, osVars, devVars,
                   historyVars>>

\* Mutant: only the devices that have announced themselves are asked.
ReadyAskedToExit == {d \in Devs : pipes[d] = "open" /\ ready[d]}

\* kill_devices_walk_cb reaches every record the loop still knows; a pipe that
\* is closing takes no message.
AskedToExit == {d \in Devs : proc[d] # "absent" /\ pipes[d] = "open"}

Disable ==
    /\ At("poll")
    /\ MayChange("DISABLED")
    /\ StartChange("DISABLED")
    /\ child' = [child EXCEPT ![Detector] = IF @ = "serving" THEN "terminated"
                                            ELSE @]
    /\ exitReqs' = [d \in Devs |-> IF d \in AskedToExit THEN exitReqs[d] + 1
                                   ELSE exitReqs[d]]
    \* a device that is gone, its exit callback still to come, reads no more
    /\ fate' = IF SigpipeKills /\ \E d \in AskedToExit : child[d] = "exited"
                 THEN "sigpipe" ELSE fate
    /\ UNCHANGED <<loopVars, notifyVars, handleVars, fromQ, devVars, told, late>>

(***************************************************************************)
(* The child processes, at any moment of the loop                          *)
(***************************************************************************)

Alive(s) == child[s] \notin {"none", "exited"}

\* Mutant: ready is reported before the port.
ReadyTooEarly == <<"DEVICE_INFO", "DEVICE_READY", "OSC_PORT_CHANGE">>
\* Mutant: the device echoes the message type it should only receive.
WrongType == <<"PROCESS_SHOULD_EXIT", "OSC_PORT_CHANGE", "DEVICE_READY">>

\* sosc_server_run(): what a device that starts writes, in this order.
StartupMessages == <<"DEVICE_INFO", "OSC_PORT_CHANGE", "DEVICE_READY">>

Writes(s, from, m, to) ==
    /\ child[s] = from
    /\ child' = [child EXCEPT ![s] = to]
    /\ fromQ' = [fromQ EXCEPT ![s] = Append(@, m)]

DeviceStarts(d) ==
    /\ \/ Writes(d, "start", StartupMessages[1], "info")
       \/ Writes(d, "info", StartupMessages[2], "port")
       \/ Writes(d, "port", StartupMessages[3], "serving")
    /\ UNCHANGED <<loopVars, switchVars, notifyVars, handleVars, devVars,
                   historyVars, fate>>

\* The event loop of a device ends: its monome is unplugged, or it has read
\* PROCESS_SHOULD_EXIT.
DeviceLeaves(d) ==
    /\ Writes(d, "serving", "DEVICE_DISCONNECTION", "done")
    /\ UNCHANGED <<loopVars, switchVars, notifyVars, handleVars, devVars,
                   historyVars, fate>>

DeviceObeys(d) == exitReqs[d] > 0 /\ DeviceLeaves(d)

\* A process ends: it is done, it cannot start, it crashes, it is killed.
ChildDies(s) ==
    /\ Alive(s)
    /\ child' = [child EXCEPT ![s] = "exited"]
    /\ UNCHANGED <<loopVars, switchVars, notifyVars, handleVars, fromQ,
                   devVars, historyVars, fate>>

\* The detector sees a monome; SIGTERM may catch it after that.
DetectorReports ==
    /\ Alive(Detector)
    /\ Len(fromQ[Detector]) < Cardinality(Free)   \* bound: Devs
    /\ fromQ' = [fromQ EXCEPT ![Detector] = Append(@, "DEVICE_CONNECTION")]
    /\ UNCHANGED <<loopVars, switchVars, notifyVars, handleVars, child,
                   devVars, historyVars, fate>>

-----------------------------------------------------------------------------

\* main(): supervisor_enable() has launched the detector, the loop starts.
Init ==
    /\ phase = "idle" /\ armed = {}
    /\ state = "DISABLED" /\ pending = "ENABLED" /\ check_active = TRUE
    /\ notifications = <<>> /\ drain_active = FALSE /\ notified = FALSE
    /\ pipes = [s \in Subs |-> IF s = Detector THEN "open" ELSE "absent"]
    /\ proc = [s \in Subs |-> IF s = Detector THEN "open" ELSE "absent"]
    /\ child = [s \in Subs |-> IF s = Detector THEN "serving" ELSE "none"]
    /\ fromQ = [s \in Subs |-> <<>>]
    /\ serial = [d \in Devs |-> FALSE]
    /\ port = [d \in Devs |-> FALSE]
    /\ ready = [d \in Devs |-> FALSE]
    /\ told = [d \in Devs |-> "none"]
    /\ exitReqs = [d \in Devs |-> 0]
    /\ late = [d \in Devs |-> FALSE]
    /\ fate = "running"

Loop == RunIdle \/ EndPoll \/ RunCheck \/ RunClosing

Callback ==
    \/ \E d \in Devs : DeviceRead(d) \/ DeviceExit(d)
    \/ DetectorRead \/ DetectorExit
    \/ Enable \/ EnableFails \/ Disable
    \/ \E c \in Clients : Register(c)

Outside ==
    \/ \E d \in Devs : DeviceStarts(d) \/ DeviceLeaves(d)
    \/ \E s \in Subs : ChildDies(s)
    \/ DetectorReports

Next == Loop \/ Callback \/ Outside

Spec == Init /\ [][Next]_vars

(***************************************************************************)
(* Fairness.  The loop runs; a readable pipe and an exited child are       *)
(* reported by every poll phase until they are served, but a poll phase    *)
(* may end before a child has become readable: strong fairness.  A device  *)
(* that was started gets ready, one that was asked to exit does, and       *)
(* SIGTERM ends the detector.  Nothing makes clients or monomes act.       *)
(***************************************************************************)
FairSpec ==
    /\ Spec
    /\ WF_vars(RunIdle) /\ WF_vars(EndPoll)
    /\ WF_vars(RunCheck) /\ WF_vars(RunClosing)
    /\ SF_vars(DetectorRead) /\ SF_vars(DetectorExit)
    /\ \A d \in Devs :
         /\ SF_vars(DeviceRead(d)) /\ SF_vars(DeviceExit(d))
         /\ WF_vars(DeviceStarts(d)) /\ WF_vars(DeviceObeys(d))
    /\ \A s \in Subs :
         WF_vars(child[s] \in {"terminated", "done"} /\ ChildDies(s))

(***************************************************************************)
(* Safety                                                                  *)
(***************************************************************************)

\* A disabled daemon is quiet.  Once supervisor_disable() has taken effect no
\* device process and no device record is left, and no detector either unless
\* a new supervisor_enable() has just started one: state_change_check_cb waits
\* for the last close callback.
DisabledMeansQuiet ==
    state = "DISABLED" =>
      /\ \A d \in Devs : proc[d] = "absent" /\ child[d] = "none"
      /\ ~check_active => child[Detector] = "none"

\* As long as uv_spawn() succeeds, no device record is released while one of
\* its handles is in the loop and the detector's handles are never initialised
\* while they are: the close callbacks and the refusal of a state change
\* during another one keep the order.
HandlesIntact == SpawnMayFail \/ fate # "corrupt"

\* What /serialosc/list answers: list_devices_walk_cb
Listed == {d \in Devs : proc[d] # "absent" /\ ready[d]}

\* A device is named when it is shown.  No /serialosc/add and no entry of a
\* /serialosc/list carries a record whose serial or port has not been received,
\* however the writes of the device and the reads of the daemon interleave.
NamedWhenShown ==
    /\ \A d \in Devs : told[d] # "anonymous"
    /\ \A d \in Listed : serial[d] /\ port[d]

\* A device is asked to exit at most once in its life, so the first write to an
\* empty pipe is the only one and completes at once: write_ipc_msg_to_stream()
\* hands uv_write() a buffer on the stack.
AskedToExitOnce == \A d \in Devs : exitReqs[d] <= 1

\* A registration is for one notification: in the closing and idle phases the
\* list holds only endpoints that have heard nothing yet.
OneShot ==
    phase \in {"closing", "idle"} =>
      \A i \in DOMAIN notifications : notifications[i].mark = "waiting"

\* An endpoint that registered before the events of an iteration is told of the
\* first of them: it leaves the list only after it was served.  (One that
\* registers after osc_notify() in the same poll phase is dropped unserved by
\* drain_notifications_cb; that is what the mark "late" is for.)
NoWaiterDropped ==
    [][\A i \in DOMAIN notifications :
         notifications[i].mark = "waiting" =>
           i \in DOMAIN notifications' /\ notifications'[i].to = notifications[i].to]_vars

\* /serialosc/add and /serialosc/remove come in pairs: a remove follows an add
\* of the same record, an add is never repeated, and a record that was added is
\* not released before its remove.
AnnouncedInPairs ==
    [][\A d \in Devs :
         /\ told'[d] = "added" => told[d] \in {"none", "added"}
         /\ told'[d] = "removed" => told[d] \in {"added", "removed"}
         /\ told'[d] = "none" => told[d] \in {"none", "removed"}]_vars

(***************************************************************************)
(* Refinement                                                              *)
(***************************************************************************)

Mode ==
    CASE check_active /\ pending = "ENABLED"  -> "starting"
      [] check_active /\ pending = "DISABLED" -> "stopping"
      [] ~check_active /\ state = "ENABLED"   -> "on"
      [] OTHER                                -> "off"

Kids == {s \in Subs : child[s] # "none"}

Switch == INSTANCE ProcessSwitch WITH mode <- Mode, kids <- Kids

\* The daemon is a switch in front of a set of processes.
ImplementsSwitch == Switch!Spec

(***************************************************************************)
(* Liveness                                                                *)
(***************************************************************************)

TearingDown == check_active /\ pending = "DISABLED" /\ fate = "running"

\* The only thing that can hold up a teardown for good is a device the detector
\* had reported before it died and that was launched after the kill walk:
\* nobody asks that one to exit.
HeldUp ==
    /\ child[Detector] = "none"
    /\ \E d \in Devs : proc[d] # "absent" /\ late[d]
    /\ \A s \in Remaining : s # Detector /\ late[s]

\* A /serialosc/disable takes effect, or the daemon is left with late devices
\* only.
TeardownEnds == TearingDown ~> (~TearingDown \/ HeldUp)

\* The subscribers of a device that is gone are told so, whatever it had sent
\* before: an announced device whose process ended is announced as removed.
RemovalFollows ==
    \A d \in Devs :
      (told[d] = "added" /\ child[d] = "exited" /\ fate = "running")
        ~> (told[d] = "removed" \/ fate # "running")

\* A removed device leaves /serialosc/list: the record lives through two rounds
\* of close callbacks, still listed, but not for ever.
RemovedLeavesList ==
    \A d \in Devs : (told[d] = "removed") ~> (d \notin Listed \/ fate # "running")

=============================================================================
