# serialosc in TLA+

TLA+ modules for [serialosc](../src/README.md): the supervisor daemon
`serialoscd`, the detector it listens to and the device servers it starts.
TLC checks small instances; for every instance TLAPS proves the safety of the
supervisor, of the device server (its sessions, its configuration file, its threads
on Windows), of the three detectors, of the codec and of the whole on Linux. Every
invariant and every safety property of the runs is a theorem; the liveness properties
are TLC's.

## 1. The system

Three programs, joined by pipes:

* **`serialoscd`** (`src/serialoscd/uv.c`), one process, one libuv loop. It
  starts one detector; for each device node the detector reports it starts a
  device server and keeps a `sosc_device_subprocess` record for it. OSC clients
  send it `/serialosc/list`, `/notify`, `/enable`, `/disable`, `/status`,
  `/version` on port 12002.
* **`serialosc-detector`** (`src/serialosc-detector/`), one implementation per
  system. It writes a `DEVICE_CONNECTION` message for each monome it sees.
* **`serialosc-device`** (`src/serialosc-device/`), one process per monome. It
  reads the monome's configuration, opens an OSC server, writes `DEVICE_INFO`,
  `OSC_PORT_CHANGE` and `DEVICE_READY`, serves until the monome goes or
  `PROCESS_SHOULD_EXIT` arrives, writes `DEVICE_DISCONNECTION` and saves its
  configuration.

| Component | State | Operations | Hard because | Correct when |
|---|---|---|---|---|
| supervisor switch (`supervisor__change_state`, `state_change_check_cb`) | `state`, `pending`, idle handle | enable, disable, idle check | a disable ends only after asynchronous close callbacks; requests and detector reports arrive meanwhile | a disabled daemon has nothing left; no handle is initialised twice; a disable ends |
| subprocess records | two pipes and a process handle each, `ready`, `serial`, `port` | launch, read, exit callback, two close callbacks | freed from a close callback while handles in the same storage may be linked in the loop | freed after the last handle has left the loop |
| announcements | `notifications`, the drain handle | notify, register, drain | registration, notification and drain race within one loop iteration | a waiting endpoint is told before it is dropped; add and remove alternate; nothing is shown without a name |
| message dispatch | the two ends of a pipe | read, decode, handle | reads fall between the writes of a device; a device dies with unread data | each read leaves a consistent record |
| detector, one per system | scan position; monitor, iterator or message window | scan, listen, receive | plugging races the start of the listening; the kernel shows a device to the scan before udevd announces it to the monitor; buffers and sizes that outlive a turn of a loop; a socket that overruns | each plugging reported, and once, but for what arrives between scan and listening |
| device session | destination, prefix, methods, rotation | the `/sys` and LED methods, the event loop | prefix changes re-register methods; the daemon may die | methods answer under the current prefix only |
| device event loop, Windows | three threads, `state->running` | check, wait, handle; `main()` wakes, saves, frees, exits | no locks; threads that wait for ever; settings freed by one thread and read by another | one ended thread ends the process; what is used has not been freed |
| device configuration | one file and one port per serial | read, bind, serve, truncate, write, free | an old and a new process of one monome; truncation before writing; the port is freed last | the next start sees what the last session saved, or nothing while somebody saves or after a crash in a save; the port comes free |
| IPC codec (`common/ipc.c`) | a 256-byte buffer | encode, decode | sizes of strings against what is left | decode inverts encode; what is written was whole in the buffer |

They interact only by messages: detector to supervisor and device to supervisor
over stdout, supervisor to device over stdin, signals from the supervisor to the
detector, the file system between two lives of a device server, OSC with
everyone else.

## 2. Plan

Written, in this order: `Supervisor` with its abstract `ProcessSwitch`, `Detector`,
`DeviceSession`, `DeviceConfig` with its abstract `ConfigRegister`, `Ipc`,
`DetectorMac`, `DetectorWindows`, `DeviceThreads`, and `Serialosc`, which composes
`ProcessSwitch`, `Detector` and the device processes. `Supervisor` implements
`ProcessSwitch`, so that what `Serialosc` says of the switch holds of the daemon.

Left: in `DeviceThreads` the parts of the destination (host and port) that `main()` saves
while the OSC thread replaces it.

## 3. Modules

### `Supervisor`

A step is one libuv callback, one phase change of the loop, or one step of a
child process. A loop iteration is `RunIdle`, any number of callbacks in the
`poll` phase, `EndPoll`, `RunCheck`, `RunClosing`.

| TLA+ | Code |
|---|---|
| `state`, `pending`, `check_active` | `self->state`, `self->state_change.pending`, the idle handle is active |
| `notifications`, `drain_active` | `self->notifications`, the check handle is active |
| `pipes[s]`, `proc[s]` | the handles of a `sosc_subprocess`; both pipes are initialised and closed together and share a value |
| `child[s]`, `fromQ[s]` | the process behind it up to its exit callback, and what it wrote to `from_proc` |
| `serial`, `port`, `ready` | the fields of a device record that matter: set or not |
| `armed` | the pipes this poll phase reports as readable: those read since before it began |
| `told`, `exitReqs`, `late`, `notified`, marks | history only: no guard of the daemon reads them (`notified` is read to write a mark, `exitReqs` by the device that was asked to exit) |
| `fate` | `"corrupt"` once a linked handle is in freed storage or is linked again; `"sigpipe"` once a write to a pipe without reader has killed the daemon. The daemon takes no step after either; its children go on |
| `RunIdle` | `state_change_check_cb` |
| `RunCheck` | `drain_notifications_cb` |
| `RunClosing` | `device_pipe_close_cb`, `device_proc_close_cb`, `detector_pipe_close_cb` |
| `DeviceRead`, `DetectorRead` | `device_read_cb`, `detector_read_cb` with `dispatch_ipc_msgs` and every message handler |
| `DeviceExit`, `DetectorExit` | the exit callbacks |
| `Enable`, `EnableFails`, `Disable` | `supervisor__change_state`; a refused request changes nothing and is a stuttering step |
| `Register` | `osc_add_notification_endpoint` |
| `Listed` | what `osc_list_devices` answers |

libuv and the operating system are external and modelled from their documented
behaviour: idle callbacks, poll, check callbacks, close callbacks, in this order;
the close callbacks queued before the closing phase run in it, those queued by
them in the next; `uv_walk` sees a handle until its close callback has run; a
pipe is polled from the iteration after `uv_read_start`; a read returns what the
pipe holds. No order between a readable pipe and an exit callback is assumed, so
a child's last messages may be lost, as `uv_close` then discards them.

A member of `Devs` is the *storage* of a record: it is reused, so stale fields
and history would show.

### `ProcessSwitch`

The abstract specification: a switch (`off`, `starting`, `on`, `stopping`) in
front of a set of processes. It starts empty-handed with the detector, gets
further children only through a living detector, and is off only when no child
is left. `Supervisor!Switch` is its instance with `mode <- Mode`, computed from
`state`, `pending` and `check_active`, and `kids <- Kids`, the children whose
exit callback has not run.

### `Detector`, `DetectorMac`, `DetectorWindows`

The three detectors against ports that come and go at any moment.

`libudev.c`: `Enumerate`, `ScanOne`, `ScanEnds`, `OpenMonitor`, `Receive`. A plugging is
three moments. `Plug`: the kernel has made the tty, and the scan can find it, as it asks
for no device that udevd has initialised (`libudev.c:190-191`). `Broadcast`: udevd has run
its rules and announces the device on the source `"udev"` (`libudev.c:218`); until then the
event is in `pending`, whose order is kept for one device and not among several. `Receive`:
the detector takes it from the monitor's socket. The history `late` has the nodes that were
listed before they were announced; `ScanOne` may pass such a node over, as a device that
has to be known by its properties has none yet. The socket queues events only from
`OpenMonitor` on and holds `QueueSize`; one more is an overrun, after which
`udev_monitor_receive_device` returns NULL, whose action the code looks at
(`ReceiveNothing`: the detector is dead and nobody restarts it). `Fails`: udev gives no
enumeration or no monitor (`libudev.c:187`, `218`), and `main` returns 1 or 2.

`iokitlib.c`: one iterator is scan and monitor in one, so nothing is missed and
nothing doubled (`AddNotification`, `IterateOne`, `IterateEnds`, `Notified`). `len` and
`devnode` are the locals of `iterate_devices`: the library takes the buffer's size in
`len`, overwrites it with the node's length, and copies nothing if the node is longer
(`Fits`). A node of another serial port, without USB device, is read but not reported.

`windows.c`: `Register` asks for arrivals, `List` and `ScanOne` report what is there,
`Arrival` reports what the window is told. The history `early` counts the arrivals
between the two.

### `DeviceSession`

The sessions of one monome's server, one after the other, with everything that
happens to a session: clients' `/sys` messages, the exit request, the loss of the
monome, the death of the daemon, a crash. A step is one stage of a pass of
`sosc_event_loop` (the loop for poll(2)), the start, or a stage of the end.

| TLA+ | Code |
|---|---|
| `position` | where `sosc_server_run` is; `"monome"`, `"osc"`, `"ipc"` are the three tests of a pass |
| `revents` | the `revents` that are still to be tested |
| `outgoing`, `prefix`, `rotation` | `state->outgoing`, `state->config.app.osc_prefix`, libmonome's rotation |
| `methods` | liblo's method table for the LED, ring and tilt paths: entries per prefix and path |
| `file` | the `.conf` file of the monome |
| `asked`, `attached`, `hup` | a request lies in stdin; the daemon lives; the monome is gone |
| `told`, `news` | history: what addresses were told |
| `kept` | history: the settings of the last session that opened the file; nothing if it did not come to write |
| `OpenConfig`, `Save`, `SaveFails` | `sosc_config_write`: `fopen(path, "w")`, which empties the file; the questions for the settings, `cfg_print` and `fclose`; a failed `fopen` |
| `Dies` | the process is killed, at any position: between `OpenConfig` and `Save` the file stays empty |
| `Portstr`, `Itos` | `portstr` and `sosc_port_itos`: `snprintf` into six bytes cuts a port to five characters; zero becomes no port |
| `Quotient`, `Remainder`, `Masked` | C's `/` and `%`; the two bits libmonome keeps |
| `WithMethods`, `WithoutMethods` | `osc_register_methods`, `osc_unregister_methods`: the second does not name `ring/intensity` |

liblo and libmonome are external. `lo_server_del_method` deletes every entry for a
path, `lo_server_add_method` adds one whether or not there is one;
`lo_address_get_port` of an address made without a port is `NULL`, and reading a
number from it ends the process: in `/sys/info/port` (`SysInfoPort`) and in
`sosc_config_write`, there after the file has been emptied (`Save`). The text is taken
to fit a stdio buffer, so that `fclose` writes it as a whole; an empty file is read as the
defaults. A write to the
dead daemon's pipe is SIGPIPE: `Disconnect` of an orphan ends it before it saves.
Answers to `/sys/info` and LED messages change no state of the server.

### `DeviceConfig`, `ConfigRegister`

The server processes of *one* monome around its file and its port, as many at a time
as there are `Servers`: one starts while its predecessor still saves (a quick replug)
or while the orphan of a dead daemon still runs. `at[p]` is the place of process `p` in
`sosc_server_run`; the settings a session changes are one value, as only their identity
matters here.

| TLA+ | Code |
|---|---|
| `config[p]`, `port[p]` | `state.config`, with the settings a client sees; the port of `state.server` |
| `file` | the text of the `.conf` file; `Empty` stands for none, or a truncated one |
| `ReadConfig` | `sosc_config_read`: an empty file leaves the defaults |
| `Bind`, `BindFails` | `lo_server_new`; on failure the process goes without a message |
| `Disconnect` | `send_simple_ipc(SOSC_DEVICE_DISCONNECTION)`; SIGPIPE without a daemon |
| `Open`, `Write` | `fopen(path, "w")`; `cfg_print` and `fclose` |
| `Close` | `lo_server_free`, the last thing that matters |
| `Foreign` | another program takes a port or gives it back |

The abstract specification `ConfigRegister` is a register: a reader gets the last value
that was written as a whole, or nothing while somebody writes; a write that was given
up may lose the value; nobody gets a part of a value. `Register` is its instance with
`value <- saved`, `writers <- Writing`, `got <- loaded`.

### `Ipc`

The two ends of a pipe. A byte is a record: which part of a message it belongs to,
which byte of the part it is, and what the part says; a magic number is a part without
contents. `Emit` is `EMIT_BYTES`, `Consume` is `CONSUME_BYTES`, with their order of
walk, test and copy; `ToBuf` and `FromBuf` are the two codec functions with the sizes
they really hand on (the whole buffer's, not what is left); `Turn` is one turn of the
loop of `dispatch_ipc_msgs` and `Dispatched` the loop, a recursive function over
positions; `ReadFrom` is `sosc_ipc_msg_read`. `top` is how far the encoder has written,
`beyond` how far the decoder has looked past what was read. Texts have any length, as
nothing in `src/` bounds a serial, a name or a node. A text that does not even fit alone is
refused at once; one that is too long by less than the structure is copied past the end of
the buffer, and then the next part is refused or the assertion on the size fails, which
ends the sender (`aborted`). `Prints` is what a library prints to a
child's stdout.

### `DeviceThreads`

One device process on Windows. Each thread has its place in its loop; `using[t]` holds
the versions of the destination and of the prefix that thread `t` reads *now*, so that
taking a pointer and using what it points to are two steps. A read of what has been
freed (`Crash`) may end the process or not. The write to a dead daemon fails without a
signal here, so the end goes on to the save.

### `Serialosc`

The composition on Linux. `S == INSTANCE ProcessSwitch` and `D == INSTANCE Detector`
share the process that runs the detector (`Ended`: it has exited); `pipe` holds the reports the daemon has not
read, `node[d]` the argument of a device process and `life[d]` its place: `start`,
`serving`, `lost` (its monome is gone) and `left` (exited, not reaped). `Launch` is
`S!Spawn` with the oldest report, `Reap` the exit callback, `Enable` gives the detector
a new life, in which it may hear of what is plugged in and of what udevd has still to
announce (`StillToSee`); `Broadcast` is the detector's. A process opens whatever is behind its node when it comes to that, which
need not be what was reported. Device processes do not crash here, and bind their port:
that is `DeviceConfig`'s matter.

### `MC...`

TLC instances: symmetry of records; rotations below zero; the choice of a system; texts
and lengths.

### `..._proofs`

The theorems of section 6.

## 4. Runs

| Run | Instance | Question |
|---|---|---|
| `supervisor_safety` | 2 records, 1 client, 2 registrations, no fault | Do the safety properties hold under every interleaving? |
| `supervisor_liveness` | 1 record, 1 registration, `uv_spawn` may fail, SIGPIPE kills, fairness | Is the daemon the abstract switch up to a fault? Does a disable end, is a death announced, does a removed device leave the list? |
| `detector` | 2 nodes, 2 pluggings each, a slow udevd, a queue of 3, udev calls that fail, fairness | At most one report per plugging, and one more for a node listed before it was announced? A report for each monome outside the window unless the queue overruns or udev fails? |
| `detector_window` | 1 node | Violated: a monome announced between scan and monitor is never reported |
| `detectors` | macOS: 2 USB nodes of one length, a longer one without USB; Windows: 2 ports; 2 arrivals each | Is every port reported, and only the early ones on Windows twice? |
| `session_settings` | 1 host, port 0, 2 prefixes, up to 3 registrations in a session, angles -90 and 360 | Does the method table follow the prefix, is the destination told? Does a session start with what the last one to open the file wrote, whoever was killed since or then? |
| `session_moves` | 2 hosts, ports 8000 and 123456, fairness | Does who has lost the monome know? Are host and port that were saved last those of the next session? Does the process see the exit request and the loss of its monome under an endless stream of OSC? |
| `config` | 2 servers, 2 ports, 2 settings, crashes, dead daemons, fairness | Is the file a register? Who gets the port after the other, with which settings? |
| `ipc` | 3 writes, texts of 0, 1, 2, 12, 13 and 20 characters, a buffer of 15 bytes, the daemon or a device server at the other end | Is what is decoded what was sent? Was what was sent whole in the buffer, and how far past it does the encoder go? |
| `device_threads` | 2 replacements of each setting, fairness | Do the exits happen, is nothing used after it was freed by a method? |
| `device_threads_race` | 1 replacement | Violated: an event is sent through freed memory |
| `serialosc` | 1 node, 2 pluggings in a detector's life, a slow udevd, 3 processes, fairness | Are there never more processes than pluggings, but for the one of a late announcement? Is a monome that stays served, also after a disable and an enable? |

Bounds. Two records are the least for a kill walk that meets a device that has
announced itself and one that has not, or one asked to exit and one launched
late; a third would be a copy of one of these, as records touch each other only
through the switch and the notification list. Two registrations let a served, a
waiting and a late endpoint share the list. With one record liveness still sees
the record asked to exit, the record launched late and its reuse; with two the
fairness conditions make TLC's graph too large for a short run. The detector
reports no more devices than there are free records (`DetectorReports`), so
`Devs` also bounds its pipe. TLC's deadlock check is on in `supervisor_safety`, in
the session runs and in `config`, and finds none. It is off in `supervisor_liveness`,
as nothing is defined after a fault, and where everything may come to rest: when the
bound on writes, pluggings or moves is used up, or the process has ended.

Three registrations in a session (`MaxRegistrations`) are two changes of prefix: to
another and back, where a forgotten entry would be entered twice. Two hosts and two
ports let the destination go away by one attribute and come back by the other.
Sessions are not counted: the state between two sessions is the file and `kept`, so
TLC covers any number of them. The port 123456 is cut to 12345.

A queue of three events overruns with two nodes and does not with one plugging and
one unplugging. Two pluggings of two nodes let one be listed before and one after its
announcement, and an old announcement arrive for a new plugging. Lengths 24, 28 and 33 only matter by their order. Two servers around
a file are one that saves, is killed or is orphaned and one that reads meanwhile; with
two ports one can be refused. (Three are too many for a short run with fairness; the
theorems are for any number.) A structure of 3 bytes, a length of 2, a magic number of 1 keep the
order of the real sizes (32, 8 and 2 of 256): an odd stray length shifts a header, one of
the structure's size looks like a message without magic number. A text of 12 characters,
alone, ends behind the buffer and runs into the assertion; one of 13 is copied behind the
buffer and its magic number is refused; one of 20 is refused at once. Three writes put two messages, or a message and a stray, in front of
another. Two replacements let a version be freed that a slower thread may have read
before the last one. Three processes are one for each report of
a detector's life (two pluggings and one late announcement), so that a monome that was
plugged in once, or was not late, could have one too many; those of an earlier life are reaped before the daemon can be enabled
again. `detectors` chooses one of two systems at the start, `ipc` one of two readers.

Symmetry (of the records) is used in `supervisor_safety` only: the other runs that would
gain by it check liveness.

What the properties say:

* `DisabledMeansQuiet`: disabled means that no record, device or detector is left.
* `HandlesIntact`: no linked handle is freed or initialised again, unless
  `uv_spawn` fails.
* `NamedWhenShown`: an add or a list entry has serial and port.
* `AskedToExitOnce`: one `PROCESS_SHOULD_EXIT` in the life of a record, which is
  what makes the stack buffer of `write_ipc_msg_to_stream` safe.
* `OneShot`, `NoWaiterDropped`: a registration serves for one notification, and
  an endpoint that was waiting when an iteration's first event came is told.
  One that registers after `osc_notify` in the same poll phase is dropped
  unserved; the mark `late` records it.
* `AnnouncedInPairs`, `RemovalFollows`: adds and removes alternate, and the
  death of an announced device is announced.
* `TeardownEnds`: a disable takes effect, or the detector is dead and every
  record left is *late*: launched from a report that was read after the kill
  walk. Such a device is never asked to exit; until its monome is unplugged the
  daemon stays between the states and refuses every enable and disable.
* `RemovedLeavesList`: a device that was announced as removed is still listed
  while its handles close, but not for ever.
* `MethodsFollowPrefix`: through any sequence of prefix changes a path has one
  entry under the current prefix and none under another. `ring/intensity` is left
  out: it is never unregistered and stays under every prefix the session has had.
* `DestinationUpToDate`, `FormerDestinationKnows`: who has the monome is not left
  with an old prefix or rotation, who has lost it has been told. The converse does
  not hold: an application that gets the monome back by a change of the other
  attribute is told only that one, and may still hold an old value of the first.
* `SettingsSurvive`: a session starts with what the last session to open the file wrote,
  port 0 read as none. Sessions that were killed before, orphans and failed `fopen`s lose
  their own changes only. A session that is killed between `fopen` and `fclose`
  (`config.c:138-158`), or crashes there for want of a port, loses everything: the next one
  starts with the defaults.
* `ExitObeyed`, `UnpluggedLeaves`: no stream of OSC messages keeps the process from
  its exit, and an orphan that spins on the end of stdin still leaves with its monome.

* `ImplementsRegister`: a server starts with a complete save or with the defaults,
  never with a mixture, and with the defaults only while another server saves or after
  a crash in a save.
* `HandOver`: the save comes before the port is freed, so a server that starts when no
  port is held any more cannot miss a save that is still to come.
* `PortComesFree`: SIGPIPE, a failed `fopen` and a crash all lead to the port's release.
* `SurplusIsLate`, `MacNoSurplusReport`, `WindowsSurplusIsEarly`: a node is reported no
  more often than it was plugged in. On Linux there is one exception, a node that was listed
  before udevd announced it: it is in the list and may come through the monitor too. On
  Windows the exceptions are the arrivals between notification and list; on macOS, for USB
  nodes of one length, there are none.
* `SeenIsReported`, `MacPluggedIsReported`, `WindowsPluggedIsReported`: a monome that stays
  is reported; on Linux unless it was announced in the window of `detector_window`, or the
  monitor overran, or udev refused to be asked; on macOS for nodes of one length.
* `Delivered`: decoding inverts encoding for any split of the messages into reads, by the
  daemon or by a device server.
  `NothingInvented`: stray output may cost messages; it makes none up.
* `SenderBounds`, `ReceiverInBounds`: the sizes that are handed on are too large by
  the structure's, at both ends. For texts of every length, what the sender writes to the
  pipe was whole in its buffer, and it leaves the buffer by no more than a structure. (It
  does leave it: section 7.) The receiver never looks past what it has read, as messages
  are written and read whole.
* `OneMessageAfterExit`, `AnswersFirst`, and `ExitObeyed`, `UnpluggedLeaves` of
  `DeviceThreads`: two threads that wait for ever do not keep the process, and what a
  method answers through is not yet freed.
* `SurplusServerIsLate`: reports that are read late, a daemon that is disabled and enabled,
  and a scan that finds again what was served before lead to no process too many: the
  daemon comes back only when the last process of its former life is reaped. The one
  process too many there can be is that of a node listed before it was announced.
* `EnabledServes`: whoever stays plugged in and outside the window is served while the
  daemon stays on and its detector lives.

## 5. Fairness

`FairSpec` of `Supervisor` assumes: weak fairness of the four phase changes
(`uv_run` loops); strong fairness of reads and exit callbacks (the kernel reports
a readable pipe and an exited child again in every poll phase, but one poll phase
may end before the child acts); weak fairness of a device's start (`sosc_server_run`
does not wait for anything before `DEVICE_READY`), of its exit after it was asked
(`sosc_event_loop` polls stdin) and of the death of a process that is done or has
got SIGTERM (the detector installs no handler). No client request, no plugging, no
unplugging and no crash is assumed to happen. The detectors
assume weak fairness of their own steps and, on Linux, that udevd announces each device in
the end; `DeviceSession` assumes weak fairness of the stages of a pass and of
the end (the open or its failure, the write), and that poll() returns when the loss of the monome, a request or the end of
stdin is there. `DeviceConfig` assumes that each process goes on from its bind and from
the end of its loop, and notices the loss of its monome (which `session_moves` shows).
`DeviceThreads` assumes that each thread runs while the process is there: the serial
thread when its monome is lost or it is past its wait, the OSC thread when it is not
waiting for a message, the stdin thread when something lies in stdin or the daemon is
gone. `Serialosc` assumes that every process runs, udevd too, and that the daemon reads and reaps,
which `Supervisor`'s fairness amounts to.

## 6. Proofs

`Supervisor_proofs` proves, for every set of records and clients, every bound on
registrations and with or without faults: `TypeOK`, `DisabledMeansQuiet`,
`HandlesIntact`, `NamedWhenShown`, `AskedToExitOnce`, `OneShot`, the action
properties `NoWaiterDropped` and `AnnouncedInPairs`, and that `Supervisor`
implements `ProcessSwitch`. The assumptions are the `ASSUME`s of `Supervisor`:
the detector is not a device record, the records are finite, the bound is a
natural number, the two fault switches are Booleans.

None of the properties is inductive. `IInv` is the conjunction of `TypeOK` and

* `HandlesInv`: per subprocess, which combinations of pipe state, process handle
  state and child occur; this is where the two rounds of close callbacks live.
  It gives that a closed process handle means that the child has been reaped;
* `SwitchInv`: what may exist in each position of the switch. Its conjunct that a
  disabled daemon's poll set does not hold the detector's pipe is what keeps a
  stale report from launching a device after the teardown;
* `RecordInv`: a free record is blank, and what was announced is a function of
  `ready` and of whether the child is reaped;
* `MessagesInv`: what a device has written is either in its pipe or in its
  record, in the order of the writes;
* `ExitInv`: a written exit request means that the teardown is not over;
* `NotifyInv`: between two drains the list holds only waiting endpoints, from a
  notification to the drain none.

Each part has a lemma (`HandlesStep`, `SwitchStep`, ...) with one step per action;
`Invariance` puts them together, and the theorems follow from it.
`SwitchSimulation` maps every step to a step of the switch or a stutter.

`DeviceSession_proofs` proves, for every set of hosts, prefixes, rotations and
32-bit ports: `TypeOK`, `MethodsFollowPrefix`, `DestinationUpToDate`,
`FormerDestinationKnows` and the action property `SettingsSurvive`. It assumes that
the default host and prefix are among them and that `NoPort` and `None` are nothing
else. Its `IInv` adds `OffInv` (nothing is registered or told between sessions) and
`KeptInv` (the file spells `kept`, and the defaults if there is nothing kept; the port that
is kept is never none). The arithmetic is in lemmas of its own:
`LeadingDigits` and `PortstrIdempotent` (a port that was cut once is not cut again,
so it is read back as saved), `RotationReadsBack`.

`Detector_proofs` proves `TypeOK` and `SurplusIsLate` for every set of nodes, every
bound, every delay of udevd and every size of the queue, assuming that the two numbers are
naturals (`BoundsAssumption`). Reports and pluggings are related by a debt: `Covered` says
that a node's reports, plus one if the scan has still to come to it (`Listed`), plus its add
events that udevd has not announced (`Unsaid`) and those in the queue, are no more than its
pluggings plus its `Excess`: one if it was listed before it was announced, where a plugging
is owed twice. `Phases` is needed beside it: the queue is empty before the monitor is
there, and nothing is reported before the list is made. `Ordered` says that a node that is
plugged in has an add as its last unannounced event, so that whoever is listed and owes
nothing to udevd is not late. `Times` counts an element of a sequence; how it changes with
`Append` and `Tail` is in the lemmas `TimesAppend` and `TimesTail`.
It also proves `NotForgotten`, on which `SeenIsReported` rests: a monome that is plugged in
and was not announced between the list and the monitor has been reported, or it is `Ahead`
(the list is to be made, or the scan has to come to it, or it has to be announced, or its
add event is queued), or the monitor has overrun or `main` has returned. What is left to
fairness is that the detector and udevd go on.

`Detectors_proofs` proves `TypeOK` and `NoSurplusReport` of `DetectorMac` for every set of
USB nodes of one length, and for `MCDetectors`, which chooses one of the two systems,
`MacNoSurplusReport` and `WindowsSurplusIsEarly`. On macOS `Room` (the length left in
`len` is never too small for a USB node) is what makes the debt of the iterator
sufficient. On Windows a port owes what is in the window's queue and, until the list has
come to it, one more; `WindowsCovered` bounds that by its arrivals plus the early ones.
The lemmas about `Times` are those of `Detector_proofs`, of which the module has an instance.
`NothingForgotten` is what the two liveness properties rest on: a port that is there has
been reported, or the iterator, the list or the window's queue holds it or will. On macOS
it rests on `Room` again, and so on nodes of one length.

`Serialosc_proofs` proves `TypeOK` and `SurplusServerIsLate` for any number of nodes,
pluggings, processes and lives of the daemon. The assumptions are that the two bounds are
naturals and that the detector's process is none of the device processes. The
detector's part of the invariant is `Phases`, `Ordered` and `Covered`, as proved in
`Detector_proofs`, of which the module has an instance `DP`: a step of the detector or of
udevd here is a step there (`SameDetector`, `SameBroadcast`), a kill of the detector in any
phase keeps all three, and a new one starts with them: the pluggings it is credited with
cover what udevd has still to say (`StillToSeeIs`). What is added is `Handed`: the reports of a node that are in the pipe plus the
processes that were started for it are no more than its reports. `SurplusServerIsLate`
adds the two inequalities. `KidsFinite` lets the processes be counted.

It also proves `S!Spec`, that the whole implements `ProcessSwitch` (`ImplementsSwitch`),
and `OnItsWay`, on which `EnabledServes` rests: while the daemon is on and its detector
lives, a monome that is plugged in and was not missed is `Ahead` in the detector, or waits
in the pipe, or has a process that starts or serves. The invariant needs `ServedWay` (what
was reported since it was plugged in waits in the pipe or has such a process), `NobodyAsked`
(while the daemon is on no `PROCESS_SHOULD_EXIT` of an earlier life is on its way, since
the daemon comes back only when no process is left) and the types, which tie the processes
to their nodes.

`DeviceConfig_proofs` proves `TypeOK`, `HandOver` and that `DeviceConfig` implements
`ConfigRegister`, for any number of servers, ports and settings and with or without
crashes. `IInv` is `TypeOK` with `HoldersHavePorts` (who is past the bind has a port,
which is why port 0 is never saved) and `FileIsSaved` (the file is the last complete
save, or it is empty while somebody saves or nothing is to be lost).

`Ipc_proofs` proves all four properties of `ipc` and `TypeOK`, for every size of the
parts and the buffer, texts of every length, any number of messages and of bytes that
are printed between them. It is in three parts.

* The sender: `OvershootBounded` bounds what the encoder writes past its buffer, whatever
  the texts, by the size of the structure; `WrittenIffFits` says that it gives out a
  message exactly if the whole of it fits. `SenderBounds` follows from the two, with no
  assumption on the lengths of texts.
* The codec: `RoundTrip` says that what was encoded is read back as it was, wherever it
  stands among other bytes, up to its end. It needs no more room than the rest of the
  bytes, which is why the size that is too large does no harm (`ReceiverInBounds`).
* The loop: `DispatchedIs` says that the recursion `Dispatched` is defined by has a
  solution for any bytes at all, which is that the loop ends: a message that is taken for
  good ends behind its structure (`ParsedForward`). `DispatchedLaid` says what it yields
  where messages stand behind each other: these messages. Both are inductions on what is
  left of the bytes, done as a lemma about sets of numbers (`Inductive`, from the
  well-foundedness of `<`), as the provers cannot apply a rule about predicates.

The invariant of the two ends, `IInv`, splits the messages that were sent at a number
`base`: `Carries` says that the later ones stand in the pipe, in order and to its end, or
up to where something was printed; `Picked` that what was handled is an increasing choice
from the first `base` ones, and all of them if nothing was printed.

`DeviceThreads_proofs` proves `TypeOK`, `OneMessageAfterExit` and `AnswersFirst` for any
number of replacements. `OneWaits` says that the OSC thread, between its look at
`running` and its message, has not taken one since the exit; `FreedWereReplaced` says
that until `main()` frees, only versions that were replaced are freed, and never the one a
method has still to answer.

The `TypeOK` of `Detector`, `DetectorMac`, `DetectorWindows`, `DeviceThreads`, `Ipc` and
`Serialosc` are proved and not part of a run.

Only model-checked: the liveness properties (TLAPS has no support for fairness and
`ENABLED` here): `TeardownEnds`, `RemovalFollows`, `RemovedLeavesList`, `PortComesFree`, `EnabledServes`, the
`ExitObeyed` and `UnpluggedLeaves` of two modules, and what says that every monome is
reported. The disagreements of section 7 are TLC's too.

## 7. Disagreements found

All but the last are with `src/README.md:5`: the daemon waits for a monome to be plugged in, then
starts a dedicated server process that routes OSC messages to and from it. Two have a run:

* `detector_window`: `libudev.c` scans at line 215 and enables the monitor at 222; a
  monome plugged in and announced between is in neither.
* `device_threads_race`: on Windows one thread sends events through the destination and the
  prefix while another replaces and frees them.

Four more are in the models, and TLC finds them when the property that is named here is
checked instead of those of the run:

* `StartedServes`, in `config` with seven ports and `Crashes = FALSE`: the server of a monome that is plugged in again asks for
  the port its predecessor frees last (`server.c:325`). If that is still to come,
  `lo_server_new` fails (`server.c:234`), the process exits without a word, and nobody
  starts another.
* `DedicatedServer`, in `serialosc`: a report carries a node only. If a monome is unplugged
  and plugged in again while its first event is queued, the detector reports both
  (`libudev.c:171`) and two processes open it. And one plugging is enough: a monome that is
  listed (`libudev.c:190-191`) before udevd has announced it comes through the monitor
  (`libudev.c:218-222`) as well. `SurplusServerIsLate` bounds what there can be.
* `PluggedIsReported` of `DetectorMac` without `Even`, nodes of 24 and 28 bytes:
  `iokitlib.c:79` sets the length once for all nodes of a call. A node that is longer than
  the one before it is not copied; the one before is reported again, the longer one never.
* `SenderInBuffer`, in `ipc`: `ipc.c:198` and `205` tell `strdata_to_buf` the size of the
  whole buffer when the structure is already in it. A text that is too long by less than
  the structure's size is copied past the end of the buffer before the encoder gives up or
  its assertion (`ipc.c:224`) fails. (This one is with no document, but with the bounds
  checks of `EMIT_BYTES` themselves.)

## 8. Not modelled

* `event_loop/select.c`: a pass has the order of the pass for poll(2), which
  `DeviceSession` has. Whether the loss of a monome shows up as an exceptional condition
  for select(2), and what happens if it does not, is up to the kernel.
* `win_svc.c`: it starts the daemon in a thread and answers the service manager. A stop
  ends the process; the daemon's children then see `DaemonDies` of `DeviceThreads`.
* zeroconf: one registration and one deregistration per session, with a service outside
  the repository.
* The platform layer: allocation wrappers, paths, one directory made at the start.
* LED, ring and tilt methods beyond their registration: they pass their arguments to
  libmonome.
* Third-party libraries (libuv, liblo, libmonome, libudev, IOKit, confuse, optparse); the
  command line; the contents of OSC answers. Memory exhaustion (`calloc` returning NULL)
  is not modelled, so neither is a text the codec cannot copy.
* A process id that is reused between the detector's death and a SIGTERM to it. After a
  handle corrupted by a failed `uv_spawn`, or SIGPIPE, the daemon's behaviour.
* What a sender does after it has written behind its buffer and given up: in `Ipc` it goes
  on as if nothing had happened, in C nothing is defined.
* In `DeviceConfig` the text of a save replaces the file's: `Write` is one step, as `fclose`
  writes a text of this size at once. When two servers have the file open for writing, the
  end of a longer text can stay behind a shorter one that is written over it, which
  `Write` does not show.
* `poll` failing with EINVAL (`libudev.c:158-160`): with one descriptor and no timeout there
  is nothing for it to refuse. Its EINTR and EAGAIN only lead back to it.
* On Windows, whether the parts of a destination (host, port) that `main()` saves belong
  together when the OSC thread replaces it in between.
* In `DeviceSession` `lo_address_new` does not fail and sessions follow one another;
  `DeviceConfig` has those that overlap.
