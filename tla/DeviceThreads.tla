--------------------------- MODULE DeviceThreads ---------------------------
(***************************************************************************)
(* A device process on Windows: src/serialosc-device/event_loop/windows.c  *)
(* and the end of sosc_server_run() in server.c.                           *)
(*                                                                         *)
(* Three threads wait for the monome, for OSC and for the daemon.  They    *)
(* share state->running, and the destination and the prefix that the /sys  *)
(* methods replace and free; nothing is locked.  When one of the threads   *)
(* ends main() says goodbye, saves, frees and exits while the others run.  *)
(* A read through a pointer and what is done with it are two steps.        *)
(***************************************************************************)
EXTENDS Naturals

CONSTANT MaxMoves   \* bound: how often clients replace each setting

ASSUME MaxMovesAssumption == MaxMoves \in Nat

VARIABLES
    main, serial, osc, stdin,   \* where each thread is
    running,    \* state->running
    attached,   \* the daemon still holds the other end of stdin
    asked,      \* PROCESS_SHOULD_EXIT lies in stdin
    hup,        \* the monome is gone
    current,    \* state->outgoing and config.app.osc_prefix: their latest versions
    old,        \* the local variable old of the /sys methods
    freed,      \* the versions that have been freed
    using,      \* the versions a thread reads
    late        \* history: OSC messages taken after the exit was asked for

threads == <<main, serial, osc, stdin>>
memory == <<current, old, freed, using>>
vars == <<threads, running, attached, asked, hup, memory, late>>

Settings == {"outgoing", "prefix"}
Versions == Settings \X (0..MaxMoves)
None == <<"prefix", MaxMoves + 1>>

Latest(s) == <<s, current[s]>>
Uses(thread, versions) == using' = [using EXCEPT ![thread] = versions]

PlacesOK ==
    /\ main \in {"wait", "goodbye", "save", "free", "freed", "off"}
    /\ serial \in {"check", "wait", "path", "address", "send", "next", "done"}
    /\ osc \in {"check", "recv", "swap outgoing", "swap prefix", "reply", "free", "done"}
    /\ stdin \in {"check", "read", "done", "none"}

FlagsOK ==
    /\ running \in BOOLEAN /\ attached \in BOOLEAN
    /\ asked \in BOOLEAN /\ hup \in BOOLEAN

MemoryOK ==
    /\ current \in [Settings -> 0..MaxMoves]
    /\ old \in Versions \cup {None}
    /\ freed \subseteq Versions
    /\ using \in [{"main", "serial", "osc"} -> SUBSET Versions]
    /\ late \in Nat

TypeOK == PlacesOK /\ FlagsOK /\ MemoryOK

\* The threads run as long as the process is there.
Alive == main # "off"

----------------------------------------------------------------------------
(***************************************************************************)
(* serial_poll_thread()                                                    *)
(***************************************************************************)

SerialStays == Alive /\ UNCHANGED <<main, osc, stdin, running, attached,
                                    asked, hup, current, old, freed, late>>

\* Mutant: a failure of the port is waited out.
WaitsAgain == "check"

\* goto err
Fails == "done"

SerialCheck ==
    /\ serial = "check"
    /\ serial' = IF running THEN "wait" ELSE "done"
    /\ UNCHANGED using /\ SerialStays

\* wait_for_serial_input() without a timeout
SerialWait ==
    /\ serial = "wait"
    /\ serial' = IF hup THEN Fails ELSE "path"
    /\ UNCHANGED using /\ SerialStays

\* handle_press() and its like: osc_path() reads the prefix,
SerialPath ==
    /\ serial = "path"
    /\ serial' = "address"
    /\ Uses("serial", {Latest("prefix")})
    /\ SerialStays

\* lo_send_from() is called with the destination,
SerialAddress ==
    /\ serial = "address"
    /\ serial' = "send"
    /\ Uses("serial", {Latest("outgoing")})
    /\ SerialStays

\* and sends.
SerialSend ==
    /\ serial = "send"
    /\ serial' = "next"
    /\ Uses("serial", {})
    /\ SerialStays

\* What monome_event_handle_next() returns: more, nothing more, or an error.
SerialNext ==
    /\ serial = "next"
    /\ IF hup THEN serial' = Fails ELSE serial' \in {"path", "check"}
    /\ UNCHANGED using /\ SerialStays

Serial ==
    \/ SerialCheck \/ SerialWait \/ SerialPath \/ SerialAddress
    \/ SerialSend \/ SerialNext

----------------------------------------------------------------------------
(***************************************************************************)
(* osc_poll_thread()                                                       *)
(***************************************************************************)

OscStays == Alive /\ UNCHANGED <<main, serial, stdin, running, attached, asked, hup>>

\* Mutant: OSC is served for ever.
ServesOn == "recv"

OscGoesOn == IF running THEN "recv" ELSE "done"

OscCheck ==
    /\ osc = "check"
    /\ osc' = OscGoesOn
    /\ UNCHANGED <<memory, late>> /\ OscStays

\* lo_server_recv() returns with a message handled, or is about to call the
\* method that moves the destination or the prefix.
OscRecv ==
    /\ osc = "recv"
    /\ \/ osc' = "check"
       \/ current["outgoing"] < MaxMoves /\ osc' = "swap outgoing"
       \/ current["prefix"] < MaxMoves /\ osc' = "swap prefix"
    /\ late' = IF running THEN late ELSE late + 1
    /\ UNCHANGED memory /\ OscStays

\* Mutant: the old setting is freed at once.
FreedAtOnce(version) == freed \cup {version}

\* It is freed when both have been answered.
FreedLater(version) == freed

\* sys_host_handler(), sys_port_handler(), sys_prefix_handler(): the new setting
\* takes the place of the old one,
OscSwap(s) ==
    /\ osc = IF s = "outgoing" THEN "swap outgoing" ELSE "swap prefix"
    /\ osc' = "reply"
    /\ old' = Latest(s)
    /\ current' = [current EXCEPT ![s] = @ + 1]
    /\ freed' = FreedLater(old')
    /\ Uses("osc", {Latest("outgoing"), Latest("outgoing")', Latest("prefix")'}
                   \cup (IF s = "outgoing" THEN {old'} ELSE {}))
    /\ UNCHANGED late /\ OscStays

\* the destination is answered, after a move both the old and the new one,
OscReply ==
    /\ osc = "reply"
    /\ osc' = "free"
    /\ Uses("osc", {})
    /\ UNCHANGED <<current, old, freed, late>> /\ OscStays

\* and the old setting is freed.
OscFree ==
    /\ osc = "free"
    /\ osc' = "check"
    /\ freed' = freed \cup {old}
    /\ old' = None
    /\ UNCHANGED <<current, using, late>> /\ OscStays

Osc ==
    \/ OscCheck \/ OscRecv \/ (\E s \in Settings : OscSwap(s))
    \/ OscReply \/ OscFree

----------------------------------------------------------------------------
(***************************************************************************)
(* stdin_poll_thread()                                                     *)
(***************************************************************************)

StdinStays == Alive /\ UNCHANGED <<main, serial, osc, attached, hup, memory, late>>

StdinCheck ==
    /\ stdin = "check"
    /\ stdin' = IF running THEN "read" ELSE "done"
    /\ UNCHANGED <<running, asked>> /\ StdinStays

\* recv_ipc_msg(): at the end of stdin it returns without having read anything,
\* and is called again.
StdinRead ==
    /\ stdin = "read"
    /\ asked \/ ~attached
    /\ stdin' = "check"
    /\ running' = (running /\ ~asked)
    /\ asked' = FALSE
    /\ StdinStays

Stdin == StdinCheck \/ StdinRead

----------------------------------------------------------------------------
(***************************************************************************)
(* sosc_event_loop() and what follows it in sosc_server_run()              *)
(***************************************************************************)

MainStays == Alive /\ UNCHANGED <<serial, osc, stdin, running, attached,
                                  asked, hup, current, old, late>>

\* Mutant: main waits for all of the threads.
AllHaveEnded == serial = "done" /\ osc = "done" /\ stdin \in {"done", "none"}

\* WaitForMultipleObjects() with FALSE; where there is no daemon an event that
\* never happens takes the place of the third thread.
OneHasEnded == serial = "done" \/ osc = "done" \/ stdin = "done"

MainWakes ==
    /\ main = "wait"
    /\ OneHasEnded
    /\ main' = "goodbye"
    /\ Uses("main", {Latest("outgoing")})
    /\ UNCHANGED freed /\ MainStays

\* send_connection_status(0); the write to a daemon that is gone just fails.
MainGoodbye ==
    /\ main = "goodbye"
    /\ main' = "save"
    /\ Uses("main", {Latest("outgoing"), Latest("prefix")})
    /\ UNCHANGED freed /\ MainStays

\* sosc_config_write()
MainSaves ==
    /\ main = "save"
    /\ main' = "free"
    /\ Uses("main", {})
    /\ UNCHANGED freed /\ MainStays

\* lo_address_free(), lo_server_free(), s_free()
MainFrees ==
    /\ main = "free"
    /\ main' = "freed"
    /\ freed' = freed \cup {Latest("outgoing"), Latest("prefix")}
    /\ UNCHANGED using /\ MainStays

\* monome_close(), and the end of the process with all of its threads.
MainExits ==
    /\ main = "freed"
    /\ main' = "off"
    /\ UNCHANGED <<freed, using>> /\ MainStays

\* What has been freed is read: the process may end there, or go on.
Crash ==
    /\ \E t \in DOMAIN using : using[t] \cap freed # {}
    /\ main' = "off"
    /\ UNCHANGED <<freed, using>> /\ MainStays

Main == MainWakes \/ MainGoodbye \/ MainSaves \/ MainFrees \/ MainExits

----------------------------------------------------------------------------
(***************************************************************************)
(* The outside world                                                       *)
(***************************************************************************)

WorldStays == Alive /\ UNCHANGED <<threads, running, memory, late>>

\* The daemon asks once.
Ask ==
    /\ stdin # "none" /\ attached /\ ~asked /\ running
    /\ asked' = TRUE
    /\ UNCHANGED <<attached, hup>> /\ WorldStays

DaemonDies ==
    /\ stdin # "none" /\ attached
    /\ attached' = FALSE
    /\ UNCHANGED <<asked, hup>> /\ WorldStays

Unplug ==
    /\ ~hup
    /\ hup' = TRUE
    /\ UNCHANGED <<attached, asked>> /\ WorldStays

----------------------------------------------------------------------------
Init ==
    /\ main = "wait" /\ serial = "check" /\ osc = "check"
    /\ stdin \in {"check", "none"}
    /\ running = TRUE /\ attached = TRUE /\ asked = FALSE /\ hup = FALSE
    /\ current = [s \in Settings |-> 0] /\ old = None /\ freed = {}
    /\ using = [t \in {"main", "serial", "osc"} |-> {}]
    /\ late = 0

Next ==
    \/ Serial \/ Osc \/ Stdin \/ Main \/ Crash
    \/ Ask \/ DaemonDies \/ Unplug

Spec == Init /\ [][Next]_vars

\* Every thread runs, and is woken when what it waits for is there: the loss
\* of the monome, or a message or the end of stdin.  Nobody has to send OSC or
\* press keys.
FairSpec ==
    /\ Spec
    /\ WF_vars((serial = "wait" => hup) /\ Serial)
    /\ WF_vars(osc # "recv" /\ Osc)
    /\ WF_vars(Stdin)
    /\ WF_vars(Main)

----------------------------------------------------------------------------
(***************************************************************************)
(* Properties                                                              *)
(***************************************************************************)

\* From the moment the exit request is read, at most one more OSC message is
\* handled, the one lo_server_recv() was waiting for: the thread looks at
\* state->running before each.
OneMessageAfterExit == late <= 1

\* A /sys method answers through addresses and a prefix that are still there,
\* whatever the other threads do, until main() frees everything.
AnswersFirst == main \in {"freed", "off"} \/ using["osc"] \cap freed = {}

\* A process asked to exit does, although two of its threads may wait for ever:
\* the end of one is enough.
ExitObeyed == asked ~> ~Alive

\* A process whose monome is gone exits, although nothing tells the two other
\* threads.
UnpluggedLeaves == hup ~> ~Alive

\* The daemon spawns "a dedicated server process to route OSC messages to and
\* from your monome" (README.md): until the loop ends an event of the monome
\* goes out through a destination and a prefix that have not been freed.
EventsReachDestination == main = "wait" => using["serial"] \cap freed = {}
=============================================================================
