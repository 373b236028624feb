---------------------------- MODULE DeviceConfig ----------------------------
(***************************************************************************)
(* The device servers of one monome around its configuration file and its  *)
(* OSC port: sosc_server_run() with config.c, src/serialosc-device.        *)
(*                                                                         *)
(* There may be several at a time: a monome is plugged in again before the *)
(* server of its last visit has finished, or a new daemon finds it while   *)
(* the server that a dead daemon has left behind still runs.  They share   *)
(* one file, and each wants the port the file names.                       *)
(***************************************************************************)
EXTENDS FiniteSets

CONSTANTS
    Servers,            \* the processes
    Settings,           \* destination, prefix and rotation, as one value
    DefaultSettings,
    Ports,              \* UDP ports
    NoPort,             \* port 0: any free one
    Empty,              \* a file without text
    Crashes             \* whether servers are killed

ASSUME DefaultAssumption == DefaultSettings \in Settings
ASSUME NoPortAssumption == NoPort \notin Ports
ASSUME EmptyAssumption == Empty \notin [settings : Settings, port : Ports \cup {NoPort}]
ASSUME CrashesAssumption == Crashes \in BOOLEAN

VARIABLES
    at,         \* where each process is in sosc_server_run()
    config,     \* state.config.server.port, and the settings a client sees
    port,       \* the port of each process's lo_server
    foreign,    \* the ports other programs hold
    file,       \* the file, or Empty: none, or just truncated
    attached,   \* the processes whose daemon lives
    gone,       \* the processes whose monome has been unplugged
    loaded,     \* history: what each process last read
    saved       \* history: the last save that came to its end and was not lost

vars == <<at, config, port, foreign, file, attached, gone, loaded, saved>>

Stages == {"off", "bind", "serve", "leave", "open", "write", "close"}
Values == [settings : Settings, port : Ports \cup {NoPort}]

\* The options' defaults, which stand for what a file does not hold.
Defaults == [settings |-> DefaultSettings, port |-> NoPort]

Alive(p) == at[p] # "off"
Writing == {p \in Servers : at[p] = "write"}
Held == {port[p] : p \in Servers} \cup foreign

----------------------------------------------------------------------------
(***************************************************************************)
(* A server starts                                                         *)
(***************************************************************************)

Init ==
    /\ at = [p \in Servers |-> "off"]
    /\ config = [p \in Servers |-> Defaults]
    /\ port = [p \in Servers |-> NoPort]
    /\ foreign = {} /\ file = Empty
    /\ attached = {} /\ gone = {}
    /\ loaded = [p \in Servers |-> Defaults]
    /\ saved = Defaults

\* The process ends, and the kernel takes its port back.
Ends(p) ==
    /\ at' = [at EXCEPT ![p] = "off"]
    /\ port' = [port EXCEPT ![p] = NoPort]
    /\ attached' = attached \ {p}
    /\ gone' = gone \ {p}

\* cfg_parse() of a file that holds nothing leaves the defaults.
Parsed(f) == IF f = Empty THEN Defaults ELSE f

\* A daemon has just started p for the monome: one that was plugged in again,
\* or one whose server belongs to a daemon that is no more.
ReadConfig(p) ==
    /\ ~Alive(p)
    /\ \A q \in Servers \ {p} : Alive(q) => q \in gone \/ q \notin attached
    /\ at' = [at EXCEPT ![p] = "bind"]
    /\ config' = [config EXCEPT ![p] = Parsed(file)]
    /\ loaded' = [loaded EXCEPT ![p] = Parsed(file)]
    /\ attached' = attached \cup {p}
    /\ UNCHANGED <<port, foreign, file, gone, saved>>

\* lo_server_new(): any free port, or the one that was asked for.
Bind(p) ==
    /\ at[p] = "bind"
    /\ \E q \in Ports \ Held :
         /\ config[p].port \in {NoPort, q}
         /\ port' = [port EXCEPT ![p] = q]
    /\ at' = [at EXCEPT ![p] = "serve"]
    /\ UNCHANGED <<config, foreign, file, attached, gone, loaded, saved>>

\* lo_server_new() fails: the process goes away without a word.
BindFails(p) ==
    /\ at[p] = "bind"
    /\ IF config[p].port = NoPort THEN Ports \subseteq Held
       ELSE config[p].port \in Held
    /\ Ends(p)
    /\ UNCHANGED <<config, foreign, file, loaded, saved>>

----------------------------------------------------------------------------
(***************************************************************************)
(* It serves and ends                                                      *)
(***************************************************************************)

\* A /sys message.
Change(p) ==
    /\ at[p] = "serve"
    /\ \E s \in Settings :
         config' = [config EXCEPT ![p] = [settings |-> s, port |-> config[p].port]]
    /\ UNCHANGED <<at, port, foreign, file, attached, gone, loaded, saved>>

\* sosc_event_loop() returns: the monome is gone, or the daemon has asked for
\* it (when and how is the matter of DeviceSession).
Leave(p) ==
    /\ at[p] = "serve"
    /\ at' = [at EXCEPT ![p] = "leave"]
    /\ UNCHANGED <<config, port, foreign, file, attached, gone, loaded, saved>>

\* Mutant: the server is freed before the configuration is saved.
DisconnectAndFree(p) ==
    /\ at[p] = "leave"
    /\ IF p \in attached
       THEN /\ at' = [at EXCEPT ![p] = "open"]
            /\ port' = [port EXCEPT ![p] = NoPort]
            /\ UNCHANGED <<attached, gone>>
       ELSE Ends(p)
    /\ UNCHANGED <<config, foreign, file, loaded, saved>>

\* Mutant: the message is written until somebody reads it.
DisconnectRetries(p) ==
    /\ at[p] = "leave"
    /\ p \in attached
    /\ at' = [at EXCEPT ![p] = "open"]
    /\ UNCHANGED <<config, port, foreign, file, attached, gone, loaded, saved>>

\* SOSC_DEVICE_DISCONNECTION is written: without a daemon, SIGPIPE.
Disconnect(p) ==
    /\ at[p] = "leave"
    /\ IF p \in attached
       THEN /\ at' = [at EXCEPT ![p] = "open"]
            /\ UNCHANGED <<port, attached, gone>>
       ELSE Ends(p)
    /\ UNCHANGED <<config, foreign, file, loaded, saved>>

\* fopen(path, "w") empties the file, or fails.
Open(p) ==
    /\ at[p] = "open"
    /\ \/ at' = [at EXCEPT ![p] = "write"] /\ file' = Empty
       \/ at' = [at EXCEPT ![p] = "close"] /\ UNCHANGED file
    /\ UNCHANGED <<config, port, foreign, attached, gone, loaded, saved>>

\* Mutants: the port that was asked for, the settings that were read.
WrittenRequest(p) == [settings |-> config[p].settings, port |-> config[p].port]
WrittenLoaded(p) == [settings |-> loaded[p].settings, port |-> port[p]]

\* What cfg_print() writes: the settings of now, and lo_server_get_port().
Written(p) == [settings |-> config[p].settings, port |-> port[p]]

\* cfg_print() and fclose(): a text shorter than stdio's buffer, in one write.
\* What another server may have written since Open is overwritten from the
\* front; a longer text's tail does not parse, and the values in front of it hold.
Write(p) ==
    /\ at[p] = "write"
    /\ file' = Written(p)
    /\ saved' = [settings |-> config[p].settings, port |-> port[p]]
    /\ at' = [at EXCEPT ![p] = "close"]
    /\ UNCHANGED <<config, port, foreign, attached, gone, loaded>>

\* lo_server_free() and the end.
Close(p) ==
    /\ at[p] = "close"
    /\ Ends(p)
    /\ UNCHANGED <<config, foreign, file, loaded, saved>>

----------------------------------------------------------------------------
(***************************************************************************)
(* The outside world                                                       *)
(***************************************************************************)

\* A crash.  If it leaves the file empty for good, what was saved is lost.
Dies(p) ==
    /\ Crashes
    /\ Alive(p)
    /\ Ends(p)
    /\ saved' = IF file = Empty /\ Writing \subseteq {p} THEN Defaults ELSE saved
    /\ UNCHANGED <<config, foreign, file, loaded>>

Unplug(p) ==
    /\ Alive(p)
    /\ gone' = gone \cup {p}
    /\ UNCHANGED <<at, config, port, foreign, file, attached, loaded, saved>>

DaemonDies ==
    /\ attached # {}
    /\ attached' = {}
    /\ UNCHANGED <<at, config, port, foreign, file, gone, loaded, saved>>

\* Another program gives a port back or takes one; it never takes the last.
Foreign ==
    /\ \E q \in Ports :
         \/ q \notin Held /\ ~(Ports \subseteq Held \cup {q}) /\ foreign' = foreign \cup {q}
         \/ q \in foreign /\ foreign' = foreign \ {q}
    /\ UNCHANGED <<at, config, port, file, attached, gone, loaded, saved>>

----------------------------------------------------------------------------
Steps(p) ==
    \/ Bind(p) \/ BindFails(p) \/ Disconnect(p)
    \/ Open(p) \/ Write(p) \/ Close(p)

Next ==
    \/ \E p \in Servers :
         \/ ReadConfig(p) \/ Steps(p) \/ Change(p) \/ Leave(p)
         \/ Dies(p) \/ Unplug(p)
    \/ DaemonDies
    \/ Foreign

Spec == Init /\ [][Next]_vars

\* A process runs, and notices the loss of its monome.
FairSpec ==
    /\ Spec
    /\ \A p \in Servers : WF_vars(Steps(p)) /\ WF_vars(p \in gone /\ Leave(p))

----------------------------------------------------------------------------
(***************************************************************************)
(* Properties                                                              *)
(***************************************************************************)

\* Types.  The file never names port 0: what is saved is the port of a server
\* that still runs (config.c:146, server.c:323).
TypeOK ==
    /\ at \in [Servers -> Stages]
    /\ config \in [Servers -> Values] /\ loaded \in [Servers -> Values]
    /\ port \in [Servers -> Ports \cup {NoPort}]
    /\ foreign \subseteq Ports
    /\ file \in [settings : Settings, port : Ports] \cup {Empty}
    /\ attached \subseteq Servers /\ gone \subseteq Servers
    /\ saved \in Values

\* For any number of servers at a time the file is a register: a server reads
\* the last complete save, and nothing instead only while another is saving or
\* after one has died in its save (config.c:138-160).
Register == INSTANCE ConfigRegister WITH
    Users <- Servers, Nothing <- Defaults,
    value <- saved, writers <- Writing, got <- loaded
ImplementsRegister == Register!Spec

\* A server that starts when no earlier one holds a port any more starts with
\* the last complete save, and no save is under way: a server lets go of its
\* port after it has saved (server.c:317-326).
HandOver ==
    [][\A p \in Servers :
         ReadConfig(p) /\ (\A q \in Servers : port[q] = NoPort)
         => /\ loaded'[p] = saved
            /\ \A q \in Servers : at[q] \notin {"leave", "open", "write"}]_vars

\* The port of a monome that was unplugged comes free, whether its server is an
\* orphan, cannot save or dies: the next server can have it.
PortComesFree == \A p \in Servers : p \in gone ~> port[p] = NoPort

\* The daemon "spawns off a dedicated server process to route OSC messages to
\* and from your monome" (README.md): unless it is killed, a server that was
\* started serves while its monome is there.  This is NOT so: BindFails.
StartedServes ==
    [][\A p \in Servers : at[p] = "bind" /\ at'[p] = "off" => p \in gone]_vars
=============================================================================
