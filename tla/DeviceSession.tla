--------------------------- MODULE DeviceSession ---------------------------
(***************************************************************************)
(* The successive sessions of one monome's device server:                  *)
(* src/serialosc-device with its event loop for poll(2).                   *)
(*                                                                         *)
(* A session reads the monome's configuration, serves OSC and the monome   *)
(* until it is told to exit or the monome is gone, and saves what the      *)
(* clients have changed: destination, prefix, rotation.  Sessions do not   *)
(* overlap here.                                                           *)
(***************************************************************************)
EXTENDS Integers, FiniteSets

CONSTANTS
    Hosts, DefaultHost,     \* names of hosts, DEFAULT_APP_HOST
    Names, DefaultName,     \* prefixes without their slash, DEFAULT_OSC_PREFIX
    PortArgs,               \* arguments of /sys/port
    RotationArgs,           \* arguments of /sys/rotation
    CableArgs,              \* rotations asked for with /sys/cable
    NoPort,                 \* the port of an address that was made without one
    None,                   \* nothing
    MaxRegistrations        \* bound: how often a session registers its methods

\* OSC's integers have 32 bits.
INT_MAX == 2147483647

ASSUME DefaultsAssumption == DefaultHost \in Hosts /\ DefaultName \in Names
ASSUME ArgumentsAssumption ==
    /\ \A i \in PortArgs : i \in Int /\ -INT_MAX <= i /\ i <= INT_MAX
    /\ RotationArgs \subseteq Int
    /\ CableArgs \subseteq 0..3
ASSUME NothingAssumption ==
    /\ NoPort \notin Int
    /\ None \notin Int \cup Hosts \cup {NoPort}
ASSUME MaxRegistrationsAssumption == MaxRegistrations \in Nat

VARIABLES
    position,   \* where the process is in sosc_server_run() and its loop
    revents,    \* what the last poll() has reported and is still to be handled
    running,    \* state->running
    attached,   \* the daemon still holds the other ends of stdin and stdout
    asked,      \* PROCESS_SHOULD_EXIT lies in stdin
    hup,        \* the monome behind the process's file descriptor is gone
    outgoing,   \* state->outgoing: where events and answers go
    prefix,     \* state->config.app.osc_prefix
    rotation,   \* libmonome's rotation of the monome
    methods,    \* liblo's table: how often a path is registered under a prefix
    file,       \* the configuration in the file system
    told,       \* history: the host and port an address was last told in this session
    news,       \* history: the prefix and rotation the destination was last told
    kept        \* history: what the last session to open the file wrote into it

process == <<position, revents, running, attached, asked, hup>>
settings == <<outgoing, prefix, rotation>>
history == <<told, news, kept>>
vars == <<process, settings, methods, file, history>>

----------------------------------------------------------------------------
(***************************************************************************)
(* Conversions                                                             *)
(***************************************************************************)

\* The bounds of a number of four and of five digits.
FourDigits == 10000
FiveDigits == 100000
Powers == {1, 10, 100, 1000, 10000, 100000, 1000000}

\* The leading decimal digits of n that make a number below the limit.
Leading(n, limit) ==
    n \div (CHOOSE p \in Powers : /\ n \div p < limit
                                  /\ p = 1 \/ n \div (p \div 10) >= limit)

\* snprintf(dest, 6, "%d", i) keeps five characters, the sign included.
Portstr(i) == IF i < 0 THEN -Leading(-i, FourDigits) ELSE Leading(i, FiveDigits)

\* Mutant: sosc_port_itos() has one byte less than portstr[].
ItosShort(i) ==
    IF i = 0 THEN NoPort
    ELSE IF i < 0 THEN -Leading(-i, 1000) ELSE Leading(i, FourDigits)

\* sosc_port_itos() and null_if_zero(): no port for zero.
Itos(i) == IF i = 0 THEN NoPort ELSE Portstr(i)

\* Division of integers in C.
Quotient(a, b) == IF a < 0 THEN -((-a) \div b) ELSE a \div b
Remainder(a, b) == a - b * Quotient(a, b)

\* monome_set_rotation() keeps the two low bits.
Masked(r) == r % 4

\* Mutant: degrees are written as they are kept.
SavedQuarter(r) == r
\* Mutant: the quotient is dropped.
DegreesMod(d) == Remainder(d, 4)

SavedRotation(r) == r * 90
LoadedRotation(d) == Remainder(Quotient(d, 90), 4)

\* A prefix is kept with a slash in front.
Text == [slash : BOOLEAN, name : Names]
Prefixes == [slash : {TRUE}, name : Names]
Slashed(t) == [slash |-> TRUE, name |-> t.name]

Ports == {Portstr(i) : i \in PortArgs} \cup {8000, NoPort}
Addresses == [host : Hosts, port : Ports]

----------------------------------------------------------------------------
(***************************************************************************)
(* The configuration and the method table                                  *)
(***************************************************************************)

\* What an empty or missing file stands for.
Defaults == [host |-> DefaultHost, port |-> 8000, rotation |-> 0,
             prefix |-> [slash |-> TRUE, name |-> DefaultName]]

Registered == {"grid/led/set", "grid/led/all", "grid/led/map", "grid/led/col",
    "grid/led/row", "grid/led/intensity", "grid/led/level/set",
    "grid/led/level/all", "grid/led/level/map", "grid/led/level/col",
    "grid/led/level/row", "ring/set", "ring/all", "ring/map", "ring/range",
    "ring/intensity", "tilt/set"}

\* Mutant: tilt/set is forgotten as well.
AlsoWithoutTilt == Registered \ {"ring/intensity", "tilt/set"}

\* osc_unregister_methods() does not name ring/intensity.
Unregistered == Registered \ {"ring/intensity"}

\* lo_server_add_method() adds an entry even if there is one already.
WithMethods(table, p) ==
    [table EXCEPT ![p] = [m \in Registered |-> @[m] + 1]]

\* lo_server_del_method() deletes every entry for the path.
WithoutMethods(table, p) ==
    [table EXCEPT ![p] = [m \in Registered |->
                             IF m \in Unregistered THEN 0 ELSE @[m]]]

NoMethods == [p \in Prefixes |-> [m \in Registered |-> 0]]

\* How many entries for m there are, under whatever prefix.
Count(m) ==
    Cardinality({u \in Prefixes \X (1..MaxRegistrations) : u[2] <= methods[u[1]][m]})

----------------------------------------------------------------------------
(***************************************************************************)
(* A session starts                                                        *)
(***************************************************************************)

Unheard == [was |-> FALSE, host |-> None, port |-> None]
NoNews == [prefix |-> None, rotation |-> None]

\* The process is gone, and with it all it kept in memory.
Gone ==
    /\ position' = "off" /\ revents' = {} /\ running' = TRUE
    /\ attached' = TRUE /\ asked' = FALSE /\ hup' = FALSE
    /\ outgoing' = [host |-> DefaultHost, port |-> 8000]
    /\ prefix' = Defaults.prefix /\ rotation' = 0
    /\ methods' = NoMethods
    /\ told' = [a \in Addresses |-> Unheard] /\ news' = NoNews

Init ==
    /\ position = "off" /\ revents = {} /\ running = TRUE
    /\ attached = TRUE /\ asked = FALSE /\ hup = FALSE
    /\ outgoing = [host |-> DefaultHost, port |-> 8000]
    /\ prefix = Defaults.prefix /\ rotation = 0
    /\ methods = NoMethods
    /\ told = [a \in Addresses |-> Unheard] /\ news = NoNews
    /\ file = Defaults /\ kept = <<>>

\* sosc_server_run() up to the event loop; the daemon has just started the
\* process for a monome that is there.
Start ==
    /\ position = "off"
    /\ outgoing' = [host |-> file.host, port |-> Itos(file.port)]
    /\ prefix' = Slashed(file.prefix)
    /\ rotation' = Masked(LoadedRotation(file.rotation))
    /\ methods' = WithMethods(methods, prefix')
    /\ told' = [told EXCEPT ![outgoing'].was = TRUE]
    /\ position' = "poll"
    /\ running' = TRUE
    /\ UNCHANGED <<revents, attached, asked, hup, file, news, kept>>

----------------------------------------------------------------------------
(***************************************************************************)
(* sosc_event_loop()                                                       *)
(***************************************************************************)

\* Mutants: the loss of the monome is seen only when nothing else is ready;
\* the loop polls again after an OSC message.
HangsUpAlone(ready) == ready = {"hup"}
PollsAgain == "poll"

HangsUp(ready) == "hup" \in ready
AfterOsc == "ipc"

\* stdin is readable when a message lies in it and at its end.
Readable == asked \/ ~attached

\* poll() returns when something is ready: the loss of the monome, a message
\* or the end of stdin are there to be reported; a key press or an OSC message
\* may or may not have come.
Poll ==
    /\ position = "poll"
    /\ \E some \in SUBSET {"monome", "osc"} :
         LET ready == some \cup (IF hup THEN {"hup"} ELSE {})
                           \cup (IF Readable THEN {"ipc"} ELSE {})
         IN  /\ ready # {}
             /\ position' = IF HangsUp(ready) THEN "leave" ELSE "monome"
             /\ revents' = IF HangsUp(ready) THEN {} ELSE ready
    /\ UNCHANGED <<running, attached, asked, hup, settings, methods, file, history>>

\* A key press, a turn or a tilt goes out under the prefix to the destination.
Monome ==
    /\ position = "monome"
    /\ position' = "osc"
    /\ revents' = revents \ {"monome", "hup"}
    /\ UNCHANGED <<running, attached, asked, hup, settings, methods, file, history>>

\* The next OSC message is handled, and the pass goes on.
Handles ==
    /\ position = "osc" /\ "osc" \in revents
    /\ position' = AfterOsc
    /\ revents' = revents \ {"osc"}
    /\ UNCHANGED <<running, attached, asked, hup, file, kept>>

NoOsc ==
    /\ position = "osc" /\ "osc" \notin revents
    /\ position' = "ipc"
    /\ UNCHANGED <<revents, running, attached, asked, hup, settings, methods,
                   file, history>>

\* recv_msg(): nothing happens at the end of stdin.
Ipc ==
    /\ position = "ipc"
    /\ LET exit == "ipc" \in revents /\ asked
       IN  /\ running' = (running /\ ~exit)
           /\ asked' = (asked /\ ~exit)
           /\ position' = IF running' THEN "poll" ELSE "leave"
    /\ revents' = {}
    /\ UNCHANGED <<attached, hup, settings, methods, file, history>>

----------------------------------------------------------------------------
(***************************************************************************)
(* The /sys methods                                                        *)
(***************************************************************************)

\* Mutants: only the new destination is told; the answer precedes the change.
OnlyNewTold(old, new, attribute, value) ==
    [told EXCEPT ![new].was = TRUE, ![new][attribute] = value]
OldPrefixTold(old, new) == [news EXCEPT !.prefix = old]

\* info_reply_port() or info_reply_host(), to the old and the new destination.
BothTold(old, new, attribute, value) ==
    [told EXCEPT ![old][attribute] = value,
                 ![new].was = TRUE, ![new][attribute] = value]
PrefixTold(old, new) == [news EXCEPT !.prefix = new]
RotationTold(old, new) == [news EXCEPT !.rotation = new]

Redirect(new) ==
    /\ outgoing' = new
    /\ news' = IF new = outgoing THEN news ELSE NoNews
    /\ UNCHANGED <<prefix, rotation, methods>>

SysPort(i) ==
    LET new == [outgoing EXCEPT !.port = Portstr(i)]
    IN  /\ Handles /\ Redirect(new)
        /\ told' = BothTold(outgoing, new, "port", Portstr(i))

SysHost(h) ==
    LET new == [outgoing EXCEPT !.host = h]
    IN  /\ Handles /\ Redirect(new)
        /\ told' = BothTold(outgoing, new, "host", h)

SysPrefix(t) ==
    /\ Handles
    /\ Count("ring/intensity") < MaxRegistrations
    /\ prefix' = Slashed(t)
    /\ methods' = WithMethods(WithoutMethods(methods, prefix), prefix')
    /\ news' = PrefixTold(prefix, prefix')
    /\ UNCHANGED <<outgoing, rotation, told>>

\* monome_set_rotation() and the answer, unless the rotation is the old one.
Rotate(new) ==
    /\ Handles
    /\ IF new = rotation
       THEN UNCHANGED <<rotation, news>>
       ELSE /\ rotation' = Masked(new)
            /\ news' = RotationTold(rotation, rotation')
    /\ UNCHANGED <<outgoing, prefix, methods, told>>

SysRotation(d) == Rotate(Quotient(d, 90))
SysCable(c) == Rotate(c)

\* /sys/info with an answer to the asker, of anything but the port of a
\* destination that has none: that is read through a null pointer.
SysInfo ==
    /\ Handles
    /\ UNCHANGED <<settings, methods, told, news>>

SysInfoPort ==
    /\ position = "osc" /\ "osc" \in revents
    /\ outgoing.port = NoPort
    /\ Gone
    /\ UNCHANGED <<file, kept>>

----------------------------------------------------------------------------
(***************************************************************************)
(* A session ends                                                          *)
(***************************************************************************)

\* send_simple_ipc(DEVICE_DISCONNECTION): without a daemon, SIGPIPE.
Disconnect ==
    /\ position = "leave"
    /\ IF attached
       THEN /\ position' = "save"
            /\ UNCHANGED <<revents, running, attached, asked, hup, settings,
                           methods, told, news>>
       ELSE Gone
    /\ UNCHANGED <<file, kept>>

\* sosc_config_write() opens the file, which empties it: from here to the end of
\* the write there is nothing to be read.
OpenConfig ==
    /\ position = "save"
    /\ position' = "write"
    /\ file' = Defaults
    /\ kept' = <<>>
    /\ UNCHANGED <<revents, running, attached, asked, hup, settings, methods,
                   told, news>>

\* It asks for the port, without which the process dies there, and prints the
\* whole text; fclose() writes it, and the session ends.
Save ==
    /\ position = "write"
    /\ IF outgoing.port = NoPort
       THEN UNCHANGED <<file, kept>>
       ELSE /\ kept' = <<outgoing, prefix, rotation>>
            /\ file' = [host |-> outgoing.host, port |-> outgoing.port,
                        rotation |-> SavedRotation(rotation), prefix |-> prefix]
    /\ Gone

\* fopen() fails: the session ends without a trace.
SaveFails ==
    /\ position = "save"
    /\ Gone
    /\ UNCHANGED <<file, kept>>

----------------------------------------------------------------------------
(***************************************************************************)
(* The outside world                                                       *)
(***************************************************************************)

Alive == position # "off"

\* The daemon asks once: not again when the request has been read.
Ask ==
    /\ Alive /\ attached /\ ~asked /\ running
    /\ asked' = TRUE
    /\ UNCHANGED <<position, revents, running, attached, hup, settings, methods,
                   file, history>>

Unplug ==
    /\ Alive /\ ~hup
    /\ hup' = TRUE
    /\ UNCHANGED <<position, revents, running, attached, asked, settings,
                   methods, file, history>>

DaemonDies ==
    /\ Alive /\ attached
    /\ attached' = FALSE
    /\ UNCHANGED <<position, revents, running, asked, hup, settings, methods,
                   file, history>>

\* The process is killed, at whatever point.
Dies == Alive /\ Gone /\ UNCHANGED <<file, kept>>

----------------------------------------------------------------------------
Sys ==
    \/ \E i \in PortArgs : SysPort(i)
    \/ \E h \in Hosts : SysHost(h)
    \/ \E t \in Text : SysPrefix(t)
    \/ \E d \in RotationArgs : SysRotation(d)
    \/ \E c \in CableArgs : SysCable(c)
    \/ SysInfo
    \/ SysInfoPort

Next ==
    \/ Start
    \/ Poll \/ Monome \/ Sys \/ NoOsc \/ Ipc
    \/ Disconnect \/ OpenConfig \/ Save \/ SaveFails
    \/ Ask \/ Unplug \/ DaemonDies \/ Dies

Spec == Init /\ [][Next]_vars

\* The process runs, and poll() returns when the loss of the monome or stdin
\* is there to be reported.  Nobody has to send OSC, start a session or exit.
FairSpec ==
    /\ Spec
    /\ WF_vars((hup \/ Readable) /\ Poll)
    /\ WF_vars(Monome)
    /\ WF_vars(Sys \/ NoOsc)
    /\ WF_vars(Ipc)
    /\ WF_vars(Disconnect)
    /\ WF_vars(OpenConfig \/ SaveFails)
    /\ WF_vars(Save)

----------------------------------------------------------------------------
(***************************************************************************)
(* Properties                                                              *)
(***************************************************************************)

\* The state stays in its types; above all, what the file holds can be read back.
TypeOK ==
    /\ position \in {"off", "poll", "monome", "osc", "ipc", "leave", "save", "write"}
    /\ revents \subseteq {"monome", "osc", "ipc"}
    /\ running \in BOOLEAN /\ attached \in BOOLEAN
    /\ asked \in BOOLEAN /\ hup \in BOOLEAN
    /\ outgoing \in Addresses /\ prefix \in Prefixes /\ rotation \in 0..3
    /\ methods \in [Prefixes -> [Registered -> Nat]]
    /\ file \in [host : Hosts, port : Ports \ {NoPort},
                 rotation : {0, 90, 180, 270}, prefix : Prefixes]
    /\ told \in [Addresses -> [was : BOOLEAN, host : Hosts \cup {None},
                               port : Ports \cup {None}]]
    /\ news \in [prefix : Prefixes \cup {None}, rotation : (0..3) \cup {None}]
    /\ kept \in (Addresses \X Prefixes \X (0..3)) \cup {<<>>}

\* A running session answers every method under the current prefix through one
\* entry, and under no other prefix: sys_prefix_handler() moves the table.
\* ring/intensity is left out: its entries stay (mext_methods.c:304-380).
MethodsFollowPrefix ==
    Alive => \A p \in Prefixes, m \in Registered \ {"ring/intensity"} :
                methods[p][m] = IF p = prefix THEN 1 ELSE 0

\* The destination has never been told a prefix or a rotation that is not the
\* current one since it became the destination: the /sys handlers answer after
\* the change, and whatever changes one of the two tells it.
DestinationUpToDate ==
    /\ news.prefix \in {None, prefix}
    /\ news.rotation \in {None, rotation}

\* An application that has been the destination and is it no longer has last
\* been told a host or a port that is not its own, through however many moves
\* it has seen: it can know that it has lost the monome (/sys/port and /sys/host
\* are sent to the old destination too).
FormerDestinationKnows ==
    \A a \in Addresses \ {outgoing} :
        told[a].was => \/ told[a].host \notin {None, a.host}
                       \/ told[a].port \notin {None, a.port}

\* What sosc_port_itos() makes of port 0.
WithoutZero(address) ==
    IF address.port = 0 THEN [address EXCEPT !.port = NoPort] ELSE address

DefaultSettings == <<[host |-> DefaultHost, port |-> 8000], Defaults.prefix, 0>>

\* A session starts with the settings that the last session to open the file
\* wrote into it, port 0 taken for none, whatever sessions have died before they
\* came to open it; and with the defaults if that last one was killed, or had no
\* port and crashed, between fopen() and fclose() (config.c:138-158).
SettingsSurvive ==
    [][Start => settings' = IF kept = <<>> THEN DefaultSettings
                            ELSE <<WithoutZero(kept[1]), kept[2], kept[3]>>]_vars

\* A process asked to exit does, whatever OSC traffic there is: a pass of
\* sosc_event_loop() handles one message of each kind and comes to stdin.
ExitObeyed == asked ~> position = "off"

\* A process whose monome is gone exits, whatever OSC traffic there is.
UnpluggedLeaves == hup ~> position = "off"
=============================================================================
