------------------------ MODULE DeviceSession_proofs ------------------------
(***************************************************************************)
(* Safety of a device server's sessions, for every set of hosts, prefixes, *)
(* ports and rotations.                                                    *)
(***************************************************************************)
EXTENDS DeviceSession, TLAPS

----------------------------------------------------------------------------
(***************************************************************************)
(* Conversions                                                             *)
(***************************************************************************)

Int32 == {i \in Int : -INT_MAX <= i /\ i <= INT_MAX}

\* Cutting a number to its leading digits gives a number below the limit; a
\* number below the limit is not cut.
LEMMA LeadingDigits ==
  ASSUME NEW n \in Nat, n <= INT_MAX, NEW limit \in {FourDigits, FiveDigits}
  PROVE  /\ Leading(n, limit) \in Nat
         /\ Leading(n, limit) < limit
         /\ n < limit => Leading(n, limit) = n
<1> DEFINE Fits(p) == /\ n \div p < limit
                      /\ p = 1 \/ n \div (p \div 10) >= limit
           c == CHOOSE p \in Powers : Fits(p)
<1>1. \E p \in Powers : Fits(p)
  BY SMT DEF Powers, INT_MAX, FourDigits, FiveDigits
<1>2. c \in Powers /\ Fits(c)
  <2> HIDE DEF Fits
  <2> QED BY <1>1
<1>3. Leading(n, limit) = n \div c
  BY DEF Leading
<1> HIDE DEF c
<1>4. n \div c \in Nat /\ n \div c < limit
  BY <1>2, SMT DEF Powers
<1>5. n < limit => c = 1
  BY <1>2, SMT DEF Powers, FourDigits, FiveDigits
<1>6. n \div 1 = n
  BY SMT
<1> QED BY <1>3, <1>4, <1>5, <1>6

\* A port that has been through snprintf() once is not changed by it again:
\* what is written to the configuration is read back.
LEMMA PortstrIdempotent ==
  ASSUME NEW i \in Int32
  PROVE  /\ Portstr(i) \in Int32
         /\ Portstr(Portstr(i)) = Portstr(i)
<1> DEFINE neg == Leading(-i, FourDigits)
           pos == Leading(i, FiveDigits)
<1>1. CASE i < 0
  <2>1. -i \in Nat /\ -i <= INT_MAX
    BY <1>1, SMT DEF Int32, INT_MAX
  <2>2. Portstr(i) = -neg
    BY <1>1 DEF Portstr
  <2>3. neg \in Nat /\ neg < FourDigits
    BY <2>1, LeadingDigits
  <2> HIDE DEF neg
  <2>4. neg <= INT_MAX /\ neg < FiveDigits
    BY <2>3, SMT DEF FourDigits, FiveDigits, INT_MAX
  <2>5. Leading(neg, FourDigits) = neg /\ Leading(neg, FiveDigits) = neg
    BY <2>3, <2>4, LeadingDigits
  <2>6. -(-neg) = neg /\ (-neg < 0 \/ (neg = 0 /\ -neg = neg)) /\ -neg \in Int32
    BY <2>3, <2>4, SMT DEF Int32, INT_MAX
  <2>7. Portstr(-neg) = -neg
    <3>1. CASE -neg < 0
      BY <3>1, <2>5, <2>6 DEF Portstr
    <3>2. CASE neg = 0 /\ -neg = neg
      BY <3>2, <2>5, SMT DEF Portstr
    <3> QED BY <2>6, <3>1, <3>2
  <2> QED BY <2>2, <2>6, <2>7
<1>2. CASE ~(i < 0)
  <2>1. i \in Nat /\ i <= INT_MAX
    BY <1>2, SMT DEF Int32
  <2>2. Portstr(i) = pos
    BY <1>2 DEF Portstr
  <2>3. pos \in Nat /\ pos < FiveDigits
    BY <2>1, LeadingDigits
  <2> HIDE DEF pos
  <2>4. pos <= INT_MAX /\ ~(pos < 0) /\ pos \in Int32
    BY <2>3, SMT DEF FiveDigits, INT_MAX, Int32
  <2>5. Leading(pos, FiveDigits) = pos
    BY <2>3, <2>4, LeadingDigits
  <2> QED BY <2>2, <2>4, <2>5 DEF Portstr
<1> QED BY <1>1, <1>2

\* 8000 is not cut.
LEMMA DefaultPortKept == 8000 \in Int32 /\ Portstr(8000) = 8000
<1>1. 8000 \in Nat /\ 8000 <= INT_MAX /\ 8000 < FiveDigits /\ ~(8000 < 0) /\ 8000 \in Int32
  BY SMT DEF FiveDigits, INT_MAX, Int32
<1> QED BY <1>1, LeadingDigits DEF Portstr

\* Every port a session can have is a number or missing, and reading it back
\* from the configuration keeps it, or loses it if it is zero.
LEMMA PortsReadBack ==
  /\ \A p \in Ports \ {NoPort} : p \in Int32 /\ Portstr(p) = p
  /\ \A p \in Ports \ {NoPort} : Itos(p) = IF p = 0 THEN NoPort ELSE p
  /\ Ports \subseteq Int \cup {NoPort}
  /\ \A i \in PortArgs : Portstr(i) \in Ports \ {NoPort}
<1>1. \A i \in PortArgs : i \in Int32
  BY ArgumentsAssumption DEF Int32
<1>2. \A i \in PortArgs : Portstr(i) \in Int32 /\ Portstr(Portstr(i)) = Portstr(i)
  BY <1>1, PortstrIdempotent
<1>3. Int32 \subseteq Int /\ NoPort \notin Int32
  BY NothingAssumption DEF Int32
<1>4. \A p \in Ports \ {NoPort} : p \in Int32 /\ Portstr(p) = p
  BY <1>2, <1>3, DefaultPortKept DEF Ports
<1>5. \A p \in Ports \ {NoPort} : Itos(p) = IF p = 0 THEN NoPort ELSE p
  BY <1>4 DEF Itos
<1>6. Ports \subseteq Int \cup {NoPort}
  BY <1>3, <1>4
<1>7. \A i \in PortArgs : Portstr(i) \in Ports \ {NoPort}
  BY <1>2, <1>3 DEF Ports
<1> QED BY <1>4, <1>5, <1>6, <1>7

\* A rotation that was saved in degrees is the one that is read back.
LEMMA RotationReadsBack ==
  ASSUME NEW r \in 0..3
  PROVE  /\ SavedRotation(r) \in {0, 90, 180, 270}
         /\ Masked(LoadedRotation(SavedRotation(r))) = r
<1>1. CASE r = 0 BY <1>1 DEF SavedRotation, Masked, LoadedRotation, Quotient, Remainder
<1>2. CASE r = 1 BY <1>2 DEF SavedRotation, Masked, LoadedRotation, Quotient, Remainder
<1>3. CASE r = 2 BY <1>3 DEF SavedRotation, Masked, LoadedRotation, Quotient, Remainder
<1>4. CASE r = 3 BY <1>4 DEF SavedRotation, Masked, LoadedRotation, Quotient, Remainder
<1> QED BY <1>1, <1>2, <1>3, <1>4

\* C's division and remainder by a positive number give integers.
LEMMA QuotientInt ==
  /\ \A d \in Int : Quotient(d, 90) \in Int
  /\ \A q \in Int : Remainder(q, 4) \in Int
  /\ \A q \in Int : Masked(q) \in 0..3
BY DEF Quotient, Remainder, Masked

----------------------------------------------------------------------------
(***************************************************************************)
(* Type correctness                                                        *)
(***************************************************************************)

\* The two parts of the state that the handlers change, and the rest.
ProcessOK ==
    /\ position \in {"off", "poll", "monome", "osc", "ipc", "leave", "save", "write"}
    /\ revents \subseteq {"monome", "osc", "ipc"}
    /\ running \in BOOLEAN /\ attached \in BOOLEAN
    /\ asked \in BOOLEAN /\ hup \in BOOLEAN
SettingsOK ==
    outgoing \in Addresses /\ prefix \in Prefixes /\ rotation \in 0..3
MethodsOK == methods \in [Prefixes -> [Registered -> Nat]]
FileOK ==
    file \in [host : Hosts, port : Ports \ {NoPort},
              rotation : {0, 90, 180, 270}, prefix : Prefixes]
ToldOK ==
    told \in [Addresses -> [was : BOOLEAN, host : Hosts \cup {None},
                            port : Ports \cup {None}]]
NewsOK == news \in [prefix : Prefixes \cup {None}, rotation : (0..3) \cup {None}]
KeptOK == kept \in (Addresses \X Prefixes \X (0..3)) \cup {<<>>}

\* The type invariant is the conjunction of its parts, so that a step is shown for
\* the parts it can disturb.
LEMMA TypeParts ==
  TypeOK <=> /\ ProcessOK /\ SettingsOK /\ MethodsOK /\ FileOK
             /\ ToldOK /\ NewsOK /\ KeptOK
BY DEF TypeOK, ProcessOK, SettingsOK, MethodsOK, FileOK, ToldOK, NewsOK, KeptOK

\* The same for the state after a step.
LEMMA TypePartsNext ==
  ProcessOK' /\ SettingsOK' /\ MethodsOK' /\ FileOK' /\ ToldOK' /\ NewsOK' /\ KeptOK'
    => TypeOK'
BY DEF TypeOK, ProcessOK, SettingsOK, MethodsOK, FileOK, ToldOK, NewsOK, KeptOK

\* The defaults are settings.
LEMMA DefaultsOK ==
  /\ [host |-> DefaultHost, port |-> 8000] \in Addresses
  /\ Defaults.prefix \in Prefixes
  /\ Defaults \in [host : Hosts, port : Ports \ {NoPort},
                   rotation : {0, 90, 180, 270}, prefix : Prefixes]
<1>1. 8000 \in Ports \ {NoPort}
  BY NothingAssumption DEF Ports
<1>2. [slash |-> TRUE, name |-> DefaultName] \in Prefixes
  BY DefaultsAssumption DEF Prefixes
<1> QED BY <1>1, <1>2, DefaultsAssumption DEF Addresses, Defaults

\* The state after the end of a process, but for the file, is that of Init.
LEMMA GoneOK ==
  ASSUME Gone
  PROVE  ProcessOK' /\ SettingsOK' /\ MethodsOK' /\ ToldOK' /\ NewsOK'
<1>1. ProcessOK' BY DEF Gone, ProcessOK
<1>2. SettingsOK' BY DefaultsOK DEF Gone, SettingsOK
<1>3. MethodsOK' BY DEF Gone, MethodsOK, NoMethods
<1>4. ToldOK' BY DEF Gone, ToldOK, Unheard
<1>5. NewsOK' BY DEF Gone, NewsOK, NoNews
<1> QED BY <1>1, <1>2, <1>3, <1>4, <1>5

\* The method table stays a table.
LEMMA MethodsType ==
  ASSUME NEW t \in [Prefixes -> [Registered -> Nat]], NEW p \in Prefixes
  PROVE  /\ WithMethods(t, p) \in [Prefixes -> [Registered -> Nat]]
         /\ WithoutMethods(t, p) \in [Prefixes -> [Registered -> Nat]]
BY DEF WithMethods, WithoutMethods

\* What the start of a session reads are settings.
LEMMA StartReads ==
  ASSUME FileOK
  PROVE  /\ [host |-> file.host, port |-> Itos(file.port)] \in Addresses
         /\ Slashed(file.prefix) = file.prefix
         /\ Masked(LoadedRotation(file.rotation)) \in 0..3
<1>1. file.port \in Ports \ {NoPort} /\ file.host \in Hosts /\ file.prefix \in Prefixes
      /\ file.rotation \in {0, 90, 180, 270}
  BY DEF FileOK
<1>2. Itos(file.port) \in Ports
  BY <1>1, PortsReadBack DEF Ports
<1>3. \E r \in 0..3 : file.rotation = SavedRotation(r)
  BY <1>1 DEF SavedRotation
<1>4. Masked(LoadedRotation(file.rotation)) \in 0..3
  BY <1>3, RotationReadsBack
<1>5. PICK n \in Names : file.prefix = [slash |-> TRUE, name |-> n]
  BY <1>1 DEF Prefixes
<1>6. Slashed(file.prefix) = file.prefix
  BY <1>5 DEF Slashed
<1> QED BY <1>1, <1>2, <1>4, <1>6 DEF Addresses

\* A push to two addresses leaves well-formed histories.
Heard == [was : BOOLEAN, host : Hosts \cup {None}, port : Ports \cup {None}]

\* BothTold() of two addresses leaves a well-formed history.
LEMMA ToldType ==
  ASSUME told \in [Addresses -> Heard], NEW a \in Addresses, NEW b \in Addresses
  PROVE  /\ \A p \in Ports : BothTold(a, b, "port", p) \in [Addresses -> Heard]
         /\ \A h \in Hosts : BothTold(a, b, "host", h) \in [Addresses -> Heard]
<1>1. ASSUME NEW p \in Ports PROVE BothTold(a, b, "port", p) \in [Addresses -> Heard]
  <2> DEFINE r1 == [told[a] EXCEPT !.port = p]
             t1 == [told EXCEPT ![a] = r1]
             r2 == [t1[b] EXCEPT !.was = TRUE, !.port = p]
             t2 == [t1 EXCEPT ![b] = r2]
  <2>1. r1 \in Heard
    BY DEF Heard
  <2>2. t1 \in [Addresses -> Heard]
    <3> HIDE DEF r1
    <3> QED BY <2>1
  <2>3. r2 \in Heard
    <3> HIDE DEF t1
    <3> QED BY <2>2 DEF Heard
  <2>4. t2 \in [Addresses -> Heard]
    <3> HIDE DEF t1, r2
    <3> QED BY <2>2, <2>3
  <2>5. BothTold(a, b, "port", p) = t2
    BY DEF BothTold
  <2> QED BY <2>4, <2>5
<1>2. ASSUME NEW h \in Hosts PROVE BothTold(a, b, "host", h) \in [Addresses -> Heard]
  <2> DEFINE r1 == [told[a] EXCEPT !.host = h]
             t1 == [told EXCEPT ![a] = r1]
             r2 == [t1[b] EXCEPT !.was = TRUE, !.host = h]
             t2 == [t1 EXCEPT ![b] = r2]
  <2>1. r1 \in Heard
    BY DEF Heard
  <2>2. t1 \in [Addresses -> Heard]
    <3> HIDE DEF r1
    <3> QED BY <2>1
  <2>3. r2 \in Heard
    <3> HIDE DEF t1
    <3> QED BY <2>2 DEF Heard
  <2>4. t2 \in [Addresses -> Heard]
    <3> HIDE DEF t1, r2
    <3> QED BY <2>2, <2>3
  <2>5. BothTold(a, b, "host", h) = t2
    BY DEF BothTold
  <2> QED BY <2>4, <2>5
<1> QED BY <1>1, <1>2

\* Every step keeps the types.
LEMMA TypeStep == TypeOK /\ [Next]_vars => TypeOK'
<1> SUFFICES ASSUME TypeOK, [Next]_vars PROVE TypeOK'
  OBVIOUS
<1> USE TypePartsNext
<1>0. ProcessOK /\ SettingsOK /\ MethodsOK /\ FileOK /\ ToldOK /\ NewsOK /\ KeptOK
  BY TypeParts
<1>1. CASE Start
  <2>1. outgoing' \in Addresses /\ prefix' \in Prefixes /\ rotation' \in 0..3
    BY <1>0, <1>1, StartReads DEF Start, FileOK
  <2>2. SettingsOK'
    BY <2>1 DEF SettingsOK
  <2>3. ProcessOK' BY <1>0, <1>1 DEF Start, ProcessOK
  <2>4. MethodsOK' BY <1>0, <1>1, <2>1, MethodsType DEF Start, MethodsOK
  <2>5. ToldOK' BY <1>0, <1>1, <2>1 DEF Start, ToldOK
  <2>6. FileOK' /\ NewsOK' /\ KeptOK'
    BY <1>0, <1>1 DEF Start, FileOK, NewsOK, KeptOK
  <2> QED BY <2>2, <2>3, <2>4, <2>5, <2>6
<1>2. CASE Poll \/ Monome \/ NoOsc \/ Ipc \/ Ask \/ Unplug \/ DaemonDies
  <2>1. UNCHANGED <<settings, methods, file, history>>
    BY <1>2 DEF Poll, Monome, NoOsc, Ipc, Ask, Unplug, DaemonDies
  <2>2. SettingsOK' /\ MethodsOK' /\ FileOK' /\ ToldOK' /\ NewsOK' /\ KeptOK'
    BY <1>0, <2>1 DEF settings, history, SettingsOK, MethodsOK, FileOK, ToldOK,
       NewsOK, KeptOK
  <2>3. ProcessOK'
    BY <1>0, <1>2 DEF Poll, Monome, NoOsc, Ipc, Ask, Unplug, DaemonDies, ProcessOK,
       HangsUp
  <2> QED BY <2>2, <2>3
<1>3. ASSUME Handles PROVE ProcessOK' /\ FileOK' /\ KeptOK'
  BY <1>0, <1>3 DEF Handles, ProcessOK, FileOK, KeptOK, AfterOsc
<1>4. ASSUME NEW i \in PortArgs, SysPort(i) PROVE TypeOK'
  <2> DEFINE new == [outgoing EXCEPT !.port = Portstr(i)]
  <2>1. Portstr(i) \in Ports
    BY PortsReadBack
  <2>2. new \in Addresses
    BY <1>0, <2>1 DEF SettingsOK, Addresses
  <2>3. Handles /\ Redirect(new) /\ told' = BothTold(outgoing, new, "port", Portstr(i))
    BY <1>4 DEF SysPort
  <2> HIDE DEF new
  <2>4. SettingsOK' /\ MethodsOK' /\ NewsOK'
    BY <1>0, <2>2, <2>3 DEF Redirect, SettingsOK, MethodsOK, NewsOK, NoNews
  <2>5. ToldOK'
    BY <1>0, <2>1, <2>2, <2>3, ToldType DEF SettingsOK, ToldOK, Heard
  <2> QED BY <1>3, <2>3, <2>4, <2>5
<1>5. ASSUME NEW h \in Hosts, SysHost(h) PROVE TypeOK'
  <2> DEFINE new == [outgoing EXCEPT !.host = h]
  <2>2. new \in Addresses
    BY <1>0 DEF SettingsOK, Addresses
  <2>3. Handles /\ Redirect(new) /\ told' = BothTold(outgoing, new, "host", h)
    BY <1>5 DEF SysHost
  <2> HIDE DEF new
  <2>4. SettingsOK' /\ MethodsOK' /\ NewsOK'
    BY <1>0, <2>2, <2>3 DEF Redirect, SettingsOK, MethodsOK, NewsOK, NoNews
  <2>5. ToldOK'
    BY <1>0, <2>2, <2>3, ToldType DEF SettingsOK, ToldOK, Heard
  <2> QED BY <1>3, <2>3, <2>4, <2>5
<1>6. ASSUME NEW t \in Text, SysPrefix(t) PROVE TypeOK'
  <2>1. prefix' \in Prefixes
    BY <1>6 DEF SysPrefix, Slashed, Text, Prefixes
  <2>2. MethodsOK'
    BY <1>0, <1>6, <2>1, MethodsType DEF SysPrefix, MethodsOK, SettingsOK
  <2>3. SettingsOK' /\ ToldOK' /\ NewsOK'
    BY <1>0, <1>6, <2>1 DEF SysPrefix, SettingsOK, ToldOK, NewsOK, PrefixTold
  <2>4. Handles
    BY <1>6 DEF SysPrefix
  <2> QED BY <1>3, <2>2, <2>3, <2>4
<1>7. ASSUME NEW r \in Int, Rotate(r) PROVE TypeOK'
  <2>1. SettingsOK' /\ NewsOK'
    BY <1>0, <1>7, QuotientInt DEF Rotate, SettingsOK, NewsOK, RotationTold
  <2>2. MethodsOK' /\ ToldOK'
    BY <1>0, <1>7 DEF Rotate, MethodsOK, ToldOK
  <2>3. Handles
    BY <1>7 DEF Rotate
  <2> QED BY <1>3, <2>1, <2>2, <2>3
<1>8. ASSUME NEW d \in RotationArgs, SysRotation(d) PROVE TypeOK'
  BY <1>7, <1>8, QuotientInt, ArgumentsAssumption DEF SysRotation
<1>9. ASSUME NEW c \in CableArgs, SysCable(c) PROVE TypeOK'
  BY <1>7, <1>9, ArgumentsAssumption DEF SysCable
<1>10. CASE SysInfo
  <2>1. SettingsOK' /\ MethodsOK' /\ ToldOK' /\ NewsOK'
    BY <1>0, <1>10 DEF SysInfo, settings, SettingsOK, MethodsOK, ToldOK, NewsOK
  <2> QED BY <1>3, <1>10, <2>1 DEF SysInfo
<1>11. CASE SysInfoPort \/ Dies \/ SaveFails
  <2>1. FileOK' /\ KeptOK'
    BY <1>0, <1>11 DEF SysInfoPort, Dies, SaveFails, FileOK, KeptOK
  <2> QED BY <1>11, <2>1, GoneOK DEF SysInfoPort, Dies, SaveFails
<1>12. CASE Disconnect
  <2>1. FileOK' /\ KeptOK'
    BY <1>0, <1>12 DEF Disconnect, FileOK, KeptOK
  <2>2. CASE attached
    BY <1>0, <1>12, <2>1, <2>2 DEF Disconnect, settings, ProcessOK, SettingsOK,
       MethodsOK, ToldOK, NewsOK
  <2>3. CASE ~attached
    BY <1>12, <2>1, <2>3, GoneOK DEF Disconnect
  <2> QED BY <2>2, <2>3
<1>13. CASE OpenConfig
  <2>1. FileOK' /\ KeptOK'
    BY <1>13, DefaultsOK DEF OpenConfig, FileOK, KeptOK
  <2>2. ProcessOK' /\ SettingsOK' /\ MethodsOK' /\ ToldOK' /\ NewsOK'
    BY <1>0, <1>13 DEF OpenConfig, settings, ProcessOK, SettingsOK, MethodsOK,
       ToldOK, NewsOK
  <2> QED BY <2>1, <2>2
<1>14. CASE Save
  <2>1. KeptOK'
    BY <1>0, <1>14 DEF Save, SettingsOK, KeptOK
  <2>2. outgoing.host \in Hosts /\ outgoing.port \in Ports
    BY <1>0 DEF SettingsOK, Addresses
  <2>3. FileOK'
    BY <1>0, <1>14, <2>2, RotationReadsBack DEF Save, FileOK, SettingsOK
  <2>4. Gone
    BY <1>14 DEF Save
  <2> QED BY <2>1, <2>3, <2>4, GoneOK
<1>15. CASE UNCHANGED vars
  BY <1>15 DEF vars, process, settings, history, TypeOK
<1> QED
  BY <1>1, <1>2, <1>4, <1>5, <1>6, <1>8, <1>9, <1>10, <1>11, <1>12, <1>13, <1>14,
     <1>15 DEF Next, Sys

\* The initial state has the types.
LEMMA TypeInit == Init => TypeOK
<1> SUFFICES ASSUME Init PROVE TypeOK
  OBVIOUS
<1>1. SettingsOK /\ FileOK
  BY DefaultsOK DEF Init, SettingsOK, FileOK
<1>2. ProcessOK /\ MethodsOK /\ ToldOK /\ NewsOK /\ KeptOK
  BY DEF Init, ProcessOK, MethodsOK, NoMethods, ToldOK, Unheard, NewsOK, NoNews, KeptOK
<1> QED BY <1>1, <1>2, TypeParts

\* The state of a device server stays in its types, through any sequence of
\* sessions: in particular the configuration file can always be read back.
THEOREM TypeCorrect == Spec => []TypeOK
<1> QED BY TypeInit, TypeStep, PTL DEF Spec

----------------------------------------------------------------------------
(***************************************************************************)
(* The inductive invariant                                                 *)
(***************************************************************************)

\* Between two sessions nothing is registered and nobody has been told anything.
OffInv ==
    ~Alive => /\ methods = NoMethods
              /\ told = [a \in Addresses |-> Unheard]
              /\ news = NoNews

\* What the file holds: the defaults, which an empty file stands for, until a
\* session has written its settings, and then these.
KeptInv ==
    IF kept = <<>> THEN file = Defaults
    ELSE /\ kept[1].port # NoPort
         /\ file = [host |-> kept[1].host, port |-> kept[1].port,
                    rotation |-> SavedRotation(kept[3]), prefix |-> kept[2]]

IInv == /\ TypeOK /\ OffInv /\ KeptInv
        /\ MethodsFollowPrefix /\ DestinationUpToDate /\ FormerDestinationKnows

\* The steps that change neither the settings nor the table nor the histories.
Idle == Poll \/ Monome \/ NoOsc \/ Ipc \/ Ask \/ Unplug \/ DaemonDies \/ SysInfo
        \/ (Disconnect /\ attached)

\* The steps after which the process is gone.
Ends == SysInfoPort \/ Dies \/ Save \/ SaveFails \/ (Disconnect /\ ~attached)

\* Every step of a device process is one of these: its start, a step that keeps
\* the settings, the opening of the file, its end, a move, a new prefix or a
\* rotation.
LEMMA NextCases ==
  ASSUME [Next]_vars
  PROVE  \/ Start \/ Idle \/ OpenConfig \/ Ends
         \/ \E i \in PortArgs : SysPort(i)
         \/ \E h \in Hosts : SysHost(h)
         \/ \E t \in Text : SysPrefix(t)
         \/ \E r \in Int : Rotate(r)
         \/ UNCHANGED vars
<1>1. \A d \in RotationArgs : SysRotation(d) => \E r \in Int : Rotate(r)
  BY QuotientInt, ArgumentsAssumption DEF SysRotation
<1>2. \A c \in CableArgs : SysCable(c) => \E r \in Int : Rotate(r)
  BY ArgumentsAssumption DEF SysCable
<1> QED BY <1>1, <1>2 DEF Next, Sys, Idle, Ends

\* The steps that only move the process through its loop change no setting.
LEMMA IdleKeeps ==
  ASSUME TypeOK, Idle
  PROVE  UNCHANGED <<outgoing, prefix, rotation, methods, told, news, kept, file>>
         /\ Alive' = Alive
BY DEF TypeOK, Idle, Poll, Monome, NoOsc, Ipc, Ask, Unplug, DaemonDies, SysInfo,
       Disconnect, Handles, settings, history, Alive, AfterOsc

\* A process that ends leaves no method, no history and no news behind.
LEMMA EndsForget ==
  ASSUME Ends
  PROVE  /\ ~Alive' /\ OffInv'
         /\ methods' = NoMethods /\ told' = [a \in Addresses |-> Unheard]
         /\ news' = NoNews
BY DEF Ends, SysInfoPort, Dies, Save, SaveFails, Disconnect, Gone, Alive, OffInv

\* The file is opened by a live process, which keeps its settings.
LEMMA OpenKeeps ==
  ASSUME OpenConfig
  PROVE  /\ UNCHANGED <<outgoing, prefix, rotation, methods, told, news>>
         /\ Alive /\ Alive'
BY DEF OpenConfig, settings, Alive

\* A message is handled by a live process, and leaves it alive.
LEMMA HandlesAlive ==
  ASSUME Handles PROVE Alive /\ Alive' /\ UNCHANGED <<file, kept>>
BY DEF Handles, Alive, AfterOsc

\* A move of the destination touches neither prefix nor rotation nor methods.
LEMMA RedirectKeeps ==
  ASSUME NEW new, Redirect(new) PROVE UNCHANGED <<prefix, rotation, methods>>
BY DEF Redirect

\* Between sessions there is nothing left: only Start leaves this state.
LEMMA OffStep == TypeOK /\ OffInv /\ [Next]_vars => OffInv'
<1> SUFFICES ASSUME TypeOK, OffInv, [Next]_vars PROVE OffInv'
  OBVIOUS
<1>1. CASE Start
  BY <1>1 DEF Start, OffInv, Alive
<1>2. CASE Idle \/ OpenConfig
  BY <1>2, IdleKeeps, OpenKeeps DEF OffInv
<1>3. CASE Ends
  BY <1>3, EndsForget
<1>4. ASSUME Handles PROVE OffInv'
  BY <1>4, HandlesAlive DEF OffInv
<1>5. CASE UNCHANGED vars
  BY <1>5 DEF vars, process, history, OffInv, Alive
<1> QED BY <1>1, <1>2, <1>3, <1>4, <1>5, NextCases
        DEF SysPort, SysHost, SysPrefix, Rotate

\* What is saved is what was in use, and nothing else writes the file.
LEMMA KeptStep == TypeOK /\ KeptInv /\ [Next]_vars => KeptInv'
<1> SUFFICES ASSUME TypeOK, KeptInv, [Next]_vars PROVE KeptInv'
  OBVIOUS
<1>1. ASSUME UNCHANGED <<file, kept>> PROVE KeptInv'
  BY <1>1 DEF KeptInv
<1>2. CASE Start
  BY <1>1, <1>2 DEF Start
<1>3. CASE Idle
  BY <1>1, <1>3, IdleKeeps
<1>4. CASE OpenConfig
  BY <1>4 DEF OpenConfig, KeptInv
<1>5. CASE Save
  <2>1. CASE outgoing.port = NoPort
    BY <1>1, <1>5, <2>1 DEF Save
  <2>2. CASE outgoing.port # NoPort
    <3>1. kept' = <<outgoing, prefix, rotation>> /\ kept' # <<>>
      BY <1>5, <2>2 DEF Save
    <3> QED BY <1>5, <2>2, <3>1 DEF Save, KeptInv
  <2> QED BY <2>1, <2>2
<1>6. CASE Ends /\ ~Save
  BY <1>1, <1>6 DEF Ends, SysInfoPort, Dies, SaveFails, Disconnect
<1>7. ASSUME Handles PROVE KeptInv'
  BY <1>1, <1>7, HandlesAlive
<1>8. CASE UNCHANGED vars
  BY <1>1, <1>8 DEF vars, history
<1> QED BY <1>2, <1>3, <1>4, <1>5, <1>6, <1>7, <1>8, NextCases
        DEF SysPort, SysHost, SysPrefix, Rotate

\* The table moves with the prefix: the entries under the old prefix are
\* deleted, each path is added once under the new one.
LEMMA MethodsStep ==
  TypeOK /\ OffInv /\ MethodsFollowPrefix /\ [Next]_vars => MethodsFollowPrefix'
<1> SUFFICES ASSUME TypeOK, OffInv, MethodsFollowPrefix, [Next]_vars
             PROVE  MethodsFollowPrefix'
  OBVIOUS
<1>1. methods \in [Prefixes -> [Registered -> Nat]] /\ prefix \in Prefixes
  BY DEF TypeOK
<1>2. CASE Start
  <2>1. ~Alive /\ methods = NoMethods
    BY <1>2 DEF Start, Alive, OffInv
  <2>2. prefix' \in Prefixes
    BY <1>2, TypeStep DEF TypeOK
  <2>3. methods' = WithMethods(NoMethods, prefix')
    BY <1>2, <2>1 DEF Start
  <2> QED BY <2>2, <2>3 DEF WithMethods, NoMethods, MethodsFollowPrefix
<1>3. CASE Idle \/ OpenConfig
  BY <1>3, IdleKeeps, OpenKeeps DEF MethodsFollowPrefix
<1>4. CASE Ends
  BY <1>4, EndsForget DEF MethodsFollowPrefix
<1>5. ASSUME NEW t \in Text, SysPrefix(t) PROVE MethodsFollowPrefix'
  <2>1. prefix' \in Prefixes
    BY <1>5 DEF SysPrefix, Slashed, Text, Prefixes
  <2>2. Alive
    BY <1>5, HandlesAlive DEF SysPrefix
  <2> DEFINE without == WithoutMethods(methods, prefix)
             rest == Registered \ {"ring/intensity"}
  <2>3. without \in [Prefixes -> [Registered -> Nat]]
    BY <1>1, MethodsType
  <2>4. \A p \in Prefixes, m \in rest : without[p][m] = 0
    BY <1>1, <2>2 DEF WithoutMethods, MethodsFollowPrefix, Unregistered
  <2>5. methods' = WithMethods(without, prefix')
    BY <1>5 DEF SysPrefix
  <2> HIDE DEF without
  <2>6. \A p \in Prefixes, m \in rest :
          methods'[p][m] = IF p = prefix' THEN 1 ELSE 0
    BY <2>1, <2>3, <2>4, <2>5 DEF WithMethods
  <2> QED BY <2>6 DEF MethodsFollowPrefix
<1>6. ASSUME Handles, UNCHANGED <<prefix, methods>> PROVE MethodsFollowPrefix'
  BY <1>6, HandlesAlive DEF MethodsFollowPrefix
<1>7. CASE UNCHANGED vars
  BY <1>7 DEF vars, process, settings, MethodsFollowPrefix, Alive
<1> QED BY <1>2, <1>3, <1>4, <1>5, <1>6, <1>7, NextCases
        DEF SysPort, SysHost, Redirect, Rotate

\* News are reset with the destination and written with the prefix and rotation.
LEMMA NewsStep ==
  TypeOK /\ OffInv /\ DestinationUpToDate /\ [Next]_vars => DestinationUpToDate'
<1> SUFFICES ASSUME TypeOK, OffInv, DestinationUpToDate, [Next]_vars
             PROVE  DestinationUpToDate'
  OBVIOUS
<1>1. news \in [prefix : Prefixes \cup {None}, rotation : (0..3) \cup {None}]
  BY DEF TypeOK
<1>2. CASE Start
  BY <1>2 DEF Start, OffInv, Alive, NoNews, DestinationUpToDate
<1>3. CASE Idle \/ OpenConfig
  BY <1>3, IdleKeeps, OpenKeeps DEF DestinationUpToDate
<1>4. CASE Ends
  BY <1>4, EndsForget DEF DestinationUpToDate, NoNews
<1>5. ASSUME NEW new, Redirect(new) PROVE DestinationUpToDate'
  BY <1>5 DEF Redirect, DestinationUpToDate, NoNews
<1>6. ASSUME NEW t \in Text, SysPrefix(t) PROVE DestinationUpToDate'
  BY <1>1, <1>6 DEF SysPrefix, PrefixTold, DestinationUpToDate
<1>7. ASSUME NEW r \in Int, Rotate(r) PROVE DestinationUpToDate'
  BY <1>1, <1>7 DEF Rotate, RotationTold, DestinationUpToDate
<1>8. CASE UNCHANGED vars
  BY <1>8 DEF vars, settings, history, DestinationUpToDate
<1> QED BY <1>2, <1>3, <1>4, <1>5, <1>6, <1>7, <1>8, NextCases DEF SysPort, SysHost

\* Whoever loses the monome through a change of port hears a port that is not
\* its own, and likewise for the host; nobody else hears anything.
LEMMA ToldStep ==
  TypeOK /\ OffInv /\ FormerDestinationKnows /\ [Next]_vars => FormerDestinationKnows'
<1> SUFFICES ASSUME TypeOK, OffInv, FormerDestinationKnows, [Next]_vars
             PROVE  FormerDestinationKnows'
  OBVIOUS
<1>1. outgoing \in Addresses /\ told \in [Addresses -> Heard]
  BY DEF TypeOK, Heard
<1>2. CASE Start
  <2>1. told = [a \in Addresses |-> Unheard]
    BY <1>2 DEF Start, OffInv, Alive
  <2>2. \A a \in Addresses \ {outgoing'} : ~told'[a].was
    BY <1>2, <2>1 DEF Start, Unheard
  <2> QED BY <2>2 DEF FormerDestinationKnows
<1>3. CASE Idle \/ OpenConfig
  BY <1>3, IdleKeeps, OpenKeeps DEF FormerDestinationKnows
<1>4. CASE Ends
  BY <1>4, EndsForget DEF FormerDestinationKnows, Unheard
<1>5. ASSUME NEW new \in Addresses, NEW f \in {"host", "port"}, NEW v,
             v # None, new[f] = v, new # outgoing => outgoing[f] # v,
             outgoing' = new, told' = BothTold(outgoing, new, f, v)
      PROVE  FormerDestinationKnows'
  <2> SUFFICES ASSUME NEW a \in Addresses, a # new, told'[a].was
               PROVE  \/ told'[a].host \notin {None, a.host}
                      \/ told'[a].port \notin {None, a.port}
    BY <1>5 DEF FormerDestinationKnows
  <2>1. CASE a = outgoing
    <3>1. told'[a] = [told[a] EXCEPT ![f] = v]
      BY <1>1, <1>5, <2>1 DEF BothTold
    <3>2. told'[a][f] = v /\ a[f] # v
      BY <1>1, <1>5, <2>1, <3>1 DEF Heard
    <3> QED BY <1>5, <3>2
  <2>2. CASE a # outgoing
    <3>1. told'[a] = told[a]
      BY <1>1, <1>5, <2>2 DEF BothTold
    <3> QED BY <2>2, <3>1 DEF FormerDestinationKnows
  <2> QED BY <2>1, <2>2
<1>6. ASSUME NEW i \in PortArgs, SysPort(i) PROVE FormerDestinationKnows'
  <2> DEFINE new == [outgoing EXCEPT !.port = Portstr(i)]
  <2>1. Portstr(i) \in Ports /\ Portstr(i) # None
    BY PortsReadBack, NothingAssumption
  <2>2. new \in Addresses /\ new.port = Portstr(i)
    BY <1>1, <2>1 DEF Addresses
  <2>3. new # outgoing => outgoing.port # Portstr(i)
    BY <1>1 DEF Addresses
  <2>4. outgoing' = new /\ told' = BothTold(outgoing, new, "port", Portstr(i))
    BY <1>6 DEF SysPort, Redirect
  <2> HIDE DEF new
  <2> QED BY <1>5, <2>1, <2>2, <2>3, <2>4
<1>7. ASSUME NEW h \in Hosts, SysHost(h) PROVE FormerDestinationKnows'
  <2> DEFINE new == [outgoing EXCEPT !.host = h]
  <2>1. h # None
    BY NothingAssumption
  <2>2. new \in Addresses /\ new.host = h
    BY <1>1 DEF Addresses
  <2>3. new # outgoing => outgoing.host # h
    BY <1>1 DEF Addresses
  <2>4. outgoing' = new /\ told' = BothTold(outgoing, new, "host", h)
    BY <1>7 DEF SysHost, Redirect
  <2> HIDE DEF new
  <2> QED BY <1>5, <2>1, <2>2, <2>3, <2>4
<1>8. ASSUME UNCHANGED <<outgoing, told>> PROVE FormerDestinationKnows'
  BY <1>8 DEF FormerDestinationKnows
<1>9. CASE UNCHANGED vars
  BY <1>8, <1>9 DEF vars, settings, history
<1> QED BY <1>2, <1>3, <1>4, <1>6, <1>7, <1>8, <1>9, NextCases
        DEF SysPrefix, Rotate

\* Every step of a device process keeps the inductive invariant.
LEMMA Inductive == IInv /\ [Next]_vars => IInv'
BY TypeStep, OffStep, KeptStep, MethodsStep, NewsStep, ToldStep DEF IInv

\* Before the first session the inductive invariant holds.
LEMMA Initial == Init => IInv
<1> SUFFICES ASSUME Init PROVE IInv
  OBVIOUS
<1>1. OffInv /\ KeptInv
  BY DEF Init, OffInv, KeptInv
<1>2. MethodsFollowPrefix
  BY DEF Init, MethodsFollowPrefix, Alive
<1>3. DestinationUpToDate
  BY DEF Init, DestinationUpToDate, NoNews
<1>4. FormerDestinationKnows
  BY DEF Init, FormerDestinationKnows, Unheard
<1> QED BY TypeInit, <1>1, <1>2, <1>3, <1>4 DEF IInv

\* The inductive invariant holds of a device process at every moment.
LEMMA Invariance == Spec => []IInv
<1> QED BY Initial, Inductive, PTL DEF Spec

----------------------------------------------------------------------------
(***************************************************************************)
(* The theorems                                                            *)
(***************************************************************************)

\* In every session, after any number of prefix changes, every method but
\* ring/intensity answers once, under the current prefix only.
THEOREM MethodsAnswerOnce == Spec => []MethodsFollowPrefix
<1>1. IInv => MethodsFollowPrefix BY DEF IInv
<1> QED BY <1>1, Invariance, PTL

\* The destination is never left with an outdated prefix or rotation.
THEOREM NoStaleNews == Spec => []DestinationUpToDate
<1>1. IInv => DestinationUpToDate BY DEF IInv
<1> QED BY <1>1, Invariance, PTL

\* No application that has lost the monome can still take itself for its
\* destination, whatever the sequence of port and host changes.
THEOREM LossIsKnown == Spec => []FormerDestinationKnows
<1>1. IInv => FormerDestinationKnows BY DEF IInv
<1> QED BY <1>1, Invariance, PTL

\* What a save has written is what the next session starts with, but for port 0;
\* and a save that was broken off leaves the defaults.
THEOREM SavedIsRead == Spec => SettingsSurvive
<1> DEFINE Expected == IF kept = <<>> THEN DefaultSettings
                       ELSE <<WithoutZero(kept[1]), kept[2], kept[3]>>
<1>1. ASSUME IInv, Start, kept = <<>> PROVE settings' = DefaultSettings
  <2>1. file = Defaults
    BY <1>1 DEF IInv, KeptInv
  <2>2. Itos(8000) = 8000
    BY DefaultPortKept DEF Itos
  <2>3. outgoing' = [host |-> DefaultHost, port |-> 8000]
    BY <1>1, <2>1, <2>2 DEF Start, Defaults
  <2>4. prefix' = Defaults.prefix
    BY <1>1, <2>1 DEF Start, Defaults, Slashed
  <2>5. rotation' = 0
    BY <1>1, <2>1 DEF Start, Defaults, LoadedRotation, Masked, Quotient, Remainder
  <2> QED BY <2>3, <2>4, <2>5 DEF settings, DefaultSettings
<1>2. ASSUME IInv, Start, kept # <<>>
      PROVE  settings' = <<WithoutZero(kept[1]), kept[2], kept[3]>>
  <2>1. /\ kept[1] \in Addresses /\ kept[2] \in Prefixes /\ kept[3] \in 0..3
        /\ kept[1].port # NoPort
        /\ file = [host |-> kept[1].host, port |-> kept[1].port,
                   rotation |-> SavedRotation(kept[3]), prefix |-> kept[2]]
    BY <1>2 DEF IInv, TypeOK, KeptInv
  <2> DEFINE a == kept[1]
  <2>2. Itos(a.port) = IF a.port = 0 THEN NoPort ELSE a.port
    BY <2>1, PortsReadBack DEF Addresses
  <2>3. outgoing' = [host |-> a.host, port |-> Itos(a.port)]
    BY <1>2, <2>1 DEF Start
  <2>4. outgoing' = WithoutZero(a)
    <3>1. a \in [host : Hosts, port : Ports]
      BY <2>1 DEF Addresses
    <3> HIDE DEF a
    <3> QED BY <2>2, <2>3, <3>1 DEF WithoutZero
  <2>5. prefix' = kept[2]
    BY <1>2, <2>1, StartReads, TypeParts DEF Start, IInv
  <2>6. rotation' = kept[3]
    BY <1>2, <2>1, RotationReadsBack DEF Start
  <2> QED BY <2>4, <2>5, <2>6 DEF settings
<1>3. IInv /\ [Next]_vars => [Start => settings' = Expected]_vars
  BY <1>1, <1>2
<1> QED BY <1>3, Invariance, PTL DEF Spec, SettingsSurvive
=============================================================================
