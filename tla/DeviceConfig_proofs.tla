------------------------ MODULE DeviceConfig_proofs ------------------------
(***************************************************************************)
(* Theorems about DeviceConfig: for any number of overlapping servers the  *)
(* file is a register, and the port is let go after the save.              *)
(***************************************************************************)
EXTENDS DeviceConfig, TLAPS

\* The stages in which a process holds a port.
Holding == {"serve", "leave", "open", "write", "close"}

HoldersHavePorts ==
    \A p \in Servers : at[p] \in Holding => port[p] \in Ports

\* What the file holds is the last save; it is empty only while somebody saves
\* or when there is nothing to lose.
FileIsSaved ==
    /\ file # Empty => file = saved
    /\ file = Empty => Writing # {} \/ saved = Defaults

IInv == TypeOK /\ HoldersHavePorts /\ FileIsSaved

USE DefaultAssumption, NoPortAssumption, EmptyAssumption, CrashesAssumption

\* The state is in its types, holders have ports and the file is the last save,
\* before the first server starts.
LEMMA InitIInv == Init => IInv
  BY DEF Init, IInv, TypeOK, HoldersHavePorts, FileIsSaved, Defaults, Values,
         Stages, Holding, Writing

\* A file that has been read holds values of the right kind.
LEMMA ParsedType == ASSUME TypeOK PROVE Parsed(file) \in Values
  BY DEF TypeOK, Parsed, Values, Defaults

\* The three parts of IInv through every step, one lemma for each.
LEMMA TypeStep == ASSUME IInv, [Next]_vars PROVE TypeOK'
<1> USE DEF TypeOK, Stages
<1>0. CASE UNCHANGED vars
  BY <1>0 DEF IInv, vars
<1>1. CASE DaemonDies
  BY <1>1 DEF IInv, DaemonDies
<1>2. CASE Foreign
  BY <1>2 DEF IInv, Foreign
<1>3. ASSUME NEW p \in Servers,
             \/ ReadConfig(p) \/ Steps(p) \/ Change(p) \/ Leave(p)
             \/ Dies(p) \/ Unplug(p)
      PROVE  TypeOK'
  <2>1. CASE ReadConfig(p)
    <3>1. Parsed(file) \in Values
      BY ParsedType DEF IInv
    <3> QED BY <2>1, <3>1 DEF IInv, ReadConfig
  <2>2. CASE Bind(p)
    BY <2>2 DEF IInv, Bind
  <2>3. CASE BindFails(p)
    BY <2>3 DEF IInv, BindFails, Ends
  <2>4. CASE Disconnect(p)
    BY <2>4 DEF IInv, Disconnect, Ends
  <2>5. CASE Open(p)
    BY <2>5 DEF IInv, Open
  <2>6. CASE Write(p)
    BY <2>6 DEF IInv, Write, Written, HoldersHavePorts, Holding, Values
  <2>7. CASE Close(p)
    BY <2>7 DEF IInv, Close, Ends
  <2>8. CASE Change(p)
    BY <2>8 DEF IInv, Change, Values
  <2>9. CASE Leave(p)
    BY <2>9 DEF IInv, Leave
  <2>10. CASE Dies(p)
    BY <2>10 DEF IInv, Dies, Ends, Values, Defaults
  <2>11. CASE Unplug(p)
    BY <2>11 DEF IInv, Unplug
  <2> QED BY <1>3, <2>1, <2>2, <2>3, <2>4, <2>5, <2>6, <2>7, <2>8, <2>9,
             <2>10, <2>11 DEF Steps
<1> QED BY <1>0, <1>1, <1>2, <1>3 DEF Next

\* Every step leaves a process from its bind to its end with a port.
LEMMA HoldersStep == ASSUME IInv, [Next]_vars PROVE HoldersHavePorts'
<1> USE DEF HoldersHavePorts, Holding
<1> TypeOK BY DEF IInv
<1>0. CASE UNCHANGED vars
  BY <1>0 DEF IInv, vars
<1>1. CASE DaemonDies
  BY <1>1 DEF IInv, DaemonDies
<1>2. CASE Foreign
  BY <1>2 DEF IInv, Foreign
<1>3. ASSUME NEW p \in Servers,
             \/ ReadConfig(p) \/ Steps(p) \/ Change(p) \/ Leave(p)
             \/ Dies(p) \/ Unplug(p)
      PROVE  HoldersHavePorts'
  <2>1. CASE ReadConfig(p)
    BY <2>1 DEF IInv, ReadConfig, TypeOK
  <2>2. CASE Bind(p)
    BY <2>2 DEF IInv, Bind, TypeOK
  <2>3. CASE BindFails(p) \/ Close(p) \/ Dies(p)
    BY <2>3 DEF IInv, BindFails, Close, Dies, Ends, TypeOK
  <2>4. CASE Disconnect(p)
    BY <2>4 DEF IInv, Disconnect, Ends, TypeOK
  <2>5. CASE Open(p) \/ Write(p) \/ Leave(p)
    BY <2>5 DEF IInv, Open, Write, Leave, TypeOK
  <2>6. CASE Change(p) \/ Unplug(p)
    BY <2>6 DEF IInv, Change, Unplug
  <2> QED BY <1>3, <2>1, <2>2, <2>3, <2>4, <2>5, <2>6 DEF Steps
<1> QED BY <1>0, <1>1, <1>2, <1>3 DEF Next

\* After every step the file holds the last complete save, or it is empty while a
\* save is under way or there is nothing to be lost.
LEMMA FileStep == ASSUME IInv, [Next]_vars PROVE FileIsSaved'
<1> USE DEF FileIsSaved, Writing
<1> TypeOK BY DEF IInv
<1>0. CASE UNCHANGED vars
  BY <1>0 DEF IInv, vars
<1>1. CASE DaemonDies \/ Foreign
  BY <1>1 DEF IInv, DaemonDies, Foreign
<1>2. ASSUME NEW p \in Servers,
             \/ ReadConfig(p) \/ Steps(p) \/ Change(p) \/ Leave(p)
             \/ Dies(p) \/ Unplug(p)
      PROVE  FileIsSaved'
  <2>1. CASE ReadConfig(p) \/ Bind(p) \/ Leave(p)
    BY <2>1 DEF IInv, ReadConfig, Bind, Leave, Alive, TypeOK
  <2>2. CASE BindFails(p) \/ Disconnect(p) \/ Close(p)
    BY <2>2 DEF IInv, BindFails, Disconnect, Close, Ends, TypeOK
  <2>3. CASE Open(p)
    BY <2>3 DEF IInv, Open, TypeOK
  <2>4. CASE Write(p)
    <3>1. Written(p) \in Values
      BY <2>4 DEF IInv, Write, Written, TypeOK, HoldersHavePorts, Holding, Values
    <3>2. Written(p) # Empty
      BY <3>1 DEF Values
    <3> QED BY <2>4, <3>2 DEF Write, Written
  <2>5. CASE Change(p) \/ Unplug(p)
    BY <2>5 DEF IInv, Change, Unplug
  <2>6. CASE Dies(p)
    <3>1. Writing' = Writing \ {p}
      BY <2>6 DEF Dies, Ends, TypeOK
    <3> QED BY <2>6, <3>1 DEF IInv, Dies
  <2> QED BY <1>2, <2>1, <2>2, <2>3, <2>4, <2>5, <2>6 DEF Steps
<1> QED BY <1>0, <1>1, <1>2 DEF Next

\* The inductive invariant.
THEOREM Invariance == Spec => []IInv
<1>1. IInv /\ [Next]_vars => IInv'
  BY TypeStep, HoldersStep, FileStep DEF IInv
<1> QED BY InitIInv, <1>1, PTL DEF Spec

\* The state stays in its types; the file names a port a server can have.
THEOREM TypeCorrect == Spec => []TypeOK
<1>1. IInv => TypeOK
  BY DEF IInv
<1> QED BY Invariance, <1>1, PTL

----------------------------------------------------------------------------
\* A server that reads the file gets the last save, or nothing while one writes.
LEMMA ParsedIsSaved ==
  ASSUME IInv
  PROVE  /\ Parsed(file) \in {saved, Defaults}
         /\ Writing = {} => Parsed(file) = saved
  BY DEF IInv, FileIsSaved, Parsed

\* Each step of the servers is a step of the register, or none.
LEMMA RegisterStep == ASSUME IInv, [Next]_vars PROVE [Register!Next]_(Register!vars)
<1> USE DEF Register!vars, Writing
<1> TypeOK BY DEF IInv
<1>0. CASE UNCHANGED vars
  BY <1>0 DEF vars
<1>1. CASE DaemonDies \/ Foreign
  BY <1>1 DEF DaemonDies, Foreign
<1>2. ASSUME NEW p \in Servers,
             \/ ReadConfig(p) \/ Steps(p) \/ Change(p) \/ Leave(p)
             \/ Dies(p) \/ Unplug(p)
      PROVE  [Register!Next]_(Register!vars)
  <2>1. CASE ReadConfig(p)
    <3>1. Writing' = Writing /\ saved' = saved
      BY <2>1 DEF ReadConfig, Alive, TypeOK
    <3>2. loaded' = [loaded EXCEPT ![p] = Parsed(file)]
      BY <2>1 DEF ReadConfig
    <3>3. Register!Get(p)
      BY <3>1, <3>2, ParsedIsSaved DEF Register!Get
    <3> QED BY <3>3 DEF Register!Next
  <2>2. CASE Bind(p) \/ Leave(p) \/ Change(p) \/ Unplug(p)
    BY <2>2 DEF Bind, Leave, Change, Unplug, TypeOK
  <2>3. CASE BindFails(p) \/ Disconnect(p) \/ Close(p)
    BY <2>3 DEF BindFails, Disconnect, Close, Ends, TypeOK
  <2>4. CASE Open(p)
    <3>1. CASE at' = [at EXCEPT ![p] = "write"]
      <4>1. p \notin Writing /\ Writing' = Writing \cup {p}
        BY <2>4, <3>1 DEF Open, TypeOK
      <4>2. Register!Begin(p)
        BY <2>4, <4>1 DEF Open, Register!Begin
      <4> QED BY <4>2 DEF Register!Next
    <3>2. CASE at' = [at EXCEPT ![p] = "close"]
      BY <2>4, <3>2 DEF Open, TypeOK
    <3> QED BY <2>4, <3>1, <3>2 DEF Open
  <2>5. CASE Write(p)
    <3>1. p \in Writing /\ Writing' = Writing \ {p}
      BY <2>5 DEF Write, TypeOK
    <3>2. saved' \in Values
      BY TypeStep DEF TypeOK
    <3>3. Register!Finish(p)
      BY <2>5, <3>1, <3>2 DEF Write, Register!Finish
    <3> QED BY <3>3 DEF Register!Next
  <2>6. CASE Dies(p)
    <3>1. Writing' = Writing \ {p} /\ loaded' = loaded
      BY <2>6 DEF Dies, Ends, TypeOK
    <3>2. saved' \in {saved, Defaults}
      BY <2>6 DEF Dies
    <3>3. CASE p \in Writing
      <4>1. Register!GiveUp(p)
        BY <3>1, <3>2, <3>3 DEF Register!GiveUp
      <4> QED BY <4>1 DEF Register!Next
    <3>4. CASE p \notin Writing
      <4>1. saved' = saved
        BY <2>6, <3>4 DEF Dies, IInv, FileIsSaved
      <4> QED BY <3>1, <3>4, <4>1
    <3> QED BY <3>3, <3>4
  <2> QED BY <1>2, <2>1, <2>2, <2>3, <2>4, <2>5, <2>6 DEF Steps
<1> QED BY <1>0, <1>1, <1>2 DEF Next

\* The configuration file is the register ConfigRegister describes, for every
\* number of servers, wherever they crash.
THEOREM Refinement == Spec => ImplementsRegister
<1>1. Init => Register!Init
  BY DEF Init, Register!Init, Writing
<1> QED BY <1>1, RegisterStep, Invariance, PTL DEF Spec, ImplementsRegister, Register!Spec

\* Who starts when no port is held any more has missed no save.
THEOREM NothingMissed == Spec => HandOver
<1>1. ASSUME IInv, [Next]_vars
      PROVE  [\A p \in Servers :
                ReadConfig(p) /\ (\A q \in Servers : port[q] = NoPort)
                => /\ loaded'[p] = saved
                   /\ \A q \in Servers : at[q] \notin {"leave", "open", "write"}]_vars
  <2> SUFFICES ASSUME NEW p \in Servers, ReadConfig(p),
                      \A q \in Servers : port[q] = NoPort
               PROVE  /\ loaded'[p] = saved
                      /\ \A q \in Servers : at[q] \notin {"leave", "open", "write"}
    OBVIOUS
  <2>1. \A q \in Servers : at[q] \notin Holding
    BY <1>1 DEF IInv, HoldersHavePorts
  <2>2. Writing = {}
    BY <2>1 DEF Writing, Holding
  <2>3. loaded'[p] = saved
    BY <1>1, <2>2, ParsedIsSaved DEF ReadConfig, IInv, TypeOK
  <2> QED BY <2>1, <2>3 DEF Holding
<1> QED BY <1>1, Invariance, PTL DEF Spec, HandOver
=============================================================================
