------------------------ MODULE DeviceThreads_proofs ------------------------
(***************************************************************************)
(* Proofs about the device process on Windows, for any number of moves:    *)
(* its types, that an exit request lets one more OSC message through at    *)
(* most, and that the /sys methods answer before they free.                *)
(***************************************************************************)
EXTENDS DeviceThreads, TLAPS

\* The OSC thread looks at running before it waits for a message.
OneWaits ==
    /\ running => late = 0
    /\ osc = "recv" => late = 0
    /\ late <= 1

\* A version that lies behind the latest one of its setting.
Replaced(v) == v[2] < current[v[1]]

\* Until main() frees everything only versions that were replaced are freed,
\* and not the one a method has still to answer.
FreedWereReplaced ==
    /\ \A v \in freed : Replaced(v) /\ v # old
    /\ osc \in {"reply", "free"} => Replaced(old)
    /\ osc \notin {"reply", "free"} => old = None
    /\ using["osc"] \subseteq {Latest("outgoing"), Latest("prefix"), old}
    /\ osc # "reply" => using["osc"] = {}

\* A method is called only if there is a version left, and remembers the old one.
Allowed ==
    /\ osc \in {"reply", "free"} => old \in Versions
    /\ osc = "swap outgoing" => current["outgoing"] < MaxMoves
    /\ osc = "swap prefix" => current["prefix"] < MaxMoves

Working == main \notin {"freed", "off"}

IInv == TypeOK /\ OneWaits /\ Allowed /\ (Working => FreedWereReplaced)

-----------------------------------------------------------------------------
\* The latest version of a setting has not been replaced.
LEMMA LatestStands ==
    ASSUME MemoryOK, NEW s \in Settings
    PROVE  Latest(s) \in Versions /\ ~Replaced(Latest(s)) /\ None \notin Versions
<1>1. current[s] \in 0..MaxMoves
  BY DEF MemoryOK
<1>2. Latest(s)[1] = s /\ Latest(s)[2] = current[s]
  BY DEF Latest
<1>3. Latest(s) \in Versions
  BY <1>1 DEF Latest, Versions
<1>4. ~(current[s] < current[s])
  BY <1>1, MaxMovesAssumption
<1>5. None \notin Versions
  BY MaxMovesAssumption DEF None, Versions
<1> QED
  BY <1>2, <1>3, <1>4, <1>5 DEF Replaced

\* The invariant holds when the loop is entered.
LEMMA Initially == Init => IInv
<1> SUFFICES ASSUME Init PROVE IInv
  OBVIOUS
<1>1. PlacesOK
  BY DEF Init, PlacesOK
<1>2. FlagsOK
  BY DEF Init, FlagsOK
<1>3. MemoryOK
  BY MaxMovesAssumption DEF Init, MemoryOK
<1>4. OneWaits /\ Allowed /\ FreedWereReplaced
  BY DEF Init, OneWaits, Allowed, FreedWereReplaced
<1> QED
  BY <1>1, <1>2, <1>3, <1>4 DEF IInv, TypeOK

-----------------------------------------------------------------------------
\* The types after a step of the serial thread.
LEMMA SerialTypes ==
    ASSUME TypeOK, Serial
    PROVE  TypeOK' /\ using'["osc"] = using["osc"]
<1> USE DEF SerialStays, TypeOK
<1>1. PlacesOK'
  BY DEF PlacesOK, Serial, SerialCheck, SerialWait, SerialPath, SerialAddress,
         SerialSend, SerialNext, Fails
<1>2. FlagsOK'
  BY DEF FlagsOK, Serial, SerialCheck, SerialWait, SerialPath, SerialAddress,
         SerialSend, SerialNext
<1>3. Latest("prefix") \in Versions /\ Latest("outgoing") \in Versions
  BY LatestStands DEF Settings
<1>4. PICK S \in SUBSET Versions : using' \in {using, [using EXCEPT !["serial"] = S]}
  <2>1. CASE SerialPath
    BY <1>3, <2>1 DEF SerialPath, Uses
  <2>2. CASE SerialAddress
    BY <1>3, <2>2 DEF SerialAddress, Uses
  <2>3. CASE SerialSend
    BY <2>3 DEF SerialSend, Uses
  <2> QED
    BY <2>1, <2>2, <2>3 DEF Serial, SerialCheck, SerialWait, SerialNext
<1>5. UNCHANGED <<current, old, freed, late>>
  BY DEF Serial, SerialCheck, SerialWait, SerialPath, SerialAddress, SerialSend, SerialNext
<1>6. MemoryOK' /\ using'["osc"] = using["osc"]
  BY <1>4, <1>5 DEF MemoryOK
<1> QED
  BY <1>1, <1>2, <1>6

\* The types after a step of main().
LEMMA MainTypes ==
    ASSUME TypeOK, Main \/ Crash
    PROVE  TypeOK' /\ using'["osc"] = using["osc"]
<1> USE DEF MainStays, TypeOK
<1>1. PlacesOK'
  BY DEF PlacesOK, Main, MainWakes, MainGoodbye, MainSaves, MainFrees, MainExits, Crash
<1>2. FlagsOK'
  BY DEF FlagsOK, Main, MainWakes, MainGoodbye, MainSaves, MainFrees, MainExits, Crash
<1>3. Latest("prefix") \in Versions /\ Latest("outgoing") \in Versions
  BY LatestStands DEF Settings
<1>4. PICK S \in SUBSET Versions : using' \in {using, [using EXCEPT !["main"] = S]}
  <2>1. CASE MainWakes
    BY <1>3, <2>1 DEF MainWakes, Uses
  <2>2. CASE MainGoodbye
    BY <1>3, <2>2 DEF MainGoodbye, Uses
  <2>3. CASE MainSaves
    BY <2>3 DEF MainSaves, Uses
  <2> QED
    BY <2>1, <2>2, <2>3 DEF Main, MainFrees, MainExits, Crash
<1>5. UNCHANGED <<current, old, late>>
  BY DEF Main, MainWakes, MainGoodbye, MainSaves, MainFrees, MainExits, Crash
<1>6. freed' \subseteq Versions
  BY <1>3 DEF MemoryOK, Main, MainWakes, MainGoodbye, MainSaves, MainFrees, MainExits, Crash
<1>7. MemoryOK' /\ using'["osc"] = using["osc"]
  BY <1>4, <1>5, <1>6 DEF MemoryOK
<1> QED
  BY <1>1, <1>2, <1>7

\* The types after a step of the thread that waits for the daemon, or of the
\* world.
LEMMA OtherTypes ==
    ASSUME TypeOK, Stdin \/ Ask \/ DaemonDies \/ Unplug \/ UNCHANGED vars
    PROVE  /\ TypeOK'
           /\ running' => running
           /\ main' = main /\ osc' = osc /\ current' = current /\ old' = old
           /\ freed' = freed /\ using' = using /\ late' = late
<1> USE DEF TypeOK, Stdin, StdinCheck, StdinRead, StdinStays, Ask, DaemonDies,
            Unplug, WorldStays, threads, memory, vars
<1>1. PlacesOK'
  BY DEF PlacesOK
<1>2. FlagsOK'
  BY DEF FlagsOK
<1>5. running' => running
  OBVIOUS
<1>3. /\ main' = main /\ osc' = osc /\ current' = current /\ old' = old
      /\ freed' = freed /\ using' = using /\ late' = late
  OBVIOUS
<1>4. MemoryOK'
  BY <1>3 DEF MemoryOK
<1> QED
  BY <1>1, <1>2, <1>3, <1>4, <1>5

-----------------------------------------------------------------------------
\* A step of another thread that frees nothing disturbs neither count nor memory.
LEMMA Others ==
    ASSUME IInv, TypeOK', running' => running,
           UNCHANGED <<osc, current, old, freed, late>>,
           using'["osc"] = using["osc"],
           Working' => Working
    PROVE  IInv'
<1>1. OneWaits' /\ Allowed'
  BY DEF IInv, OneWaits, Allowed
<1>2. Working' => FreedWereReplaced'
  BY DEF IInv, FreedWereReplaced, Replaced, Latest
<1> QED
  BY <1>1, <1>2 DEF IInv

\* The serial thread preserves the invariant.
LEMMA SerialStep ==
    ASSUME IInv, Serial
    PROVE  IInv'
<1>1. TypeOK' /\ using'["osc"] = using["osc"]
  BY SerialTypes DEF IInv
<1>2. UNCHANGED <<main, running, osc, current, old, freed, late>>
  BY DEF Serial, SerialCheck, SerialWait, SerialPath, SerialAddress, SerialSend,
         SerialNext, SerialStays
<1> QED
  BY <1>1, <1>2, Others DEF Working

\* main() preserves it: it frees after its last use, and then all bets are off.
LEMMA MainStep ==
    ASSUME IInv, Main \/ Crash
    PROVE  IInv'
<1> USE DEF MainStays
<1>1. TypeOK' /\ using'["osc"] = using["osc"]
  BY MainTypes DEF IInv
<1>2. UNCHANGED <<running, osc, current, old, late>>
  BY DEF Main, MainWakes, MainGoodbye, MainSaves, MainFrees, MainExits, Crash
<1>3. CASE MainFrees \/ MainExits \/ Crash
  <2>1. ~Working'
    BY <1>3 DEF MainFrees, MainExits, Crash, Working
  <2>2. OneWaits' /\ Allowed'
    BY <1>2 DEF IInv, OneWaits, Allowed
  <2> QED
    BY <1>1, <2>1, <2>2 DEF IInv
<1>4. CASE MainWakes \/ MainGoodbye \/ MainSaves
  <2>1. freed' = freed /\ Working
    BY <1>4 DEF MainWakes, MainGoodbye, MainSaves, Working
  <2> QED
    BY <1>1, <1>2, <2>1, Others
<1> QED
  BY <1>3, <1>4 DEF Main

\* So do the thread that waits for the daemon, and the world.
LEMMA OtherStep ==
    ASSUME IInv, Stdin \/ Ask \/ DaemonDies \/ Unplug \/ UNCHANGED vars
    PROVE  IInv'
<1>1. TypeOK
  BY DEF IInv
<1>2. TypeOK'
  BY <1>1, OtherTypes
<1>3. running' => running
  BY <1>1, OtherTypes
<1>4. /\ main' = main /\ osc' = osc /\ current' = current /\ old' = old
      /\ freed' = freed /\ using' = using /\ late' = late
  BY <1>1, OtherTypes
<1>5. UNCHANGED <<osc, current, old, freed, late>> /\ using'["osc"] = using["osc"]
      /\ (Working' => Working)
  BY <1>4 DEF Working
<1> QED
  BY <1>2, <1>3, <1>5, Others

\* The types after a step of the OSC thread that replaces and frees nothing.
LEMMA OscQuiet ==
    ASSUME IInv, OscCheck \/ OscRecv \/ OscReply
    PROVE  IInv'
<1> USE DEF OscStays, memory
<1>1. TypeOK /\ OneWaits /\ Allowed /\ late \in Nat
  BY DEF IInv, TypeOK, MemoryOK
<1>2. UNCHANGED <<main, serial, stdin, running, attached, asked, hup, current, old, freed>>
  BY DEF OscCheck, OscRecv, OscReply
<1>r. OscRecv => /\ osc' \in {"check", "swap outgoing", "swap prefix"}
                 /\ late' \in {late, late + 1} /\ (running => late' = late)
  BY DEF OscRecv
<1>3. PlacesOK' /\ FlagsOK'
  <2>1. osc' \in {"check", "recv", "swap outgoing", "swap prefix", "free", "done"}
    BY <1>r DEF OscCheck, OscGoesOn, OscReply
  <2>2. PlacesOK'
    BY <1>1, <1>2, <2>1 DEF TypeOK, PlacesOK
  <2>3. FlagsOK'
    BY <1>1, <1>2 DEF TypeOK, FlagsOK
  <2> QED
    BY <2>2, <2>3
<1>4. late' \in Nat
  <2>1. late' \in {late, late + 1}
    BY <1>r DEF OscCheck, OscReply
  <2> QED
    BY <1>1, <2>1
<1>5. using' = using \/ using' = [using EXCEPT !["osc"] = {}]
  BY DEF OscCheck, OscRecv, OscReply, Uses
<1>6. MemoryOK'
  BY <1>1, <1>2, <1>4, <1>5 DEF TypeOK, MemoryOK
<1>7. OneWaits' /\ Allowed'
  <2>1. CASE OscCheck
    BY <1>1, <1>2, <2>1 DEF OneWaits, Allowed, OscCheck, OscGoesOn
  <2>2. CASE OscRecv
    <3>1. osc = "recv" /\ late = 0
      BY <1>1, <2>2 DEF OneWaits, OscRecv
    <3>2. osc' \in {"check", "swap outgoing", "swap prefix"}
      BY <1>r, <2>2
    <3>3. late' = 0 \/ (late' = 1 /\ ~running)
      <4>1. late' = IF running THEN late ELSE late + 1
        BY <2>2 DEF OscRecv
      <4>2. CASE running
        BY <3>1, <4>1, <4>2
      <4>3. CASE ~running
        BY <3>1, <4>1, <4>3
      <4> QED
        BY <4>2, <4>3
    <3>4. running' = running
      BY <1>2
    <3>5. OneWaits'
      <4>1. CASE late' = 0
        BY <4>1 DEF OneWaits
      <4>2. CASE late' = 1 /\ ~running
        <5>1. ~running'
          BY <3>4, <4>2
        <5>2. running' => late' = 0
          BY <5>1, Zenon
        <5>3. osc' # "recv"
          BY <3>2
        <5>4. late' <= 1
          BY <4>2
        <5> QED
          BY <5>2, <5>3, <5>4, Zenon DEF OneWaits
      <4> QED
        BY <3>3, <4>1, <4>2
    <3>6. Allowed'
      BY <1>2, <2>2 DEF Allowed, OscRecv
    <3> QED
      BY <3>5, <3>6
  <2>3. CASE OscReply
    <3>1. /\ running' = running /\ late' = late /\ current' = current /\ old' = old
          /\ osc = "reply" /\ osc' = "free"
      BY <1>2, <2>3 DEF OscReply
    <3>2. old \in Versions
      BY <1>1, <3>1 DEF Allowed
    <3>3. Allowed'
      BY <3>1, <3>2 DEF Allowed, Versions
    <3>4. OneWaits'
      BY <1>1, <3>1 DEF OneWaits
    <3> QED
      BY <3>3, <3>4
  <2> QED
    BY <2>1, <2>2, <2>3
<1>8. ASSUME Working' PROVE FreedWereReplaced'
  <2>1. FreedWereReplaced /\ MemoryOK
    BY <1>2, <1>8 DEF IInv, Working, TypeOK
  <2>2. CASE OscCheck \/ OscRecv
    BY <1>2, <2>1, <2>2 DEF OscCheck, OscGoesOn, OscRecv, FreedWereReplaced, Replaced, Latest
  <2>3. CASE OscReply
    <3>1. using'["osc"] = {} /\ osc = "reply" /\ osc' = "free"
      BY <2>1, <2>3 DEF OscReply, Uses, MemoryOK
    <3> QED
      BY <1>2, <2>1, <3>1 DEF FreedWereReplaced, Replaced, Latest
  <2> QED
    BY <2>2, <2>3
<1> QED
  BY <1>3, <1>6, <1>7, <1>8 DEF IInv, TypeOK

\* Replacing a setting preserves the invariant: the old version is behind then.
LEMMA Swaps ==
    ASSUME IInv, NEW s \in Settings, OscSwap(s)
    PROVE  IInv'
<1>1. TypeOK /\ OneWaits /\ Allowed /\ MemoryOK
  BY DEF IInv, TypeOK
<1>2. /\ UNCHANGED <<main, serial, stdin, running, attached, asked, hup, freed, late>>
      /\ osc' = "reply" /\ old' = Latest(s)
      /\ current' = [current EXCEPT ![s] = @ + 1]
      /\ osc \notin {"reply", "free"}
  BY DEF OscSwap, OscStays, FreedLater
<1>3. current[s] \in 0..MaxMoves /\ current[s] < MaxMoves
  BY <1>1 DEF OscSwap, Allowed, MemoryOK, Settings
<1>4. current' \in [Settings -> 0..MaxMoves]
  <2>1. current[s] + 1 \in 0..MaxMoves
    BY <1>3, MaxMovesAssumption
  <2> QED
    BY <1>1, <1>2, <2>1 DEF MemoryOK
<1>5. \A t \in Settings : Latest(t)' \in Versions
  BY <1>4 DEF Latest, Versions
<1>6. Latest("outgoing") \in Versions /\ old' \in Versions
  BY <1>1, <1>2, LatestStands DEF Settings
<1>7. using'["osc"] \subseteq {Latest("outgoing")', Latest("prefix")', old'}
  <2>1. using' = [using EXCEPT !["osc"] =
                     {Latest("outgoing"), Latest("outgoing")', Latest("prefix")'}
                     \cup (IF s = "outgoing" THEN {old'} ELSE {})]
    BY DEF OscSwap, Uses
  <2>2. s # "outgoing" => Latest("outgoing") = Latest("outgoing")'
    BY <1>1, <1>2 DEF Latest, MemoryOK, Settings
  <2>3. s = "outgoing" => Latest("outgoing") = old'
    BY <1>2
  <2>4. using'["osc"] = {Latest("outgoing"), Latest("outgoing")', Latest("prefix")'}
                        \cup (IF s = "outgoing" THEN {old'} ELSE {})
    BY <1>1, <2>1 DEF MemoryOK
  <2> QED
    BY <2>2, <2>3, <2>4
<1>8. using' \in [{"main", "serial", "osc"} -> SUBSET Versions]
  <2>1. PICK S : using' = [using EXCEPT !["osc"] = S]
    BY DEF OscSwap, Uses
  <2>2. using'["osc"] \subseteq Versions
    BY <1>5, <1>6, <1>7 DEF Settings
  <2>3. using'["osc"] = S
    BY <1>1, <2>1 DEF MemoryOK
  <2> QED
    BY <1>1, <2>1, <2>2, <2>3 DEF MemoryOK
<1>9. TypeOK'
  <2>1. PlacesOK'
    BY <1>1, <1>2 DEF TypeOK, PlacesOK
  <2>2. FlagsOK'
    BY <1>1, <1>2 DEF TypeOK, FlagsOK
  <2>3. MemoryOK'
    BY <1>1, <1>2, <1>4, <1>6, <1>8 DEF MemoryOK
  <2> QED
    BY <2>1, <2>2, <2>3 DEF TypeOK
<1>10. OneWaits' /\ Allowed'
  BY <1>1, <1>2, <1>6 DEF OneWaits, Allowed
<1>11. ASSUME Working' PROVE FreedWereReplaced'
  <2>1. FreedWereReplaced
    BY <1>2, <1>11 DEF IInv, Working
  <2>2. \A v \in Versions : v[1] \in Settings /\ v[2] \in Nat
    BY MaxMovesAssumption DEF Versions
  <2>3. \A t \in Settings : current[t] \in Nat /\ current'[t] \in Nat
                              /\ current[t] <= current'[t]
    BY <1>1, <1>2, <1>4, MaxMovesAssumption DEF MemoryOK
  <2>4. \A v \in Versions : Replaced(v) => Replaced(v)'
    BY <2>2, <2>3 DEF Replaced
  <2>5. \A v \in freed : Replaced(v)' /\ v # old'
    BY <1>1, <1>2, <2>1, <2>4, LatestStands DEF FreedWereReplaced, MemoryOK
  <2>6. Replaced(old)'
    <3>1. old'[1] = s /\ old'[2] = current[s]
      BY <1>2 DEF Latest
    <3>2. current'[s] = current[s] + 1
      BY <1>1, <1>2 DEF MemoryOK
    <3> QED
      BY <1>3, <3>1, <3>2 DEF Replaced
  <2> QED
    BY <1>2, <1>6, <1>7, <2>5, <2>6 DEF FreedWereReplaced
<1> QED
  BY <1>9, <1>10, <1>11 DEF IInv

\* Freeing the replaced version preserves the invariant: nobody who answers
\* reads it any more.
LEMMA Frees ==
    ASSUME IInv, OscFree
    PROVE  IInv'
<1>1. TypeOK /\ OneWaits /\ Allowed /\ MemoryOK
  BY DEF IInv, TypeOK
<1>2. /\ UNCHANGED <<main, serial, stdin, running, attached, asked, hup, current, using, late>>
      /\ osc = "free" /\ osc' = "check" /\ old' = None /\ freed' = freed \cup {old}
  BY DEF OscFree, OscStays
<1>3. OneWaits' /\ Allowed'
  BY <1>1, <1>2 DEF OneWaits, Allowed
<1>4. PlacesOK' /\ FlagsOK'
  BY <1>1, <1>2 DEF TypeOK, PlacesOK, FlagsOK
<1>5. old \in Versions /\ freed' \subseteq Versions
  BY <1>1, <1>2 DEF Allowed, MemoryOK
<1>6. MemoryOK'
  BY <1>1, <1>2, <1>5 DEF MemoryOK
<1>7. ASSUME Working' PROVE FreedWereReplaced'
  <2>1. FreedWereReplaced
    BY <1>2, <1>7 DEF IInv, Working
  <2>2. Replaced(old) /\ using["osc"] = {}
    BY <1>2, <2>1 DEF FreedWereReplaced
  <2>3. \A v \in freed' : v \in Versions /\ Replaced(v)
    BY <1>1, <1>2, <1>5, <2>1, <2>2 DEF FreedWereReplaced, MemoryOK
  <2>4. None \notin Versions
    BY <1>1, LatestStands DEF Settings
  <2> QED
    BY <1>2, <2>2, <2>3, <2>4 DEF FreedWereReplaced, Replaced
<1> QED
  BY <1>3, <1>4, <1>6, <1>7 DEF IInv, TypeOK

\* Every step preserves the invariant.
LEMMA Inductive == IInv /\ [Next]_vars => IInv'
<1> SUFFICES ASSUME IInv, [Next]_vars PROVE IInv'
  OBVIOUS
<1>1. CASE Serial
  BY <1>1, SerialStep
<1>2. CASE Main \/ Crash
  BY <1>2, MainStep
<1>3. CASE Stdin \/ Ask \/ DaemonDies \/ Unplug \/ UNCHANGED vars
  BY <1>3, OtherStep
<1>4. CASE Osc
  <2>1. CASE OscCheck \/ OscRecv \/ OscReply
    BY <2>1, OscQuiet
  <2>2. ASSUME NEW s \in Settings, OscSwap(s) PROVE IInv'
    BY <2>2, Swaps
  <2>3. CASE OscFree
    BY <2>3, Frees
  <2> QED
    BY <1>4, <2>1, <2>2, <2>3 DEF Osc
<1> QED
  BY <1>1, <1>2, <1>3, <1>4 DEF Next

-----------------------------------------------------------------------------
\* The invariant holds in every state the process reaches.
THEOREM Invariance == Spec => []IInv
  BY Initially, Inductive, PTL DEF Spec

\* The variables keep their types: among others, nothing is freed that was never
\* allocated.
THEOREM TypeCorrect == Spec => []TypeOK
<1>1. IInv => TypeOK
  BY DEF IInv
<1> QED
  BY <1>1, Invariance, PTL

\* An exit request lets at most one more OSC message through.
THEOREM OneMore == Spec => []OneMessageAfterExit
<1>1. IInv => OneMessageAfterExit
  BY DEF IInv, OneWaits, OneMessageAfterExit
<1> QED
  BY <1>1, Invariance, PTL

\* The /sys methods read nothing that was freed, until main() frees everything.
THEOREM MethodsAnswerFirst == Spec => []AnswersFirst
<1>1. IInv => AnswersFirst
  <2> SUFFICES ASSUME IInv, Working PROVE using["osc"] \cap freed = {}
    BY DEF AnswersFirst, Working
  <2>1. FreedWereReplaced /\ MemoryOK
    BY DEF IInv, TypeOK
  <2>2. Latest("outgoing") \notin freed /\ Latest("prefix") \notin freed
    BY <2>1, LatestStands DEF FreedWereReplaced, Settings
  <2> QED
    BY <2>1, <2>2 DEF FreedWereReplaced
<1> QED
  BY <1>1, Invariance, PTL
=============================================================================
