--------------------------- MODULE Detector_proofs ---------------------------
(***************************************************************************)
(* Proofs about the Linux detector: its types, that no monome is reported  *)
(* more often than it was plugged in but for one whose announcement came   *)
(* after the list, and that none is forgotten.                             *)
(***************************************************************************)
EXTENDS Detector, FiniteSetTheorems, TLAPS

Added(n) == [action |-> "add", node |-> n]

\* Where s holds e, and how often.
Places(s, e) == {i \in 1..Len(s) : s[i] = e}
Times(s, e) == Cardinality(Places(s, e))

\* What may still be reported for n: an entry of the scan, what udevd has still to
\* announce, or events.
Listed(n) == IF n \in found THEN 1 ELSE 0
Unsaid(n) == Times(pending[n], "add")
Owed(n) == Listed(n) + Unsaid(n) + Times(events, Added(n))
Excess(n) == IF n \in late THEN 1 ELSE 0

\* No event is queued before the monitor listens, and before the scan nothing
\* has been reported.
Phases ==
    /\ pc \in {"start", "scan", "open"} => events = <<>>
    /\ pc = "start" => \A n \in Nodes : reports[n] = 0 /\ Unsaid(n) <= plugs[n]
    /\ pc = "start" => \A n \in plugged : plugs[n] >= 1

\* What udevd has to say last of a monome that is there is that it was added.
Ordered == \A n \in plugged : pending[n] # <<>> => pending[n][Len(pending[n])] = "add"

\* What was reported and what may still be has been plugged in, or listed before
\* it was announced.
Covered == \A n \in Nodes : reports[n] + Owed(n) <= plugs[n] + Excess(n)

IInv == TypeOK /\ Phases /\ Ordered /\ Covered

-----------------------------------------------------------------------------
\* A sequence holds an element a finite number of times.
LEMMA TimesType ==
    ASSUME NEW T, NEW s \in Seq(T), NEW e
    PROVE  IsFiniteSet(Places(s, e)) /\ Times(s, e) \in Nat
<1>1. Len(s) \in Nat
  OBVIOUS
<1>2. IsFiniteSet(1..Len(s))
  BY <1>1, FS_Interval
<1>3. IsFiniteSet(Places(s, e))
  BY <1>2, FS_Subset DEF Places
<1> QED
  BY <1>3, FS_CardinalityType DEF Times

\* The empty sequence holds nothing.
LEMMA TimesEmpty ==
    ASSUME NEW e
    PROVE  Times(<<>>, e) = 0
<1>1. Places(<<>>, e) = {}
  BY DEF Places
<1> QED
  BY <1>1, FS_EmptySet DEF Times

\* An element more is one more of its kind and none of another.
LEMMA TimesAppend ==
    ASSUME NEW T, NEW s \in Seq(T), NEW x \in T, NEW e
    PROVE  Times(Append(s, x), e) = IF x = e THEN Times(s, e) + 1 ELSE Times(s, e)
<1> DEFINE top == Len(s) + 1
<1>1. Len(Append(s, x)) = top /\ top \in Nat /\ Len(s) \in Nat
  OBVIOUS
<1>2. \A i \in 1..Len(s) : Append(s, x)[i] = s[i]
  OBVIOUS
<1>3. Append(s, x)[top] = x
  OBVIOUS
<1>4. 1..top = (1..Len(s)) \cup {top} /\ top \notin 1..Len(s)
  BY <1>1
<1>5. top \notin Places(s, e) /\ IsFiniteSet(Places(s, e))
  BY <1>4, TimesType DEF Places
<1>6. CASE x = e
  <2>1. Places(Append(s, x), e) = Places(s, e) \cup {top}
    BY <1>1, <1>2, <1>3, <1>4, <1>6 DEF Places
  <2> QED
    BY <1>5, <1>6, <2>1, FS_AddElement DEF Times
<1>7. CASE x # e
  <2>1. Places(Append(s, x), e) = Places(s, e)
    BY <1>1, <1>2, <1>3, <1>4, <1>7 DEF Places
  <2> QED
    BY <1>7, <2>1 DEF Times
<1> QED
  BY <1>6, <1>7

\* Without its head a sequence holds one less of the head's kind.
LEMMA TimesTail ==
    ASSUME NEW T, NEW s \in Seq(T), s # <<>>, NEW e
    PROVE  Times(s, e) = IF Head(s) = e THEN Times(Tail(s), e) + 1 ELSE Times(Tail(s), e)
<1> DEFINE Later == Places(s, e) \ {1}
           Next1 == [i \in Places(Tail(s), e) |-> i + 1]
<1>1. Len(s) \in Nat /\ Len(s) >= 1 /\ Len(Tail(s)) = Len(s) - 1 /\ Tail(s) \in Seq(T)
  OBVIOUS
<1>2. \A i \in 1..Len(Tail(s)) : Tail(s)[i] = s[i + 1]
  OBVIOUS
<1>3. IsFiniteSet(Places(s, e)) /\ IsFiniteSet(Places(Tail(s), e))
  BY <1>1, TimesType
<1>4. Times(s, e) \in Nat /\ Times(Tail(s), e) \in Nat
  BY <1>1, TimesType
<1>5. Next1 \in Bijection(Places(Tail(s), e), Later)
  <2>1. \A i \in Places(Tail(s), e) : i \in Nat /\ i + 1 \in Later
    BY <1>1, <1>2 DEF Places
  <2>2. Next1 \in [Places(Tail(s), e) -> Later]
    BY <2>1
  <2>3. \A i, j \in Places(Tail(s), e) : Next1[i] = Next1[j] => i = j
    BY <2>1
  <2>4. ASSUME NEW k \in Later
        PROVE  \E i \in Places(Tail(s), e) : Next1[i] = k
    <3>1. k \in 2..Len(s) /\ s[k] = e
      BY <1>1 DEF Places
    <3>2. k - 1 \in 1..Len(Tail(s)) /\ (k - 1) + 1 = k
      BY <1>1, <3>1
    <3>3. Tail(s)[k - 1] = e
      BY <1>2, <3>1, <3>2
    <3>4. k - 1 \in Places(Tail(s), e)
      BY <3>2, <3>3 DEF Places
    <3> QED
      BY <3>2, <3>4
  <2> QED
    BY <2>2, <2>3, <2>4 DEF Bijection, Injection, Surjection, IsInjective
<1>6. Cardinality(Later) = Times(Tail(s), e)
  <2>1. ExistsBijection(Places(Tail(s), e), Later)
    BY <1>5 DEF ExistsBijection
  <2> QED
    BY <1>3, <2>1, FS_Bijection DEF Times
<1>7. 1 \in Places(s, e) <=> Head(s) = e
  BY <1>1 DEF Places
<1>8. Cardinality(Later) = IF 1 \in Places(s, e) THEN Times(s, e) - 1 ELSE Times(s, e)
  BY <1>3, FS_RemoveElement DEF Times
<1> QED
  BY <1>4, <1>6, <1>7, <1>8

-----------------------------------------------------------------------------
\* The invariant holds when the detector starts.
LEMMA Initially == Init => IInv
<1> SUFFICES ASSUME Init PROVE IInv
  OBVIOUS
<1>1. /\ plugs \in [Nodes -> Nat] /\ reports \in [Nodes -> Nat] /\ events \in Seq(Event)
      /\ pending \in [Nodes -> Seq({"add", "remove"})]
      /\ \A n \in Nodes : plugs[n] \in Nat /\ pending[n] = <<>>
  BY DEF Init
<1>2. TypeOK
  BY <1>1 DEF Init, TypeOK
<1>3. \A n \in Nodes : Unsaid(n) = 0
  BY <1>1, TimesEmpty DEF Unsaid
<1>4. Phases
  BY <1>1, <1>3 DEF Init, Phases
<1>5. Ordered
  BY <1>1 DEF Init, Ordered
<1>6. Covered
  <2> SUFFICES ASSUME NEW n \in Nodes PROVE reports[n] + Owed(n) <= plugs[n] + Excess(n)
    BY DEF Covered
  <2>1. Times(events, Added(n)) = 0 /\ Listed(n) = 0 /\ Excess(n) = 0 /\ reports[n] = 0
    BY TimesEmpty DEF Init, Listed, Excess
  <2> QED BY <1>1, <1>3, <2>1 DEF Owed
<1> QED
  BY <1>2, <1>4, <1>5, <1>6 DEF IInv

\* What Announce() queues is at most the event, and nothing before the monitor
\* listens.
LEMMA Announced ==
    ASSUME IInv, NEW n \in Nodes, NEW a \in {"add", "remove"}, Announce(a, n)
    PROVE  /\ events' \in Seq(Event) /\ overrun' \in BOOLEAN
           /\ pc # "monitor" => events' = events
           /\ \A m \in Nodes :
                 Times(events', Added(m)) =< Times(events, Added(m))
                                             + (IF a = "add" /\ m = n THEN 1 ELSE 0)
<1> DEFINE e == [action |-> a, node |-> n]
<1>1. events \in Seq(Event) /\ e \in Event /\ overrun \in BOOLEAN
  BY DEF IInv, TypeOK, Event
<1>2. \A m \in Nodes : Times(events, Added(m)) \in Nat
  BY <1>1, TimesType
<1>3. CASE events' = events
  BY <1>1, <1>2, <1>3 DEF Announce, Listening
<1>4. CASE events' = Append(events, e) /\ pc = "monitor"
  <2>1. ASSUME NEW m \in Nodes
        PROVE  Times(events', Added(m)) =< Times(events, Added(m))
                                           + (IF a = "add" /\ m = n THEN 1 ELSE 0)
    <3>1. e = Added(m) <=> a = "add" /\ m = n
      BY DEF Added
    <3>2. Times(events', Added(m)) = IF e = Added(m) THEN Times(events, Added(m)) + 1
                                     ELSE Times(events, Added(m))
      BY <1>1, <1>4, TimesAppend
    <3> QED
      BY <1>2, <3>1, <3>2
  <2> QED
    BY <1>1, <1>4, <2>1 DEF Announce
<1> QED
  BY <1>3, <1>4 DEF Announce, Listening

\* Counts are numbers.
LEMMA Counts ==
    ASSUME TypeOK, NEW n \in Nodes
    PROVE  /\ Listed(n) \in 0..1 /\ Unsaid(n) \in Nat /\ Times(events, Added(n)) \in Nat
           /\ plugs[n] \in Nat /\ reports[n] \in Nat /\ Excess(n) \in 0..1
BY TimesType DEF TypeOK, Listed, Unsaid, Excess

\* An event more of a device is the last, and counts if it is an "add".
LEMMA Tells ==
    ASSUME TypeOK, NEW n \in Nodes, NEW a \in {"add", "remove"}, KernelTells(a, n)
    PROVE  /\ pending' \in [Nodes -> Seq({"add", "remove"})]
           /\ pending'[n] # <<>> /\ pending'[n][Len(pending'[n])] = a
           /\ \A m \in Nodes \ {n} : pending'[m] = pending[m]
           /\ \A m \in Nodes : Unsaid(m)' = Unsaid(m) + (IF a = "add" /\ m = n THEN 1 ELSE 0)
<1>1. /\ pending \in [Nodes -> Seq({"add", "remove"})]
      /\ pending' = [pending EXCEPT ![n] = Append(@, a)]
  BY DEF TypeOK, KernelTells
<1>2. pending[n] \in Seq({"add", "remove"}) /\ pending'[n] = Append(pending[n], a)
  BY <1>1
<1>3. \A m \in Nodes \ {n} : pending'[m] = pending[m]
  BY <1>1
<1>4. /\ Append(pending[n], a) \in Seq({"add", "remove"}) /\ Append(pending[n], a) # <<>>
      /\ Append(pending[n], a)[Len(Append(pending[n], a))] = a
  BY <1>2
<1>5. pending' \in [Nodes -> Seq({"add", "remove"})]
  BY <1>1, <1>2, <1>4
<1>6. Unsaid(n)' = IF a = "add" THEN Unsaid(n) + 1 ELSE Unsaid(n)
  <2>1. Times(Append(pending[n], a), "add")
          = IF a = "add" THEN Times(pending[n], "add") + 1 ELSE Times(pending[n], "add")
    BY <1>2, TimesAppend
  <2> QED BY <1>2, <2>1 DEF Unsaid
<1>7. \A m \in Nodes : Unsaid(m) \in Nat
  BY Counts
<1>8. \A m \in Nodes \ {n} : Unsaid(m)' = Unsaid(m)
  BY <1>3 DEF Unsaid
<1> QED BY <1>2, <1>3, <1>4, <1>5, <1>6, <1>7, <1>8

\* udevd takes the oldest event of a device; the last one stays the last.
LEMMA Passes ==
    ASSUME TypeOK, NEW n \in Nodes, pending[n] # <<>>,
           pending' = [pending EXCEPT ![n] = Tail(@)]
    PROVE  /\ pending' \in [Nodes -> Seq({"add", "remove"})]
           /\ Head(pending[n]) \in {"add", "remove"}
           /\ pending'[n] = Tail(pending[n])
           /\ pending'[n] # <<>> => pending'[n][Len(pending'[n])] = pending[n][Len(pending[n])]
           /\ pending'[n] = <<>> => Head(pending[n]) = pending[n][Len(pending[n])]
           /\ \A m \in Nodes \ {n} : pending'[m] = pending[m]
           /\ \A m \in Nodes :
                 Unsaid(m) = Unsaid(m)' + (IF Head(pending[n]) = "add" /\ m = n THEN 1 ELSE 0)
           /\ \A m \in Nodes : Unsaid(m)' \in Nat
<1> DEFINE s == pending[n]
<1>1. pending \in [Nodes -> Seq({"add", "remove"})]
  BY DEF TypeOK
<1>2. s \in Seq({"add", "remove"}) /\ s # <<>> /\ pending'[n] = Tail(s)
  BY <1>1
<1>3. \A m \in Nodes \ {n} : pending'[m] = pending[m]
  BY <1>1
<1>4. \A m \in Nodes \ {n} : Unsaid(m)' = Unsaid(m)
  BY <1>3 DEF Unsaid
<1>5. \A m \in Nodes : Unsaid(m) \in Nat
  BY Counts
<1>6. Unsaid(n) = Times(s, "add") /\ Unsaid(n)' = Times(Tail(s), "add")
  BY <1>2 DEF Unsaid
<1> HIDE DEF s
<1>7. /\ Tail(s) \in Seq({"add", "remove"}) /\ Head(s) \in {"add", "remove"}
      /\ Len(s) \in Nat /\ Len(s) >= 1 /\ Len(Tail(s)) = Len(s) - 1 /\ Head(s) = s[1]
      /\ \A i \in 1..Len(Tail(s)) : Tail(s)[i] = s[i + 1]
  BY <1>2
<1>8. pending' \in [Nodes -> Seq({"add", "remove"})]
  BY <1>1, <1>2, <1>3, <1>7 DEF s
<1>9. Tail(s) # <<>> => Tail(s)[Len(Tail(s))] = s[Len(s)]
  <2> SUFFICES ASSUME Tail(s) # <<>> PROVE Tail(s)[Len(Tail(s))] = s[Len(s)]
    OBVIOUS
  <2>1. Len(Tail(s)) \in 1..Len(Tail(s)) /\ Len(Tail(s)) + 1 = Len(s)
    BY <1>7
  <2> QED BY <1>7, <2>1
<1>10. Tail(s) = <<>> => Head(s) = s[Len(s)]
  <2> SUFFICES ASSUME Tail(s) = <<>> PROVE Head(s) = s[Len(s)]
    OBVIOUS
  <2>1. \A t \in Seq({"add", "remove"}) : t = <<>> => Len(t) = 0
    OBVIOUS
  <2>2. Len(Tail(s)) = 0
    BY <1>7, <2>1
  <2>3. \A k \in Nat : k - 1 = 0 => k = 1
    OBVIOUS
  <2>4. Len(s) = 1
    BY <1>7, <2>2, <2>3
  <2> QED BY <1>7, <2>4
<1>11. Times(s, "add") = IF Head(s) = "add" THEN Times(Tail(s), "add") + 1
                         ELSE Times(Tail(s), "add")
  BY <1>2, TimesTail
<1>12. Times(Tail(s), "add") \in Nat
  BY <1>7, TimesType
<1> QED BY <1>2, <1>3, <1>4, <1>5, <1>6, <1>7, <1>8, <1>9, <1>10, <1>11, <1>12 DEF s

\* The invariant is kept by a step that leaves all it counts alone.
LEMMA SameCounts ==
    ASSUME Covered, UNCHANGED <<pending, found, events, plugs, reports, late>>
    PROVE  Covered'
BY DEF Covered, Owed, Listed, Unsaid, Excess

\* A monome is plugged in.
LEMMA PlugKeeps ==
    ASSUME IInv, NEW n \in Nodes, Plug(n)
    PROVE  IInv'
<1>0. TypeOK /\ Phases /\ Ordered /\ Covered
  BY DEF IInv
<1>1. /\ n \notin plugged /\ plugged' = plugged \cup {n} /\ KernelTells("add", n)
      /\ plugs' = [plugs EXCEPT ![n] = @ + 1]
      /\ UNCHANGED <<pc, found, events, overrun, reports, served, unseen, late>>
  BY DEF Plug
<1>2. /\ pending' \in [Nodes -> Seq({"add", "remove"})]
      /\ pending'[n] # <<>> /\ pending'[n][Len(pending'[n])] = "add"
      /\ \A m \in Nodes \ {n} : pending'[m] = pending[m]
      /\ \A m \in Nodes : Unsaid(m)' = Unsaid(m) + (IF m = n THEN 1 ELSE 0)
  BY <1>0, <1>1, Tells
<1>3. /\ plugs' \in [Nodes -> Nat]
      /\ \A m \in Nodes : plugs'[m] = plugs[m] + (IF m = n THEN 1 ELSE 0)
  <2>1. plugs \in [Nodes -> Nat]
    BY <1>0 DEF TypeOK
  <2>2. plugs[n] + 1 \in Nat
    BY <2>1
  <2>3. plugs' \in [Nodes -> Nat]
    BY <1>1, <2>1, <2>2
  <2> QED BY <1>1, <2>1, <2>3
<1>4. TypeOK'
  <2>1. /\ plugged' \subseteq Nodes
        /\ served' \subseteq plugged' /\ unseen' \subseteq plugged'
    BY <1>0, <1>1 DEF TypeOK
  <2> QED BY <1>0, <1>1, <1>2, <1>3, <2>1 DEF TypeOK
<1>5. Phases'
  <2> SUFFICES ASSUME pc' = "start"
               PROVE  /\ \A m \in Nodes : reports'[m] = 0 /\ Unsaid(m)' <= plugs'[m]
                      /\ \A m \in plugged' : plugs'[m] >= 1
    BY <1>0, <1>1 DEF Phases
  <2>1. \A m \in Nodes : reports[m] = 0 /\ Unsaid(m) <= plugs[m]
    BY <1>0, <1>1 DEF Phases
  <2>2. \A m \in plugged : plugs[m] >= 1
    BY <1>0, <1>1 DEF Phases
  <2>3. \A m \in Nodes : Unsaid(m) \in Nat /\ plugs[m] \in Nat
    BY <1>0, Counts
  <2>4. plugged' \subseteq Nodes
    BY <1>4 DEF TypeOK
  <2>5. ASSUME NEW m \in Nodes PROVE Unsaid(m)' <= plugs'[m]
    <3> DEFINE d == IF m = n THEN 1 ELSE 0
    <3>1. d \in 0..1 /\ Unsaid(m)' = Unsaid(m) + d /\ plugs'[m] = plugs[m] + d
      BY <1>2, <1>3
    <3> HIDE DEF d
    <3>2. Unsaid(m) <= plugs[m] /\ Unsaid(m) \in Nat /\ plugs[m] \in Nat
      BY <2>1, <2>3
    <3> QED BY <3>1, <3>2
  <2>6. ASSUME NEW m \in plugged' PROVE plugs'[m] >= 1
    BY <1>1, <1>3, <2>2, <2>3, <2>4
  <2> QED BY <1>1, <2>1, <2>5, <2>6
<1>6. Ordered'
  BY <1>0, <1>1, <1>2 DEF Ordered, TypeOK
<1>7. Covered'
  <2> SUFFICES ASSUME NEW m \in Nodes PROVE reports'[m] + Owed(m)' <= plugs'[m] + Excess(m)'
    BY DEF Covered
  <2>1. Listed(m)' = Listed(m) /\ Excess(m)' = Excess(m) /\ events' = events
        /\ reports'[m] = reports[m]
    BY <1>1 DEF Listed, Excess
  <2>2. reports[m] + (Listed(m) + Unsaid(m) + Times(events, Added(m))) <= plugs[m] + Excess(m)
    BY <1>0 DEF Covered, Owed
  <2> DEFINE d == IF m = n THEN 1 ELSE 0
  <2>3. d \in 0..1 /\ Unsaid(m)' = Unsaid(m) + d /\ plugs'[m] = plugs[m] + d
    BY <1>2, <1>3
  <2> HIDE DEF d
  <2>4. Unsaid(m) \in Nat /\ plugs[m] \in Nat /\ Times(events, Added(m)) \in Nat
        /\ reports[m] \in Nat /\ Listed(m) \in 0..1 /\ Excess(m) \in 0..1
    BY <1>0, Counts
  <2>5. reports'[m] + (Listed(m)' + Unsaid(m)' + Times(events', Added(m)))
          <= plugs'[m] + Excess(m)'
    BY <2>1, <2>2, <2>3, <2>4
  <2> QED BY <2>5 DEF Owed
<1> QED BY <1>4, <1>5, <1>6, <1>7 DEF IInv

\* A monome is unplugged.
LEMMA UnplugKeeps ==
    ASSUME IInv, NEW n \in Nodes, Unplug(n)
    PROVE  IInv'
<1>0. TypeOK /\ Phases /\ Ordered /\ Covered
  BY DEF IInv
<1>1. /\ plugged' = plugged \ {n} /\ KernelTells("remove", n)
      /\ served' = served \ {n} /\ unseen' = unseen \ {n}
      /\ UNCHANGED <<pc, found, events, overrun, plugs, reports, late>>
  BY DEF Unplug
<1>2. /\ pending' \in [Nodes -> Seq({"add", "remove"})]
      /\ \A m \in Nodes \ {n} : pending'[m] = pending[m]
      /\ \A m \in Nodes : Unsaid(m)' = Unsaid(m) + 0
  BY <1>0, <1>1, Tells
<1>3. \A m \in Nodes : Unsaid(m)' = Unsaid(m)
  BY <1>0, <1>2, Counts
<1>4. TypeOK'
  BY <1>0, <1>1, <1>2 DEF TypeOK
<1>5. Phases'
  BY <1>0, <1>1, <1>3 DEF Phases
<1>6. Ordered'
  BY <1>0, <1>1, <1>2 DEF Ordered, TypeOK
<1>7. Covered'
  <2> SUFFICES ASSUME NEW m \in Nodes PROVE reports'[m] + Owed(m)' <= plugs'[m] + Excess(m)'
    BY DEF Covered
  <2>1. Listed(m)' = Listed(m) /\ Excess(m)' = Excess(m) /\ Unsaid(m)' = Unsaid(m)
        /\ UNCHANGED <<events, reports, plugs>>
    BY <1>1, <1>3 DEF Listed, Excess
  <2> QED BY <1>0, <2>1 DEF Covered, Owed
<1> QED BY <1>4, <1>5, <1>6, <1>7 DEF IInv

\* udevd announces what the kernel has told it.
LEMMA BroadcastKeeps ==
    ASSUME IInv, NEW n \in Nodes, Broadcast(n)
    PROVE  IInv'
<1> DEFINE a == Head(pending[n])
<1>0. TypeOK /\ Phases /\ Ordered /\ Covered
  BY DEF IInv
<1>1. /\ pending[n] # <<>> /\ pending' = [pending EXCEPT ![n] = Tail(@)]
      /\ Announce(a, n)
      /\ unseen' \subseteq unseen \cup ({n} \cap plugged)
      /\ UNCHANGED <<pc, plugged, found, plugs, reports, served, late>>
  BY DEF Broadcast, LastWord
<1>2. /\ pending' \in [Nodes -> Seq({"add", "remove"})]
      /\ a \in {"add", "remove"}
      /\ pending'[n] # <<>> => pending'[n][Len(pending'[n])] = pending[n][Len(pending[n])]
      /\ \A m \in Nodes \ {n} : pending'[m] = pending[m]
      /\ \A m \in Nodes : Unsaid(m) = Unsaid(m)' + (IF a = "add" /\ m = n THEN 1 ELSE 0)
      /\ \A m \in Nodes : Unsaid(m)' \in Nat
  BY <1>0, <1>1, Passes
<1> HIDE DEF a
<1>3. /\ events' \in Seq(Event) /\ overrun' \in BOOLEAN
      /\ pc # "monitor" => events' = events
      /\ \A m \in Nodes : Times(events', Added(m)) =< Times(events, Added(m))
                                             + (IF a = "add" /\ m = n THEN 1 ELSE 0)
  BY <1>1, <1>2, Announced
<1>4. TypeOK'
  BY <1>0, <1>1, <1>2, <1>3 DEF TypeOK
<1>5. Phases'
  <2> SUFFICES ASSUME pc' = "start", NEW m \in Nodes PROVE Unsaid(m)' <= plugs'[m]
    BY <1>0, <1>1, <1>3 DEF Phases
  <2>1. Unsaid(m) <= plugs[m]
    BY <1>0, <1>1 DEF Phases
  <2> QED BY <1>0, <1>1, <1>2, <2>1, Counts
<1>6. Ordered'
  BY <1>0, <1>1, <1>2 DEF Ordered, TypeOK
<1>7. Covered'
  <2> SUFFICES ASSUME NEW m \in Nodes PROVE reports'[m] + Owed(m)' <= plugs'[m] + Excess(m)'
    BY DEF Covered
  <2>1. Listed(m)' = Listed(m) /\ Excess(m)' = Excess(m) /\ UNCHANGED <<plugs, reports>>
    BY <1>1 DEF Listed, Excess
  <2>2. reports[m] + (Listed(m) + Unsaid(m) + Times(events, Added(m))) <= plugs[m] + Excess(m)
    BY <1>0 DEF Covered, Owed
  <2>3. Times(events', Added(m)) \in Nat
    BY <1>3, TimesType
  <2>4. Times(events', Added(m)) =< Times(events, Added(m))
                                    + (IF a = "add" /\ m = n THEN 1 ELSE 0)
    BY <1>3
  <2>5. Unsaid(m) = Unsaid(m)' + (IF a = "add" /\ m = n THEN 1 ELSE 0) /\ Unsaid(m)' \in Nat
    BY <1>2
  <2> QED BY <1>0, <2>1, <2>2, <2>3, <2>4, <2>5, Counts DEF Owed
<1> QED BY <1>4, <1>5, <1>6, <1>7 DEF IInv

\* Reporting counts up one node at most.
LEMMA ReportOnce ==
    ASSUME TypeOK, NEW n \in Nodes,
           Report(n) \/ UNCHANGED <<reports, served>>
    PROVE  /\ reports' \in [Nodes -> Nat]
           /\ served' \subseteq plugged
           /\ \A m \in Nodes : reports'[m] =< reports[m] + (IF m = n THEN 1 ELSE 0)
<1>1. reports \in [Nodes -> Nat] /\ served \subseteq plugged
  BY DEF TypeOK
<1>2. CASE n \in plugged /\ Report(n)
  <2>1. reports' = [reports EXCEPT ![n] = @ + 1] /\ served' = served \cup {n}
    BY <1>2 DEF Report
  <2>2. \A m \in Nodes : reports'[m] = IF m = n THEN reports[m] + 1 ELSE reports[m]
    BY <1>1, <2>1
  <2> QED
    BY <1>1, <1>2, <2>1, <2>2, Counts
<1>3. CASE UNCHANGED <<reports, served>>
  BY <1>1, <1>3, Counts
<1> QED
  BY <1>2, <1>3 DEF Report

\* An entry of the list is seen.
LEMMA ScanKeeps ==
    ASSUME IInv, NEW n \in Nodes, ScanOne(n)
    PROVE  IInv'
<1>0. TypeOK /\ Phases /\ Ordered /\ Covered
  BY DEF IInv
<1>1. /\ found' = found \ {n} /\ n \in found /\ pc = "scan"
      /\ Report(n) \/ UNCHANGED <<reports, served>>
      /\ UNCHANGED <<pc, plugged, pending, events, overrun, plugs, unseen, late>>
  BY DEF ScanOne
<1>2. /\ reports' \in [Nodes -> Nat] /\ served' \subseteq plugged
      /\ \A m \in Nodes : reports'[m] =< reports[m] + (IF m = n THEN 1 ELSE 0)
  BY <1>0, <1>1, ReportOnce
<1>3. TypeOK' /\ Phases' /\ Ordered'
  BY <1>0, <1>1, <1>2 DEF TypeOK, Phases, Ordered
<1>4. Covered'
  <2> SUFFICES ASSUME NEW m \in Nodes PROVE reports'[m] + Owed(m)' <= plugs'[m] + Excess(m)'
    BY DEF Covered
  <2>1. reports'[m] =< reports[m] + (IF m = n THEN 1 ELSE 0) /\ reports'[m] \in Nat
    BY <1>2
  <2>2. Listed(m)' = IF m = n THEN 0 ELSE Listed(m)
    BY <1>1 DEF Listed
  <2>3. m = n => Listed(m) = 1
    BY <1>1 DEF Listed
  <2>4. /\ UNCHANGED <<events, plugs>>
        /\ Unsaid(m)' = Unsaid(m) /\ Excess(m)' = Excess(m)
    BY <1>1 DEF Unsaid, Excess
  <2>5. reports[m] + (Listed(m) + Unsaid(m) + Times(events, Added(m))) <= plugs[m] + Excess(m)
    BY <1>0 DEF Covered, Owed
  <2> QED
    BY <1>0, <2>1, <2>2, <2>3, <2>4, <2>5, Counts DEF Owed
<1> QED BY <1>3, <1>4 DEF IInv

\* An event is taken from the monitor.
LEMMA ReceiveKeeps ==
    ASSUME IInv, Receive
    PROVE  IInv'
<1> DEFINE e == Head(events)
<1>0. TypeOK /\ Phases /\ Ordered /\ Covered
  BY DEF IInv
<1>1. /\ pc = "monitor" /\ events # <<>> /\ events' = Tail(events)
      /\ IF IsAdd(e) THEN Report(e.node) ELSE UNCHANGED <<reports, served>>
      /\ UNCHANGED <<pc, plugged, pending, found, overrun, plugs, unseen, late>>
  BY DEF Receive
<1>2. events \in Seq(Event) /\ e \in Event /\ events' \in Seq(Event)
  BY <1>0, <1>1 DEF TypeOK
<1>3. \A m \in Nodes : Times(events, Added(m)) = IF e = Added(m) THEN Times(events', Added(m)) + 1
                                                 ELSE Times(events', Added(m))
  BY <1>1, <1>2, TimesTail
<1> HIDE DEF e
<1>4. e.node \in Nodes /\ (IsAdd(e) => e = Added(e.node))
  BY <1>2 DEF Event, IsAdd, Added
<1>5. /\ reports' \in [Nodes -> Nat] /\ served' \subseteq plugged
      /\ \A m \in Nodes : reports'[m] =< reports[m] + (IF e = Added(m) THEN 1 ELSE 0)
  <2>1. CASE IsAdd(e)
    <3>1. /\ reports' \in [Nodes -> Nat] /\ served' \subseteq plugged
          /\ \A m \in Nodes : reports'[m] =< reports[m] + (IF m = e.node THEN 1 ELSE 0)
      BY <1>0, <1>1, <1>4, <2>1, ReportOnce
    <3>2. \A m \in Nodes : m = e.node <=> e = Added(m)
      BY <1>4, <2>1 DEF Added
    <3> QED BY <3>1, <3>2
  <2>2. CASE ~IsAdd(e)
    <3>1. UNCHANGED <<reports, served>>
      BY <1>1, <2>2
    <3> QED BY <1>0, <3>1, Counts DEF TypeOK
  <2> QED BY <2>1, <2>2
<1>6. TypeOK' /\ Phases' /\ Ordered'
  BY <1>0, <1>1, <1>2, <1>5 DEF TypeOK, Phases, Ordered
<1>7. Covered'
  <2> SUFFICES ASSUME NEW m \in Nodes PROVE reports'[m] + Owed(m)' <= plugs'[m] + Excess(m)'
    BY DEF Covered
  <2>1. Times(events', Added(m)) \in Nat
    BY <1>2, TimesType
  <2>2. /\ Listed(m)' = Listed(m) /\ Unsaid(m)' = Unsaid(m) /\ Excess(m)' = Excess(m)
        /\ plugs' = plugs
    BY <1>1 DEF Listed, Unsaid, Excess
  <2>3. reports[m] + (Listed(m) + Unsaid(m) + Times(events, Added(m))) <= plugs[m] + Excess(m)
    BY <1>0 DEF Covered, Owed
  <2>4. reports'[m] =< reports[m] + (IF e = Added(m) THEN 1 ELSE 0) /\ reports'[m] \in Nat
    BY <1>5
  <2>5. Times(events, Added(m)) = IF e = Added(m) THEN Times(events', Added(m)) + 1
                                  ELSE Times(events', Added(m))
    BY <1>3
  <2> QED
    BY <1>0, <2>1, <2>2, <2>3, <2>4, <2>5, Counts DEF Owed
<1> QED BY <1>6, <1>7 DEF IInv

\* The list is made: what is in it has been plugged in and announced, or is late.
LEMMA EnumerateKeeps ==
    ASSUME IInv, Enumerate
    PROVE  IInv'
<1>0. TypeOK /\ Phases /\ Ordered /\ Covered
  BY DEF IInv
<1>1. /\ pc = "start" /\ pc' = "scan" /\ found' = plugged
      /\ late' = {n \in plugged : pending[n] # <<>>}
      /\ UNCHANGED <<plugged, pending, events, overrun, plugs, reports, served, unseen>>
  BY DEF Enumerate
<1>2. TypeOK' /\ Phases' /\ Ordered'
  BY <1>0, <1>1 DEF TypeOK, Phases, Ordered
<1>3. Covered'
  <2> SUFFICES ASSUME NEW m \in Nodes PROVE reports'[m] + Owed(m)' <= plugs'[m] + Excess(m)'
    BY DEF Covered
  <2>1. Times(events', Added(m)) = 0
    BY <1>0, <1>1, TimesEmpty DEF Phases
  <2>2. reports'[m] = 0 /\ plugs' = plugs /\ Unsaid(m)' = Unsaid(m) /\ Unsaid(m) <= plugs[m]
    BY <1>0, <1>1 DEF Phases, Unsaid
  <2>3. CASE m \in plugged /\ pending[m] = <<>>
    <3>1. Unsaid(m) = 0
      BY <2>3, TimesEmpty DEF Unsaid
    <3>2. plugs[m] >= 1 /\ Listed(m)' = 1 /\ Excess(m)' = 0
      BY <1>0, <1>1, <2>3 DEF Phases, Listed, Excess
    <3> QED BY <1>0, <2>1, <2>2, <3>1, <3>2, Counts DEF Owed
  <2>4. CASE ~(m \in plugged /\ pending[m] = <<>>)
    <3>1. (Listed(m)' = 0 /\ Excess(m)' = 0) \/ (Listed(m)' = 1 /\ Excess(m)' = 1)
      BY <1>1, <2>4 DEF Listed, Excess
    <3> QED BY <1>0, <2>1, <2>2, <3>1, Counts DEF Owed
  <2> QED BY <2>3, <2>4
<1> QED BY <1>2, <1>3 DEF IInv

\* Every step preserves the invariant.
LEMMA Inductive == IInv /\ [Next]_vars => IInv'
<1> SUFFICES ASSUME IInv, [Next]_vars PROVE IInv'
  OBVIOUS
<1>0. TypeOK /\ Phases /\ Ordered /\ Covered
  BY DEF IInv
<1>1. CASE UNCHANGED vars
  <2>1. TypeOK' /\ Phases' /\ Ordered'
    BY <1>0, <1>1 DEF vars, TypeOK, Phases, Ordered, Unsaid
  <2>2. Covered'
    BY <1>0, <1>1, SameCounts DEF vars
  <2> QED BY <2>1, <2>2 DEF IInv
<1>2. CASE Enumerate
  BY <1>2, EnumerateKeeps
<1>3. ASSUME NEW n \in Nodes, ScanOne(n) PROVE IInv'
  BY <1>3, ScanKeeps
<1>4. CASE ScanEnds \/ OpenMonitor \/ Fails \/ ReceiveNothing
  <2>1. /\ pc' \in {"open", "monitor", "failed", "dead"}
        /\ pc' = "open" => pc = "scan"
        /\ UNCHANGED <<plugged, pending, found, events, overrun, plugs, reports,
                       served, unseen, late>>
    BY <1>4 DEF ScanEnds, OpenMonitor, Fails, ReceiveNothing
  <2>2. TypeOK' /\ Phases' /\ Ordered'
    BY <1>0, <2>1 DEF TypeOK, Phases, Ordered
  <2>3. Covered'
    BY <1>0, <2>1, SameCounts
  <2> QED BY <2>2, <2>3 DEF IInv
<1>5. CASE Receive
  BY <1>5, ReceiveKeeps
<1>6. ASSUME NEW n \in Nodes, Plug(n) PROVE IInv'
  BY <1>6, PlugKeeps
<1>7. ASSUME NEW n \in Nodes, Unplug(n) PROVE IInv'
  BY <1>7, UnplugKeeps
<1>8. ASSUME NEW n \in Nodes, Broadcast(n) PROVE IInv'
  BY <1>8, BroadcastKeeps
<1> QED
  BY <1>1, <1>2, <1>3, <1>4, <1>5, <1>6, <1>7, <1>8 DEF Next, Step

-----------------------------------------------------------------------------
\* The invariant holds in every state the detector reaches.
THEOREM Invariance == Spec => []IInv
  BY Initially, Inductive, PTL DEF Spec

\* The detector's variables keep their types.
THEOREM TypeCorrect == Spec => []TypeOK
<1>1. IInv => TypeOK
  BY DEF IInv
<1> QED
  BY <1>1, Invariance, PTL

\* Whatever is plugged and unplugged while the detector scans and then listens,
\* and however late udevd is, a monome is reported once for each plugging, and a
\* second time at most for one that was listed before it was announced.
THEOREM OnlyLateTwice == Spec => []SurplusIsLate
<1>1. IInv => SurplusIsLate
  <2> SUFFICES ASSUME IInv, NEW n \in Nodes PROVE reports[n] <= plugs[n] + Excess(n)
    BY DEF SurplusIsLate, Excess
  <2>1. reports[n] + (Listed(n) + Unsaid(n) + Times(events, Added(n))) <= plugs[n] + Excess(n)
    BY DEF IInv, Covered, Owed
  <2> QED
    BY <2>1, Counts DEF IInv
<1> QED
  BY <1>1, Invariance, PTL

-----------------------------------------------------------------------------
(***************************************************************************)
(* Nothing is forgotten                                                    *)
(***************************************************************************)

\* The monitor has still to hear of n.
Heard(n) == \E i \in 1..Len(events) : events[i] = Added(n)

\* Where a monome can be that is plugged in, was not announced between the list
\* and the monitor and has not been reported.
Ahead(n) ==
    \/ pc = "start"
    \/ pc = "scan" /\ n \in found
    \/ pc \in {"scan", "open", "monitor"} /\ pending[n] # <<>>
    \/ pc = "monitor" /\ Heard(n)

\* What SeenIsReported rests on: such a monome always has its report ahead of it,
\* unless the monitor has lost events or the detector could not start; and nothing
\* else ends the detector.
NotForgotten ==
    /\ \A n \in plugged \ unseen : n \in served \/ Ahead(n) \/ overrun \/ pc = "failed"
    /\ pc = "dead" => overrun

\* An event more takes none of the others away.
LEMMA HeardAfter ==
    ASSUME TypeOK, NEW n \in Nodes, NEW a \in {"add", "remove"}, Announce(a, n)
    PROVE  /\ \A m \in Nodes : Heard(m) => Heard(m)'
           /\ overrun => overrun'
           /\ pc = "monitor" /\ a = "add" => Heard(n)' \/ overrun'
<1> DEFINE e == [action |-> a, node |-> n]
<1>1. events \in Seq(Event) /\ e \in Event /\ overrun \in BOOLEAN /\ Len(events) \in Nat
  BY DEF TypeOK, Event
<1>2. CASE ~(Listening /\ Len(events) < QueueSize)
  BY <1>1, <1>2 DEF Announce, Listening, Heard
<1>3. CASE Listening /\ Len(events) < QueueSize
  <2>1. Len(events') = Len(events) + 1 /\ events'[Len(events) + 1] = e
        /\ \A i \in 1..Len(events) : events'[i] = events[i]
    <3>1. events' = Append(events, e)
      BY <1>3 DEF Announce
    <3> QED BY <1>1, <3>1
  <2>2. ASSUME NEW m \in Nodes, Heard(m) PROVE Heard(m)'
    <3>1. PICK i \in 1..Len(events) : events[i] = Added(m)
      BY <2>2 DEF Heard
    <3>2. i \in 1..Len(events') /\ events'[i] = Added(m)
      BY <1>1, <2>1, <3>1
    <3> QED BY <3>2 DEF Heard, Added
  <2>3. ASSUME a = "add" PROVE Heard(n)'
    <3>1. Len(events) + 1 \in 1..Len(events') /\ events'[Len(events) + 1] = Added(n)
      BY <1>1, <2>1, <2>3 DEF Added
    <3> QED BY <3>1 DEF Heard, Added
  <2> QED BY <2>2, <2>3 DEF Announce
<1> QED BY <1>2, <1>3

\* What is ahead stays ahead when a monome comes or goes.
LEMMA AheadTells ==
    ASSUME TypeOK, NEW n \in Nodes, NEW a \in {"add", "remove"}, KernelTells(a, n),
           UNCHANGED <<pc, found, events>>
    PROVE  /\ \A m \in Nodes : Ahead(m) => Ahead(m)'
           /\ Ahead(n)' \/ pc \in {"dead", "failed"}
<1>1. pending'[n] # <<>> /\ \A m \in Nodes \ {n} : pending'[m] = pending[m]
  BY Tells
<1>2. pc \in {"start", "scan", "open", "monitor", "dead", "failed"}
  BY DEF TypeOK
<1> QED BY <1>1, <1>2 DEF Ahead, Heard

\* udevd announces a monome to the monitor, or in time for the list, or to nobody;
\* the others stay where they are.
LEMMA AheadBroadcast ==
    ASSUME TypeOK, Ordered, NEW n \in Nodes, Broadcast(n)
    PROVE  /\ \A m \in plugged : \/ Ahead(m) => Ahead(m)' \/ overrun'
                                 \/ m \in served \cup unseen'
           /\ overrun => overrun'
<1> DEFINE a == Head(pending[n])
<1>1. /\ pending[n] # <<>> /\ pending' = [pending EXCEPT ![n] = Tail(@)]
      /\ Announce(a, n)
      /\ unseen' = IF LastWord(n) /\ Deaf(n) THEN unseen \cup {n} ELSE unseen
      /\ UNCHANGED <<pc, plugged, found, plugs, reports, served, late>>
  BY DEF Broadcast
<1>2. /\ a \in {"add", "remove"} /\ pending'[n] = Tail(pending[n])
      /\ pending'[n] = <<>> => a = pending[n][Len(pending[n])]
      /\ \A m \in Nodes \ {n} : pending'[m] = pending[m]
  BY <1>1, Passes
<1>3. n \in plugged /\ pending'[n] = <<>> => a = "add"
  BY <1>1, <1>2 DEF Ordered
<1> HIDE DEF a
<1>4. /\ \A m \in Nodes : Heard(m) => Heard(m)'
      /\ overrun => overrun'
      /\ pc = "monitor" /\ a = "add" => Heard(n)' \/ overrun'
  BY <1>1, <1>2, HeardAfter
<1>5. ASSUME NEW m \in plugged, Ahead(m), m # n PROVE Ahead(m)'
  <2>1. m \in Nodes \ {n}
    BY <1>5 DEF TypeOK
  <2> QED BY <1>1, <1>2, <1>4, <1>5, <2>1 DEF Ahead
<1>6. ASSUME n \in plugged, Ahead(n), n \notin served \cup unseen'
      PROVE  Ahead(n)' \/ overrun'
  <2>1. CASE pending'[n] # <<>>
    BY <1>1, <1>4, <1>6, <2>1 DEF Ahead
  <2>2. CASE pending'[n] = <<>>
    <3>1. LastWord(n) /\ a = "add"
      BY <1>2, <1>3, <1>6, <2>2 DEF LastWord
    <3>2. ~Deaf(n)
      BY <1>1, <1>6, <3>1
    <3>3. n \notin served
      BY <1>6
    <3>4. CASE pc = "monitor"
      BY <1>1, <1>4, <3>1, <3>4 DEF Ahead
    <3>5. CASE pc \in {"start", "scan", "open"}
      BY <1>1, <3>2, <3>3, <3>5 DEF Ahead, Deaf
    <3> QED BY <1>6, <3>4, <3>5 DEF Ahead
  <2> QED BY <2>1, <2>2
<1> QED BY <1>4, <1>5, <1>6

\* What is ahead stays ahead when the detector goes on, or it is reported now.
LEMMA AheadStep ==
    ASSUME TypeOK, NEW n \in plugged, Ahead(n), Step
    PROVE  Ahead(n)' \/ (n \in served' /\ reports'[n] = reports[n] + 1) \/ overrun
           \/ pc' = "failed"
<1>0. n \in Nodes /\ reports \in [Nodes -> Nat]
  BY DEF TypeOK
<1>1. CASE Enumerate
  BY <1>1 DEF Enumerate, Ahead
<1>2. ASSUME NEW m \in Nodes, ScanOne(m)
      PROVE  Ahead(n)' \/ (n \in served' /\ reports'[n] = reports[n] + 1)
  BY <1>0, <1>2 DEF ScanOne, Report, Ahead
<1>3. CASE ScanEnds \/ OpenMonitor \/ Fails \/ ReceiveNothing
  BY <1>3 DEF ScanEnds, OpenMonitor, Fails, ReceiveNothing, Ahead
<1>4. CASE Receive
  <2>1. pc = "monitor" /\ pc' = pc
    BY <1>4 DEF Receive
  <2>2. events \in Seq(Event) /\ events # <<>> /\ events' = Tail(events)
    BY <1>4 DEF TypeOK, Receive
  <2>3. /\ Len(events) \in Nat /\ Len(events') = Len(events) - 1
        /\ \A i \in 1..Len(events') : events'[i] = events[i + 1]
        /\ Head(events) = events[1]
    BY <2>2
  <2>4. CASE pending[n] # <<>>
    BY <1>4, <2>1, <2>4 DEF Receive, Ahead
  <2>5. ASSUME NEW i \in 1..Len(events), events[i] = Added(n)
        PROVE  Ahead(n)' \/ (n \in served' /\ reports'[n] = reports[n] + 1)
    <3>1. CASE i = 1
      <4>1. Head(events).action = "add" /\ Head(events).node = n
        BY <2>3, <2>5, <3>1 DEF Added
      <4> QED BY <1>0, <1>4, <4>1 DEF Receive, IsAdd, Report
    <3>2. CASE i # 1
      <4>1. i - 1 \in 1..Len(events') /\ (i - 1) + 1 = i
        BY <2>3, <2>5, <3>2
      <4>2. events'[i - 1] = Added(n)
        BY <2>3, <2>5, <4>1
      <4> QED BY <2>1, <4>1, <4>2 DEF Ahead, Heard, Added
    <3> QED BY <3>1, <3>2
  <2> QED BY <2>1, <2>4, <2>5 DEF Ahead, Heard
<1> QED BY <1>1, <1>2, <1>3, <1>4 DEF Step

\* Every step keeps it, given the types and the order of udevd's events.
LEMMA NotForgottenKept == TypeOK /\ Ordered /\ NotForgotten /\ [Next]_vars => NotForgotten'
<1> SUFFICES ASSUME TypeOK, Ordered, NotForgotten, [Next]_vars PROVE NotForgotten'
  OBVIOUS
<1> USE DEF NotForgotten
<1>0. plugged \subseteq Nodes
  BY DEF TypeOK
<1>1. CASE UNCHANGED vars
  BY <1>1 DEF vars, Ahead, Heard
<1>2. CASE Step
  <2>1. plugged' = plugged /\ unseen' = unseen /\ overrun' = overrun
        /\ served \subseteq served'
    BY <1>2 DEF Step, Enumerate, ScanOne, ScanEnds, OpenMonitor, Fails, Receive,
                ReceiveNothing, Report
  <2>2. (pc' = "dead" => overrun) /\ pc # "failed"
    BY <1>2 DEF Step, Enumerate, ScanOne, ScanEnds, OpenMonitor, Fails, Receive,
                ReceiveNothing
  <2> QED BY <1>2, <2>1, <2>2, AheadStep
<1>3. ASSUME NEW n \in Nodes, Plug(n) PROVE NotForgotten'
  <2>1. /\ KernelTells("add", n) /\ plugged' = plugged \cup {n}
        /\ UNCHANGED <<pc, found, events, overrun, served, unseen>>
    BY <1>3 DEF Plug
  <2>2. (\A m \in Nodes : Ahead(m) => Ahead(m)') /\ (Ahead(n)' \/ pc \in {"dead", "failed"})
    BY <2>1, AheadTells
  <2> QED BY <1>0, <2>1, <2>2
<1>4. ASSUME NEW n \in Nodes, Unplug(n) PROVE NotForgotten'
  <2>1. /\ KernelTells("remove", n) /\ plugged' = plugged \ {n}
        /\ served' = served \ {n} /\ unseen' = unseen \ {n}
        /\ UNCHANGED <<pc, found, events, overrun>>
    BY <1>4 DEF Unplug
  <2>2. \A m \in Nodes : Ahead(m) => Ahead(m)'
    BY <2>1, AheadTells
  <2> QED BY <1>0, <2>1, <2>2
<1>5. ASSUME NEW n \in Nodes, Broadcast(n) PROVE NotForgotten'
  <2>1. /\ plugged' = plugged /\ served' = served /\ pc' = pc /\ unseen \subseteq unseen'
    BY <1>5 DEF Broadcast
  <2>2. /\ \A m \in plugged : \/ Ahead(m) => Ahead(m)' \/ overrun'
                              \/ m \in served \cup unseen'
        /\ overrun => overrun'
    BY <1>5, AheadBroadcast
  <2> QED BY <2>1, <2>2
<1> QED
  BY <1>1, <1>2, <1>3, <1>4, <1>5 DEF Next

\* A monome that was not announced between the list and the monitor is not
\* forgotten: it has been reported, or its report is ahead, or the detector has
\* given up, for which there are no other reasons than the two.
THEOREM NothingForgotten == Spec => []NotForgotten
<1>1. Init => NotForgotten
  BY DEF Init, NotForgotten, Ahead
<1>2. IInv => TypeOK /\ Ordered
  BY DEF IInv
<1> QED BY <1>1, <1>2, Invariance, NotForgottenKept, PTL DEF Spec
=============================================================================
