------------------------- MODULE DeviceSearchProofs -------------------------
(***************************************************************************)
(* What a search guarantees for any subnets, ports, number of slots and    *)
(* deadline, proved with TLAPS.                                            *)
(***************************************************************************)
EXTENDS DeviceSearch, FiniteSetTheorems, TLAPS

Holders == {t \in Probe : Holding(t)}

(* The slots taken are those of the probes under way.                      *)
ScanInv == ScanTypeOK /\ SlotsHeldByProbes

LEMMA HoldersFinite ==
  /\ IsFiniteSet(Holders)
  /\ Cardinality(Holders) \in Nat
<1>1. IsFiniteSet(Holders)
  BY ScanAssumption, FS_Subset DEF Holders
<1>. QED
  BY <1>1, FS_CardinalityType

LEMMA ScanInitial == ScanInit => ScanInv
<1>. SUFFICES ASSUME ScanInit PROVE ScanInv
  OBVIOUS
<1>1. Holders = {}
  BY DEF ScanInit, Holders, Holding
<1>2. Cardinality({}) = 0
  BY FS_EmptySet
<1>. QED
  BY <1>1, <1>2, ScanAssumption
     DEF ScanInv, ScanInit, ScanTypeOK, SlotsHeldByProbes, Holders, ProbeStep

(* A probe that moves leaves the others alone.                             *)
LEMMA ProbeMoves ==
  ASSUME ScanTypeOK, NEW t \in Probe, NEW step \in ProbeStep,
         probe' = [probe EXCEPT ![t] = step]
  PROVE  /\ probe' \in [Probe -> ProbeStep]
         /\ probe'[t] = step
         /\ \A u \in Probe : u # t => probe'[u] = probe[u]
BY DEF ScanTypeOK

LEMMA LaunchSound ==
  ASSUME ScanInv, NEW t \in Probe, NEW time \in Nat, Launch(t, time)
  PROVE  ScanInv'
<1>1. /\ probe[t] = "todo" /\ slots < Slots /\ slots' = slots + 1
      /\ probe' = [probe EXCEPT ![t] = "https"]
      /\ since' = [since EXCEPT ![t] = time]
      /\ scan = "launch" /\ scan' = "launch"
  BY DEF Launch
<1>2. /\ probe' \in [Probe -> ProbeStep]
      /\ probe'[t] = "https"
      /\ \A u \in Probe : u # t => probe'[u] = probe[u]
  BY <1>1, ProbeMoves DEF ScanInv, ProbeStep
<1>3. t \notin Holders /\ Holders' = Holders \cup {t}
  BY <1>1, <1>2 DEF Holders, Holding
<1>4. Cardinality(Holders') = Cardinality(Holders) + 1
  BY <1>3, HoldersFinite, FS_AddElement
<1>5. slots' = Cardinality(Holders')
  BY <1>1, <1>4 DEF ScanInv, SlotsHeldByProbes, Holders
<1>6. slots' \in 0..Slots
  BY <1>1, ScanAssumption DEF ScanInv, ScanTypeOK
<1>7. since' \in [Probe -> Nat]
  BY <1>1 DEF ScanInv, ScanTypeOK
<1>. QED
  BY <1>1, <1>2, <1>5, <1>6, <1>7 DEF ScanInv, ScanTypeOK, SlotsHeldByProbes, Holders, Holding

LEMMA ReleaseSound ==
  ASSUME ScanInv, NEW t \in Probe, Release(t)
  PROVE  ScanInv'
<1>1. /\ probe[t] = "release" /\ slots' = slots - 1
      /\ probe' = [probe EXCEPT ![t] = "report"]
      /\ UNCHANGED <<scan, since>>
  BY DEF Release
<1>2. /\ probe' \in [Probe -> ProbeStep]
      /\ probe'[t] = "report"
      /\ \A u \in Probe : u # t => probe'[u] = probe[u]
  BY <1>1, ProbeMoves DEF ScanInv, ProbeStep
<1>3. t \in Holders /\ Holders' = Holders \ {t}
  BY <1>1, <1>2 DEF Holders, Holding
<1>4. Cardinality(Holders') = Cardinality(Holders) - 1
  BY <1>3, HoldersFinite, FS_RemoveElement
<1>5. slots = Cardinality(Holders) /\ slots' = Cardinality(Holders')
  BY <1>1, <1>4 DEF ScanInv, SlotsHeldByProbes, Holders
<1>6. slots' \in Nat
  BY <1>5, HoldersFinite, <1>3, FS_RemoveElement, FS_CardinalityType
<1>7. slots' \in 0..Slots
  BY <1>1, <1>6, ScanAssumption DEF ScanInv, ScanTypeOK
<1>8. scan' # "returned"
  BY <1>1 DEF ScanInv, SlotsHeldByProbes
<1>. QED
  BY <1>1, <1>2, <1>5, <1>7, <1>8 DEF ScanInv, ScanTypeOK, SlotsHeldByProbes, Holders, Holding

(* The steps of a probe that keep the slot, or no longer have it.          *)
LEMMA KeepingSound ==
  ASSUME ScanInv, NEW t \in Probe, NEW step \in ProbeStep,
         probe[t] # "done",
         probe[t] \in {"https", "http", "release"} <=> step \in {"https", "http", "release"},
         probe' = [probe EXCEPT ![t] = step],
         since' \in [Probe -> Nat],
         UNCHANGED <<scan, slots>>
  PROVE  ScanInv'
<1>1. /\ probe' \in [Probe -> ProbeStep]
      /\ probe'[t] = step
      /\ \A u \in Probe : u # t => probe'[u] = probe[u]
  BY ProbeMoves DEF ScanInv
<1>2. \A u \in Probe : probe'[u] \in {"https", "http", "release"}
                         <=> probe[u] \in {"https", "http", "release"}
  BY <1>1
<1>3. Holders' = Holders
  BY <1>2 DEF Holders, Holding
<1>4. scan' # "returned"
  BY DEF ScanInv, SlotsHeldByProbes
<1>. QED
  BY <1>1, <1>3, <1>4 DEF ScanInv, ScanTypeOK, SlotsHeldByProbes, Holders, Holding

LEMMA ProbeSound ==
  ASSUME ScanInv, NEW t \in Probe, NEW time \in Nat,
         Respond(t) \/ AttemptFails(t, time) \/ ReportDone(t)
  PROVE  ScanInv'
<1>. USE DEF ProbeStep
<1>1. CASE Respond(t)
  <2>1. probe[t] \in {"https", "http"}
    BY <1>1, ScanAssumption DEF Respond
  <2>2. since' \in [Probe -> Nat]
    BY <1>1 DEF Respond, ScanInv, ScanTypeOK
  <2>. QED
    BY <1>1, <2>1, <2>2, KeepingSound DEF Respond
<1>2. CASE AttemptFails(t, time)
  <2>1. since' \in [Probe -> Nat]
    BY <1>2 DEF AttemptFails, ScanInv, ScanTypeOK
  <2>. QED
    BY <1>2, <2>1, KeepingSound DEF AttemptFails
<1>3. CASE ReportDone(t)
  <2>1. since' \in [Probe -> Nat]
    BY <1>3 DEF ReportDone, ScanInv, ScanTypeOK
  <2>. QED
    BY <1>3, <2>1, KeepingSound DEF ReportDone
<1>. QED
  BY <1>1, <1>2, <1>3

LEMMA ScanSound ==
  ASSUME ScanInv, StartScan \/ AllLaunched \/ Wait \/ UNCHANGED scanVars
  PROVE  ScanInv'
<1>1. UNCHANGED <<probe, since, slots>>
  BY DEF StartScan, AllLaunched, Wait, scanVars
<1>2. \/ scan' \in {"launch", "wait"}
      \/ scan' = "returned" /\ \A t \in Probe : probe[t] = "done"
      \/ scan' = scan
  BY DEF StartScan, AllLaunched, Wait, scanVars
<1>. QED
  BY <1>1, <1>2 DEF ScanInv, ScanTypeOK, SlotsHeldByProbes, Holding

----------------------------------------------------------------------------
(***************************************************************************)
(* Nothing is listed before the context has expired, what had been found   *)
(* then is listed, and a search that reports nothing had found nothing.    *)
(***************************************************************************)
ListInv ==
  /\ phase \in {"range", "choose", "listed", "json", "none"} => expired /\ intime \subseteq list
  /\ phase = "none" => list = {}
  /\ ~expired => intime = {}

SearchInv == ScanInv /\ SearchTypeOK /\ ListInv

LEMMA SearchInitial == SearchInit => SearchInv
<1>. SUFFICES ASSUME SearchInit PROVE SearchInv
  OBVIOUS
<1>1. ScanInv
  BY ScanInitial DEF SearchInit
<1>. QED
  BY <1>1 DEF SearchInit, SearchInv, SearchTypeOK, ListInv, ScanInv

(* The steps of the scan's goroutines and of the clock.                    *)
LEMMA ScanStep ==
  ASSUME SearchInv, SearchNext
  PROVE  ScanInv'
<1>. USE DEF SearchInv
<1>1. clock \in Nat
  BY DEF SearchTypeOK
<1>2. ASSUME NEW t \in Probe, ProbeAnswered(t) \/ ProbeRun(t) PROVE ScanInv'
  BY <1>1, <1>2, LaunchSound, ReleaseSound, ProbeSound DEF ProbeAnswered, ProbeRun
<1>3. CASE ScanRun \/ Begin
  BY <1>3, ScanSound DEF ScanRun, Begin
<1>4. CASE UNCHANGED scanVars
  BY <1>4, ScanSound
<1>. QED
  BY <1>2, <1>3, <1>4 DEF SearchNext, Main, PacketDiscovered, ServiceDiscovered, Expire,
     RangeBegins, RangeEnds, StopBrowsing, StopAdvertising, Tick

LEMMA OnDiscoverSound ==
  ASSUME SearchInv, ScanInv', NEW address \in Devices, OnDiscover(address)
  PROVE  SearchInv'
BY DEF OnDiscover, SearchInv, SearchTypeOK, ListInv, ScanInv, mdnsVars

(* The steps that leave the command and what it has found alone.           *)
LEMMA AsideStep ==
  ASSUME SearchInv, ScanInv', UNCHANGED mainVars,
         clock' \in Nat, browsing' \in BOOLEAN, advertising' \in BOOLEAN
  PROVE  SearchInv'
BY DEF SearchInv, SearchTypeOK, ListInv, ScanInv, mainVars

LEMMA MainStep ==
  ASSUME SearchInv, ScanInv', Main
  PROVE  SearchInv'
<1>. USE DEF SearchInv, SearchTypeOK, ListInv, ScanInv
<1>1. CASE Begin
  BY <1>1 DEF Begin, StartListeners, StartAdvertising, mdnsVars
<1>2. CASE Expire
  BY <1>2 DEF Expire, mdnsVars
<1>3. CASE RangeBegins
  BY <1>3 DEF RangeBegins, mdnsVars
<1>4. CASE RangeEnds
  <2>1. list \subseteq list' /\ list' \subseteq found /\ expired /\ intime \subseteq list
    BY <1>4 DEF RangeEnds
  <2>2. /\ phase' \in {"choose", "listed", "json", "none"}
        /\ phase' = "none" => list' = {}
    BY <1>4 DEF RangeEnds
  <2>. QED
    BY <1>4, <2>1, <2>2 DEF RangeEnds, mdnsVars
<1>. QED
  BY <1>1, <1>2, <1>3, <1>4 DEF Main

LEMMA SearchStep == SearchInv /\ [SearchNext]_searchVars => SearchInv'
<1>. SUFFICES ASSUME SearchInv, [SearchNext]_searchVars PROVE SearchInv'
  OBVIOUS
<1>1. CASE UNCHANGED searchVars
  BY <1>1, ScanSound, AsideStep
     DEF searchVars, scanVars, mdnsVars, SearchInv, SearchTypeOK
<1>2. CASE SearchNext
  <2>1. ScanInv'
    BY <1>2, ScanStep
  <2>2. ASSUME NEW p \in Packet, PacketDiscovered(p) PROVE SearchInv'
    BY <2>1, <2>2, OnDiscoverSound DEF PacketDiscovered, Devices
  <2>3. ASSUME NEW x \in Service, ServiceDiscovered(x) PROVE SearchInv'
    BY <2>1, <2>3, OnDiscoverSound DEF ServiceDiscovered, Devices
  <2>4. ASSUME NEW t \in Probe, ProbeAnswered(t) PROVE SearchInv'
    BY <2>1, <2>4, OnDiscoverSound DEF ProbeAnswered, Devices
  <2>5. ASSUME NEW t \in Probe, ProbeRun(t) PROVE SearchInv'
    BY <2>1, <2>5, AsideStep DEF ProbeRun, mdnsVars, SearchInv, SearchTypeOK
  <2>6. CASE ScanRun \/ StopBrowsing \/ StopAdvertising \/ Tick
    <3>1. clock \in Nat /\ browsing \in BOOLEAN /\ advertising \in BOOLEAN
      BY DEF SearchInv, SearchTypeOK
    <3>2. /\ clock' \in {clock, clock + 1}
          /\ browsing' = browsing \/ browsing' = FALSE
          /\ advertising' = advertising \/ advertising' = FALSE
          /\ UNCHANGED mainVars
      <4>1. CASE ScanRun \/ Tick
        BY <4>1 DEF ScanRun, Tick, mdnsVars
      <4>2. CASE StopBrowsing \/ StopAdvertising
        BY <4>2 DEF StopBrowsing, StopAdvertising
      <4>. QED
        BY <2>6, <4>1, <4>2
    <3>3. clock' \in Nat
      BY <3>1, <3>2
    <3>4. browsing' \in BOOLEAN /\ advertising' \in BOOLEAN
      <4>1. browsing' \in BOOLEAN
        BY <3>1, <3>2, Zenon
      <4>2. advertising' \in BOOLEAN
        BY <3>1, <3>2, Zenon
      <4>. QED
        BY <4>1, <4>2
    <3>. QED
      BY <2>1, <3>2, <3>3, <3>4, AsideStep
  <2>. QED
    BY <1>2, <2>1, <2>2, <2>3, <2>4, <2>5, <2>6, MainStep DEF SearchNext
<1>. QED
  BY <1>1, <1>2

(***************************************************************************)
(* The variables of a search keep their types: no more than Slots requests *)
(* are under way.                                                          *)
(***************************************************************************)
THEOREM SearchTyped == SearchSpec => []SearchTypeOK
<1>1. SearchInv => SearchTypeOK
  BY DEF SearchInv
<1>. QED
  BY SearchInitial, SearchStep, <1>1, PTL DEF SearchSpec

(***************************************************************************)
(* The slots taken are those of the probes under way, whatever order they  *)
(* start, fail and end in, and none is left when the scan has returned     *)
(* (discovery.go:231, 253-269, 287-307).                                   *)
(***************************************************************************)
THEOREM ScanHoldsItsSlots == SearchSpec => []SlotsHeldByProbes
<1>1. SearchInv => SlotsHeldByProbes
  BY DEF SearchInv, ScanInv
<1>. QED
  BY SearchInitial, SearchStep, <1>1, PTL DEF SearchSpec

(***************************************************************************)
(* Every device reported before the deadline is in the list, whatever is   *)
(* reported while the list is made (main.go:98-116, 502-514).              *)
(***************************************************************************)
THEOREM ListIsComplete == SearchSpec => []FoundInTimeIsListed
<1>1. SearchInv => FoundInTimeIsListed
  BY DEF SearchInv, ListInv, FoundInTimeIsListed
<1>. QED
  BY SearchInitial, SearchStep, <1>1, PTL DEF SearchSpec

----------------------------------------------------------------------------
(***************************************************************************)
(* At most Slots requests of the scan are under way (discovery.go:231,     *)
(* 253-255: the channel of 64 places).                                     *)
(***************************************************************************)
RequestsBounded == Cardinality({t \in Probe : Holding(t)}) <= Slots

THEOREM RequestsBoundedAlways == SearchSpec => []RequestsBounded
<1>1. SearchInv => RequestsBounded
  <2>. SUFFICES ASSUME SearchInv PROVE RequestsBounded
    OBVIOUS
  <2>1. slots \in 0..Slots /\ slots = Cardinality({t \in Probe : Holding(t)})
    BY DEF SearchInv, ScanInv, ScanTypeOK, SlotsHeldByProbes
  <2>. QED
    BY <2>1, ScanAssumption DEF RequestsBounded
<1>. QED
  BY SearchInitial, SearchStep, <1>1, PTL DEF SearchSpec

----------------------------------------------------------------------------
(***************************************************************************)
(* The ports of this host are tried before any other address is, and every *)
(* target has been tried when the launching goroutine stops to launch.     *)
(***************************************************************************)
OwnPortsFirst ==
  \A t, u \in Probe : u.pass < t.pass /\ probe[t] # "todo" => probe[u] # "todo"

LaunchedInOrder ==
  /\ OwnPortsFirst
  /\ scan = "off" => \A t \in Probe : probe[t] = "todo"
  /\ scan \in {"wait", "returned"} => \A t \in Probe : probe[t] # "todo"

(* How a step of the search moves the scan.                                *)
LEMMA ScanMoves ==
  ASSUME ScanTypeOK, [SearchNext]_searchVars
  PROVE  \/ UNCHANGED <<scan, probe>>
         \/ scan = "off" /\ scan' = "launch" /\ UNCHANGED probe
         \/ /\ scan = "launch" /\ scan' = "wait" /\ UNCHANGED probe
            /\ \A t \in Probe : probe[t] # "todo"
         \/ scan = "wait" /\ scan' = "returned" /\ UNCHANGED probe
         \/ \E t \in Probe :
              /\ UNCHANGED scan
              /\ probe'[t] # "todo"
              /\ \A u \in Probe : u # t => probe'[u] = probe[u]
              /\ probe[t] = "todo" =>
                   scan = "launch" /\ \A u \in Probe : u.pass < t.pass => probe[u] # "todo"
<1>1. ASSUME NEW t \in Probe, ProbeAnswered(t) \/ ProbeRun(t)
      PROVE  /\ UNCHANGED scan
             /\ probe'[t] # "todo"
             /\ \A u \in Probe : u # t => probe'[u] = probe[u]
             /\ probe[t] = "todo" =>
                  scan = "launch" /\ \A u \in Probe : u.pass < t.pass => probe[u] # "todo"
  <2>1. CASE ProbeAnswered(t)
    <3>1. probe[t] \in {"https", "http"}
      BY <2>1, ScanAssumption DEF ProbeAnswered, Respond
    <3>. QED
      BY <2>1, <3>1 DEF ProbeAnswered, Respond, ScanTypeOK
  <2>2. CASE Launch(t, clock)
    BY <2>2 DEF Launch, ScanTypeOK
  <2>3. CASE AttemptFails(t, clock) \/ Release(t) \/ ReportDone(t)
    BY <2>3 DEF AttemptFails, Release, ReportDone, ScanTypeOK
  <2>. QED
    BY <1>1, <2>1, <2>2, <2>3 DEF ProbeRun
<1>2. CASE ScanRun
  BY <1>2 DEF ScanRun, AllLaunched, Wait
<1>3. CASE Begin
  BY <1>3 DEF Begin, StartScan, scanVars
<1>4. CASE UNCHANGED scanVars
  BY <1>4 DEF scanVars
<1>. QED
  BY <1>1, <1>2, <1>3, <1>4
  DEF SearchNext, Main, PacketDiscovered, ServiceDiscovered, Expire, RangeBegins,
      RangeEnds, StopBrowsing, StopAdvertising, Tick, searchVars

LEMMA OrderStep ==
  ASSUME ScanTypeOK, LaunchedInOrder, [SearchNext]_searchVars
  PROVE  LaunchedInOrder'
<1>1. CASE UNCHANGED probe
  BY <1>1, ScanMoves DEF LaunchedInOrder, OwnPortsFirst
<1>2. ASSUME NEW t \in Probe, UNCHANGED scan, probe'[t] # "todo",
             \A u \in Probe : u # t => probe'[u] = probe[u],
             probe[t] = "todo" =>
               scan = "launch" /\ \A u \in Probe : u.pass < t.pass => probe[u] # "todo"
      PROVE  LaunchedInOrder'
  <2>1. OwnPortsFirst'
    <3>. SUFFICES ASSUME NEW v \in Probe, NEW u \in Probe, u.pass < v.pass,
                         probe'[v] # "todo", probe'[u] = "todo"
                  PROVE  FALSE
      BY DEF OwnPortsFirst
    <3>1. u # t /\ probe[u] = "todo"
      BY <1>2
    <3>2. CASE v = t
      BY <1>2, <3>1, <3>2 DEF LaunchedInOrder, OwnPortsFirst
    <3>3. CASE v # t
      BY <1>2, <3>1, <3>3 DEF LaunchedInOrder, OwnPortsFirst
    <3>. QED
      BY <3>2, <3>3
  <2>2. probe[t] = "todo" => scan = "launch"
    BY <1>2
  <2>3. scan = "off" => probe[t] = "todo"
    BY DEF LaunchedInOrder
  <2>. QED
    BY <1>2, <2>1, <2>2, <2>3 DEF LaunchedInOrder
<1>. QED
  BY <1>1, <1>2, ScanMoves

THEOREM OwnPortsFirstAlways == SearchSpec => []OwnPortsFirst
<1>1. SearchInit => LaunchedInOrder
  BY DEF SearchInit, ScanInit, LaunchedInOrder, OwnPortsFirst
<1>2. SearchInv /\ LaunchedInOrder /\ [SearchNext]_searchVars => LaunchedInOrder'
  BY OrderStep DEF SearchInv, ScanInv
<1>3. LaunchedInOrder => OwnPortsFirst
  BY DEF LaunchedInOrder
<1>. QED
  BY SearchInitial, SearchStep, <1>1, <1>2, <1>3, PTL DEF SearchSpec

----------------------------------------------------------------------------
(***************************************************************************)
(* The scan is never stuck: while it launches, a probe holds a slot and    *)
(* will give it back, or the next probe in order finds one free, or all    *)
(* are launched; while it waits, a probe is under way or all are done      *)
(* (discovery.go:231, 253-269, 287-307).                                   *)
(***************************************************************************)
NextInOrder(t) ==
  probe[t] = "todo" /\ \A u \in Probe : u.pass < t.pass => probe[u] # "todo"

ScanGoesOn ==
  /\ scan = "launch" =>
       \/ \E t \in Probe : Holding(t)
       \/ slots < Slots /\ \E t \in Probe : NextInOrder(t)
       \/ \A t \in Probe : probe[t] # "todo"
  /\ scan = "wait" =>
       \/ \E t \in Probe : Holding(t) \/ probe[t] = "report"
       \/ \A t \in Probe : probe[t] = "done"

LEMMA PassIsOneOrTwo ==
  ASSUME NEW t \in Probe
  PROVE  t.pass \in {1, 2}
BY DEF Probe, OwnProbe, SubnetProbe

(* A slot is free, or somebody holds one.                                  *)
LEMMA SlotFreeOrHeld ==
  ASSUME ScanInv
  PROVE  slots < Slots \/ \E t \in Probe : Holding(t)
<1>. SUFFICES ASSUME \A t \in Probe : ~Holding(t)
              PROVE  slots < Slots
  OBVIOUS
<1>1. {t \in Probe : Holding(t)} = {}
  OBVIOUS
<1>2. slots = 0
  BY <1>1, FS_EmptySet DEF ScanInv, SlotsHeldByProbes
<1>. QED
  BY <1>2, ScanAssumption

(* Somebody is next while somebody is left.                                *)
LEMMA SomeoneIsNext ==
  ASSUME NEW t \in Probe, probe[t] = "todo"
  PROVE  \E u \in Probe : NextInOrder(u)
<1>1. CASE \E u \in Probe : u.pass = 1 /\ probe[u] = "todo"
  BY <1>1, PassIsOneOrTwo DEF NextInOrder
<1>2. CASE \A u \in Probe : u.pass = 1 => probe[u] # "todo"
  BY <1>2, PassIsOneOrTwo DEF NextInOrder
<1>. QED
  BY <1>1, <1>2

THEOREM ScanGoesOnAlways == SearchSpec => []ScanGoesOn
<1>1. SearchInit => LaunchedInOrder
  BY DEF SearchInit, ScanInit, LaunchedInOrder, OwnPortsFirst
<1>2. SearchInv /\ LaunchedInOrder /\ [SearchNext]_searchVars => LaunchedInOrder'
  BY OrderStep DEF SearchInv, ScanInv
<1>3. ASSUME SearchInv, LaunchedInOrder PROVE ScanGoesOn
  <2>1. scan = "launch" =>
          \/ \E t \in Probe : Holding(t)
          \/ slots < Slots /\ \E t \in Probe : NextInOrder(t)
          \/ \A t \in Probe : probe[t] # "todo"
    BY <1>3, SlotFreeOrHeld, SomeoneIsNext DEF SearchInv
  <2>2. scan = "wait" =>
          \/ \E t \in Probe : Holding(t) \/ probe[t] = "report"
          \/ \A t \in Probe : probe[t] = "done"
    BY <1>3 DEF LaunchedInOrder, Holding, SearchInv, ScanInv, ScanTypeOK, ProbeStep
  <2>. QED
    BY <2>1, <2>2 DEF ScanGoesOn
<1>. QED
  BY SearchInitial, SearchStep, <1>1, <1>2, <1>3, PTL DEF SearchSpec

----------------------------------------------------------------------------
(***************************************************************************)
(* What is found is another process: one that sent a packet or registered  *)
(* a complete mDNS service under keys other than ours, or an instance that *)
(* answers at its address.  A search in one mode finds nothing by the      *)
(* means of the other, and without mDNS it registers nothing               *)
(* (main.go:79-96, 480-496; discovery.go:121-125; mdns.go:180-309).        *)
(***************************************************************************)
HeardOf == {p \in Packet : KeyOf[p] # MyKey}

Registered == {x \in Service \ Incomplete : KeyOf[x] # MyKey}

Answering == {t \in Probe : Speaks[Address(t)] # {}}

OnlyOthersFound ==
  /\ found \subseteq {AddressOf[x] : x \in HeardOf \cup Registered}
                       \cup {Address(t) : t \in Answering}
  /\ mode = "mdns" => found \subseteq {AddressOf[x] : x \in Registered}
  /\ mode = "multicast" =>
       /\ found \subseteq {AddressOf[p] : p \in HeardOf} \cup {Address(t) : t \in Answering}
       /\ ~browsing /\ ~advertising

(* A search without multicast never starts the scan.                       *)
OthersInv ==
  /\ OnlyOthersFound
  /\ mode = "mdns" => scan = "off"

LEMMA OthersStep ==
  ASSUME SearchInv, LaunchedInOrder, OthersInv, [SearchNext]_searchVars
  PROVE  OthersInv'
<1>1. UNCHANGED mode
  BY DEF SearchNext, Main, Begin, Expire, RangeBegins, RangeEnds, PacketDiscovered,
     ServiceDiscovered, ProbeAnswered, OnDiscover, ProbeRun, ScanRun, StopBrowsing,
     StopAdvertising, Tick, searchVars, mainVars
<1>2. ASSUME UNCHANGED found, mode = "mdns" => scan' = "off",
             mode = "multicast" => browsing' = browsing \/ browsing' = FALSE,
             mode = "multicast" => advertising' = advertising \/ advertising' = FALSE
      PROVE  OthersInv'
  BY <1>1, <1>2 DEF OthersInv, OnlyOthersFound
<1>3. ASSUME NEW p \in Packet, PacketDiscovered(p) PROVE OthersInv'
  <2>1. found' = found \cup {AddressOf[p]} /\ p \in HeardOf /\ mode # "mdns"
        /\ UNCHANGED <<scan, browsing, advertising>>
    BY <1>3 DEF PacketDiscovered, OnDiscover, HeardOf, Multicasts, scanVars, mdnsVars
  <2>. QED
    BY <1>1, <2>1 DEF OthersInv, OnlyOthersFound
<1>4. ASSUME NEW x \in Service, ServiceDiscovered(x) PROVE OthersInv'
  <2>1. found' = found \cup {AddressOf[x]} /\ x \in Registered /\ mode # "multicast"
        /\ UNCHANGED <<scan, browsing, advertising>>
    BY <1>4 DEF ServiceDiscovered, OnDiscover, Registered, Parses, scanVars, mdnsVars,
       OthersInv, OnlyOthersFound
  <2>. QED
    BY <1>1, <2>1 DEF OthersInv, OnlyOthersFound
<1>5. ASSUME NEW t \in Probe, ProbeAnswered(t) PROVE OthersInv'
  <2>1. found' = found \cup {Address(t)} /\ UNCHANGED <<scan, browsing, advertising>>
    BY <1>5 DEF ProbeAnswered, Respond, OnDiscover, mdnsVars
  <2>2. t \in Answering
    BY <1>5 DEF ProbeAnswered, Respond, Answering
  <2>3. probe[t] # "todo"
    BY <1>5, ScanAssumption DEF ProbeAnswered, Respond
  <2>4. mode # "mdns"
    BY <2>3 DEF OthersInv, LaunchedInOrder
  <2>. QED
    BY <1>1, <2>1, <2>2, <2>4 DEF OthersInv, OnlyOthersFound
<1>6. CASE Begin
  <2>1. mode = "mdns" => scan' = scan
    BY <1>6 DEF Begin, Multicasts, scanVars
  <2>2. mode = "multicast" => UNCHANGED <<browsing, advertising>>
    BY <1>6 DEF Begin, StartListeners, StartAdvertising, UsesMDNS
  <2>. QED
    BY <1>2, <1>6, <2>1, <2>2 DEF Begin, OthersInv
<1>7. CASE ScanRun
  BY <1>2, <1>7 DEF ScanRun, AllLaunched, Wait, mdnsVars, mainVars, OthersInv
<1>8. ASSUME NEW t \in Probe, ProbeRun(t) PROVE OthersInv'
  BY <1>2, <1>8 DEF ProbeRun, Launch, AttemptFails, Release, ReportDone, mdnsVars,
     mainVars, OthersInv
<1>9. CASE StopBrowsing \/ StopAdvertising
  BY <1>2, <1>9 DEF StopBrowsing, StopAdvertising, scanVars, mainVars, OthersInv
<1>10. CASE Expire \/ RangeBegins \/ RangeEnds \/ Tick \/ UNCHANGED searchVars
  BY <1>2, <1>10 DEF Expire, RangeBegins, RangeEnds, Tick, searchVars, scanVars, mdnsVars,
     mainVars, OthersInv
<1>. QED
  BY <1>3, <1>4, <1>5, <1>6, <1>7, <1>8, <1>9, <1>10 DEF SearchNext, Main

THEOREM OnlyOthersFoundAlways == SearchSpec => []OnlyOthersFound
<1>1. SearchInit => LaunchedInOrder /\ OthersInv
  BY DEF SearchInit, ScanInit, LaunchedInOrder, OwnPortsFirst, OthersInv, OnlyOthersFound
<1>2. SearchInv /\ LaunchedInOrder /\ OthersInv /\ [SearchNext]_searchVars
        => LaunchedInOrder' /\ OthersInv'
  BY OrderStep, OthersStep DEF SearchInv, ScanInv
<1>3. OthersInv => OnlyOthersFound
  BY DEF OthersInv
<1>. QED
  BY SearchInitial, SearchStep, <1>1, <1>2, <1>3, PTL DEF SearchSpec

=============================================================================
