---------------------- MODULE MulticastListenerProofs ----------------------
(***************************************************************************)
(* What the multicast listener guarantees for any number of sockets and    *)
(* packets, any keys and any length of the window, proved with TLAPS.      *)
(***************************************************************************)
EXTENDS MulticastListener, TLAPS

(***************************************************************************)
(* Who asks for an answer has been discovered by the goroutine that is     *)
(* about to give it.                                                       *)
(***************************************************************************)
ListenerInv ==
  /\ ListenerTypeOK
  /\ \A c \in Conn : step[c] = "announce" => held[c] \in discovered

LEMMA ListenerInitial == ListenerInit => ListenerInv
<1>. SUFFICES ASSUME ListenerInit PROVE ListenerInv
  OBVIOUS
<1>1. step \in [Conn -> Step] /\ \A c \in Conn : step[c] \in {"read", "returned"}
  BY DEF ListenerInit, Step
<1>2. lastReceived \in [DOMAIN lastReceived -> 0..clock] /\ DOMAIN lastReceived = {}
  BY DEF ListenerInit
<1>3. stamp \in [Conn -> Nat] /\ \A c \in Conn : stamp[c] <= clock
  BY DEF ListenerInit
<1>4. /\ clock \in Nat /\ ended \in BOOLEAN /\ socket \subseteq Conn
      /\ unread \in [Conn -> SUBSET Packet] /\ held \in [Conn -> Packet \cup {NoPacket}]
      /\ discovered = {} /\ announced = {}
  BY DEF ListenerInit
<1>. QED
  BY <1>1, <1>2, <1>3, <1>4 DEF ListenerTypeOK, ListenerInv

LEMMA GotoSound ==
  ASSUME ListenerTypeOK, NEW c \in Conn, NEW from, NEW to \in Step, Goto(c, from, to),
         to = "read" \/ from \notin {"read", "returned"}
  PROVE  /\ step' \in [Conn -> Step]
         /\ held' \in [Conn -> Packet \cup {NoPacket}]
         /\ \A d \in Conn : step'[d] \notin {"read", "returned"} =>
              held'[d] \in Packet /\ KeyOf[held'[d]] # MyKey
<1>1. step[c] = from /\ step' = [step EXCEPT ![c] = to]
  BY DEF Goto, At
<1>2. CASE to = "read"
  BY <1>1, <1>2 DEF Goto, Keep, ListenerTypeOK
<1>3. CASE to # "read"
  BY <1>1, <1>3 DEF Goto, Keep, ListenerTypeOK
<1>. QED
  BY <1>2, <1>3

LEMMA ReceiveSound ==
  ASSUME ListenerTypeOK, NEW c \in Conn, NEW p \in Packet, Receive(c, p)
  PROVE  ListenerTypeOK'
<1>1. unread' \in [Conn -> SUBSET Packet]
  BY DEF Receive, ListenerTypeOK
<1>2. CASE KeyOf[p] = MyKey
  BY <1>1, <1>2 DEF Receive, At, ListenerTypeOK
<1>3. CASE KeyOf[p] # MyKey
  BY <1>1, <1>3 DEF Receive, At, Step, ListenerTypeOK
<1>. QED
  BY <1>2, <1>3

LEMMA FilterSound ==
  ASSUME ListenerTypeOK, NEW c \in Conn, Filter(c)
  PROVE  ListenerTypeOK'
<1>1. PICK to \in {"read", "now"} : Goto(c, "load", to)
  BY DEF Filter
<1>2. to \in Step
  BY DEF Step
<1>. QED
  BY <1>1, <1>2, GotoSound DEF Filter, ListenerTypeOK

LEMMA ReadClockSound ==
  ASSUME ListenerTypeOK, NEW c \in Conn, ReadClock(c)
  PROVE  ListenerTypeOK'
BY DEF ReadClock, At, Step, ListenerTypeOK

LEMMA StoreSound ==
  ASSUME ListenerTypeOK, NEW c \in Conn, Store(c)
  PROVE  ListenerTypeOK'
<1>1. /\ step[c] = "store" /\ step' = [step EXCEPT ![c] = "discover"]
      /\ stamp' = [stamp EXCEPT ![c] = 0]
      /\ UNCHANGED <<clock, ended, socket, unread, held, discovered, announced>>
  BY DEF Store, At
<1>2. held[c] \in Packet /\ stamp[c] \in 0..clock
  BY <1>1 DEF ListenerTypeOK
<1>. DEFINE k == KeyOf[held[c]]
<1>3. k \in Key
  BY <1>2 DEF Key
<1>4. /\ DOMAIN lastReceived' = DOMAIN lastReceived \cup {k}
      /\ lastReceived' \in [DOMAIN lastReceived' -> 0..clock']
  BY <1>1, <1>2 DEF Store, ListenerTypeOK
<1>5. step' \in [Conn -> Step] /\ stamp' \in [Conn -> Nat]
  BY <1>1 DEF Step, ListenerTypeOK
<1>6. \A d \in Conn : stamp'[d] <= clock'
  BY <1>1 DEF ListenerTypeOK
<1>. QED
  BY <1>1, <1>3, <1>4, <1>5, <1>6 DEF ListenerTypeOK

LEMMA DiscoverSound ==
  ASSUME ListenerTypeOK, NEW c \in Conn, Discover(c)
  PROVE  ListenerTypeOK'
<1>1. PICK to \in {"read", "announce"} : Goto(c, "discover", to)
  BY DEF Discover
<1>2. to \in Step
  BY DEF Step
<1>3. held[c] \in Packet
  BY DEF Discover, Goto, At, ListenerTypeOK
<1>. QED
  BY <1>1, <1>2, <1>3, GotoSound DEF Discover, ListenerTypeOK

LEMMA AnnounceSound ==
  ASSUME ListenerInv, NEW c \in Conn, Announce(c)
  PROVE  ListenerTypeOK'
<1>1. Goto(c, "announce", "read") /\ "read" \in Step
  BY DEF Announce, Step
<1>2. held[c] \in discovered
  BY DEF Announce, Goto, At, ListenerInv
<1>. QED
  BY <1>1, <1>2, GotoSound DEF Announce, ListenerInv, ListenerTypeOK

LEMMA OtherSound ==
  ASSUME ListenerTypeOK,
         \/ ContextEnds \/ TimePasses
         \/ \E c \in Conn : CloseSocket(c) \/ ReadFails(c)
         \/ UNCHANGED listenerVars
  PROVE  ListenerTypeOK'
<1>. USE DEF ListenerTypeOK
<1>1. CASE ContextEnds
  BY <1>1 DEF ContextEnds, filterVars
<1>2. CASE TimePasses
  <2>1. clock' = clock + 1 /\ UNCHANGED <<ended, socket, filterVars>>
    BY <1>2 DEF TimePasses
  <2>2. clock' \in Nat /\ \A c \in Conn : stamp[c] <= clock'
    BY <2>1
  <2>3. lastReceived \in [DOMAIN lastReceived -> 0..clock']
    BY <2>1
  <2>. QED
    BY <2>1, <2>2, <2>3 DEF filterVars
<1>3. ASSUME NEW c \in Conn, CloseSocket(c) PROVE ListenerTypeOK'
  BY <1>3 DEF CloseSocket, filterVars
<1>4. ASSUME NEW c \in Conn, ReadFails(c) PROVE ListenerTypeOK'
  BY <1>4 DEF ReadFails, At, Step
<1>5. CASE UNCHANGED listenerVars
  BY <1>5 DEF listenerVars, filterVars
<1>. QED
  BY <1>1, <1>2, <1>3, <1>4, <1>5

LEMMA ListenerStep == ListenerInv /\ [ListenerNext]_listenerVars => ListenerInv'
<1>. SUFFICES ASSUME ListenerInv, [ListenerNext]_listenerVars PROVE ListenerInv'
  OBVIOUS
<1>1. ListenerTypeOK
  BY DEF ListenerInv
<1>2. ListenerTypeOK'
  BY <1>1, ReceiveSound, FilterSound, ReadClockSound, StoreSound, DiscoverSound,
     AnnounceSound, OtherSound DEF ListenerNext, Handle
<1>3. discovered \subseteq discovered'
  BY DEF ListenerNext, Handle, Receive, Filter, ReadClock, Store, Discover, Announce,
     ReadFails, CloseSocket, ContextEnds, TimePasses, listenerVars, filterVars
<1>4. ASSUME NEW c \in Conn, step'[c] = "announce", step[c] # "announce"
      PROVE  held'[c] = held[c] /\ held[c] \in discovered'
  <2>1. PICK d \in Conn : Discover(d)
    <3>1. ASSUME NEW d \in Conn, NEW p \in Packet, Receive(d, p) PROVE FALSE
      BY <1>1, <1>4, <3>1 DEF Receive, At, ListenerTypeOK
    <3>2. ASSUME NEW d \in Conn, Filter(d) PROVE FALSE
      BY <1>1, <1>4, <3>2 DEF Filter, Goto, At, ListenerTypeOK
    <3>3. ASSUME NEW d \in Conn, ReadClock(d) \/ Store(d) \/ ReadFails(d) PROVE FALSE
      BY <1>1, <1>4, <3>3 DEF ReadClock, Store, ReadFails, At, ListenerTypeOK
    <3>4. ASSUME NEW d \in Conn, Announce(d) PROVE FALSE
      BY <1>1, <1>4, <3>4 DEF Announce, Goto, At, ListenerTypeOK
    <3>. QED
      BY <1>4, <3>1, <3>2, <3>3, <3>4 DEF ListenerNext, Handle, CloseSocket, ContextEnds,
         TimePasses, listenerVars, filterVars
  <2>2. d = c
    BY <1>1, <1>4, <2>1 DEF Discover, Goto, At, ListenerTypeOK
  <2>3. held'[c] = held[c]
    BY <1>1, <1>4, <2>1, <2>2 DEF Discover, Goto, At, Keep, ListenerTypeOK
  <2>. QED
    BY <2>1, <2>2, <2>3 DEF Discover
<1>5. ASSUME NEW c \in Conn, step'[c] = "announce", step[c] = "announce"
      PROVE  held'[c] = held[c]
  <2>1. ASSUME NEW d \in Conn, NEW p \in Packet, Receive(d, p) PROVE held'[c] = held[c]
    BY <1>1, <1>5, <2>1 DEF Receive, At, ListenerTypeOK
  <2>2. ASSUME NEW d \in Conn, Filter(d) \/ Discover(d) \/ Announce(d)
        PROVE  held'[c] = held[c]
    <3>1. step[d] # "announce" \/ step'[d] # "announce"
      BY <1>1, <2>2 DEF Filter, Discover, Announce, Goto, At, ListenerTypeOK
    <3>. QED
      BY <1>1, <1>5, <2>2, <3>1 DEF Filter, Discover, Announce, Goto, Keep, ListenerTypeOK
  <2>. QED
    BY <2>1, <2>2 DEF ListenerNext, Handle, ReadClock, Store, ReadFails, CloseSocket,
       ContextEnds, TimePasses, listenerVars, filterVars
<1>. QED
  BY <1>2, <1>3, <1>4, <1>5 DEF ListenerInv

(***************************************************************************)
(* The variables keep their types, a goroutine that got past the filter    *)
(* has a packet of another process, no stored time lies ahead of the       *)
(* clock, and onAnnounce is called for no packet before onDiscover is.     *)
(***************************************************************************)
THEOREM ListenerTyped == ListenerSpec => []ListenerTypeOK
<1>1. ListenerInv => ListenerTypeOK
  BY DEF ListenerInv
<1>. QED
  BY ListenerInitial, ListenerStep, <1>1, PTL DEF ListenerSpec

----------------------------------------------------------------------------
(* A goroutine about to call onDiscover stays there until it does.         *)
LEMMA DeliveringStays ==
  ASSUME ListenerTypeOK, [ListenerNext]_listenerVars, NEW c \in Conn, step[c] = "discover"
  PROVE  \/ held[c] \in discovered'
         \/ step'[c] = "discover" /\ held'[c] = held[c]
<1>1. ASSUME NEW d \in Conn, NEW p \in Packet, Receive(d, p)
      PROVE  step'[c] = "discover" /\ held'[c] = held[c]
  BY <1>1 DEF Receive, At, ListenerTypeOK
<1>2. ASSUME NEW d \in Conn, Filter(d) \/ Announce(d)
      PROVE  step'[c] = "discover" /\ held'[c] = held[c]
  BY <1>2 DEF Filter, Announce, Goto, At, Keep, ListenerTypeOK
<1>3. ASSUME NEW d \in Conn, ReadClock(d) \/ Store(d) \/ ReadFails(d)
      PROVE  step'[c] = "discover" /\ held'[c] = held[c]
  BY <1>3 DEF ReadClock, Store, ReadFails, At, ListenerTypeOK
<1>4. ASSUME NEW d \in Conn, Discover(d)
      PROVE  \/ held[c] \in discovered'
             \/ step'[c] = "discover" /\ held'[c] = held[c]
  <2>1. CASE d = c
    BY <1>4, <2>1 DEF Discover
  <2>2. CASE d # c
    BY <1>4, <2>2 DEF Discover, Goto, At, Keep, ListenerTypeOK
  <2>. QED
    BY <2>1, <2>2
<1>. QED
  BY <1>1, <1>2, <1>3, <1>4 DEF ListenerNext, Handle, CloseSocket, ContextEnds, TimePasses,
     listenerVars, filterVars

(* A key is stored by a goroutine that goes on to call onDiscover.         *)
LEMMA StoredIsDelivering ==
  ASSUME ListenerTypeOK, [ListenerNext]_listenerVars, NEW k \in DOMAIN lastReceived',
         k \notin DOMAIN lastReceived
  PROVE  Delivering(k)'
<1>1. PICK c \in Conn : Store(c)
  BY DEF ListenerNext, Handle, Receive, Filter, ReadClock, Discover, Announce, ReadFails,
     CloseSocket, ContextEnds, TimePasses, listenerVars, filterVars
<1>2. step'[c] = "discover" /\ held'[c] = held[c]
  BY <1>1 DEF Store, At, ListenerTypeOK
<1>3. k = KeyOf[held[c]]
  BY <1>1 DEF Store
<1>. QED
  BY <1>2, <1>3 DEF Delivering

LEMMA DeliveredStep ==
  ASSUME ListenerTypeOK, ListenerTypeOK', FilteredIsDelivered, [ListenerNext]_listenerVars
  PROVE  FilteredIsDelivered'
<1>. SUFFICES ASSUME NEW k \in DOMAIN lastReceived'
              PROVE  Delivering(k)' \/ \E p \in discovered' : KeyOf[p] = k
  BY DEF FilteredIsDelivered
<1>1. discovered \subseteq discovered'
  BY DEF ListenerNext, Handle, Receive, Filter, ReadClock, Store, Discover, Announce,
     ReadFails, CloseSocket, ContextEnds, TimePasses, listenerVars, filterVars
<1>2. CASE k \notin DOMAIN lastReceived
  BY <1>2, StoredIsDelivering
<1>3. CASE k \in DOMAIN lastReceived
  <2>1. CASE \E p \in discovered : KeyOf[p] = k
    BY <1>1, <2>1
  <2>2. CASE Delivering(k)
    <3>1. PICK c \in Conn : step[c] = "discover" /\ KeyOf[held[c]] = k
      BY <2>2 DEF Delivering
    <3>. QED
      BY <3>1, DeliveringStays DEF Delivering
  <2>. QED
    BY <1>3, <2>1, <2>2 DEF FilteredIsDelivered
<1>. QED
  BY <1>2, <1>3

(***************************************************************************)
(* The duplicate filter never keeps a device from being discovered: of     *)
(* every key it holds a packet has been delivered or is about to be, for   *)
(* any number of goroutines between the Load and the Store                 *)
(* (discovery.go:129-145).                                                 *)
(***************************************************************************)
THEOREM FilterDelivers == ListenerSpec => []FilteredIsDelivered
<1>1. ListenerInit => FilteredIsDelivered
  BY DEF ListenerInit, FilteredIsDelivered
<1>2. ListenerInv /\ ListenerInv' /\ FilteredIsDelivered /\ [ListenerNext]_listenerVars
        => FilteredIsDelivered'
  BY DeliveredStep DEF ListenerInv
<1>. QED
  BY ListenerInitial, ListenerStep, <1>1, <1>2, PTL DEF ListenerSpec

----------------------------------------------------------------------------
(***************************************************************************)
(* Nothing of another process is lost between a socket and onDiscover:     *)
(* what was read is still being worked on, or a packet of the same device  *)
(* has been delivered; whichever goroutine dropped it as a duplicate       *)
(* (discovery.go:110-151).                                                 *)
(***************************************************************************)
AtWork(k) ==
  \E c \in Conn : step[c] \in {"load", "now", "store", "discover"} /\ KeyOf[held[c]] = k

Delivered(k) == \E q \in discovered : KeyOf[q] = k

NothingLost ==
  \A c \in Conn, p \in Packet :
    p \notin unread[c] /\ KeyOf[p] # MyKey => AtWork(KeyOf[p]) \/ Delivered(KeyOf[p])

(* A key that is worked on, or delivered, stays so.                        *)
LEMMA WorkGoesOn ==
  ASSUME ListenerTypeOK, FilteredIsDelivered, [ListenerNext]_listenerVars,
         NEW k, AtWork(k) \/ Delivered(k)
  PROVE  AtWork(k)' \/ Delivered(k)'
<1>1. discovered \subseteq discovered'
  BY DEF ListenerNext, Handle, Receive, Filter, ReadClock, Store, Discover, Announce,
     ReadFails, CloseSocket, ContextEnds, TimePasses, listenerVars, filterVars
<1>2. CASE Delivered(k)
  BY <1>1, <1>2 DEF Delivered
<1>3. CASE AtWork(k)
  <2>1. PICK c \in Conn : step[c] \in {"load", "now", "store", "discover"}
                            /\ KeyOf[held[c]] = k
    BY <1>3 DEF AtWork
  <2>2. ASSUME UNCHANGED <<step, held>> PROVE AtWork(k)'
    BY <2>1, <2>2 DEF AtWork
  <2>3. ASSUME NEW d \in Conn, d # c, UNCHANGED <<step[c], held[c]>> PROVE AtWork(k)'
    BY <2>1, <2>3 DEF AtWork
  <2>4. ASSUME NEW d \in Conn, NEW p \in Packet, Receive(d, p) PROVE AtWork(k)'
    BY <2>1, <2>3, <2>4 DEF Receive, At, ListenerTypeOK
  <2>5. ASSUME NEW d \in Conn, Filter(d) PROVE AtWork(k)' \/ Delivered(k)'
    <3>1. CASE d # c
      BY <2>3, <2>5, <3>1 DEF Filter, Goto, At, Keep, ListenerTypeOK
    <3>2. CASE d = c /\ ~Recent(k)
      <4>1. step' = [step EXCEPT ![c] = "now"] /\ held' = [held EXCEPT ![c] = held[c]]
        BY <2>1, <2>5, <3>2 DEF Filter, Goto, At, Keep
      <4>. QED
        BY <2>1, <4>1 DEF AtWork, ListenerTypeOK
    <3>3. CASE d = c /\ Recent(k)
      <4>1. Delivering(k) \/ Delivered(k)
        BY <3>3 DEF Recent, FilteredIsDelivered, Delivered
      <4>2. CASE Delivered(k)
        BY <1>1, <4>2 DEF Delivered
      <4>3. CASE Delivering(k)
        <5>1. PICK e \in Conn : step[e] = "discover" /\ KeyOf[held[e]] = k
          BY <4>3 DEF Delivering
        <5>2. e # c /\ UNCHANGED <<step[e], held[e]>>
          BY <2>5, <3>3, <5>1 DEF Filter, Goto, At, Keep, ListenerTypeOK
        <5>. QED
          BY <5>1, <5>2 DEF AtWork
      <4>. QED
        BY <4>1, <4>2, <4>3
    <3>. QED
      BY <3>1, <3>2, <3>3
  <2>6. ASSUME NEW d \in Conn, ReadClock(d) \/ Store(d) PROVE AtWork(k)'
    <3>1. UNCHANGED held /\ step'[c] \in {step[c], "store", "discover"}
      BY <2>1, <2>6 DEF ReadClock, Store, At, ListenerTypeOK
    <3>. QED
      BY <2>1, <3>1 DEF AtWork
  <2>7. ASSUME NEW d \in Conn, Discover(d) PROVE AtWork(k)' \/ Delivered(k)'
    <3>1. CASE d # c
      BY <2>3, <2>7, <3>1 DEF Discover, Goto, At, Keep, ListenerTypeOK
    <3>2. CASE d = c
      BY <2>1, <2>7, <3>2 DEF Discover, Delivered
    <3>. QED
      BY <3>1, <3>2
  <2>8. ASSUME NEW d \in Conn, Announce(d) \/ ReadFails(d) PROVE AtWork(k)'
    <3>1. d # c
      BY <2>1, <2>8 DEF Announce, ReadFails, Goto, At
    <3>. QED
      BY <2>3, <2>8, <3>1 DEF Announce, ReadFails, Goto, At, Keep, ListenerTypeOK
  <2>. QED
    BY <2>2, <2>4, <2>5, <2>6, <2>7, <2>8
    DEF ListenerNext, Handle, CloseSocket, ContextEnds, TimePasses, listenerVars, filterVars
<1>. QED
  BY <1>2, <1>3

LEMMA NothingLostStep ==
  ASSUME ListenerTypeOK, FilteredIsDelivered, NothingLost, [ListenerNext]_listenerVars
  PROVE  NothingLost'
<1>. SUFFICES ASSUME NEW c \in Conn, NEW p \in Packet, p \notin unread'[c], KeyOf[p] # MyKey
              PROVE  AtWork(KeyOf[p])' \/ Delivered(KeyOf[p])'
  BY DEF NothingLost, AtWork, Delivered
<1>1. CASE p \notin unread[c]
  BY <1>1, WorkGoesOn DEF NothingLost
<1>2. CASE p \in unread[c]
  <2>1. PICK d \in Conn, q \in Packet : Receive(d, q)
    BY <1>2 DEF ListenerNext, Handle, Filter, ReadClock, Store, Discover, Announce,
       ReadFails, CloseSocket, ContextEnds, TimePasses, listenerVars, filterVars
  <2>2. d = c /\ q = p
    BY <1>2, <2>1 DEF Receive, ListenerTypeOK
  <2>3. step'[c] = "load" /\ held'[c] = p
    BY <2>1, <2>2 DEF Receive, At, ListenerTypeOK
  <2>. QED
    BY <2>3 DEF AtWork
<1>. QED
  BY <1>1, <1>2

THEOREM NothingLostAlways == ListenerSpec => []NothingLost
<1>1. ListenerInit => NothingLost
  BY DEF ListenerInit, NothingLost
<1>2. ListenerInv /\ FilteredIsDelivered /\ NothingLost /\ [ListenerNext]_listenerVars
        => NothingLost'
  BY NothingLostStep DEF ListenerInv
<1>. QED
  BY ListenerInitial, ListenerStep, FilterDelivers, <1>1, <1>2, PTL DEF ListenerSpec

----------------------------------------------------------------------------
(***************************************************************************)
(* With one socket the filter is what its comment says, "Ignore if         *)
(* duplicate packets (same fingerprint and port) from the same device are  *)
(* received within a short period" (discovery.go:127-135): two packets of  *)
(* one device that get past it are at least Window apart.  With a second   *)
(* goroutine between the Load and the Store they need not be.              *)
(***************************************************************************)
Spaced ==
  [][\A k \in DOMAIN lastReceived :
       \/ lastReceived'[k] = lastReceived[k]
       \/ lastReceived'[k] - lastReceived[k] >= Window]_listenerVars

(* A goroutine past the filter has found no recent packet of its key.      *)
PassedIsNew(c) ==
  LET k == KeyOf[held[c]] IN
  /\ step[c] = "now" /\ k \in DOMAIN lastReceived => clock - lastReceived[k] >= Window
  /\ step[c] = "store" /\ k \in DOMAIN lastReceived => stamp[c] - lastReceived[k] >= Window

LEMMA PassedStep ==
  ASSUME ListenerTypeOK, NEW c, Conn = {c}, PassedIsNew(c), [ListenerNext]_listenerVars
  PROVE  PassedIsNew(c)'
<1>. DEFINE k == KeyOf[held[c]]
<1>1. /\ clock \in Nat /\ stamp[c] \in Nat
      /\ \A x \in DOMAIN lastReceived : lastReceived[x] \in Nat
  BY DEF ListenerTypeOK
<1>2. ASSUME NEW p \in Packet, Receive(c, p) PROVE PassedIsNew(c)'
  BY <1>2 DEF Receive, At, PassedIsNew, ListenerTypeOK
<1>3. CASE Filter(c)
  <2>1. CASE Recent(k)
    BY <1>3, <2>1 DEF Filter, Goto, At, PassedIsNew, ListenerTypeOK
  <2>2. CASE ~Recent(k)
    <3>1. UNCHANGED <<clock, stamp, lastReceived>>
          /\ step'[c] = "now" /\ held'[c] = held[c]
      BY <1>3, <2>2 DEF Filter, Goto, At, Keep, ListenerTypeOK
    <3>2. k \in DOMAIN lastReceived => clock - lastReceived[k] >= Window
      BY <1>1, <2>2, ListenerAssumption DEF Recent
    <3>. QED
      BY <3>1, <3>2 DEF PassedIsNew
  <2>. QED
    BY <2>1, <2>2
<1>4. CASE ReadClock(c)
  <2>1. /\ step[c] = "now" /\ step'[c] = "store" /\ stamp'[c] = clock
        /\ UNCHANGED <<clock, held, lastReceived>>
    BY <1>4 DEF ReadClock, At, ListenerTypeOK
  <2>. QED
    BY <2>1 DEF PassedIsNew
<1>5. CASE Store(c) \/ Discover(c) \/ Announce(c) \/ ReadFails(c)
  <2>1. step'[c] \notin {"now", "store"}
    BY <1>5 DEF Store, Discover, Announce, ReadFails, Goto, At, ListenerTypeOK
  <2>. QED
    BY <2>1 DEF PassedIsNew
<1>6. CASE TimePasses
  <2>1. clock' = clock + 1 /\ UNCHANGED <<step, held, stamp, lastReceived>>
    BY <1>6 DEF TimePasses, filterVars
  <2>2. \A x \in DOMAIN lastReceived :
          clock - lastReceived[x] >= Window => clock' - lastReceived[x] >= Window
    BY <1>1, <2>1, ListenerAssumption
  <2>. QED
    BY <2>1, <2>2 DEF PassedIsNew
<1>7. CASE UNCHANGED <<clock, step, held, stamp, lastReceived>>
  BY <1>7 DEF PassedIsNew
<1>. QED
  BY <1>2, <1>3, <1>4, <1>5, <1>6, <1>7
  DEF ListenerNext, Handle, CloseSocket, ContextEnds, listenerVars, filterVars

THEOREM SpacedWithOneSocket ==
  ASSUME NEW c, Conn = {c}
  PROVE  ListenerSpec => Spaced
<1>1. ListenerInit => PassedIsNew(c)
  <2>. SUFFICES ASSUME ListenerInit PROVE PassedIsNew(c)
    OBVIOUS
  <2>1. step[c] \in {"read", "returned"}
    BY DEF ListenerInit
  <2>. QED
    BY <2>1 DEF PassedIsNew
<1>2. ListenerInv /\ PassedIsNew(c) /\ [ListenerNext]_listenerVars => PassedIsNew(c)'
  BY PassedStep DEF ListenerInv
<1>3. ASSUME ListenerTypeOK, PassedIsNew(c), ListenerNext, NEW k \in DOMAIN lastReceived
      PROVE  \/ lastReceived'[k] = lastReceived[k]
             \/ lastReceived'[k] - lastReceived[k] >= Window
  <2>1. CASE Store(c)
    <3>1. /\ step[c] = "store"
          /\ lastReceived'[k] = IF k = KeyOf[held[c]] THEN stamp[c] ELSE lastReceived[k]
      BY <2>1 DEF Store, At
    <3>. QED
      BY <1>3, <3>1 DEF PassedIsNew
  <2>2. CASE ~Store(c)
    BY <1>3, <2>2 DEF ListenerNext, Handle, Receive, Filter, ReadClock, Discover, Announce,
       ReadFails, CloseSocket, ContextEnds, TimePasses, filterVars
  <2>. QED
    BY <2>1, <2>2
<1>4. ListenerInv /\ PassedIsNew(c) /\ [ListenerNext]_listenerVars =>
        [\A k \in DOMAIN lastReceived :
           \/ lastReceived'[k] = lastReceived[k]
           \/ lastReceived'[k] - lastReceived[k] >= Window]_listenerVars
  BY <1>3 DEF ListenerInv
<1>. QED
  BY ListenerInitial, ListenerStep, <1>1, <1>2, <1>4, PTL DEF ListenerSpec, Spaced

----------------------------------------------------------------------------
(***************************************************************************)
(* onAnnounce is called only for a packet that asks for an answer, after   *)
(* onDiscover was called for it, and neither is ever called for a packet   *)
(* of this process (discovery.go:121-125, 145-151).                        *)
(***************************************************************************)
AnswersAreAskedFor ==
  /\ announced \subseteq Asking \cap discovered
  /\ \A p \in discovered : KeyOf[p] # MyKey
  /\ MyKey \notin DOMAIN lastReceived

AskedInv ==
  /\ AnswersAreAskedFor
  /\ \A c \in Conn : step[c] = "announce" => held[c] \in Asking

LEMMA AskedStep ==
  ASSUME ListenerInv, AskedInv, [ListenerNext]_listenerVars
  PROVE  AskedInv'
<1>1. ListenerTypeOK
  BY DEF ListenerInv
<1>2. ASSUME UNCHANGED <<lastReceived, discovered, announced>>,
             \A c \in Conn : step'[c] = "announce" =>
               step[c] = "announce" /\ held'[c] = held[c]
      PROVE  AskedInv'
  BY <1>2 DEF AskedInv, AnswersAreAskedFor
<1>3. ASSUME NEW c \in Conn, NEW p \in Packet, Receive(c, p) PROVE AskedInv'
  BY <1>1, <1>2, <1>3 DEF Receive, At, ListenerTypeOK
<1>4. ASSUME NEW c \in Conn, Filter(c) \/ ReadClock(c) \/ ReadFails(c) PROVE AskedInv'
  BY <1>1, <1>2, <1>4 DEF Filter, ReadClock, ReadFails, Goto, At, Keep, ListenerTypeOK
<1>5. ASSUME NEW c \in Conn, Store(c) PROVE AskedInv'
  <2>1. /\ KeyOf[held[c]] # MyKey
        /\ DOMAIN lastReceived' = DOMAIN lastReceived \cup {KeyOf[held[c]]}
        /\ UNCHANGED <<discovered, announced, held>>
    BY <1>1, <1>5 DEF Store, At, ListenerTypeOK
  <2>2. \A d \in Conn : step'[d] = "announce" => step[d] = "announce"
    BY <1>1, <1>5 DEF Store, At, ListenerTypeOK
  <2>. QED
    BY <2>1, <2>2 DEF AskedInv, AnswersAreAskedFor
<1>6. ASSUME NEW c \in Conn, Discover(c) PROVE AskedInv'
  <2>1. /\ KeyOf[held[c]] # MyKey
        /\ discovered' = discovered \cup {held[c]}
        /\ UNCHANGED <<lastReceived, announced>>
    BY <1>1, <1>6 DEF Discover, Goto, At, ListenerTypeOK
  <2>2. /\ step'[c] = "announce" => held[c] \in Asking /\ held'[c] = held[c]
        /\ \A d \in Conn \ {c} : step'[d] = step[d] /\ held'[d] = held[d]
    BY <1>1, <1>6 DEF Discover, Goto, At, Keep, ListenerTypeOK
  <2>. QED
    BY <2>1, <2>2 DEF AskedInv, AnswersAreAskedFor
<1>7. ASSUME NEW c \in Conn, Announce(c) PROVE AskedInv'
  <2>1. /\ announced' = announced \cup {held[c]}
        /\ held[c] \in Asking /\ held[c] \in discovered
        /\ UNCHANGED <<lastReceived, discovered>>
    BY <1>7 DEF Announce, Goto, At, AskedInv, ListenerInv
  <2>2. /\ step'[c] = "read"
        /\ \A d \in Conn \ {c} : step'[d] = step[d] /\ held'[d] = held[d]
    BY <1>1, <1>7 DEF Announce, Goto, At, Keep, ListenerTypeOK
  <2>. QED
    BY <2>1, <2>2 DEF AskedInv, AnswersAreAskedFor
<1>8. CASE UNCHANGED filterVars
  BY <1>2, <1>8 DEF filterVars
<1>. QED
  BY <1>3, <1>4, <1>5, <1>6, <1>7, <1>8
  DEF ListenerNext, Handle, CloseSocket, ContextEnds, TimePasses, listenerVars

THEOREM AnswersAreAskedForAlways == ListenerSpec => []AnswersAreAskedFor
<1>1. ListenerInit => AskedInv
  BY DEF ListenerInit, AskedInv, AnswersAreAskedFor
<1>2. ListenerInv /\ AskedInv /\ [ListenerNext]_listenerVars => AskedInv'
  BY AskedStep
<1>3. AskedInv => AnswersAreAskedFor
  BY DEF AskedInv
<1>. QED
  BY ListenerInitial, ListenerStep, <1>1, <1>2, <1>3, PTL DEF ListenerSpec

=============================================================================
