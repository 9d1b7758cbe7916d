------------------------- MODULE MulticastListener -------------------------
(***************************************************************************)
(* The goroutines StartMulticastListener starts, one for each socket that  *)
(* joined the group, and the map of recent packets they share              *)
(* (src/pkg/discovery/discovery.go).                                       *)
(*                                                                         *)
(* A packet sent to the group reaches each socket at most once, at any     *)
(* time or never.  The map is a sync.Map: its Load and its Store are       *)
(* atomic, the filter made of them is not, and the time a goroutine stores *)
(* is read before the Store.                                               *)
(***************************************************************************)
EXTENDS Integers, FiniteSets

CONSTANTS
  Conn,     \* the sockets
  Packet,   \* the packets that are sent to the group
  KeyOf,    \* the fingerprint and port a packet carries
  MyKey,    \* those of the process that listens
  Asking,   \* the packets with announce = true and a port other than 0
  Window,   \* for how long packets of one key are duplicates
  MaxClock  \* bound on the clock

Key == {KeyOf[p] : p \in Packet} \cup {MyKey}

ASSUME ListenerAssumption ==
  /\ Packet \subseteq DOMAIN KeyOf
  /\ Asking \subseteq Packet
  /\ Window \in Nat /\ MaxClock \in Nat

VARIABLES
  clock,         \* the time
  ended,         \* the listener's context is done
  socket,        \* the sockets that are open
  step,          \* where the goroutine of each socket is
  unread,        \* the packets each socket has yet to read, if ever
  held,          \* the packet each goroutine works on
  stamp,         \* the time it has read, to store
  lastReceived,  \* the map: a function on the keys stored so far
  discovered,    \* the packets passed to onDiscover
  announced      \* the packets passed to onAnnounce

filterVars == <<step, unread, held, stamp, lastReceived, discovered, announced>>
listenerVars == <<clock, ended, socket, filterVars>>

NoPacket == "no packet"

Step == {"read", "load", "now", "store", "discover", "announce", "returned"}

(* A goroutine that got past the filter has a packet of another process.   *)
ListenerTypeOK ==
  /\ clock \in Nat /\ ended \in BOOLEAN
  /\ socket \subseteq Conn
  /\ step \in [Conn -> Step]
  /\ unread \in [Conn -> SUBSET Packet]
  /\ held \in [Conn -> Packet \cup {NoPacket}]
  /\ \A c \in Conn : step[c] \notin {"read", "returned"} =>
       held[c] \in Packet /\ KeyOf[held[c]] # MyKey
  /\ stamp \in [Conn -> Nat]
  /\ \A c \in Conn : stamp[c] <= clock
  /\ lastReceived \in [DOMAIN lastReceived -> 0..clock]
  /\ DOMAIN lastReceived \subseteq Key
  /\ discovered \subseteq Packet /\ announced \subseteq discovered

(* Any sockets may have joined the group, or none.                         *)
ListenerInit ==
  /\ clock = 0 /\ ended = FALSE
  /\ socket \in SUBSET Conn
  /\ step = [c \in Conn |-> IF c \in socket THEN "read" ELSE "returned"]
  /\ unread = [c \in Conn |-> Packet]
  /\ held = [c \in Conn |-> NoPacket]
  /\ stamp = [c \in Conn |-> 0]
  /\ lastReceived = [k \in {} |-> 0]
  /\ discovered = {} /\ announced = {}

----------------------------------------------------------------------------
At(c, from, to) == step[c] = from /\ step' = [step EXCEPT ![c] = to]

(* What a goroutine holds when it goes on; nothing when it reads again.    *)
Keep(c, to) == held' = [held EXCEPT ![c] = IF to = "read" THEN NoPacket ELSE @]

Goto(c, from, to) == At(c, from, to) /\ Keep(c, to)

(* Mutant of Receive: the process's own packets are taken for another's.   *)
ReceiveOwn(c, p) ==
  /\ c \in socket
  /\ p \in unread[c]
  /\ unread' = [unread EXCEPT ![c] = @ \ {p}]
  /\ At(c, "read", "load") /\ held' = [held EXCEPT ![c] = p]
  /\ UNCHANGED <<clock, ended, socket, stamp, lastReceived, discovered, announced>>

(* The process's own packets, and those that do not decode, are dropped.   *)
Receive(c, p) ==
  /\ c \in socket
  /\ p \in unread[c]
  /\ unread' = [unread EXCEPT ![c] = @ \ {p}]
  /\ IF KeyOf[p] = MyKey THEN At(c, "read", "read") /\ UNCHANGED held
     ELSE At(c, "read", "load") /\ held' = [held EXCEPT ![c] = p]
  /\ UNCHANGED <<clock, ended, socket, stamp, lastReceived, discovered, announced>>

Recent(k) == k \in DOMAIN lastReceived /\ clock - lastReceived[k] < Window

(* Mutant of Filter: stored before it is looked up, so always found.       *)
FilterAfterStore(c) ==
  LET k == KeyOf[held[c]] IN
  /\ Goto(c, "load", "read")
  /\ lastReceived' = [x \in DOMAIN lastReceived \cup {k} |->
                        IF x = k THEN clock ELSE lastReceived[x]]
  /\ UNCHANGED <<clock, ended, socket, unread, stamp, discovered, announced>>

Filter(c) ==
  /\ Goto(c, "load", IF Recent(KeyOf[held[c]]) THEN "read" ELSE "now")
  /\ UNCHANGED <<clock, ended, socket, unread, stamp, lastReceived, discovered, announced>>

ReadClock(c) ==
  /\ At(c, "now", "store")
  /\ stamp' = [stamp EXCEPT ![c] = clock]
  /\ UNCHANGED <<clock, ended, socket, unread, held, lastReceived, discovered, announced>>

Store(c) ==
  LET k == KeyOf[held[c]] IN
  /\ At(c, "store", "discover")
  /\ stamp' = [stamp EXCEPT ![c] = 0]
  /\ lastReceived' = [x \in DOMAIN lastReceived \cup {k} |->
                        IF x = k THEN stamp[c] ELSE lastReceived[x]]
  /\ UNCHANGED <<clock, ended, socket, unread, held, discovered, announced>>

Discover(c) ==
  /\ Goto(c, "discover", IF held[c] \in Asking THEN "announce" ELSE "read")
  /\ discovered' = discovered \cup {held[c]}
  /\ UNCHANGED <<clock, ended, socket, unread, stamp, lastReceived, announced>>

Announce(c) ==
  /\ Goto(c, "announce", "read")
  /\ announced' = announced \cup {held[c]}
  /\ UNCHANGED <<clock, ended, socket, unread, stamp, lastReceived, discovered>>

(* The goroutine that waits for the context closes one socket after the    *)
(* other; a goroutine in ReadFrom returns with the error.                  *)
ContextEnds ==
  /\ ~ended
  /\ ended' = TRUE
  /\ UNCHANGED <<clock, socket, filterVars>>

CloseSocket(c) ==
  /\ ended
  /\ c \in socket
  /\ socket' = socket \ {c}
  /\ UNCHANGED <<clock, ended, filterVars>>

(* Mutant of ReadFails: the loop goes on after an error.                   *)
ReadFailsContinues(c) ==
  /\ c \notin socket
  /\ At(c, "read", "read")
  /\ UNCHANGED <<clock, ended, socket, unread, held, stamp, lastReceived, discovered,
                 announced>>

ReadFails(c) ==
  /\ c \notin socket
  /\ At(c, "read", "returned")
  /\ UNCHANGED <<clock, ended, socket, unread, held, stamp, lastReceived, discovered,
                 announced>>

TimePasses ==
  /\ clock < MaxClock
  /\ clock' = clock + 1
  /\ UNCHANGED <<ended, socket, filterVars>>

Handle(c) ==
  \/ Filter(c) \/ ReadClock(c) \/ Store(c)
  \/ Discover(c) \/ Announce(c)
  \/ ReadFails(c)

ListenerNext ==
  \/ \E c \in Conn, p \in Packet : Receive(c, p)
  \/ \E c \in Conn : Handle(c) \/ CloseSocket(c)
  \/ ContextEnds \/ TimePasses

(***************************************************************************)
(* Goroutines run.  Packets need not come, nor the context end.            *)
(***************************************************************************)
ListenerSpec ==
  /\ ListenerInit
  /\ [][ListenerNext]_listenerVars
  /\ \A c \in Conn :
       WF_listenerVars(Handle(c)) /\ WF_listenerVars(CloseSocket(c))

----------------------------------------------------------------------------
(***************************************************************************)
(* The filter drops a packet only in favour of one that is delivered: a    *)
(* device whose key is in the map has been discovered, or a goroutine that *)
(* got past the filter is about to (discovery.go:129-145, with a Load, a   *)
(* Store and a callback of several goroutines interleaved).                *)
(***************************************************************************)
Delivering(k) ==
  \E c \in Conn : step[c] = "discover" /\ KeyOf[held[c]] = k

FilteredIsDelivered ==
  \A k \in DOMAIN lastReceived :
    Delivering(k) \/ \E p \in discovered : KeyOf[p] = k

(***************************************************************************)
(* A device of which a packet was read is discovered, also when the packet *)
(* was taken for a duplicate and the sockets are closed meanwhile; and if  *)
(* the packet that got past the filter asks for an answer, onAnnounce is   *)
(* called (discovery.go:129-151).                                          *)
(***************************************************************************)
HeardIsDiscovered ==
  \A p \in Packet :
    (\E c \in Conn : p \notin unread[c] /\ KeyOf[p] # MyKey)
      ~> \E q \in discovered :
           KeyOf[q] = KeyOf[p] /\ (q \in Asking => q \in announced)

(***************************************************************************)
(* Once the context has ended no goroutine of the listener stays, also one *)
(* that was in a callback or at the filter (discovery.go:110-114, 212-217).*)
(***************************************************************************)
ListenerStops ==
  ended ~> socket = {} /\ \A c \in Conn : step[c] = "returned"

=============================================================================
