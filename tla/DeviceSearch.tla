---------------------------- MODULE DeviceSearch ----------------------------
(***************************************************************************)
(* The search of the scan command, and of the send command without a       *)
(* target (src/cmd/localsend/main.go): the multicast listener, the mDNS    *)
(* browser and the subnet scan report devices into one map until the       *)
(* deadline, and the command lists what is in the map.                     *)
(*                                                                         *)
(* The context that ends the search is what stops the goroutines.  Those   *)
(* of a scan command end with the process; those of a send command go on   *)
(* beside the transfer.  The listener is that of MulticastListener: here   *)
(* it reports any packet of another process, at any time or never.         *)
(***************************************************************************)
EXTENDS LegacyScan

CONSTANTS
  Packet,      \* the packets sent to the multicast group
  Service,     \* what the mDNS library may report
  Incomplete,  \* the services with no fingerprint or no alias in their TXT
  KeyOf,       \* the fingerprint and port of a packet's or service's device
  MyKey,       \* those of this process, which has port 0
  AddressOf,   \* <<ip, port>> of a packet's or a service's device
  Deadline,    \* when the context expires
  MaxClock     \* bound on the clock

ASSUME SearchAssumption ==
  /\ Incomplete \subseteq Service
  /\ Packet \cup Service \subseteq DOMAIN KeyOf \cap DOMAIN AddressOf
  /\ Deadline \in Nat /\ MaxClock \in Nat /\ Deadline <= MaxClock

VARIABLES
  clock,        \* the time
  mode,         \* the discovery mode
  browsing,     \* the mDNS browser is up
  advertising,  \* the mDNS service is registered
  phase,        \* where the command is
  expired,      \* the context is done
  found,        \* the keys of the map of devices
  intime,       \* what it held when the context expired (recorded only)
  list          \* the devices listed

mdnsVars == <<browsing, advertising>>
mainVars == <<mode, phase, expired, found, intime, list>>
searchVars == <<clock, scanVars, mdnsVars, mainVars>>

Multicasts == mode \in {"hybrid", "multicast"}
UsesMDNS == mode \in {"hybrid", "mdns"}

(* "none" is a search that exits with status 2, all others exit with 0.    *)
Exited == phase \in {"listed", "json", "none"}

Devices == {Address(t) : t \in Probe} \cup {AddressOf[x] : x \in Packet \cup Service}

SearchTypeOK ==
  /\ ScanTypeOK
  /\ clock \in Nat
  /\ mode \in {"hybrid", "multicast", "mdns"}
  /\ browsing \in BOOLEAN /\ advertising \in BOOLEAN
  /\ phase \in {"start", "search", "range", "choose", "listed", "json", "none"}
  /\ expired \in BOOLEAN
  /\ found \subseteq Devices /\ intime \subseteq found /\ list \subseteq found

SearchInit ==
  /\ ScanInit
  /\ clock = 0
  /\ mode \in {"hybrid", "multicast", "mdns"}
  /\ browsing = FALSE /\ advertising = FALSE
  /\ phase = "start"
  /\ expired = FALSE
  /\ found = {} /\ intime = {} /\ list = {}

----------------------------------------------------------------------------
(***************************************************************************)
(* What does not start is left out, the errors of both calls ignored (a    *)
(* listener that is not up reports nothing).  The scan is over at once     *)
(* when the addresses of the host are not known.                           *)
(***************************************************************************)
StartListeners ==
  IF UsesMDNS THEN browsing' \in BOOLEAN ELSE UNCHANGED browsing

StartAdvertising ==
  IF UsesMDNS THEN advertising' \in BOOLEAN ELSE UNCHANGED advertising

Begin ==
  /\ phase = "start"
  /\ phase' = "search"
  /\ StartListeners
  /\ StartAdvertising
  /\ (Multicasts /\ StartScan) \/ UNCHANGED scanVars
  /\ UNCHANGED <<clock, mode, expired, found, intime, list>>

(* The process's own packets and services are not reported.                *)
OnDiscover(address) ==
  /\ found' = found \cup {address}
  /\ UNCHANGED <<clock, mode, mdnsVars, phase, expired, intime, list>>

(* A goroutine of the listener may be late, the context done by now.       *)
PacketDiscovered(p) ==
  /\ Multicasts /\ phase # "start"
  /\ KeyOf[p] # MyKey
  /\ OnDiscover(AddressOf[p])
  /\ UNCHANGED scanVars

(* A service without a fingerprint or an alias parses as no device.        *)
Parses(x) == x \notin Incomplete

ServiceDiscovered(x) ==
  /\ browsing
  /\ Parses(x)
  /\ KeyOf[x] # MyKey
  /\ OnDiscover(AddressOf[x])
  /\ UNCHANGED scanVars

(* A request made after the end of the context is not sent.                *)
ProbeAnswered(t) ==
  /\ since[t] <= Deadline
  /\ Respond(t)
  /\ OnDiscover(Address(t))

ProbeRun(t) ==
  /\ \/ Launch(t, clock) \/ AttemptFails(t, clock)
     \/ Release(t) \/ ReportDone(t)
  /\ UNCHANGED <<clock, mdnsVars, mainVars>>

ScanRun == (AllLaunched \/ Wait) /\ UNCHANGED <<clock, mdnsVars, mainVars>>

(* Mutant of StopAdvertising: the closer nobody kept is not closed.        *)
StopNothing == FALSE

(* The closers of StartMDNSListener and RegisterMDNSService.               *)
StopAdvertising ==
  /\ expired /\ advertising
  /\ advertising' = FALSE
  /\ UNCHANGED <<clock, scanVars, browsing, mainVars>>

StopBrowsing ==
  /\ expired /\ browsing
  /\ browsing' = FALSE
  /\ UNCHANGED <<clock, scanVars, advertising, mainVars>>

(* The client's timer ends an attempt before time passes on.               *)
Tick ==
  /\ clock < IF expired THEN MaxClock ELSE Deadline
  /\ \A t \in Probe : probe[t] \in {"https", "http"} => since[t] = clock
  /\ clock' = clock + 1
  /\ UNCHANGED <<scanVars, mdnsVars, mainVars>>

(* Mutant of Expire: the search goes on until a device is found.           *)
ExpireWhenFound ==
  /\ ~expired
  /\ clock >= Deadline
  /\ found # {}
  /\ expired' = TRUE
  /\ intime' = found
  /\ UNCHANGED <<clock, scanVars, mdnsVars, mode, phase, found, list>>

Expire ==
  /\ ~expired
  /\ clock >= Deadline
  /\ expired' = TRUE
  /\ intime' = found
  /\ UNCHANGED <<clock, scanVars, mdnsVars, mode, phase, found, list>>

(* Mutant of RangeBegins: the deadline is not waited for.                  *)
RangeBeginsEarly ==
  /\ phase = "search"
  /\ phase' = "range"
  /\ list' = found
  /\ UNCHANGED <<clock, scanVars, mdnsVars, mode, expired, found, intime>>

(* Range meets every key stored before it began, and any stored meanwhile. *)
RangeBegins ==
  /\ phase = "search"
  /\ expired
  /\ phase' = "range"
  /\ list' = found
  /\ UNCHANGED <<clock, scanVars, mdnsVars, mode, expired, found, intime>>

(* scan --json lists what there is; scan and send give up when there is    *)
(* nothing, and a send lets its user choose.                               *)
RangeEnds ==
  /\ phase = "range"
  /\ \E extra \in SUBSET (found \ list) : list' = list \cup extra
  /\ \/ phase' = "json"
     \/ phase' = IF list' = {} THEN "none" ELSE "listed"
     \/ phase' = IF list' = {} THEN "none" ELSE "choose"
  /\ UNCHANGED <<clock, scanVars, mdnsVars, mode, expired, found, intime>>

Main == Begin \/ Expire \/ RangeBegins \/ RangeEnds

SearchNext ==
  /\ ~Exited
  /\ \/ Main
     \/ \E p \in Packet : PacketDiscovered(p)
     \/ \E x \in Service : ServiceDiscovered(x)
     \/ \E t \in Probe : ProbeAnswered(t) \/ ProbeRun(t)
     \/ ScanRun
     \/ StopBrowsing \/ StopAdvertising
     \/ Tick

(***************************************************************************)
(* Goroutines that can run do, and timers fire.  Packets, answers and mDNS *)
(* reports need never come.                                                *)
(***************************************************************************)
Running(A) == ~Exited /\ A

SearchFairness ==
  /\ WF_searchVars(Running(Main))
  /\ WF_searchVars(Running(Tick))
  /\ WF_searchVars(Running(StopBrowsing)) /\ WF_searchVars(Running(StopAdvertising))
  /\ WF_searchVars(Running(ScanRun))
  /\ \A t \in Probe : WF_searchVars(Running(ProbeRun(t)))

SearchSpec == SearchInit /\ [][SearchNext]_searchVars /\ SearchFairness

----------------------------------------------------------------------------
(***************************************************************************)
(* The list holds every device reported before the deadline, whatever is   *)
(* reported while it is made, and the "not found" status means there was   *)
(* none (main.go:98-116, 502-514).                                         *)
(***************************************************************************)
FoundInTimeIsListed ==
  phase \in {"choose", "listed", "json", "none"} =>
    intime \subseteq list /\ (phase = "none" => intime = {})

(***************************************************************************)
(* A search ends, whatever answers and whatever does not.                  *)
(***************************************************************************)
SearchEnds == phase = "start" ~> Exited \/ phase = "choose"

(***************************************************************************)
(* A send that goes on with a device leaves nothing of the search running: *)
(* mDNS closed, the scan and all its probes over, whatever they waited for *)
(* (docs/architecture.md:92, "avoiding goroutine leaks").                  *)
(***************************************************************************)
SearchReleased ==
  phase = "choose" ~>
    /\ ~browsing /\ ~advertising
    /\ scan = "off" \/ \A t \in Probe : probe[t] = "done"

=============================================================================
