----------------------------- MODULE LegacyScan -----------------------------
(***************************************************************************)
(* ScanLegacy and scanHost (src/pkg/discovery/discovery.go): a register    *)
(* request to every address of the subnets of this host, and to the ports  *)
(* other instances on this host may have.                                  *)
(*                                                                         *)
(* One goroutine launches a probe for each target, another goroutine that  *)
(* takes one of a few slots, tries https and then http, gives the slot     *)
(* back, and reports that it is done.  The clock is the listener's, in     *)
(* units of HostTimeout.                                                   *)
(***************************************************************************)
EXTENDS Integers, FiniteSets

CONSTANTS
  LocalIP,      \* the addresses of this host
  Loopback,     \* 127.0.0.1
  Subnet,       \* the addresses in the subnet of each of LocalIP
  Port,         \* the ports instances may have: DefaultPort and nine more
  DefaultPort,
  MyPort,       \* the port of the scanning process, 0 when it has none
  MyNamed,      \* it has a fingerprint
  Slots,        \* how many probes may be under way
  Speaks        \* the protocols an instance answers with at <<ip, port>>

(* One record for each request of the loops, in the order of the passes.   *)
OwnProbe ==
  {[pass |-> 1, from |-> ip, ip |-> ip, port |-> p] :
     ip \in LocalIP \cup {Loopback},
     p \in {q \in Port : ~(MyNamed /\ q = MyPort)}}

SubnetProbe ==
  UNION {{[pass |-> 2, from |-> local, ip |-> ip, port |-> DefaultPort] :
            ip \in Subnet[local] \ LocalIP} : local \in LocalIP}

Probe == OwnProbe \cup SubnetProbe

Address(t) == <<t.ip, t.port>>

ASSUME ScanAssumption ==
  /\ Slots \in Nat \ {0}
  /\ IsFiniteSet(Probe)
  /\ DefaultPort \in Port
  /\ \A t \in Probe : Speaks[Address(t)] \subseteq {"https", "http"}

VARIABLES
  scan,     \* where the scanning goroutine is
  probe,    \* where each probe is
  since,    \* when its request was made, 0 when none is under way
  slots     \* how many slots are taken

scanVars == <<scan, probe, since, slots>>

ProbeStep == {"todo", "https", "http", "release", "report", "done"}

Holding(t) == probe[t] \in {"https", "http", "release"}

ScanTypeOK ==
  /\ scan \in {"off", "launch", "wait", "returned"}
  /\ probe \in [Probe -> ProbeStep]
  /\ since \in [Probe -> Nat]
  /\ slots \in 0..Slots

ScanInit ==
  /\ scan = "off"
  /\ probe = [t \in Probe |-> "todo"]
  /\ since = [t \in Probe |-> 0]
  /\ slots = 0

----------------------------------------------------------------------------
StartScan ==
  /\ scan = "off"
  /\ scan' = "launch"
  /\ UNCHANGED <<probe, since, slots>>

(* Mutant of Launch: no slot is waited for.                                *)
LaunchAtOnce(t, time) ==
  /\ scan = "launch"
  /\ probe[t] = "todo"
  /\ slots' = slots + 1
  /\ probe' = [probe EXCEPT ![t] = "https"]
  /\ since' = [since EXCEPT ![t] = time]
  /\ UNCHANGED scan

(* Every own port comes before any other address, else the order is free.  *)
Launch(t, time) ==
  /\ scan = "launch"
  /\ probe[t] = "todo"
  /\ \A u \in Probe : u.pass < t.pass => probe[u] # "todo"
  /\ slots < Slots
  /\ slots' = slots + 1
  /\ probe' = [probe EXCEPT ![t] = "https"]
  /\ since' = [since EXCEPT ![t] = time]
  /\ UNCHANGED scan

(* 200 and a body that decodes: the device is reported, the loop left.     *)
Respond(t) ==
  /\ probe[t] \in Speaks[Address(t)]
  /\ probe' = [probe EXCEPT ![t] = "release"]
  /\ since' = [since EXCEPT ![t] = 0]
  /\ UNCHANGED <<scan, slots>>

(* No answer, another status, another body, the timeout, or the end of the *)
(* context: https is followed by http, with a timeout of its own.          *)
AttemptFails(t, time) ==
  /\ \/ /\ probe[t] = "https"
        /\ probe' = [probe EXCEPT ![t] = "http"]
        /\ since' = [since EXCEPT ![t] = time]
     \/ /\ probe[t] = "http"
        /\ probe' = [probe EXCEPT ![t] = "release"]
        /\ since' = [since EXCEPT ![t] = 0]
  /\ UNCHANGED <<scan, slots>>

Release(t) ==
  /\ probe[t] = "release"
  /\ slots' = slots - 1
  /\ probe' = [probe EXCEPT ![t] = "report"]
  /\ UNCHANGED <<scan, since>>

ReportDone(t) ==
  /\ probe[t] = "report"
  /\ probe' = [probe EXCEPT ![t] = "done"]
  /\ UNCHANGED <<scan, since, slots>>

AllLaunched ==
  /\ scan = "launch"
  /\ \A t \in Probe : probe[t] # "todo"
  /\ scan' = "wait"
  /\ UNCHANGED <<probe, since, slots>>

(* Mutant of Wait: the slots are waited for, not the probes.               *)
WaitForSlots ==
  /\ scan = "wait"
  /\ slots = 0
  /\ scan' = "returned"
  /\ UNCHANGED <<probe, since, slots>>

Wait ==
  /\ scan = "wait"
  /\ \A t \in Probe : probe[t] = "done"
  /\ scan' = "returned"
  /\ UNCHANGED <<probe, since, slots>>

----------------------------------------------------------------------------
(***************************************************************************)
(* The slots taken are those of the probes under way, so that at most      *)
(* Slots requests are, and when the scan has returned every target has     *)
(* been tried and no goroutine of the scan is left (discovery.go:231,      *)
(* 253-269, 287-307; docs/architecture.md:92).                             *)
(***************************************************************************)
SlotsHeldByProbes ==
  /\ slots = Cardinality({t \in Probe : Holding(t)})
  /\ scan = "returned" => \A t \in Probe : probe[t] = "done"

=============================================================================
