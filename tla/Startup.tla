------------------------------ MODULE Startup ------------------------------
(***************************************************************************)
(* How the receive and send commands start (src/cmd/localsend/main.go):    *)
(* the search for a free port, the credentials kept in two files (src/pkg/ *)
(* crypto/crypto.go), the announcement, and Server.Start (src/pkg/server/  *)
(* server.go).                                                             *)
(*                                                                         *)
(* Several processes of one host share its ports and one user's files.     *)
(* Nothing locks either.  A file is written in two steps: it is truncated  *)
(* when it is opened, then filled.  A process may be killed at any step    *)
(* and started again; its ports are then free and its files as it left     *)
(* them.                                                                   *)
(***************************************************************************)
EXTENDS Integers, FiniteSets

CONSTANTS
  Receiver,   \* processes that run the receive command
  Sender,     \* processes that run the send command
  Plain,      \* the receivers started with --no-tls
  FirstPort,  \* the port asked for
  LastPort,   \* the last one tried
  Id          \* the key pairs there are to generate

Proc == Receiver \cup Sender
Port == FirstPort..LastPort

ASSUME StartupAssumption ==
  /\ Receiver \cap Sender = {}
  /\ Plain \subseteq Receiver
  /\ FirstPort \in Nat /\ LastPort \in Nat /\ FirstPort <= LastPort

Missing == "missing"
Empty == "empty"
None == "none"
Free == "free"
Other == "another program"

ASSUME NamesAssumption ==
  /\ Id \cap {Missing, Empty, None} = {}
  /\ Proc \cap {Free, Other} = {}

VARIABLES
  pc,      \* where each process is
  port,    \* the port each receiver tries, or has
  bound,   \* who listens on each port
  cert,    \* the certificate file: the pair it belongs to, Empty or Missing
  key,     \* the key file
  seen,    \* the certificate a process has read and not yet matched
  pair,    \* the key pair a process has generated or loaded
  settled  \* the pair that was complete on disk, with nobody about to write,
           \* when a process began to look for it (recorded only)

startVars == <<pc, port, bound, cert, key, seen, pair, settled>>

Looking == {"stat cert", "stat key", "load cert", "load key"}
Generating == {"generate", "open cert", "write cert", "open key", "write key"}
Credentials == Looking \cup Generating
After == {"announce", "listen", "serving", "ready"}
Failed == {"write failed", "no directory"}

StartStep ==
  {"off", "probe", "close probe", "credentials", "exited"}
    \cup Credentials \cup After \cup Failed

StartupTypeOK ==
  /\ pc \in [Proc -> StartStep]
  /\ port \in [Proc -> Port]
  /\ bound \in [Port -> Receiver \cup {Free, Other}]
  /\ cert \in Id \cup {Missing, Empty} /\ key \in Id \cup {Missing, Empty}
  /\ seen \in [Proc -> Id \cup {Missing, Empty, None}]
  /\ pair \in [Proc -> Id \cup {None}]
  /\ settled \in [Proc -> Id \cup {None}]
  /\ \A p \in Proc : pc[p] \in Generating \ {"generate"} => pair[p] \in Id
  /\ \A r \in Receiver : pc[r] \in {"close probe", "serving"} => bound[port[r]] = r

(* A user's first start, or one after starts that were broken off.         *)
StartupInit ==
  /\ pc = [p \in Proc |-> "off"]
  /\ port = [p \in Proc |-> FirstPort]
  /\ bound = [q \in Port |-> Free]
  /\ cert \in {Missing, Empty} /\ key = Missing
  /\ seen = [p \in Proc |-> None]
  /\ pair = [p \in Proc |-> None]
  /\ settled = [p \in Proc |-> None]

----------------------------------------------------------------------------
Goto(p, step) == pc' = [pc EXCEPT ![p] = step]

fileVars == <<cert, key>>
netVars == <<port, bound>>
ownVars == <<seen, pair, settled>>

Start(p) ==
  /\ pc[p] = "off"
  /\ Goto(p, IF p \in Receiver THEN "probe" ELSE "credentials")
  /\ port' = [port EXCEPT ![p] = FirstPort]
  /\ UNCHANGED <<bound, fileVars, ownVars>>

(* One port too many is tried.                                             *)
ProbeOneMore(p) ==
  /\ pc[p] = "probe"
  /\ IF bound[port[p]] = Free
     THEN /\ bound' = [bound EXCEPT ![port[p]] = p]
          /\ Goto(p, "close probe")
          /\ UNCHANGED port
     ELSE /\ IF port[p] <= LastPort
             THEN port' = [port EXCEPT ![p] = @ + 1] /\ Goto(p, "probe")
             ELSE UNCHANGED port /\ Goto(p, "exited")
          /\ UNCHANGED bound
  /\ UNCHANGED <<fileVars, ownVars>>

(* A listener is opened to see whether the port is free, and closed again. *)
Probe(p) ==
  /\ pc[p] = "probe"
  /\ IF bound[port[p]] = Free
     THEN /\ bound' = [bound EXCEPT ![port[p]] = p]
          /\ Goto(p, "close probe")
          /\ UNCHANGED port
     ELSE /\ IF port[p] < LastPort
             THEN port' = [port EXCEPT ![p] = @ + 1] /\ Goto(p, "probe")
             ELSE UNCHANGED port /\ Goto(p, "exited")
          /\ UNCHANGED bound
  /\ UNCHANGED <<fileVars, ownVars>>

CloseProbe(p) ==
  /\ pc[p] = "close probe"
  /\ bound' = [bound EXCEPT ![port[p]] = Free]
  /\ Goto(p, IF p \in Plain THEN "announce" ELSE "credentials")
  /\ UNCHANGED <<port, fileVars, ownVars>>

----------------------------------------------------------------------------
(***************************************************************************)
(* LoadOrGenerateCredentials.  Both files are looked for, then read, and   *)
(* what they hold is used if it is a pair; a new one is written otherwise. *)
(***************************************************************************)
Complete == cert = key /\ cert \in Id

Unsettled(q) == pc[q] \in Credentials /\ settled[q] = None

BeginLook(p) ==
  /\ pc[p] = "credentials"
  /\ settled' = [settled EXCEPT ![p] =
                   IF Complete /\ \A q \in Proc : ~Unsettled(q) THEN cert ELSE None]
  /\ Goto(p, "stat cert")
  /\ UNCHANGED <<netVars, fileVars, seen, pair>>

(* The test for the key file is the wrong way round.                       *)
StatKeyAbsent(p) ==
  /\ \/ pc[p] = "stat cert" /\ Goto(p, IF cert = Missing THEN "generate" ELSE "stat key")
     \/ pc[p] = "stat key" /\ Goto(p, IF key # Missing THEN "generate" ELSE "load cert")
  /\ UNCHANGED <<netVars, fileVars, ownVars>>

Stat(p) ==
  /\ \/ pc[p] = "stat cert" /\ Goto(p, IF cert = Missing THEN "generate" ELSE "stat key")
     \/ pc[p] = "stat key" /\ Goto(p, IF key = Missing THEN "generate" ELSE "load cert")
  /\ UNCHANGED <<netVars, fileVars, ownVars>>

LoadCert(p) ==
  /\ pc[p] = "load cert"
  /\ seen' = [seen EXCEPT ![p] = cert]
  /\ Goto(p, "load key")
  /\ UNCHANGED <<netVars, fileVars, pair, settled>>

Loaded(p) == Goto(p, IF p \in Receiver THEN "announce" ELSE "ready")

(* The error of files that do not match is returned.                       *)
LoadKeyGivesUp(p) ==
  /\ pc[p] = "load key"
  /\ seen' = [seen EXCEPT ![p] = None]
  /\ IF seen[p] = key /\ key \in Id
     THEN pair' = [pair EXCEPT ![p] = key] /\ Loaded(p)
     ELSE Goto(p, IF p \in Receiver THEN "exited" ELSE "ready") /\ UNCHANGED pair
  /\ UNCHANGED <<netVars, fileVars, settled>>

(* The pair that was loaded is not returned.                               *)
LoadKeyNoReturn(p) ==
  /\ pc[p] = "load key"
  /\ seen' = [seen EXCEPT ![p] = None]
  /\ Goto(p, "generate")
  /\ UNCHANGED <<netVars, fileVars, pair, settled>>

LoadKey(p) ==
  /\ pc[p] = "load key"
  /\ seen' = [seen EXCEPT ![p] = None]
  /\ IF seen[p] = key /\ key \in Id
     THEN pair' = [pair EXCEPT ![p] = key] /\ Loaded(p)
     ELSE Goto(p, "generate") /\ UNCHANGED pair
  /\ UNCHANGED <<netVars, fileVars, settled>>

(* A pair nobody holds, on disk or in memory.                              *)
Unused(i) ==
  /\ i \notin {cert, key}
  /\ \A q \in Proc : i # seen[q] /\ i # pair[q]

(* Which one is generated does not matter.                                 *)
Generate(p) ==
  /\ pc[p] = "generate"
  /\ \E i \in Id : Unused(i)
  /\ pair' = [pair EXCEPT ![p] = CHOOSE i \in Id : Unused(i)]
  /\ Goto(p, "open cert")
  /\ UNCHANGED <<netVars, fileVars, seen, settled>>

WriteCert(p) ==
  /\ \/ pc[p] = "open cert" /\ cert' = Empty /\ Goto(p, "write cert")
     \/ pc[p] = "write cert" /\ cert' = pair[p] /\ Goto(p, "open key")
  /\ UNCHANGED <<netVars, key, ownVars>>

WriteKey(p) ==
  /\ \/ pc[p] = "open key" /\ key' = Empty /\ Goto(p, "write key")
     \/ pc[p] = "write key" /\ key' = pair[p] /\ Loaded(p)
  /\ UNCHANGED <<netVars, cert, ownVars>>

(* The directory cannot be made, or a file not opened or filled.           *)
WriteFails(p) ==
  /\ pc[p] \in Generating \ {"generate"}
  /\ pair' = [pair EXCEPT ![p] = None]
  /\ Goto(p, "write failed")
  /\ UNCHANGED <<netVars, fileVars, seen, settled>>

----------------------------------------------------------------------------
(***************************************************************************)
(* The announcement comes before the server listens.  Start finds the port *)
(* still free, or the process exits.                                       *)
(***************************************************************************)
AnnouncePort(p) ==
  /\ pc[p] = "announce"
  /\ Goto(p, "listen")
  /\ UNCHANGED <<netVars, fileVars, ownVars>>

Listen(p) ==
  /\ pc[p] = "listen"
  /\ IF bound[port[p]] = Free
     THEN bound' = [bound EXCEPT ![port[p]] = p] /\ Goto(p, "serving")
     ELSE UNCHANGED bound /\ Goto(p, "exited")
  /\ UNCHANGED <<port, fileVars, ownVars>>

(* The save directory cannot be made.                                      *)
StartFails(p) ==
  /\ pc[p] = "listen"
  /\ Goto(p, "no directory")
  /\ UNCHANGED <<netVars, fileVars, ownVars>>

(* What the system refused ends a receive; a send goes on without a        *)
(* certificate.                                                            *)
GiveUp(p) ==
  /\ pc[p] \in Failed
  /\ Goto(p, IF p \in Receiver THEN "exited" ELSE "ready")
  /\ UNCHANGED <<netVars, fileVars, ownVars>>

Killed(p) ==
  /\ pc[p] # "off"
  /\ Goto(p, "off")
  /\ bound' = [q \in Port |-> IF bound[q] = p THEN Free ELSE bound[q]]
  /\ seen' = [seen EXCEPT ![p] = None]
  /\ pair' = [pair EXCEPT ![p] = None]
  /\ settled' = [settled EXCEPT ![p] = None]
  /\ UNCHANGED <<port, fileVars>>

OtherProgram(q) ==
  /\ \/ bound[q] = Free /\ bound' = [bound EXCEPT ![q] = Other]
     \/ bound[q] = Other /\ bound' = [bound EXCEPT ![q] = Free]
  /\ UNCHANGED <<pc, port, fileVars, ownVars>>

Proceed(p) ==
  \/ Probe(p) \/ CloseProbe(p)
  \/ BeginLook(p) \/ Stat(p) \/ LoadCert(p) \/ LoadKey(p)
  \/ Generate(p)
  \/ WriteCert(p) \/ WriteKey(p)
  \/ AnnouncePort(p) \/ Listen(p)
  \/ GiveUp(p)

StartupNext ==
  \/ \E p \in Proc :
       Start(p) \/ Proceed(p) \/ WriteFails(p) \/ StartFails(p) \/ Killed(p)
  \/ \E q \in Port : OtherProgram(q)

(* A process that can take a step does.  No user need start one.           *)
StartupSpec ==
  /\ StartupInit
  /\ [][StartupNext]_startVars
  /\ \A p \in Proc : WF_startVars(Proceed(p))

----------------------------------------------------------------------------
(***************************************************************************)
(* The identity of a host lasts: a process that begins to look for its     *)
(* credentials when a complete pair is on disk and no process that began   *)
(* earlier may still replace it uses that pair and writes nothing,         *)
(* whatever other processes start, fail to write or are killed meanwhile   *)
(* (crypto.go:87-137; docs/architecture.md:48).  Files that are there can  *)
(* be read.                                                                *)
(***************************************************************************)
IdentityStable ==
  \A p \in Proc : settled[p] # None =>
    /\ pc[p] \notin Generating
    /\ cert = settled[p] /\ key = settled[p]
    /\ pair[p] \in {None, settled[p]}

(***************************************************************************)
(* A complete pair is overwritten only by a process that looked, or began  *)
(* to, before the pair was complete.                                       *)
(***************************************************************************)
PairKept ==
  [][Complete /\ fileVars' # fileVars => \E p \in Proc : Unsettled(p)]_startVars

(* The port p has announced is taken, or it has none left to try.          *)
Blocked(p) ==
  \/ pc[p] = "listen" /\ bound[port[p]] # Free
  \/ pc[p] = "probe" /\ \A q \in port[p]..LastPort : bound[q] # Free

(* A start gets through: from wherever it is, it comes to serve, or to     *)
(* send, unless it is killed, the system refuses to write, or ports it     *)
(* needs are taken at the moment it needs them.                            *)
GetsThrough(p) ==
  pc[p] \notin {"off", "serving", "ready", "exited"} \cup Failed
    ~> pc[p] \in {"off", "serving", "ready"} \cup Failed \/ Blocked(p)

(* A start leaves a complete pair of files, whatever it found there,       *)
(* unless it is killed, cannot write, or is not alone with the files.      *)
Alone(p) == \A q \in Proc \ {p} : pc[q] \notin Credentials

Repairs(p) ==
  pc[p] = "credentials" /\ Alone(p)
    ~> Complete \/ pc[p] \in {"off", "write failed"} \/ ~Alone(p)

(***************************************************************************)
(* Files a crash left torn do not stop a start and are replaced by a pair  *)
(* (crypto.go:92-130), a port in use makes it try the next one, and a port *)
(* lost between the trial and Server.Start costs the start only if it is   *)
(* still lost when it listens (main.go:147-167, server.go:84-88).  A start *)
(* that exits is accepted for no other reason, and files stay torn only    *)
(* when two starts write them at once.                                     *)
(***************************************************************************)
StartSettles == \A p \in Proc : GetsThrough(p) /\ Repairs(p)

=============================================================================
