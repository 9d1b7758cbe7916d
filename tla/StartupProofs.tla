--------------------------- MODULE StartupProofs ---------------------------
(***************************************************************************)
(* What the start of the commands guarantees for any number of processes,  *)
(* ports and key pairs, proved with TLAPS.                                 *)
(***************************************************************************)
EXTENDS Startup, TLAPS

(* The steps only the receive command takes.                               *)
Receiving == {"probe", "close probe", "announce", "listen", "serving"}

StartupInv ==
  /\ StartupTypeOK
  /\ \A p \in Proc : pc[p] \in Receiving => p \in Receiver

----------------------------------------------------------------------------
LEMMA StartupInitial == StartupInit => StartupInv
<1>. SUFFICES ASSUME StartupInit PROVE StartupInv
  OBVIOUS
<1>1. FirstPort \in Port
  BY StartupAssumption DEF Port
<1>2. \A p \in Proc : pc[p] = "off"
  BY DEF StartupInit
<1>3. StartupTypeOK
  BY <1>1, <1>2 DEF StartupInit, StartupTypeOK, StartStep, Generating, Proc
<1>. QED
  BY <1>2, <1>3 DEF StartupInv, Receiving

(* A process goes to a step of the program, and no other process moves.    *)
LEMMA GotoSound ==
  ASSUME StartupTypeOK, NEW p \in Proc, NEW step \in StartStep, Goto(p, step)
  PROVE  /\ pc' \in [Proc -> StartStep]
         /\ pc'[p] = step
         /\ \A q \in Proc : q # p => pc'[q] = pc[q]
BY DEF StartupTypeOK, Goto

(* The steps of the search for a port and of Start.                        *)
LEMMA NetStep ==
  ASSUME StartupInv, NEW p \in Proc,
         \/ Start(p) \/ Probe(p) \/ CloseProbe(p)
         \/ AnnouncePort(p) \/ Listen(p) \/ StartFails(p)
  PROVE  StartupInv'
<1>1. p \in Receiver \/ Start(p)
  BY DEF StartupInv, Receiving, Probe, CloseProbe, AnnouncePort, Listen, StartFails
<1>2. \A q \in Proc : port[q] \in Port
  BY DEF StartupInv, StartupTypeOK
<1>3. /\ bound \in [Port -> Receiver \cup {Free, Other}]
      /\ port \in [Proc -> Port] /\ pc \in [Proc -> StartStep]
      /\ UNCHANGED <<cert, key, seen, pair, settled>>
  BY DEF StartupInv, StartupTypeOK, Start, Probe, CloseProbe, AnnouncePort, Listen,
         StartFails, fileVars, ownVars
<1>4. PICK step \in StartStep \ (Generating \cup {"serving"}) :
        \/ Goto(p, step)
        \/ Goto(p, "serving") /\ Listen(p)
  BY DEF Start, Probe, CloseProbe, AnnouncePort, Listen, StartFails, Goto, StartStep,
         Credentials, Looking, Generating, After, Failed
<1>5. pc' \in [Proc -> StartStep] /\ \A q \in Proc \ {p} : pc'[q] = pc[q]
  BY <1>3, <1>4 DEF Goto, StartStep, After, Failed
<1>6. pc'[p] \notin Generating
  BY <1>3, <1>4 DEF Goto, Generating
<1>7. port' \in [Proc -> Port] /\ \A q \in Proc \ {p} : port'[q] = port[q]
  <2>1. FirstPort \in Port
    BY StartupAssumption DEF Port
  <2>2. CASE Start(p)
    BY <1>3, <2>1, <2>2 DEF Start
  <2>3. CASE Probe(p)
    <3>1. port[p] < LastPort => port[p] + 1 \in Port
      BY <1>2, StartupAssumption DEF Port
    <3>2. CASE UNCHANGED port
      BY <1>3, <3>2
    <3>3. CASE port[p] < LastPort /\ port' = [port EXCEPT ![p] = @ + 1]
      BY <1>3, <3>1, <3>3
    <3>. QED
      BY <2>3, <3>2, <3>3 DEF Probe
  <2>4. CASE ~Start(p) /\ ~Probe(p)
    BY <1>3, <2>4 DEF CloseProbe, AnnouncePort, Listen, StartFails, netVars
  <2>. QED
    BY <2>2, <2>3, <2>4
<1>8. bound' \in [Port -> Receiver \cup {Free, Other}]
  BY <1>1, <1>2, <1>3 DEF Start, Probe, CloseProbe, AnnouncePort, Listen, StartFails, netVars
<1>9. ASSUME NEW r \in Receiver, pc'[r] \in {"close probe", "serving"}
      PROVE  bound'[port'[r]] = r
  <2>1. r \in Proc /\ r # Free /\ r # Other
    BY NamesAssumption DEF Proc
  <2>2. CASE r = p
    <3>1. \/ Probe(p) /\ bound[port[p]] = Free
          \/ Listen(p) /\ bound[port[p]] = Free
      BY <1>3, <1>9, <2>2 DEF Start, Probe, CloseProbe, AnnouncePort, Listen, StartFails, Goto
    <3>. QED
      BY <1>2, <1>3, <2>2, <3>1 DEF Probe, Listen
  <2>3. CASE r # p
    <3>1. bound[port[r]] = r /\ port'[r] = port[r] /\ port[r] \in Port
      BY <1>2, <1>5, <1>7, <1>9, <2>1, <2>3 DEF StartupInv, StartupTypeOK
    <3>2. CASE CloseProbe(p)
      <4>1. bound[port[p]] = p
        BY <1>1, <3>2 DEF StartupInv, StartupTypeOK, CloseProbe, Start
      <4>. QED
        BY <1>3, <2>3, <3>1, <3>2, <4>1 DEF CloseProbe
    <3>3. CASE ~CloseProbe(p)
      <4>1. \/ UNCHANGED bound
            \/ bound[port[p]] = Free /\ bound' = [bound EXCEPT ![port[p]] = p]
        BY <3>3 DEF Start, Probe, AnnouncePort, Listen, StartFails, netVars
      <4>. QED
        BY <1>3, <2>1, <3>1, <4>1
    <3>. QED
      BY <3>2, <3>3
  <2>. QED
    BY <2>2, <2>3
<1>10. \A q \in Proc : pc'[q] \in Receiving => q \in Receiver
  <2>1. pc'[p] \in Receiving => p \in Receiver
    BY <1>1, <1>3 DEF Start, Goto, Receiving
  <2>. QED
    BY <1>5, <2>1 DEF StartupInv
<1>11. \A q \in Proc : pc'[q] \in Generating \ {"generate"} => pair'[q] \in Id
  BY <1>3, <1>5, <1>6 DEF StartupInv, StartupTypeOK
<1>. QED
  BY <1>3, <1>5, <1>7, <1>8, <1>9, <1>10, <1>11 DEF StartupInv, StartupTypeOK

(* The steps of LoadOrGenerateCredentials, and what follows its failure.   *)
Credential(p) ==
  \/ BeginLook(p) \/ Stat(p) \/ LoadCert(p) \/ LoadKey(p)
  \/ Generate(p) \/ WriteCert(p) \/ WriteKey(p) \/ WriteFails(p) \/ GiveUp(p)

LEMMA FilesSound ==
  ASSUME StartupInv, NEW p \in Proc, Credential(p)
  PROVE  /\ cert' \in Id \cup {Missing, Empty} /\ key' \in Id \cup {Missing, Empty}
         /\ seen' \in [Proc -> Id \cup {Missing, Empty, None}]
         /\ pair' \in [Proc -> Id \cup {None}]
         /\ settled' \in [Proc -> Id \cup {None}]
         /\ pc'[p] \in Generating \ {"generate"} => pair'[p] \in Id
<1>. USE DEF StartupInv, StartupTypeOK, Goto
<1>1. CASE BeginLook(p)
  BY <1>1 DEF BeginLook, netVars, fileVars, Complete, Generating
<1>2. CASE Stat(p)
  BY <1>2 DEF Stat, netVars, fileVars, ownVars, Generating
<1>3. CASE LoadCert(p)
  BY <1>3 DEF LoadCert, netVars, fileVars, Generating
<1>4. CASE LoadKey(p)
  BY <1>4 DEF LoadKey, netVars, fileVars, Loaded, Generating
<1>5. CASE Generate(p)
  BY <1>5 DEF Generate, netVars, fileVars
<1>6. CASE WriteCert(p) \/ WriteKey(p)
  <2>1. pair[p] \in Id
    BY <1>6 DEF WriteCert, WriteKey, Generating
  <2>. QED
    BY <1>6, <2>1 DEF WriteCert, WriteKey, netVars, ownVars
<1>7. CASE WriteFails(p)
  BY <1>7 DEF WriteFails, netVars, fileVars, Generating
<1>8. CASE GiveUp(p)
  BY <1>8 DEF GiveUp, netVars, fileVars, ownVars, Generating
<1>. QED
  BY <1>1, <1>2, <1>3, <1>4, <1>5, <1>6, <1>7, <1>8 DEF Credential

LEMMA CredentialStep ==
  ASSUME StartupInv, NEW p \in Proc, Credential(p)
  PROVE  StartupInv'
<1>1. UNCHANGED <<port, bound>>
  BY DEF Credential, BeginLook, Stat, LoadCert, LoadKey, Generate, WriteCert, WriteKey,
         WriteFails, GiveUp, netVars
<1>2. PICK step \in StartStep \ {"probe", "close probe", "listen", "serving"} :
        Goto(p, step) /\ (step = "announce" => p \in Receiver)
  BY DEF Credential, BeginLook, Stat, LoadCert, LoadKey, Generate, WriteCert, WriteKey,
         WriteFails, GiveUp, Loaded, Goto, StartStep, Credentials, Looking, Generating,
         After, Failed
<1>3. /\ pc' \in [Proc -> StartStep]
      /\ pc'[p] = step
      /\ \A q \in Proc : q # p => pc'[q] = pc[q]
  BY <1>2, GotoSound DEF StartupInv
<1>4. \A r \in Receiver : pc'[r] \in {"close probe", "serving"} => bound'[port'[r]] = r
  BY <1>1, <1>2, <1>3 DEF StartupInv, StartupTypeOK, Proc
<1>5. \A q \in Proc : q # p => pair'[q] = pair[q]
  BY DEF Credential, BeginLook, Stat, LoadCert, LoadKey, Generate, WriteCert, WriteKey,
         WriteFails, GiveUp, ownVars, StartupInv, StartupTypeOK
<1>6. \A q \in Proc : pc'[q] \in Generating \ {"generate"} => pair'[q] \in Id
  BY <1>3, <1>5, FilesSound DEF StartupInv, StartupTypeOK
<1>7. \A q \in Proc : pc'[q] \in Receiving => q \in Receiver
  BY <1>2, <1>3 DEF StartupInv, Receiving
<1>8. StartupTypeOK'
  BY <1>1, <1>3, <1>4, <1>6, FilesSound DEF StartupInv, StartupTypeOK
<1>. QED
  BY <1>7, <1>8 DEF StartupInv

LEMMA KilledStep ==
  ASSUME StartupInv, NEW p \in Proc, Killed(p)
  PROVE  StartupInv'
<1>1. /\ pc' \in [Proc -> StartStep]
      /\ pc'[p] = "off"
      /\ \A q \in Proc : q # p => pc'[q] = pc[q]
  BY GotoSound DEF Killed, StartStep, StartupInv
<1>2. \A r \in Receiver : pc'[r] \in {"close probe", "serving"} => bound'[port'[r]] = r
  BY <1>1 DEF StartupInv, StartupTypeOK, Killed, fileVars, Proc
<1>3. \A q \in Proc : pc'[q] \in Generating \ {"generate"} => pair'[q] \in Id
  BY <1>1 DEF StartupInv, StartupTypeOK, Killed, Generating
<1>4. bound' \in [Port -> Receiver \cup {Free, Other}]
  BY DEF StartupInv, StartupTypeOK, Killed
<1>. QED
  BY <1>1, <1>2, <1>3, <1>4 DEF StartupInv, StartupTypeOK, Killed, Receiving, fileVars

LEMMA OtherProgramStep ==
  ASSUME StartupInv, NEW q \in Port, OtherProgram(q)
  PROVE  StartupInv'
<1>1. UNCHANGED <<pc, port, cert, key, seen, pair, settled>>
  BY DEF OtherProgram, fileVars, ownVars
<1>2. bound' \in [Port -> Receiver \cup {Free, Other}]
  BY DEF StartupInv, StartupTypeOK, OtherProgram
<1>3. ASSUME NEW r \in Receiver, pc'[r] \in {"close probe", "serving"}
      PROVE  bound'[port'[r]] = r
  <2>1. bound[port[r]] = r /\ port[r] \in Port
    BY <1>1, <1>3 DEF StartupInv, StartupTypeOK, Proc
  <2>2. r # Free /\ r # Other
    BY NamesAssumption DEF Proc
  <2>3. bound'[port[r]] = bound[port[r]]
    BY <2>1, <2>2 DEF StartupInv, StartupTypeOK, OtherProgram
  <2>. QED
    BY <1>1, <2>1, <2>3
<1>. QED
  BY <1>1, <1>2, <1>3 DEF StartupInv, StartupTypeOK

LEMMA StartupStep == StartupInv /\ [StartupNext]_startVars => StartupInv'
<1>. SUFFICES ASSUME StartupInv, [StartupNext]_startVars PROVE StartupInv'
  OBVIOUS
<1>1. ASSUME NEW p \in Proc, Start(p) \/ Proceed(p) \/ WriteFails(p) \/ StartFails(p)
      PROVE  StartupInv'
  BY <1>1, NetStep, CredentialStep DEF Proceed, Credential
<1>2. CASE UNCHANGED startVars
  BY <1>2 DEF startVars, StartupInv, StartupTypeOK
<1>. QED
  BY <1>1, <1>2, KilledStep, OtherProgramStep DEF StartupNext

(***************************************************************************)
(* Ports, files and processes keep their types, a receiver that serves has *)
(* its port, and a key pair is written only by who has generated one.      *)
(***************************************************************************)
THEOREM StartupTyped == StartupSpec => []StartupTypeOK
<1>1. StartupInv => StartupTypeOK
  BY DEF StartupInv
<1>. QED
  BY StartupInitial, StartupStep, <1>1, PTL DEF StartupSpec

----------------------------------------------------------------------------
(***************************************************************************)
(* While a process is settled on a pair, the pair is on disk, no process   *)
(* is on its way to replace it, and what a process has read and will still *)
(* use is that pair.  A process that has yet to look holds nothing.        *)
(***************************************************************************)
Writing(p) == pc[p] \in Generating

SettledOn(i) ==
  /\ i \in Id /\ cert = i /\ key = i
  /\ \A q \in Proc :
       /\ ~Unsettled(q) /\ ~Writing(q)
       /\ pc[q] = "load key" => seen[q] = i

Early == {"off", "probe", "close probe", "credentials"}

IdentityInv ==
  /\ StartupInv
  /\ \A p \in Proc : settled[p] # None =>
       SettledOn(settled[p]) /\ pair[p] \in {None, settled[p]}
  /\ \A p \in Proc : pc[p] \in Early => settled[p] = None /\ pair[p] = None

LEMMA IdentityInitial == StartupInit => IdentityInv
BY StartupInitial DEF StartupInit, IdentityInv

LEMMA IdentityImplies == IdentityInv => IdentityStable
BY DEF IdentityInv, IdentityStable, SettledOn, Writing

(* The steps that write find nobody settled, or there are none.            *)
LEMMA WriterUnsettles ==
  ASSUME IdentityInv, NEW p \in Proc, Writing(p)
  PROVE  Unsettled(p) /\ \A q \in Proc : settled[q] = None
BY DEF IdentityInv, SettledOn, Writing, Unsettled, Credentials

(* A step that changes neither files nor credentials.                      *)
LEMMA OutsideStep ==
  ASSUME IdentityInv, StartupInv', UNCHANGED <<cert, key, seen, pair, settled>>,
         \A q \in Proc : \/ pc'[q] = pc[q]
                         \/ pc'[q] \in StartStep \ (Credentials \cup Early)
                         \/ pc'[q] \in Early /\ settled[q] = None /\ pair[q] = None
  PROVE  IdentityInv'
<1>1. \A q \in Proc : pc'[q] # pc[q] => pc'[q] \notin Credentials
  BY DEF Credentials, Looking, Generating, Early
<1>2. ASSUME NEW i, SettledOn(i) PROVE SettledOn(i)'
  BY <1>1, <1>2 DEF SettledOn, Unsettled, Writing, Credentials, Looking
<1>3. \A p \in Proc : pc'[p] \in Early => settled'[p] = None /\ pair'[p] = None
  BY DEF IdentityInv
<1>4. \A p \in Proc : settled'[p] # None =>
        SettledOn(settled[p])' /\ pair'[p] \in {None, settled'[p]}
  BY <1>2 DEF IdentityInv
<1>. QED
  BY <1>3, <1>4 DEF IdentityInv, SettledOn, Unsettled, Writing

LEMMA OutsideSteps ==
  ASSUME IdentityInv, StartupInv',
         \/ \E p \in Proc : \/ Start(p) \/ Probe(p) \/ CloseProbe(p)
                            \/ AnnouncePort(p) \/ Listen(p) \/ StartFails(p)
                            \/ GiveUp(p)
         \/ \E q \in Port : OtherProgram(q)
  PROVE  IdentityInv'
<1>1. UNCHANGED <<cert, key, seen, pair, settled>>
  BY DEF Start, Probe, CloseProbe, AnnouncePort, Listen, StartFails, GiveUp, OtherProgram,
         fileVars, ownVars
<1>2. ASSUME NEW q \in Proc
      PROVE  \/ pc'[q] = pc[q]
             \/ pc'[q] \in StartStep \ (Credentials \cup Early)
             \/ pc'[q] \in Early /\ settled[q] = None /\ pair[q] = None
  <2>1. CASE \E r \in Port : OtherProgram(r)
    BY <2>1 DEF OtherProgram
  <2>2. ASSUME NEW p \in Proc, Start(p) \/ Probe(p) \/ CloseProbe(p)
        PROVE  \/ pc'[q] = pc[q]
               \/ pc'[q] \in StartStep \ (Credentials \cup Early)
               \/ pc'[q] \in Early /\ settled[q] = None /\ pair[q] = None
    <3>1. settled[p] = None /\ pair[p] = None
      BY <2>2 DEF IdentityInv, Early, Start, Probe, CloseProbe
    <3>2. PICK to \in {"announce", "exited"} \cup Early : pc' = [pc EXCEPT ![p] = to]
      BY <2>2 DEF Start, Probe, CloseProbe, Goto, Early
    <3>3. pc'[q] = pc[q] \/ (q = p /\ pc'[q] = to)
      BY <3>2 DEF IdentityInv, StartupInv, StartupTypeOK
    <3>4. {"announce", "exited"} \subseteq StartStep \ (Credentials \cup Early)
      BY DEF StartStep, After, Failed, Credentials, Looking, Generating, Early
    <3>. QED
      BY <3>1, <3>3, <3>4
  <2>3. ASSUME NEW p \in Proc, AnnouncePort(p) \/ Listen(p) \/ StartFails(p) \/ GiveUp(p)
        PROVE  \/ pc'[q] = pc[q]
               \/ pc'[q] \in StartStep \ (Credentials \cup Early)
    <3>1. PICK to \in {"listen", "serving", "ready", "exited", "no directory"} :
             pc' = [pc EXCEPT ![p] = to]
      BY <2>3 DEF AnnouncePort, Listen, StartFails, GiveUp, Goto
    <3>2. pc'[q] = pc[q] \/ pc'[q] = to
      BY <3>1 DEF IdentityInv, StartupInv, StartupTypeOK
    <3>3. to \in StartStep \ (Credentials \cup Early)
      BY DEF StartStep, After, Failed, Credentials, Looking, Generating, Early
    <3>. QED
      BY <3>2, <3>3
  <2>. QED
    BY <2>1, <2>2, <2>3
<1>. QED
  BY <1>1, <1>2, OutsideStep

LEMMA KilledIdentity ==
  ASSUME IdentityInv, StartupInv', NEW p \in Proc, Killed(p)
  PROVE  IdentityInv'
<1>1. /\ pc' = [pc EXCEPT ![p] = "off"]
      /\ seen' = [seen EXCEPT ![p] = None]
      /\ pair' = [pair EXCEPT ![p] = None]
      /\ settled' = [settled EXCEPT ![p] = None]
      /\ UNCHANGED <<cert, key>>
  BY DEF Killed, Goto, fileVars
<1>2. ASSUME NEW i, SettledOn(i) PROVE SettledOn(i)'
  BY <1>1, <1>2 DEF SettledOn, Unsettled, Writing, Credentials, Looking, Generating,
     IdentityInv, StartupInv, StartupTypeOK
<1>3. \A q \in Proc : settled'[q] # None =>
        SettledOn(settled[q])' /\ pair'[q] \in {None, settled'[q]} /\ settled'[q] = settled[q]
  BY <1>1, <1>2 DEF IdentityInv, StartupInv, StartupTypeOK
<1>4. \A q \in Proc : pc'[q] \in Early => settled'[q] = None /\ pair'[q] = None
  BY <1>1 DEF IdentityInv, StartupInv, StartupTypeOK
<1>. QED
  BY <1>3, <1>4 DEF IdentityInv, SettledOn, Unsettled, Writing

(* A process begins to look.                                               *)
LEMMA BeginLookIdentity ==
  ASSUME IdentityInv, StartupInv', NEW p \in Proc, BeginLook(p)
  PROVE  IdentityInv'
<1>1. /\ pc' = [pc EXCEPT ![p] = "stat cert"]
      /\ UNCHANGED <<cert, key, seen, pair>>
  BY DEF BeginLook, Goto, fileVars
<1>2. pc' \in [Proc -> StartStep] /\ \A q \in Proc : q # p => pc'[q] = pc[q]
  BY <1>1 DEF IdentityInv, StartupInv, StartupTypeOK
<1>3. pc[p] = "credentials" /\ pc'[p] = "stat cert" /\ settled[p] = None /\ pair[p] = None
  BY <1>1 DEF BeginLook, IdentityInv, Early, StartupInv, StartupTypeOK
<1>4. CASE Complete /\ \A q \in Proc : ~Unsettled(q)
  <2>1. /\ settled' = [settled EXCEPT ![p] = cert]
        /\ cert \in Id /\ key = cert /\ cert # None
    BY <1>4, NamesAssumption DEF BeginLook, Complete
  <2>2. ASSUME NEW q \in Proc
        PROVE  /\ settled'[q] \in {None, cert}
               /\ pair[q] \in {None, cert} \/ settled'[q] = None
               /\ ~Unsettled(q)' /\ ~Writing(q)'
               /\ pc'[q] = "load key" => seen[q] = cert
    <3>1. CASE q = p
      BY <1>1, <1>2, <1>3, <2>1, <3>1
         DEF Unsettled, Writing, Generating, IdentityInv, StartupInv, StartupTypeOK
    <3>2. CASE q # p
      <4>1. settled[q] # None => SettledOn(settled[q]) /\ settled[q] = cert
                                 /\ pair[q] \in {None, cert}
        BY DEF IdentityInv, SettledOn
      <4>2. settled'[q] = settled[q] /\ pc'[q] = pc[q]
        BY <1>2, <2>1, <3>2 DEF IdentityInv, StartupInv, StartupTypeOK
      <4>3. pc[q] \in Credentials => settled[q] # None
        BY <1>4 DEF Unsettled
      <4>. QED
        BY <4>1, <4>2, <4>3 DEF SettledOn, Unsettled, Writing, Credentials, Looking
    <3>. QED
      BY <3>1, <3>2
  <2>3. SettledOn(cert)'
    BY <1>1, <2>1, <2>2 DEF SettledOn, Unsettled, Writing
  <2>4. \A q \in Proc : settled'[q] # None =>
          settled'[q] = cert' /\ pair'[q] \in {None, settled'[q]}
    BY <1>1, <2>2
  <2>5. \A q \in Proc : pc'[q] \in Early => settled'[q] = None /\ pair'[q] = None
    BY <1>1, <1>2, <1>3, <2>1 DEF IdentityInv, StartupInv, StartupTypeOK, Early
  <2>. QED
    BY <2>3, <2>4, <2>5 DEF IdentityInv, SettledOn, Unsettled, Writing
<1>5. CASE ~(Complete /\ \A q \in Proc : ~Unsettled(q))
  <2>1. settled' = [settled EXCEPT ![p] = None]
    BY <1>5 DEF BeginLook
  <2>2. UNCHANGED settled
    BY <1>3, <2>1 DEF IdentityInv, StartupInv, StartupTypeOK
  <2>3. \A q \in Proc : settled[q] = None
    <3>1. ASSUME NEW q \in Proc, settled[q] # None PROVE FALSE
      BY <1>5, <3>1 DEF IdentityInv, SettledOn, Complete
    <3>. QED
      BY <3>1
  <2>. QED
    BY <1>1, <1>2, <1>3, <2>2, <2>3 DEF IdentityInv, Early
<1>. QED
  BY <1>4, <1>5

(* What a settled process reads is its pair.                               *)
LEMMA ReadIdentity ==
  ASSUME IdentityInv, StartupInv', NEW p \in Proc,
         Stat(p) \/ LoadCert(p) \/ LoadKey(p)
  PROVE  IdentityInv'
<1>1. UNCHANGED <<cert, key, settled>>
  BY DEF Stat, LoadCert, LoadKey, fileVars, ownVars
<1>2. PICK step \in StartStep \ Early : pc' = [pc EXCEPT ![p] = step]
  BY DEF Stat, LoadCert, LoadKey, Loaded, Goto, StartStep, Early, Credentials, Looking,
         Generating, After, Failed
<1>3. pc'[p] \notin Early /\ \A q \in Proc : q # p => pc'[q] = pc[q]
  BY <1>2 DEF IdentityInv, StartupInv, StartupTypeOK
<1>4. pc[p] \in Credentials
  BY DEF Stat, LoadCert, LoadKey, Credentials, Looking
<1>5. \A q \in Proc : q # p => seen'[q] = seen[q] /\ pair'[q] = pair[q]
  BY DEF Stat, LoadCert, LoadKey, ownVars, IdentityInv, StartupInv, StartupTypeOK
<1>6. ASSUME NEW i, SettledOn(i)
      PROVE  ~Unsettled(p)' /\ ~Writing(p)' /\ (pc'[p] = "load key" => seen'[p] = i)
  <2>1. settled[p] # None
    BY <1>4, <1>6 DEF SettledOn, Unsettled
  <2>2. cert # Missing /\ key # Missing /\ i \in Id /\ cert = i /\ key = i
    BY <1>6, NamesAssumption DEF SettledOn
  <2>3. CASE Stat(p)
    BY <1>1, <2>1, <2>2, <2>3
       DEF Stat, Goto, Unsettled, Writing, Generating, IdentityInv, StartupInv, StartupTypeOK
  <2>4. CASE LoadCert(p)
    BY <1>1, <2>1, <2>2, <2>4
       DEF LoadCert, Goto, Unsettled, Writing, Generating, IdentityInv, StartupInv, StartupTypeOK
  <2>5. CASE LoadKey(p)
    <3>1. seen[p] = key
      BY <1>6, <2>2, <2>5 DEF SettledOn, LoadKey
    <3>. QED
      <4>1. pc' = [pc EXCEPT ![p] = IF p \in Receiver THEN "announce" ELSE "ready"]
        BY <2>2, <2>5, <3>1 DEF LoadKey, Loaded, Goto
      <4>2. pc'[p] \in {"announce", "ready"}
        BY <4>1 DEF IdentityInv, StartupInv, StartupTypeOK
      <4>. QED
        BY <1>1, <2>1, <4>2 DEF Unsettled, Writing, Generating
  <2>. QED
    BY <2>3, <2>4, <2>5
<1>7. ASSUME NEW i, SettledOn(i) PROVE SettledOn(i)'
  <2>1. ASSUME NEW q \in Proc, q # p
        PROVE  ~Unsettled(q)' /\ ~Writing(q)' /\ (pc'[q] = "load key" => seen'[q] = i)
    <3>1. pc'[q] = pc[q] /\ settled'[q] = settled[q] /\ seen'[q] = seen[q]
      BY <1>1, <1>3, <1>5, <2>1
    <3>2. ~Unsettled(q) /\ ~Writing(q) /\ (pc[q] = "load key" => seen[q] = i)
      BY <1>7 DEF SettledOn
    <3>. QED
      BY <3>1, <3>2 DEF Unsettled, Writing
  <2>2. i \in Id /\ cert' = i /\ key' = i
    BY <1>1, <1>7 DEF SettledOn
  <2>. QED
    BY <1>6, <1>7, <2>1, <2>2 DEF SettledOn
<1>8. ASSUME NEW q \in Proc, settled[q] # None
      PROVE  pair'[q] \in {None, settled[q]}
  <2>1. SettledOn(settled[q]) /\ pair[q] \in {None, settled[q]}
    BY <1>8 DEF IdentityInv
  <2>2. pair'[q] = pair[q] \/ pair'[q] = key
    BY <1>5 DEF Stat, LoadCert, LoadKey, ownVars, IdentityInv, StartupInv, StartupTypeOK
  <2>. QED
    BY <2>1, <2>2 DEF SettledOn
<1>9. \A q \in Proc : settled'[q] # None =>
        SettledOn(settled[q])' /\ pair'[q] \in {None, settled'[q]}
  BY <1>1, <1>7, <1>8 DEF IdentityInv
<1>10. \A q \in Proc : pc'[q] \in Early => settled'[q] = None /\ pair'[q] = None
  BY <1>1, <1>3, <1>5 DEF IdentityInv
<1>. QED
  BY <1>9, <1>10 DEF IdentityInv, SettledOn, Unsettled, Writing

LEMMA WriteIdentity ==
  ASSUME IdentityInv, StartupInv', NEW p \in Proc,
         Generate(p) \/ WriteCert(p) \/ WriteKey(p) \/ WriteFails(p)
  PROVE  IdentityInv'
<1>1. Writing(p)
  BY DEF Writing, Generating, Generate, WriteCert, WriteKey, WriteFails
<1>2. \A q \in Proc : settled'[q] = None
  BY <1>1, WriterUnsettles DEF Generate, WriteCert, WriteKey, WriteFails, ownVars
<1>3. PICK step \in StartStep \ Early : pc' = [pc EXCEPT ![p] = step]
  BY DEF Generate, WriteCert, WriteKey, WriteFails, Loaded, Goto, StartStep, Early,
         Credentials, Generating, After, Failed
<1>4. \A q \in Proc : pc'[q] \in Early => pair'[q] = None
  BY <1>3 DEF Generate, WriteCert, WriteKey, WriteFails, ownVars, IdentityInv, StartupInv,
     StartupTypeOK
<1>. QED
  BY <1>2, <1>4 DEF IdentityInv

LEMMA IdentityStep == IdentityInv /\ [StartupNext]_startVars => IdentityInv'
<1>. SUFFICES ASSUME IdentityInv, [StartupNext]_startVars PROVE IdentityInv'
  OBVIOUS
<1>1. StartupInv'
  BY StartupStep DEF IdentityInv
<1>2. ASSUME NEW p \in Proc, Start(p) \/ Proceed(p) \/ WriteFails(p) \/ StartFails(p)
      PROVE  IdentityInv'
  BY <1>1, <1>2, OutsideSteps, BeginLookIdentity, ReadIdentity, WriteIdentity DEF Proceed
<1>3. CASE UNCHANGED startVars
  BY <1>1, <1>3 DEF startVars, IdentityInv, SettledOn, Unsettled, Writing
<1>. QED
  BY <1>1, <1>2, <1>3, KilledIdentity, OutsideSteps DEF StartupNext

(***************************************************************************)
(* A process that begins to look for its credentials when a complete pair  *)
(* is on disk and nobody may still replace it uses that pair, for any      *)
(* number of processes that start, fail or are killed meanwhile            *)
(* (crypto.go:87-137).                                                     *)
(***************************************************************************)
THEOREM IdentityLasts == StartupSpec => []IdentityStable
BY IdentityInitial, IdentityStep, IdentityImplies, PTL DEF StartupSpec

(***************************************************************************)
(* A complete pair is overwritten only while a process runs that began to  *)
(* look before the pair was complete (crypto.go:87-137).                   *)
(***************************************************************************)
THEOREM CompletePairKept == StartupSpec => PairKept
<1>1. ASSUME IdentityInv, StartupNext, fileVars' # fileVars
      PROVE  \E p \in Proc : Unsettled(p)
  <2>1. PICK p \in Proc : WriteCert(p) \/ WriteKey(p)
    BY <1>1 DEF StartupNext, Proceed, Start, Probe, CloseProbe, BeginLook, Stat, LoadCert,
       LoadKey, Generate, WriteFails, AnnouncePort, Listen, StartFails, GiveUp, Killed,
       OtherProgram, fileVars
  <2>2. Writing(p)
    BY <2>1 DEF WriteCert, WriteKey, Writing, Generating
  <2>. QED
    BY <1>1, <2>2, WriterUnsettles
<1>2. IdentityInv /\ [StartupNext]_startVars =>
        [Complete /\ fileVars' # fileVars => \E p \in Proc : Unsettled(p)]_startVars
  BY <1>1
<1>. QED
  BY <1>2, IdentityInitial, IdentityStep, PTL DEF StartupSpec, PairKept

----------------------------------------------------------------------------
(***************************************************************************)
(* No port is left open: one that belongs to a receiver is the one it is   *)
(* probing and about to close, or the one it serves on, so that a start    *)
(* that fails or is broken off blocks no port and two receivers never      *)
(* share one (main.go:143-167, server.go:82-90).                            *)
(***************************************************************************)
NoPortLeaked ==
  \A q \in Port, r \in Receiver :
    bound[q] = r => pc[r] \in {"close probe", "serving"} /\ port[r] = q

(* A step of one process, after which the ports of the others are theirs.  *)
LEMMA PortsFrame ==
  ASSUME NoPortLeaked, NEW p \in Proc,
         \A r \in Proc \ {p} : pc'[r] = pc[r] /\ port'[r] = port[r],
         \A q \in Port, r \in Receiver : bound'[q] = r =>
           \/ bound[q] = r /\ r # p
           \/ r = p /\ port'[p] = q /\ pc'[p] \in {"close probe", "serving"}
  PROVE  NoPortLeaked'
<1>. SUFFICES ASSUME NEW q \in Port, NEW r \in Receiver, bound'[q] = r
              PROVE  pc'[r] \in {"close probe", "serving"} /\ port'[r] = q
  BY DEF NoPortLeaked
<1>1. CASE r = p
  BY <1>1
<1>2. CASE r # p
  <2>1. bound[q] = r /\ r \in Proc \ {p}
    BY <1>2 DEF Proc
  <2>. QED
    BY <2>1 DEF NoPortLeaked
<1>. QED
  BY <1>1, <1>2

(* Who is neither probing nor serving has no port.                         *)
LEMMA HasNoPort ==
  ASSUME NoPortLeaked, NEW p \in Proc, pc[p] \notin {"close probe", "serving"},
         NEW q \in Port, NEW r \in Receiver, bound[q] = r
  PROVE  r # p
BY DEF NoPortLeaked

LEMMA PortsAlone ==
  ASSUME NoPortLeaked, NEW p \in Proc, UNCHANGED bound,
         pc[p] \notin {"close probe", "serving"},
         \A r \in Proc \ {p} : pc'[r] = pc[r] /\ port'[r] = port[r]
  PROVE  NoPortLeaked'
BY HasNoPort, PortsFrame

LEMMA PortsStep ==
  ASSUME StartupInv, NoPortLeaked, [StartupNext]_startVars
  PROVE  NoPortLeaked'
<1>1. StartupTypeOK
  BY DEF StartupInv
<1>2. Free \notin Receiver /\ Other \notin Receiver
  BY NamesAssumption DEF Proc
<1>3. ASSUME NEW p \in Proc, Start(p) PROVE NoPortLeaked'
  BY <1>1, <1>3, PortsAlone DEF Start, Goto, StartupTypeOK
<1>4. ASSUME NEW p \in Proc, Probe(p) PROVE NoPortLeaked'
  <2>1. /\ pc[p] = "probe" /\ port[p] \in Port
        /\ \A r \in Proc \ {p} : pc'[r] = pc[r] /\ port'[r] = port[r]
    BY <1>1, <1>4 DEF Probe, Goto, StartupTypeOK
  <2>2. CASE bound[port[p]] = Free
    <3>1. /\ pc'[p] = "close probe" /\ port'[p] = port[p] /\ bound'[port[p]] = p
          /\ \A q \in Port \ {port[p]} : bound'[q] = bound[q]
      BY <1>1, <1>4, <2>1, <2>2 DEF Probe, Goto, StartupTypeOK
    <3>2. ASSUME NEW q \in Port, NEW r \in Receiver, bound'[q] = r
          PROVE  \/ bound[q] = r /\ r # p
                 \/ r = p /\ port'[p] = q /\ pc'[p] \in {"close probe", "serving"}
      <4>1. CASE q = port[p]
        BY <2>1, <3>1, <3>2, <4>1
      <4>2. CASE q # port[p]
        BY <2>1, <3>1, <3>2, <4>2, HasNoPort
      <4>. QED
        BY <4>1, <4>2
    <3>. QED
      BY <2>1, <3>2, PortsFrame
  <2>3. CASE bound[port[p]] # Free
    BY <1>4, <2>1, <2>3, PortsAlone DEF Probe
  <2>. QED
    BY <2>2, <2>3
<1>5. ASSUME NEW p \in Proc, CloseProbe(p) PROVE NoPortLeaked'
  <2>1. /\ UNCHANGED port /\ port[p] \in Port
        /\ bound'[port[p]] = Free
        /\ \A q \in Port \ {port[p]} : bound'[q] = bound[q]
        /\ \A r \in Proc \ {p} : pc'[r] = pc[r]
    BY <1>1, <1>5 DEF CloseProbe, Goto, StartupTypeOK
  <2>2. ASSUME NEW q \in Port, NEW r \in Receiver, bound'[q] = r
        PROVE  bound[q] = r /\ r # p
    <3>1. q # port[p] /\ bound[q] = r
      BY <1>2, <2>1, <2>2
    <3>. QED
      BY <3>1 DEF NoPortLeaked
  <2>. QED
    BY <2>1, <2>2, PortsFrame
<1>6. ASSUME NEW p \in Proc, Listen(p) PROVE NoPortLeaked'
  <2>1. /\ UNCHANGED port /\ port[p] \in Port /\ pc[p] = "listen"
        /\ \A r \in Proc \ {p} : pc'[r] = pc[r]
    BY <1>1, <1>6 DEF Listen, Goto, StartupTypeOK
  <2>2. CASE bound[port[p]] = Free
    <3>1. /\ pc'[p] = "serving" /\ bound'[port[p]] = p
          /\ \A q \in Port \ {port[p]} : bound'[q] = bound[q]
      BY <1>1, <1>6, <2>1, <2>2 DEF Listen, Goto, StartupTypeOK
    <3>2. ASSUME NEW q \in Port, NEW r \in Receiver, bound'[q] = r
          PROVE  \/ bound[q] = r /\ r # p
                 \/ r = p /\ port'[p] = q /\ pc'[p] \in {"close probe", "serving"}
      <4>1. CASE q = port[p]
        BY <2>1, <3>1, <3>2, <4>1
      <4>2. CASE q # port[p]
        BY <2>1, <3>1, <3>2, <4>2, HasNoPort
      <4>. QED
        BY <4>1, <4>2
    <3>. QED
      BY <2>1, <3>2, PortsFrame
  <2>3. CASE bound[port[p]] # Free
    BY <1>6, <2>1, <2>3, PortsAlone DEF Listen
  <2>. QED
    BY <2>2, <2>3
<1>7. ASSUME NEW p \in Proc,
             \/ BeginLook(p) \/ Stat(p) \/ LoadCert(p) \/ LoadKey(p) \/ Generate(p)
             \/ WriteCert(p) \/ WriteKey(p) \/ WriteFails(p)
             \/ AnnouncePort(p) \/ StartFails(p) \/ GiveUp(p)
      PROVE  NoPortLeaked'
  <2>1. UNCHANGED netVars /\ pc[p] \notin {"close probe", "serving"}
    BY <1>7 DEF BeginLook, Stat, LoadCert, LoadKey, Generate, WriteCert, WriteKey,
       WriteFails, AnnouncePort, StartFails, GiveUp, Generating, Failed
  <2>2. \E to \in StartStep : pc' = [pc EXCEPT ![p] = to]
    BY <1>7 DEF BeginLook, Stat, LoadCert, LoadKey, Generate, WriteCert, WriteKey,
       WriteFails, AnnouncePort, StartFails, GiveUp, Loaded, Goto, StartStep, Credentials,
       Looking, Generating, After, Failed
  <2>. QED
    BY <1>1, <2>1, <2>2, PortsAlone DEF StartupTypeOK, netVars
<1>8. ASSUME NEW p \in Proc, Killed(p) PROVE NoPortLeaked'
  <2>1. /\ UNCHANGED port
        /\ \A q \in Port : bound'[q] = IF bound[q] = p THEN Free ELSE bound[q]
        /\ \A r \in Proc \ {p} : pc'[r] = pc[r]
    BY <1>1, <1>8 DEF Killed, Goto, StartupTypeOK
  <2>2. ASSUME NEW q \in Port, NEW r \in Receiver, bound'[q] = r
        PROVE  bound[q] = r /\ r # p
    BY <1>2, <2>1, <2>2
  <2>. QED
    BY <2>1, <2>2, PortsFrame
<1>9. ASSUME NEW q \in Port, OtherProgram(q) PROVE NoPortLeaked'
  <2>1. /\ UNCHANGED <<pc, port>> /\ bound'[q] \in {Free, Other}
        /\ \A r \in Port \ {q} : bound'[r] = bound[r]
    BY <1>1, <1>9 DEF OtherProgram, StartupTypeOK
  <2>2. ASSUME NEW x \in Port, NEW r \in Receiver, bound'[x] = r
        PROVE  bound[x] = r
    BY <1>2, <2>1, <2>2
  <2>. QED
    BY <2>1, <2>2 DEF NoPortLeaked
<1>10. CASE UNCHANGED startVars
  BY <1>10 DEF startVars, NoPortLeaked
<1>. QED
  BY <1>3, <1>4, <1>5, <1>6, <1>7, <1>8, <1>9, <1>10 DEF StartupNext, Proceed

THEOREM NoPortLeakedAlways == StartupSpec => []NoPortLeaked
<1>1. StartupInit => NoPortLeaked
  BY NamesAssumption DEF StartupInit, NoPortLeaked, Proc
<1>2. StartupInv /\ NoPortLeaked /\ [StartupNext]_startVars => NoPortLeaked'
  BY PortsStep
<1>. QED
  BY StartupInitial, StartupStep, <1>1, <1>2, PTL DEF StartupSpec

----------------------------------------------------------------------------
(***************************************************************************)
(* A receiver that announces itself, listens or serves over TLS has a key  *)
(* pair, whatever the files held and whoever else wrote them meanwhile;    *)
(* one started with --no-tls never reads or writes them (main.go:190-211). *)
(***************************************************************************)
ServesWithPair ==
  \A p \in Receiver :
    /\ p \notin Plain /\ pc[p] \in {"announce", "listen", "serving"} => pair[p] \in Id
    /\ p \in Plain => pc[p] \notin {"credentials"} \cup Credentials

(* Every step keeps a pair with who is past the look for one.              *)
LEMMA PairStep ==
  ASSUME StartupInv, ServesWithPair, [StartupNext]_startVars
  PROVE  ServesWithPair'
<1>. USE StartupAssumption
<1>1. StartupTypeOK
  BY DEF StartupInv
<1>2. ASSUME NEW p \in Proc, NEW to, pc' = [pc EXCEPT ![p] = to],
             \A r \in Proc \ {p} : pair'[r] = pair[r],
             p \in Receiver \ Plain /\ to \in {"announce", "listen", "serving"} =>
               pair'[p] \in Id,
             p \in Plain => to \notin {"credentials"} \cup Credentials
      PROVE  ServesWithPair'
  <2>1. pc'[p] = to /\ \A r \in Proc \ {p} : pc'[r] = pc[r]
    BY <1>1, <1>2 DEF StartupTypeOK
  <2>. QED
    BY <1>2, <2>1 DEF ServesWithPair, Proc
<1>3. ASSUME NEW p \in Proc, Start(p) \/ Probe(p) \/ CloseProbe(p) PROVE ServesWithPair'
  <2>1. UNCHANGED pair
    BY <1>3 DEF Start, Probe, CloseProbe, ownVars
  <2>2. CASE Start(p)
    BY <1>2, <2>1, <2>2 DEF Start, Goto, Credentials, Looking, Generating
  <2>3. CASE CloseProbe(p)
    BY <1>2, <2>1, <2>3 DEF CloseProbe, Goto, Credentials, Looking, Generating
  <2>4. ASSUME NEW step \in {"close probe", "probe", "exited"}, Goto(p, step)
        PROVE  ServesWithPair'
    BY <1>2, <2>1, <2>4 DEF Goto, Credentials, Looking, Generating
  <2>. QED
    BY <1>3, <2>2, <2>3, <2>4 DEF Probe
<1>4. ASSUME NEW p \in Proc, BeginLook(p) \/ Stat(p) \/ LoadCert(p) \/ LoadKey(p)
      PROVE  ServesWithPair'
  <2>1. p \notin Plain
    BY <1>4 DEF BeginLook, Stat, LoadCert, LoadKey, ServesWithPair, Credentials, Looking
  <2>2. CASE UNCHANGED pair /\ \E step \in Credentials : Goto(p, step)
    BY <1>2, <2>1, <2>2 DEF Goto, Credentials, Looking, Generating
  <2>3. CASE pair' = [pair EXCEPT ![p] = key] /\ key \in Id /\ Loaded(p)
    BY <1>1, <1>2, <2>1, <2>3 DEF Loaded, Goto, StartupTypeOK
  <2>. QED
    BY <1>4, <2>2, <2>3 DEF BeginLook, Stat, LoadCert, LoadKey, ownVars, Credentials,
       Looking, Generating
<1>5. ASSUME NEW p \in Proc, Generate(p) \/ WriteCert(p) \/ WriteKey(p) \/ WriteFails(p)
      PROVE  ServesWithPair'
  <2>1. p \notin Plain /\ pc[p] \in Generating
    BY <1>5 DEF Generate, WriteCert, WriteKey, WriteFails, ServesWithPair, Credentials,
       Generating
  <2>2. \A r \in Proc \ {p} : pair'[r] = pair[r]
    BY <1>1, <1>5 DEF Generate, WriteCert, WriteKey, WriteFails, ownVars, StartupTypeOK
  <2>3. ASSUME NEW step \in Credentials \cup {"write failed"}, Goto(p, step)
        PROVE  ServesWithPair'
    BY <1>2, <2>1, <2>2, <2>3 DEF Goto, Credentials, Looking, Generating
  <2>4. CASE WriteKey(p) /\ Loaded(p)
    <3>1. pair'[p] \in Id
      BY <1>1, <2>1, <2>4 DEF WriteKey, ownVars, StartupTypeOK, Generating
    <3>. QED
      BY <1>2, <2>1, <2>2, <2>4, <3>1 DEF Loaded, Goto
  <2>. QED
    BY <1>5, <2>3, <2>4 DEF Generate, WriteCert, WriteKey, WriteFails, Credentials,
       Generating
<1>6. ASSUME NEW p \in Proc, AnnouncePort(p) \/ Listen(p) \/ StartFails(p)
      PROVE  ServesWithPair'
  <2>1. UNCHANGED pair /\ pc[p] \in {"announce", "listen"}
    BY <1>6 DEF AnnouncePort, Listen, StartFails, ownVars
  <2>2. p \in Receiver \ Plain => pair[p] \in Id
    BY <2>1 DEF ServesWithPair
  <2>3. PICK step \in {"listen", "serving", "no directory", "exited"} : Goto(p, step)
    BY <1>6 DEF AnnouncePort, Listen, StartFails
  <2>. QED
    BY <1>2, <2>1, <2>2, <2>3 DEF Goto, Credentials, Looking, Generating
<1>7. ASSUME NEW p \in Proc, Killed(p) PROVE ServesWithPair'
  BY <1>1, <1>2, <1>7 DEF Killed, Goto, StartupTypeOK, Credentials, Looking, Generating
<1>8. ASSUME NEW p \in Proc, GiveUp(p) PROVE ServesWithPair'
  BY <1>1, <1>2, <1>8 DEF GiveUp, ownVars, Goto, StartupTypeOK, Credentials, Looking,
     Generating
<1>9. CASE UNCHANGED <<pc, pair>>
  BY <1>9 DEF ServesWithPair
<1>. QED
  BY <1>3, <1>4, <1>5, <1>6, <1>7, <1>8, <1>9
  DEF StartupNext, Proceed, OtherProgram, startVars, ownVars

THEOREM ServesWithPairAlways == StartupSpec => []ServesWithPair
<1>1. StartupInit => ServesWithPair
  BY DEF StartupInit, ServesWithPair, Credentials, Looking, Generating, Proc
<1>2. StartupInv /\ ServesWithPair /\ [StartupNext]_startVars => ServesWithPair'
  BY PairStep
<1>. QED
  BY StartupInitial, StartupStep, <1>1, <1>2, PTL DEF StartupSpec

=============================================================================
