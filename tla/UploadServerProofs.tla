------------------------- MODULE UploadServerProofs -------------------------
(***************************************************************************)
(* What the upload server guarantees for any number of requests, sessions, *)
(* files and names, proved with TLAPS.                                     *)
(***************************************************************************)
EXTENDS UploadServerProperties, SessionManagerProofs

----------------------------------------------------------------------------
(* What the calls on the directory return and keep.                        *)
LEMMA PutSound ==
  ASSUME NEW content \in Seq(Mark), NEW k \in Nat \ {0}, NEW w \in Writer
  PROVE  Put(content, k, w) \in Seq(Mark)
<1>1. Len(content) \in Nat /\ \A j \in 1..Len(content) : content[j] \in Mark
  OBVIOUS
<1>2. w \in Mark /\ "hole" \in Mark
  BY DEF Mark
<1>3. CASE k > Len(content)
  <2>1. Put(content, k, w) \in [1..k -> Mark]
    BY <1>1, <1>2, <1>3 DEF Put
  <2>. QED
    BY <2>1
<1>4. CASE ~(k > Len(content))
  <2>1. Put(content, k, w) \in [1..Len(content) -> Mark]
    BY <1>1, <1>2, <1>4 DEF Put
  <2>. QED
    BY <1>1, <2>1
<1>. QED
  BY <1>3, <1>4

LEMMA OpenedSound ==
  ASSUME SaveDirTypeOK, NEW p \in Path, NEW w \in Writer
  PROVE  Opened(p, w) \in Inode
BY DEF SaveDirTypeOK, Opened, Present, Inode

LEMMA CreateFileSound ==
  ASSUME SaveDirTypeOK, NEW p \in Path, NEW w \in Writer, CreateFile(p, w)
  PROVE  SaveDirTypeOK'
<1>1. Opened(p, w) \in Inode
  BY OpenedSound
<1>2. << >> \in Seq(Mark)
  OBVIOUS
<1>. QED
  BY <1>1, <1>2 DEF SaveDirTypeOK, CreateFile

LEMMA WriteChunkSound ==
  ASSUME SaveDirTypeOK, NEW i \in Inode, NEW k \in Nat \ {0}, NEW w \in Writer,
         WriteChunk(i, k, w)
  PROVE  SaveDirTypeOK'
<1>1. Put(data[i], k, w) \in Seq(Mark)
  BY PutSound DEF SaveDirTypeOK
<1>. QED
  BY <1>1 DEF SaveDirTypeOK, WriteChunk

LEMMA RemoveFileSound ==
  ASSUME SaveDirTypeOK, NEW p, RemoveFile(p)
  PROVE  SaveDirTypeOK'
BY DEF SaveDirTypeOK, RemoveFile

----------------------------------------------------------------------------
(***************************************************************************)
(* Every step of the server is a step of SessionManager or leaves its      *)
(* variables alone.                                                        *)
(***************************************************************************)
THEOREM StepUsesSessionManager ==
  ASSUME ServerTypeOK, [Next]_vars
  PROVE  [SMNext]_smVars
<1>. USE DEF ServerTypeOK, UploadTypeOK, ControlTypeOK
<1>1. ASSUME NEW u \in Upload, NEW s \in SessionId, NEW f \in FileId,
             NEW t \in Token, NEW from \in Host, NEW cert \in BOOLEAN,
             UploadArrive(u, s, f, t, from, cert)
      PROVE  SMNext
  BY <1>1 DEF UploadArrive, SMNext
<1>2. ASSUME NEW c \in CancelReq, NEW s \in SessionId, CancelArrive(c, s)
      PROVE  SMNext
  BY <1>2 DEF CancelArrive, SMNext
<1>3. ASSUME NEW p \in Prepare, NEW s \in SessionId, NEW fs \in SUBSET FileId,
             PrepareAccept(p, s, fs)
      PROVE  SMNext
  <2>1. CreateSession(s, offer[p].ip, offer[p].verified, fs)
    BY <1>3 DEF PrepareAccept
  <2>2. offer[p] \in Offer
    BY <1>3 DEF PrepareAccept, PrepareTypeOK
  <2>3. offer[p].ip \in Host /\ offer[p].verified \in BOOLEAN
    BY <2>2 DEF Offer
  <2>. QED
    BY <2>1, <2>3 DEF SMNext
<1>4. ASSUME NEW u \in Upload, NEW er \in {"nil", "eof", "error"},
             UploadReadChunk(u, er)
      PROVE  SMNext
  <2>1. job[u] \in Job
    BY <1>4 DEF UploadReadChunk, JobTypeOK
  <2>2. /\ job[u].sid \in SessionId
        /\ job[u].fid \in FileId
        /\ job[u].written + 1 \in 0..MaxBytes
    BY <1>4, <2>1, BoundsAssumption DEF UploadReadChunk, Job
  <2>3. MetaId[job[u].fid] \in FileId \cup {NoId}
    BY <2>2, ServerAssumption
  <2>4. RecordProgress(job[u].sid, MetaId[job[u].fid], job[u].written + 1)
    BY <1>4 DEF UploadReadChunk
  <2>. QED
    BY <2>2, <2>3, <2>4 DEF SMNext
<1>5. ASSUME NEW u \in Upload, UploadRelease(u) \/ UploadCancelCtx(u)
      PROVE  SMNext
  <2>1. job[u] \in Job
    BY <1>5 DEF UploadRelease, UploadCancelCtx, JobTypeOK
  <2>2. job[u].sid \in SessionId
    BY <2>1 DEF Job
  <2>. QED
    BY <1>5, <2>2 DEF UploadRelease, UploadCancelCtx, SMNext
<1>6. ASSUME NEW c \in CancelReq, CancelFinish(c)
      PROVE  SMNext
  <2>1. target[c] \in SessionId
    BY <1>6 DEF CancelFinish, TargetTypeOK, TypeOK
  <2>. QED
    BY <1>6, <2>1 DEF CancelFinish, SMNext
<1>7. CASE Background
  BY <1>7 DEF Background, SMNext
<1>8. ASSUME NEW p \in Prepare, PrepareNext(p)
      PROVE  [SMNext]_smVars
  <2>1. CASE PrepareArrives(p)
    BY <2>1 DEF PrepareArrives, PrepareRefused, Refuse, PrepareArrive
  <2>2. CASE PrepareRun(p)
    BY <2>2 DEF PrepareRun, PrepareStat, PrepareBusy, PrepareNotBusy
  <2>3. CASE PrepareAnswered(p)
    BY <1>3, <2>3 DEF PrepareAnswered, PrepareReject
  <2>. QED
    BY <1>8, <2>1, <2>2, <2>3 DEF PrepareNext
<1>9. ASSUME NEW u \in Upload, UploadNext(u)
      PROVE  [SMNext]_smVars
  <2>1. CASE UploadArrives(u)
    BY <1>1, <2>1 DEF UploadArrives, UploadRefused, Refuse
  <2>2. CASE UploadReceives(u)
    BY <1>4, <2>2 DEF UploadReceives, UploadReadEnd
  <2>3. CASE UploadRun(u)
    <3>1. ASSUME \/ UploadStat(u) \/ UploadCreate(u) \/ UploadCreateFails(u)
                 \/ UploadCheck(u) \/ ChecksumMatches(u) \/ ChecksumMismatch(u)
                 \/ UploadFinish(u) \/ UploadReleaseGone(u)
          PROVE  UNCHANGED smVars
      BY <3>1 DEF UploadStat, UploadCreate, UploadCreateFails, UploadCheck,
         ChecksumMatches, ChecksumMismatch, UploadFinish, UploadReleaseGone
    <3>. QED
      BY <1>5, <2>3, <3>1 DEF UploadRun
  <2>. QED
    BY <1>9, <2>1, <2>2, <2>3 DEF UploadNext
<1>10. ASSUME NEW c \in CancelReq, CancelNext(c)
       PROVE  [SMNext]_smVars
  <2>1. CASE CancelArrives(c)
    BY <1>2, <2>1 DEF CancelArrives, CancelNothing, Refuse
  <2>. QED
    BY <1>6, <1>10, <2>1 DEF CancelNext
<1>. QED
  BY <1>7, <1>8, <1>9, <1>10 DEF Next, vars

----------------------------------------------------------------------------
(***************************************************************************)
(* A handler moves itself only, to a step of its kind, and answers when it *)
(* is done.                                                                *)
(***************************************************************************)
Moves(r, steps) ==
  \E step \in steps :
    /\ pc' = [pc EXCEPT ![r] = step]
    /\ \/ reply' = reply
       \/ /\ step = "replied"
          /\ \E status \in Status : reply' = [reply EXCEPT ![r] = status]

LEMMA GotoMoves ==
  ASSUME NEW r, NEW steps, NEW step \in steps, Goto(r, step)
  PROVE  Moves(r, steps)
BY DEF Goto, Moves

LEMMA AnswerMoves ==
  ASSUME NEW r, NEW steps, "replied" \in steps, NEW status \in Status,
         Answer(r, status)
  PROVE  Moves(r, steps)
BY DEF Answer, Moves

LEMMA PrepareMoves ==
  ASSUME NEW p \in Prepare, PrepareNext(p)
  PROVE  Moves(p, PrepareStep)
<1>1. {"stat", "busy", "ask", "replied"} \subseteq PrepareStep
  BY DEF PrepareStep
<1>2. {200, 204, 400, 401, 403, 405, 409} \subseteq Status
  BY DEF Status
<1>3. \/ \E step \in {"stat", "busy", "ask"} : Goto(p, step)
      \/ \E status \in {200, 204, 400, 401, 403, 405, 409} : Answer(p, status)
  <2>1. ASSUME StartRange(p) PROVE Goto(p, "busy") \/ Goto(p, "ask")
    <3>1. CASE registered = {}
      BY <2>1, <3>1 DEF StartRange
    <3>2. CASE registered # {}
      BY <2>1, <3>2 DEF StartRange
    <3>. QED
      BY <3>1, <3>2
  <2>2. CASE PrepareArrives(p)
    <3>1. CASE PrepareRefused(p)
      BY <3>1 DEF PrepareRefused, Refuse
    <3>2. ASSUME NEW ip, NEW v, NEW fs, PrepareArrive(p, ip, v, fs)
          PROVE  StartRange(p) \/ Goto(p, "stat")
      BY <3>2 DEF PrepareArrive
    <3>. QED
      BY <2>1, <2>2, <3>1, <3>2 DEF PrepareArrives
  <2>3. CASE PrepareRun(p)
    BY <2>1, <2>3 DEF PrepareRun, PrepareStat, PrepareBusy, PrepareNotBusy
  <2>4. CASE PrepareAnswered(p)
    BY <2>4 DEF PrepareAnswered, PrepareReject, PrepareAccept
  <2>. QED
    BY <2>2, <2>3, <2>4 DEF PrepareNext
<1>. QED
  BY <1>1, <1>2, <1>3, GotoMoves, AnswerMoves

LEMMA UploadMoves ==
  ASSUME NEW u \in Upload, UploadNext(u)
  PROVE  Moves(u, UploadStep)
<1>1. (\E step \in UploadStep : Goto(u, step)) \/ (\E status \in Status : Answer(u, status))
  <2>. USE DEF UploadStep, Status
  <2>1. CASE UploadRefused(u)
    BY <2>1 DEF UploadRefused, Refuse
  <2>2. ASSUME NEW s \in SessionId, NEW f \in FileId, NEW t \in Token,
               NEW from \in Host, NEW cert \in BOOLEAN,
               UploadArrive(u, s, f, t, from, cert)
        PROVE  Goto(u, "stat") \/ Answer(u, Validation(s, f, t, from, cert))
    BY <2>2 DEF UploadArrive
  <2>3. ASSUME NEW s \in SessionId, NEW f \in FileId, NEW t \in Token,
               NEW from \in Host, NEW cert \in BOOLEAN
        PROVE  Validation(s, f, t, from, cert) \in Status
    BY DEF Validation
  <2>4. CASE UploadReceives(u)
    BY <2>4 DEF UploadReceives, UploadReadChunk, UploadReadEnd, AfterRead
  <2>5. CASE UploadRun(u)
    BY <2>5 DEF UploadRun, UploadStat, UploadCreate, UploadCreateFails, UploadCheck,
                ChecksumMatches, ChecksumMismatch, UploadFinish, UploadRelease,
                UploadReleaseGone, UploadCancelCtx
  <2>. QED
    BY <2>1, <2>2, <2>3, <2>4, <2>5 DEF UploadNext, UploadArrives
<1>. QED
  BY <1>1, GotoMoves, AnswerMoves DEF UploadStep

LEMMA CancelMoves ==
  ASSUME NEW c \in CancelReq, CancelNext(c)
  PROVE  Moves(c, CancelStep)
BY DEF CancelNext, CancelArrives, CancelNothing, Refuse, CancelArrive, CancelFinish,
       Goto, Answer, Moves, CancelStep, Status

LEMMA MovesOnly ==
  ASSUME ControlTypeOK, NEW r \in Request, NEW steps, Moves(r, steps)
  PROVE  /\ pc'[r] \in steps
         /\ \A q \in Request \ {r} : pc'[q] = pc[q] /\ reply'[q] = reply[q]
BY DEF ControlTypeOK, Moves

LEMMA MovesTyped ==
  ASSUME ControlTypeOK, NEW r \in Request,
         NEW steps \in SUBSET (PrepareStep \cup UploadStep), Moves(r, steps)
  PROVE  /\ pc' \in [Request -> PrepareStep \cup UploadStep]
         /\ reply' \in [Request -> Status \cup {NoReply}]
<1>1. pc' \in [Request -> PrepareStep \cup UploadStep]
  BY DEF ControlTypeOK, Moves
<1>2. CASE reply' = reply
  BY <1>2, <1>1 DEF ControlTypeOK
<1>3. ASSUME NEW status \in Status, reply' = [reply EXCEPT ![r] = status]
      PROVE  reply' \in [Request -> Status \cup {NoReply}]
  BY <1>3 DEF ControlTypeOK
<1>. QED
  BY <1>1, <1>2, <1>3 DEF Moves

THEOREM NextControlTypeOK ==
  ASSUME ServerTypeOK, [Next]_vars
  PROVE  ControlTypeOK'
<1>. ControlTypeOK
  BY DEF ServerTypeOK, UploadTypeOK
<1>1. ASSUME NEW p \in Prepare, Moves(p, PrepareStep)
      PROVE  ControlTypeOK'
  <2>1. pc'[p] \in PrepareStep /\ \A q \in Request \ {p} : pc'[q] = pc[q]
    BY <1>1, MovesOnly DEF Request
  <2>2. /\ pc' \in [Request -> PrepareStep \cup UploadStep]
        /\ reply' \in [Request -> Status \cup {NoReply}]
    BY <1>1, MovesTyped DEF Request
  <2>. QED
    BY <2>1, <2>2, ServerAssumption DEF ControlTypeOK, Request
<1>2. ASSUME NEW u \in Upload, Moves(u, UploadStep)
      PROVE  ControlTypeOK'
  <2>1. pc'[u] \in UploadStep /\ \A q \in Request \ {u} : pc'[q] = pc[q]
    BY <1>2, MovesOnly DEF Request
  <2>2. /\ pc' \in [Request -> PrepareStep \cup UploadStep]
        /\ reply' \in [Request -> Status \cup {NoReply}]
    BY <1>2, MovesTyped DEF Request
  <2>. QED
    BY <2>1, <2>2, ServerAssumption DEF ControlTypeOK, Request
<1>3. ASSUME NEW c \in CancelReq, Moves(c, CancelStep)
      PROVE  ControlTypeOK'
  <2>1. pc'[c] \in CancelStep /\ \A q \in Request \ {c} : pc'[q] = pc[q]
    BY <1>3, MovesOnly DEF Request
  <2>2. CancelStep \subseteq UploadStep
    BY DEF CancelStep, UploadStep
  <2>3. /\ pc' \in [Request -> PrepareStep \cup UploadStep]
        /\ reply' \in [Request -> Status \cup {NoReply}]
    BY <1>3, <2>2, MovesTyped DEF Request
  <2>. QED
    BY <2>1, <2>3, ServerAssumption DEF ControlTypeOK, Request
<1>4. CASE UNCHANGED <<pc, reply>>
  BY <1>4 DEF ControlTypeOK
<1>. QED
  BY <1>1, <1>2, <1>3, <1>4, PrepareMoves, UploadMoves, CancelMoves
  DEF Next, Background, handlerVars, vars

----------------------------------------------------------------------------
(* What each kind of step leaves alone.                                    *)
LEMMA CreatedGrows ==
  ASSUME TypeOK, [SMNext]_smVars
  PROVE  created \subseteq created'
BY DEF TypeOK, SMNext, SweepStep, Tick, CreateSession, GetSession, RecordProgress,
       LoadAndDelete, CancelDeleted, Close, SweepTick, SweepVisit, SweepDelete,
       SweepCancel, SweepEnd, SweepExit, smVars, created

LEMMA PrepareFrame ==
  ASSUME NEW p \in Prepare, PrepareNext(p)
  PROVE  UNCHANGED <<fsVars, job, target>>
BY DEF PrepareNext, PrepareArrives, PrepareRun, PrepareAnswered, PrepareRefused,
       Refuse, PrepareArrive, PrepareStat, PrepareBusy, PrepareNotBusy,
       PrepareReject, PrepareAccept

LEMMA UploadFrame ==
  ASSUME NEW u \in Upload, UploadNext(u)
  PROVE  UNCHANGED <<prepareVars, target>>
BY DEF UploadNext, UploadArrives, UploadReceives, UploadRun, UploadRefused, Refuse,
       UploadArrive, UploadReadChunk, UploadReadEnd, UploadStat, UploadCreate,
       UploadCreateFails, UploadCheck, ChecksumMatches, ChecksumMismatch,
       UploadFinish, UploadRelease, UploadReleaseGone, UploadCancelCtx

LEMMA CancelFrame ==
  ASSUME NEW c \in CancelReq, CancelNext(c)
  PROVE  UNCHANGED <<fsVars, prepareVars, job>>
BY DEF CancelNext, CancelArrives, CancelNothing, Refuse, CancelArrive, CancelFinish

LEMMA BackgroundFrame ==
  ASSUME Background
  PROVE  UNCHANGED <<fsVars, handlerVars>>
BY DEF Background

----------------------------------------------------------------------------
THEOREM NextSaveDirTypeOK ==
  ASSUME ServerTypeOK, [Next]_vars
  PROVE  SaveDirTypeOK'
<1>. SaveDirTypeOK /\ JobTypeOK
  BY DEF ServerTypeOK, UploadTypeOK
<1>1. CASE UNCHANGED fsVars
  BY <1>1 DEF SaveDirTypeOK, fsVars, Inode
<1>2. ASSUME NEW u \in Upload, UploadNext(u)
      PROVE  SaveDirTypeOK'
  <2>1. ASSUME u \in DOMAIN job PROVE job[u] \in Job /\ SavedPath(u) \in Path
    BY <2>1, ServerAssumption DEF JobTypeOK, Job, SavedPath
  <2>2. CASE UploadCreate(u)
    <3>1. u \in DOMAIN job
      BY <2>2 DEF UploadCreate, JobTypeOK
    <3>. QED
      BY <2>1, <2>2, <3>1, CreateFileSound, ServerAssumption DEF UploadCreate
  <2>3. CASE UploadCheck(u) \/ ChecksumMismatch(u)
    BY <1>1, <2>3, RemoveFileSound DEF UploadCheck, ChecksumMismatch
  <2>4. ASSUME NEW er \in {"nil", "eof", "error"}, UploadReadChunk(u, er)
        PROVE  SaveDirTypeOK'
    <3>1. job[u] \in Job
      BY <2>1, <2>4 DEF UploadReadChunk, JobTypeOK
    <3>2. job[u].fd \in Inode /\ job[u].written + 1 \in Nat \ {0}
      BY <3>1 DEF Job
    <3>. QED
      BY <2>4, <3>2, WriteChunkSound, ServerAssumption DEF UploadReadChunk
  <2>5. CASE UNCHANGED fsVars
    BY <1>1, <2>5
  <2>. QED
    BY <1>2, <2>2, <2>3, <2>4, <2>5
    DEF UploadNext, UploadArrives, UploadReceives, UploadRun, UploadRefused, Refuse,
        UploadArrive, UploadReadEnd, UploadStat, UploadCreateFails, ChecksumMatches,
        UploadFinish, UploadRelease, UploadReleaseGone, UploadCancelCtx
<1>. QED
  BY <1>1, <1>2, PrepareFrame, CancelFrame, BackgroundFrame DEF Next, vars

THEOREM NextPrepareTypeOK ==
  ASSUME ServerTypeOK, [Next]_vars
  PROVE  PrepareTypeOK'
<1>. PrepareTypeOK /\ ControlTypeOK /\ TypeOK
  BY DEF ServerTypeOK, UploadTypeOK
<1>1. created \subseteq created'
  BY StepUsesSessionManager, CreatedGrows
<1>2. ASSUME UNCHANGED prepareVars, \A p \in Prepare : pc'[p] = pc[p]
      PROVE  PrepareTypeOK'
  BY <1>1, <1>2 DEF PrepareTypeOK, prepareVars
<1>3. ASSUME NEW p \in Prepare, PrepareNext(p)
      PROVE  PrepareTypeOK'
  <2>1. /\ pc'[p] \in PrepareStep
        /\ \A q \in Prepare \ {p} : pc'[q] = pc[q]
    BY <1>3, PrepareMoves, MovesOnly DEF Request
  <2>2. registered \subseteq created
    BY DEF TypeOK
  <2>3. ASSUME NEW ip \in Host, NEW v \in BOOLEAN, NEW fs \in SUBSET FileId,
               PrepareArrive(p, ip, v, fs)
        PROVE  PrepareTypeOK'
    <3> DEFINE asked == [ip |-> ip, verified |-> v, files |-> fs]
    <3>1. asked \in Offer /\ offer' = With(offer, p, asked)
      BY <2>3 DEF PrepareArrive, Offer
    <3>. HIDE DEF asked
    <3>2. /\ offer' \in [DOMAIN offer' -> Offer]
          /\ DOMAIN offer' = DOMAIN offer \cup {p}
      BY <3>1 DEF PrepareTypeOK, With
    <3>3. unvisited' \in [Prepare -> SUBSET created]
      <4>1. CASE fs = {}
        BY <2>2, <2>3, <4>1 DEF PrepareArrive, StartRange, PrepareTypeOK
      <4>2. CASE fs # {}
        BY <2>3, <4>2 DEF PrepareArrive, PrepareTypeOK
      <4>. QED
        BY <4>1, <4>2
    <3>4. unchecked' \in [Prepare -> SUBSET FileId]
      BY <2>3 DEF PrepareArrive, PrepareTypeOK
    <3>. QED
      BY <1>1, <2>1, <3>2, <3>3, <3>4 DEF PrepareTypeOK
  <2>4. ASSUME UNCHANGED offer,
               unvisited' \in [Prepare -> SUBSET created],
               unchecked' \in [Prepare -> SUBSET FileId],
               pc[p] \in {"stat", "busy", "ask"} \/ pc'[p] = "replied"
        PROVE  PrepareTypeOK'
    BY <1>1, <2>1, <2>4 DEF PrepareTypeOK
  <2>5. CASE PrepareRefused(p) \/ PrepareAnswered(p)
    BY <2>4, <2>5 DEF PrepareTypeOK, PrepareRefused, Refuse, PrepareAnswered,
       PrepareReject, PrepareAccept, Answer, prepareVars, ControlTypeOK, Request
  <2>6. CASE PrepareRun(p)
    BY <2>2, <2>4, <2>6 DEF PrepareTypeOK, PrepareRun, PrepareStat, PrepareBusy,
       PrepareNotBusy, StartRange, Answer
  <2>. QED
    BY <1>3, <2>3, <2>5, <2>6 DEF PrepareNext, PrepareArrives
<1>4. ASSUME NEW u \in Upload, UploadNext(u)
      PROVE  PrepareTypeOK'
  BY <1>2, <1>4, UploadFrame, UploadMoves, MovesOnly, ServerAssumption DEF Request
<1>5. ASSUME NEW c \in CancelReq, CancelNext(c)
      PROVE  PrepareTypeOK'
  BY <1>2, <1>5, CancelFrame, CancelMoves, MovesOnly, ServerAssumption DEF Request
<1>. QED
  BY <1>2, <1>3, <1>4, <1>5, BackgroundFrame DEF Next, vars, handlerVars

THEOREM NextJobTypeOK ==
  ASSUME ServerTypeOK, [Next]_vars
  PROVE  JobTypeOK'
<1>. JobTypeOK /\ ControlTypeOK /\ TypeOK /\ SaveDirTypeOK
  BY DEF ServerTypeOK, UploadTypeOK
<1>1. created \subseteq created'
  BY StepUsesSessionManager, CreatedGrows
<1>2. ASSUME UNCHANGED job, \A u \in Upload : pc'[u] = pc[u]
      PROVE  JobTypeOK'
  BY <1>1, <1>2 DEF JobTypeOK
<1>3. ASSUME NEW u \in Upload, UploadNext(u)
      PROVE  JobTypeOK'
  <2>1. /\ pc'[u] \in UploadStep
        /\ \A v \in Upload \ {u} : pc'[v] = pc[v]
    BY <1>3, UploadMoves, MovesOnly DEF Request
  <2>2. ASSUME u \in DOMAIN job, pc'[u] # "idle",
               DOMAIN job' = DOMAIN job,
               job'[u] \in Job, job'[u].sid = job[u].sid,
               \A v \in DOMAIN job \ {u} : job'[v] = job[v],
               job' \in [DOMAIN job -> Job]
        PROVE  JobTypeOK'
    BY <1>1, <2>1, <2>2 DEF JobTypeOK
  <2>3. pc'[u] # "idle"
    <3>1. (\E step \in UploadStep \ {"idle"} : Goto(u, step)) \/ (\E status : Answer(u, status))
      <4>. USE DEF UploadStep
      <4>1. CASE UploadArrives(u)
        <5>1. CASE UploadRefused(u)
          BY <5>1 DEF UploadRefused, Refuse
        <5>2. ASSUME NEW s, NEW f, NEW t, NEW from, NEW cert,
                     UploadArrive(u, s, f, t, from, cert)
              PROVE  Goto(u, "stat") \/ Answer(u, Validation(s, f, t, from, cert))
          BY <5>2 DEF UploadArrive
        <5>. QED
          BY <4>1, <5>1, <5>2 DEF UploadArrives
      <4>2. CASE UploadReceives(u)
        BY <4>2 DEF UploadReceives, UploadReadChunk, UploadReadEnd, AfterRead
      <4>3. CASE UploadRun(u)
        BY <4>3 DEF UploadRun, UploadStat, UploadCreate, UploadCreateFails,
           UploadCheck, ChecksumMatches, ChecksumMismatch, UploadFinish,
           UploadRelease, UploadReleaseGone, UploadCancelCtx
      <4>. QED
        BY <1>3, <4>1, <4>2, <4>3 DEF UploadNext
    <3>. QED
      BY <3>1 DEF Goto, Answer, ControlTypeOK, Request
  <2>4. ASSUME UNCHANGED job, pc[u] \notin {"idle", "replied"}
        PROVE  JobTypeOK'
    BY <2>2, <2>3, <2>4 DEF JobTypeOK
  <2>5. ASSUME UNCHANGED job, pc'[u] = "replied"
        PROVE  JobTypeOK'
    BY <1>1, <2>1, <2>5 DEF JobTypeOK
  <2>6. CASE UploadRefused(u)
    BY <2>5, <2>6 DEF UploadRefused, Refuse, Answer, ControlTypeOK, Request
  <2>7. ASSUME NEW s \in SessionId, NEW f \in FileId, NEW t \in Token,
               NEW from \in Host, NEW cert \in BOOLEAN,
               UploadArrive(u, s, f, t, from, cert)
        PROVE  JobTypeOK'
    <3> DEFINE new == [sid |-> s, fid |-> f, try |-> 1, fd |-> u, written |-> 0]
    <3>1. CASE Validation(s, f, t, from, cert) # 200
      BY <2>5, <2>7, <3>1 DEF UploadArrive, Answer, ControlTypeOK, Request
    <3>2. CASE Validation(s, f, t, from, cert) = 200
      <4>1. job' = With(job, u, new)
        BY <2>7, <3>2 DEF UploadArrive
      <4>2. new \in Job /\ new.sid = s
        BY ServerAssumption, BoundsAssumption DEF Job, Inode
      <4>3. s \in created
        BY <2>7 DEF UploadArrive, GetSession, TypeOK
      <4>. HIDE DEF new
      <4>. QED
        BY <1>1, <2>1, <2>3, <4>1, <4>2, <4>3 DEF JobTypeOK, With
    <3>. QED
      BY <3>1, <3>2
  <2>8. CASE UploadStat(u)
    <3>1. u \in DOMAIN job
      BY <2>8 DEF UploadStat, JobTypeOK
    <3>2. CASE UNCHANGED job
      BY <2>4, <2>8, <3>2 DEF UploadStat
    <3>3. CASE /\ job[u].try < MaxTry
               /\ job' = [job EXCEPT ![u] = [job[u] EXCEPT !.try = job[u].try + 1]]
      <4> DEFINE next == job[u].try + 1
      <4>1. job[u] \in Job
        BY <3>1 DEF JobTypeOK
      <4>2. next \in 1..MaxTry
        BY <3>3, <4>1, ServerAssumption DEF Job
      <4>3. job' = [job EXCEPT ![u] = [job[u] EXCEPT !.try = next]]
        BY <3>3
      <4>. HIDE DEF next
      <4>4. /\ [job[u] EXCEPT !.try = next] \in Job
            /\ [job[u] EXCEPT !.try = next].sid = job[u].sid
        BY <4>1, <4>2 DEF Job
      <4>. QED
        BY <2>2, <2>3, <3>1, <4>3, <4>4 DEF JobTypeOK
    <3>. QED
      BY <2>8, <3>2, <3>3 DEF UploadStat
  <2>9. CASE UploadCreate(u)
    <3>1. u \in DOMAIN job /\ job[u] \in Job
      BY <2>9 DEF UploadCreate, JobTypeOK
    <3>2. Opened(SavedPath(u), u) \in Inode
      BY <3>1, OpenedSound, ServerAssumption DEF Job, SavedPath
    <3>3. /\ [job[u] EXCEPT !.fd = Opened(SavedPath(u), u)] \in Job
          /\ [job[u] EXCEPT !.fd = Opened(SavedPath(u), u)].sid = job[u].sid
      BY <3>1, <3>2 DEF Job
    <3>4. job' = [job EXCEPT ![u] = [job[u] EXCEPT !.fd = Opened(SavedPath(u), u)]]
      BY <2>9 DEF UploadCreate
    <3>. QED
      BY <2>2, <2>3, <3>1, <3>3, <3>4 DEF JobTypeOK
  <2>10. ASSUME NEW er \in {"nil", "eof", "error"}, UploadReadChunk(u, er)
         PROVE  JobTypeOK'
    <3> DEFINE n == job[u].written + 1
    <3>1. u \in DOMAIN job /\ job[u] \in Job
      BY <2>10 DEF UploadReadChunk, JobTypeOK
    <3>2. n \in 0..MaxBytes
      BY <2>10, <3>1, BoundsAssumption DEF UploadReadChunk, Job
    <3>3. job' = [job EXCEPT ![u] = [job[u] EXCEPT !.written = n]]
      BY <2>10 DEF UploadReadChunk
    <3>. HIDE DEF n
    <3>4. /\ [job[u] EXCEPT !.written = n] \in Job
          /\ [job[u] EXCEPT !.written = n].sid = job[u].sid
      BY <3>1, <3>2 DEF Job
    <3>. QED
      BY <2>2, <2>3, <3>1, <3>3, <3>4 DEF JobTypeOK
  <2>. QED
    BY <1>3, <2>4, <2>6, <2>7, <2>8, <2>9, <2>10
    DEF UploadNext, UploadArrives, UploadReceives, UploadRun, UploadReadEnd,
        UploadCreateFails, UploadCheck, ChecksumMatches, ChecksumMismatch,
        UploadFinish, UploadRelease, UploadReleaseGone, UploadCancelCtx
<1>4. ASSUME NEW p \in Prepare, PrepareNext(p)
      PROVE  JobTypeOK'
  BY <1>2, <1>4, PrepareFrame, PrepareMoves, MovesOnly, ServerAssumption DEF Request
<1>5. ASSUME NEW c \in CancelReq, CancelNext(c)
      PROVE  JobTypeOK'
  BY <1>2, <1>5, CancelFrame, CancelMoves, MovesOnly, ServerAssumption DEF Request
<1>. QED
  BY <1>2, <1>3, <1>4, <1>5, BackgroundFrame DEF Next, vars, handlerVars

THEOREM NextTargetTypeOK ==
  ASSUME ServerTypeOK, [Next]_vars
  PROVE  TargetTypeOK'
<1>. TargetTypeOK /\ ControlTypeOK /\ TypeOK
  BY DEF ServerTypeOK, UploadTypeOK
<1>1. created \subseteq created'
  BY StepUsesSessionManager, CreatedGrows
<1>2. ASSUME UNCHANGED target, \A c \in CancelReq : pc'[c] = pc[c]
      PROVE  TargetTypeOK'
  BY <1>1, <1>2 DEF TargetTypeOK
<1>3. ASSUME NEW c \in CancelReq, CancelNext(c)
      PROVE  TargetTypeOK'
  <2>1. \A d \in CancelReq \ {c} : pc'[d] = pc[d]
    BY <1>3, CancelMoves, MovesOnly DEF Request
  <2>2. CASE UNCHANGED target /\ pc'[c] = "replied"
    BY <1>1, <2>1, <2>2 DEF TargetTypeOK
  <2>3. ASSUME NEW s \in SessionId, CancelArrive(c, s)
        PROVE  TargetTypeOK'
    <3>1. target' = With(target, c, s) /\ s \in created /\ pc'[c] = "cancelctx"
      BY <2>3 DEF CancelArrive, LoadAndDelete, Goto, TypeOK, ControlTypeOK, Request
    <3>. QED
      BY <1>1, <2>1, <3>1 DEF TargetTypeOK, With
  <2>. QED
    BY <1>3, <2>2, <2>3
    DEF CancelNext, CancelArrives, CancelNothing, Refuse, CancelFinish, Answer,
        ControlTypeOK, Request
<1>4. ASSUME NEW p \in Prepare, PrepareNext(p)
      PROVE  TargetTypeOK'
  BY <1>2, <1>4, PrepareFrame, PrepareMoves, MovesOnly, ServerAssumption DEF Request
<1>5. ASSUME NEW u \in Upload, UploadNext(u)
      PROVE  TargetTypeOK'
  BY <1>2, <1>5, UploadFrame, UploadMoves, MovesOnly, ServerAssumption DEF Request
<1>. QED
  BY <1>2, <1>3, <1>4, <1>5, BackgroundFrame DEF Next, vars, handlerVars

----------------------------------------------------------------------------
THEOREM InitServerTypeOK == Init => ServerTypeOK
<1>. SUFFICES ASSUME Init PROVE ServerTypeOK
  OBVIOUS
<1>1. TypeOK
  BY InitTypeOK DEF Init
<1>2. SaveDirTypeOK
  <2>1. \A p \in Existing : OldContent(p) \in Seq(Mark)
    <3>. TAKE p \in Existing
    <3>1. OldLength[p] \in Nat /\ "old" \in Mark
      BY SaveDirAssumption DEF Mark
    <3>2. OldContent(p) \in [1..OldLength[p] -> Mark]
      BY <3>1 DEF OldContent
    <3>. QED
      BY <3>1, <3>2
  <2>2. << >> \in Seq(Mark)
    OBVIOUS
  <2>. QED
    BY <2>1, <2>2, SaveDirAssumption DEF Init, SaveDirInit, SaveDirTypeOK, Inode
<1>3. UploadTypeOK
  BY DEF Init, UploadTypeOK, ControlTypeOK, PrepareTypeOK, JobTypeOK, TargetTypeOK,
         Request, PrepareStep, UploadStep, CancelStep
<1>. QED
  BY <1>1, <1>2, <1>3 DEF ServerTypeOK

THEOREM NextServerTypeOK ==
  ASSUME ServerTypeOK, [Next]_vars
  PROVE  ServerTypeOK'
<1>1. TypeOK'
  BY StepUsesSessionManager, NextTypeOK DEF ServerTypeOK
<1>. QED
  BY <1>1, NextSaveDirTypeOK, NextControlTypeOK, NextPrepareTypeOK, NextJobTypeOK,
     NextTargetTypeOK DEF ServerTypeOK, UploadTypeOK

(* Every variable of the server has its type.                              *)
THEOREM ServerTypeCorrect == Spec => []ServerTypeOK
BY InitServerTypeOK, NextServerTypeOK, PTL DEF Spec

(* The upload server implements the safety part of SessionManager ...      *)
THEOREM UsesSessionManagerAlways == Spec => UsesSessionManager
<1>1. Init => SMInit
  BY DEF Init
<1>. QED
  BY <1>1, ServerTypeCorrect, StepUsesSessionManager, PTL
  DEF Spec, UsesSessionManager, SMSafety

(* ... so its theorems hold of the server.                                 *)
THEOREM ServerInvariant == Spec => []IInv
BY UsesSessionManagerAlways, InductiveInvariant, PTL DEF UsesSessionManager

----------------------------------------------------------------------------
(***************************************************************************)
(* Files that were there before are safe because an upload past its stat   *)
(* loop holds a name it has seen free, and a name of such a file is never  *)
(* free; and because names given since lead to inodes made since.          *)
(***************************************************************************)
ExistingInv ==
  /\ ExistingFilesUntouched
  /\ \A q \in DOMAIN dir \ Existing : dir[q] \in Writer
  /\ \A u \in DOMAIN job :
       pc[u] \in {"create", "check", "read", "verify"} => SavedPath(u) \notin Existing
  /\ \A u \in DOMAIN job : job[u].fd \in Writer

(* An upload leaves the jobs and steps of the other ones alone.            *)
LEMMA UploadOthers ==
  ASSUME ServerTypeOK, NEW u \in Upload, UploadNext(u)
  PROVE  /\ DOMAIN job \subseteq DOMAIN job'
         /\ DOMAIN job' \subseteq DOMAIN job \cup {u}
         /\ \A v \in DOMAIN job \ {u} :
              job'[v] = job[v] /\ pc'[v] = pc[v] /\ SavedPath(v)' = SavedPath(v)
<1>1. \A v \in Upload \ {u} : pc'[v] = pc[v]
  BY UploadMoves, MovesOnly DEF Request, ServerTypeOK, UploadTypeOK
<1>2. \/ UNCHANGED job
      \/ \E new : job' = [job EXCEPT ![u] = new]
      \/ \E new : job' = With(job, u, new)
  <2>1. CASE UploadArrives(u)
    BY <2>1 DEF UploadArrives, UploadRefused, Refuse, UploadArrive
  <2>2. CASE UploadReceives(u)
    BY <2>2 DEF UploadReceives, UploadReadChunk, UploadReadEnd
  <2>3. CASE UploadRun(u)
    <3>1. UploadStat(u) => UNCHANGED job \/ \E new : job' = [job EXCEPT ![u] = new]
      BY DEF UploadStat
    <3>2. UploadCreate(u) => \E new : job' = [job EXCEPT ![u] = new]
      BY DEF UploadCreate
    <3>3. UploadCreateFails(u) \/ UploadCheck(u) \/ ChecksumMatches(u)
          \/ ChecksumMismatch(u) \/ UploadFinish(u) \/ UploadRelease(u)
          \/ UploadReleaseGone(u) \/ UploadCancelCtx(u) => UNCHANGED job
      BY DEF UploadCreateFails, UploadCheck, ChecksumMatches, ChecksumMismatch,
         UploadFinish, UploadRelease, UploadReleaseGone, UploadCancelCtx
    <3>. QED
      BY <2>3, <3>1, <3>2, <3>3 DEF UploadRun
  <2>. QED
    BY <2>1, <2>2, <2>3 DEF UploadNext
<1>3. /\ DOMAIN job \subseteq DOMAIN job'
      /\ DOMAIN job' \subseteq DOMAIN job \cup {u}
      /\ \A v \in DOMAIN job \ {u} : job'[v] = job[v]
  BY <1>2 DEF With, ServerTypeOK, UploadTypeOK, JobTypeOK
<1>. QED
  BY <1>1, <1>3 DEF SavedPath, ServerTypeOK, UploadTypeOK, JobTypeOK

LEMMA InitExistingInv == Init => ExistingInv
BY SaveDirAssumption DEF Init, SaveDirInit, ExistingInv, ExistingFilesUntouched,
   Present, Inode

THEOREM NextExistingInv ==
  ASSUME ServerTypeOK, ExistingInv, [Next]_vars
  PROVE  ExistingInv'
<1>. JobTypeOK /\ ControlTypeOK /\ SaveDirTypeOK
  BY DEF ServerTypeOK, UploadTypeOK
<1>1. ASSUME UNCHANGED <<fsVars, job>>, \A u \in Upload : pc'[u] = pc[u]
      PROVE  ExistingInv'
  BY <1>1 DEF ExistingInv, ExistingFilesUntouched, Present, SavedPath, fsVars, JobTypeOK
<1>2. ASSUME NEW u \in Upload, UploadNext(u)
      PROVE  ExistingInv'
  <2>1. u \in Writer /\ Writer \cap Existing = {}
    BY ServerAssumption, SaveDirAssumption
  <2>2. ASSUME u \in DOMAIN job' =>
                 /\ job'[u].fd \in Writer
                 /\ pc'[u] \in {"create", "check", "read", "verify"}
                      => SavedPath(u)' \notin Existing,
               ExistingFilesUntouched',
               \A q \in DOMAIN dir' \ Existing : dir'[q] \in Writer
        PROVE  ExistingInv'
    BY <1>2, <2>2, UploadOthers DEF ExistingInv
  <2>3. ASSUME UNCHANGED fsVars
        PROVE  /\ ExistingFilesUntouched'
               /\ \A q \in DOMAIN dir' \ Existing : dir'[q] \in Writer
    BY <2>3 DEF ExistingInv, ExistingFilesUntouched, Present, fsVars
  <2>4. ASSUME UNCHANGED <<fsVars, job>>,
               pc'[u] \in {"create", "check", "read", "verify"}
                 => pc[u] \in {"create", "check", "read", "verify"}
        PROVE  ExistingInv'
    BY <2>2, <2>3, <2>4 DEF ExistingInv, SavedPath
  <2>5. CASE UploadRefused(u) \/ UploadCreateFails(u) \/ ChecksumMatches(u)
             \/ UploadFinish(u) \/ UploadRelease(u) \/ UploadReleaseGone(u)
             \/ UploadCancelCtx(u)
    BY <2>4, <2>5 DEF UploadRefused, Refuse, UploadCreateFails, ChecksumMatches,
       UploadFinish, UploadRelease, UploadReleaseGone, UploadCancelCtx, Goto, Answer,
       ControlTypeOK, Request
  <2>6. ASSUME NEW er \in {"eof", "error"}, UploadReadEnd(u, er)
        PROVE  ExistingInv'
    BY <2>4, <2>6 DEF UploadReadEnd
  <2>7. ASSUME NEW s \in SessionId, NEW f \in FileId, NEW t \in Token,
               NEW from \in Host, NEW cert \in BOOLEAN,
               UploadArrive(u, s, f, t, from, cert)
        PROVE  ExistingInv'
    <3>1. UNCHANGED fsVars /\ pc'[u] \in {"stat", "replied"}
      BY <2>7 DEF UploadArrive, Goto, Answer, ControlTypeOK, Request
    <3>2. u \notin DOMAIN job
      BY <2>7 DEF UploadArrive, JobTypeOK
    <3>3. UNCHANGED job
            \/ job' = With(job, u, [sid |-> s, fid |-> f, try |-> 1, fd |-> u,
                                    written |-> 0])
      BY <2>7 DEF UploadArrive
    <3>4. u \in DOMAIN job' => job'[u].fd \in Writer
      BY <2>1, <3>2, <3>3 DEF With
    <3>. QED
      BY <2>2, <2>3, <3>1, <3>4
  <2>8. CASE UploadStat(u)
    <3>1. u \in DOMAIN job /\ UNCHANGED fsVars
      BY <2>8 DEF UploadStat, JobTypeOK
    <3>2. CASE Present(SavedPath(u))
      <4>1. pc'[u] = "stat"
        BY <2>8, <3>2 DEF UploadStat, Goto, ControlTypeOK, Request
      <4>2. job'[u].fd = job[u].fd
        BY <2>8, <3>1, <3>2 DEF UploadStat, JobTypeOK, Job
      <4>. QED
        BY <2>2, <2>3, <3>1, <4>1, <4>2 DEF ExistingInv
    <3>3. CASE ~Present(SavedPath(u))
      <4>1. SavedPath(u) \notin Existing /\ UNCHANGED job
        BY <2>8, <3>3 DEF UploadStat, ExistingInv, ExistingFilesUntouched
      <4>. QED
        BY <2>2, <2>3, <3>1, <4>1 DEF ExistingInv, SavedPath
    <3>. QED
      BY <3>2, <3>3
  <2>9. CASE UploadCreate(u)
    <3>1. u \in DOMAIN job /\ job[u] \in Job /\ SavedPath(u) \notin Existing
      BY <2>9 DEF UploadCreate, JobTypeOK, ExistingInv
    <3>2. Opened(SavedPath(u), u) \in Writer
      BY <2>1, <3>1 DEF Opened, Present, ExistingInv
    <3>3. job'[u].fd \in Writer /\ SavedPath(u)' = SavedPath(u)
      BY <2>9, <3>1, <3>2 DEF UploadCreate, JobTypeOK, Job, SavedPath
    <3>4. ExistingFilesUntouched'
      BY <2>1, <2>9, <3>1, <3>2 DEF UploadCreate, CreateFile, ExistingInv,
         ExistingFilesUntouched, Present, SaveDirTypeOK, Inode
    <3>5. \A q \in DOMAIN dir' \ Existing : dir'[q] \in Writer
      BY <2>9, <3>2 DEF UploadCreate, CreateFile, ExistingInv
    <3>. QED
      BY <2>2, <3>1, <3>3, <3>4, <3>5
  <2>10. CASE UploadCheck(u) \/ ChecksumMismatch(u)
    <3>1. u \in DOMAIN job /\ SavedPath(u) \notin Existing /\ UNCHANGED job
      BY <2>10 DEF UploadCheck, ChecksumMismatch, JobTypeOK, ExistingInv
    <3>2. UNCHANGED fsVars \/ RemoveFile(SavedPath(u))
      BY <2>10 DEF UploadCheck, ChecksumMismatch
    <3>3. /\ ExistingFilesUntouched'
          /\ \A q \in DOMAIN dir' \ Existing : dir'[q] \in Writer
      BY <2>3, <3>1, <3>2 DEF RemoveFile, ExistingInv, ExistingFilesUntouched, Present
    <3>. QED
      BY <2>2, <3>1, <3>3 DEF ExistingInv, SavedPath
  <2>11. ASSUME NEW er \in {"nil", "eof", "error"}, UploadReadChunk(u, er)
         PROVE  ExistingInv'
    <3>1. u \in DOMAIN job /\ job[u] \in Job /\ job[u].fd \in Writer
          /\ SavedPath(u) \notin Existing
      BY <2>11 DEF UploadReadChunk, JobTypeOK, ExistingInv
    <3>2. job' = [job EXCEPT ![u] = [job[u] EXCEPT !.written = job[u].written + 1]]
      BY <2>11 DEF UploadReadChunk
    <3>3. job'[u].fd = job[u].fd /\ SavedPath(u)' = SavedPath(u)
      BY <3>1, <3>2 DEF JobTypeOK, Job, SavedPath
    <3>4. WriteChunk(job[u].fd, job[u].written + 1, u)
      BY <2>11 DEF UploadReadChunk
    <3>5. /\ ExistingFilesUntouched'
          /\ \A q \in DOMAIN dir' \ Existing : dir'[q] \in Writer
      BY <2>1, <3>1, <3>4 DEF WriteChunk, ExistingInv, ExistingFilesUntouched, Present,
         SaveDirTypeOK, Inode
    <3>. QED
      BY <2>2, <3>1, <3>3, <3>5
  <2>. QED
    BY <1>2, <2>5, <2>6, <2>7, <2>8, <2>9, <2>10, <2>11
    DEF UploadNext, UploadArrives, UploadReceives, UploadRun
<1>3. ASSUME NEW p \in Prepare, PrepareNext(p)
      PROVE  ExistingInv'
  BY <1>1, <1>3, PrepareFrame, PrepareMoves, MovesOnly, ServerAssumption DEF Request
<1>4. ASSUME NEW c \in CancelReq, CancelNext(c)
      PROVE  ExistingInv'
  BY <1>1, <1>4, CancelFrame, CancelMoves, MovesOnly, ServerAssumption DEF Request
<1>. QED
  BY <1>1, <1>2, <1>3, <1>4, BackgroundFrame DEF Next, vars, handlerVars

(* No upload alters or removes a file that was in the directory before.    *)
THEOREM ExistingFilesUntouchedAlways == Spec => []ExistingFilesUntouched
<1>1. Init => ServerTypeOK /\ ExistingInv
  BY InitServerTypeOK, InitExistingInv
<1>2. ServerTypeOK /\ ExistingInv /\ [Next]_vars => ServerTypeOK' /\ ExistingInv'
  BY NextServerTypeOK, NextExistingInv
<1>3. ExistingInv => ExistingFilesUntouched
  BY DEF ExistingInv
<1>. QED
  BY <1>1, <1>2, <1>3, PTL DEF Spec

----------------------------------------------------------------------------
(***************************************************************************)
(* What is on disk agrees with what was answered.  An upload that has      *)
(* chosen its name keeps it, so a path once contested stays contested; a   *)
(* name leads to the inode of an upload that chose it, and an upload       *)
(* writes to its own inode or to that of one it shares a path with.        *)
(***************************************************************************)
Past(u) == u \in DOMAIN job /\ pc[u] \notin {"idle", "stat"}

NamesInv ==
  /\ \A q \in DOMAIN dir \ Existing : Past(dir[q]) /\ SavedPath(dir[q]) = q
  /\ \A u \in DOMAIN job : job[u].fd # u =>
       Past(u) /\ Past(job[u].fd) /\ SavedPath(job[u].fd) = SavedPath(u)

(* What is counted is what was written, and was checked if it could be.    *)
Verified == {"finish", "release", "cancelctx"}

CountInv ==
  /\ \A u \in Upload : reply[u] # NoReply => pc[u] = "replied"
  /\ \A u \in DOMAIN job :
       /\ pc[u] \in {"stat", "create"} => job[u].written = 0
       /\ (pc[u] \in Verified \/ reply[u] = 200) /\ job[u].fid \in HasSha
            => job[u].written = Size[job[u].fid]

Holds(u) == pc[u] \in {"check", "read", "verify"} \cup Verified \/ reply[u] = 200

Empty(u) == pc[u] = "create" \/ reply[u] \in {400, 422}

Stored(u) ==
  /\ Present(SavedPath(u)) /\ dir[SavedPath(u)] = u
  /\ job[u].fd = u
  /\ data[u] = Received(u)

HoldInv ==
  \A u \in DOMAIN job : Past(u) /\ ~Contested(u) =>
    /\ Holds(u) => Stored(u)
    /\ Empty(u) => ~Present(SavedPath(u))

DiskInv == ExistingInv /\ NamesInv /\ CountInv /\ HoldInv

(* The name and the file of an upload that has chosen its name are final.  *)
LEMMA PastStays ==
  ASSUME ServerTypeOK, NEW v \in Upload, UploadNext(v), NEW u, Past(u)
  PROVE  /\ u \in DOMAIN job' /\ pc'[u] \notin {"idle", "stat"}
         /\ job'[u].fid = job[u].fid /\ SavedPath(u)' = SavedPath(u)
         /\ (u = v /\ pc[u] = "create") \/ job'[u].fd = job[u].fd
<1>. JobTypeOK /\ ControlTypeOK
  BY DEF ServerTypeOK, UploadTypeOK
<1>0. u \in DOMAIN job /\ job[u] \in Job /\ pc[u] \notin {"idle", "stat"} /\ u \in Upload
  BY DEF Past, JobTypeOK
<1>1. CASE u # v
  BY <1>0, <1>1, UploadOthers
<1>2. CASE u = v
  <2>1. ~UploadArrives(v) /\ ~UploadStat(v)
    BY <1>0, <1>2 DEF UploadArrives, UploadRefused, Refuse, UploadArrive, UploadStat
  <2>2. \/ UploadReceives(v) \/ UploadCreate(v) \/ UploadCreateFails(v) \/ UploadCheck(v)
        \/ ChecksumMatches(v) \/ ChecksumMismatch(v) \/ UploadFinish(v)
        \/ UploadRelease(v) \/ UploadReleaseGone(v) \/ UploadCancelCtx(v)
    BY <2>1 DEF UploadNext, UploadRun
  <2>3. pc'[v] \notin {"idle", "stat"}
    <3>1. \/ \E step \in UploadStep \ {"idle", "stat"} : Goto(v, step)
          \/ \E status : Answer(v, status)
      <4>. USE DEF UploadStep
      <4>1. CASE UploadReceives(v)
        BY <4>1 DEF UploadReceives, UploadReadChunk, UploadReadEnd, AfterRead
      <4>2. CASE ~UploadReceives(v)
        BY <2>2, <4>2 DEF UploadCreate, UploadCreateFails, UploadCheck, ChecksumMatches,
           ChecksumMismatch, UploadFinish, UploadRelease, UploadReleaseGone, UploadCancelCtx
      <4>. QED
        BY <4>1, <4>2
    <3>. QED
      BY <3>1 DEF Goto, Answer, ControlTypeOK, Request
  <2>4. \/ UNCHANGED job
        \/ pc[v] = "create" /\ \E x : job' = [job EXCEPT ![v] = [job[v] EXCEPT !.fd = x]]
        \/ \E x : job' = [job EXCEPT ![v] = [job[v] EXCEPT !.written = x]]
    <3>1. CASE UploadReceives(v)
      BY <3>1 DEF UploadReceives, UploadReadChunk, UploadReadEnd
    <3>2. CASE UploadCreate(v)
      BY <3>2 DEF UploadCreate
    <3>3. CASE ~UploadReceives(v) /\ ~UploadCreate(v)
      BY <2>2, <3>3 DEF UploadCreateFails, UploadCheck, ChecksumMatches,
         ChecksumMismatch, UploadFinish, UploadRelease, UploadReleaseGone, UploadCancelCtx
    <3>. QED
      BY <3>1, <3>2, <3>3
  <2>5. /\ v \in DOMAIN job'
        /\ job'[v].fid = job[v].fid /\ job'[v].try = job[v].try
        /\ pc[v] = "create" \/ job'[v].fd = job[v].fd
    BY <1>0, <1>2, <2>4 DEF Job
  <2>. QED
    BY <1>2, <2>3, <2>5 DEF SavedPath
<1>. QED
  BY <1>1, <1>2

LEMMA ContestedStays ==
  ASSUME ServerTypeOK, NEW v \in Upload, UploadNext(v), NEW u, Past(u), Contested(u)
  PROVE  Contested(u)'
<1>1. PICK w \in DOMAIN job \ {u} : Past(w) /\ SavedPath(w) = SavedPath(u)
  BY DEF Contested, Past
<1>2. /\ w \in DOMAIN job' /\ pc'[w] \notin {"idle", "stat"}
      /\ SavedPath(w)' = SavedPath(w)
  BY <1>1, PastStays
<1>3. SavedPath(u)' = SavedPath(u)
  BY PastStays
<1>. QED
  BY <1>1, <1>2, <1>3 DEF Contested

(* What an upload does to the directory.                                   *)
LEMMA DiskSteps ==
  ASSUME ServerTypeOK, ExistingInv, NEW v \in Upload, UploadNext(v)
  PROVE  \/ UNCHANGED fsVars
         \/ /\ Past(v) /\ SavedPath(v) \notin Existing
            /\ \/ pc[v] = "create" /\ CreateFile(SavedPath(v), v)
               \/ RemoveFile(SavedPath(v))
               \/ pc[v] # "create" /\ \E n : WriteChunk(job[v].fd, n, v)
<1>. JobTypeOK /\ ControlTypeOK
  BY DEF ServerTypeOK, UploadTypeOK
<1>1. ASSUME pc[v] \in {"create", "check", "read", "verify"}
      PROVE  Past(v) /\ SavedPath(v) \notin Existing
  BY <1>1 DEF JobTypeOK, ExistingInv, Past
<1>2. CASE UploadArrives(v)
  BY <1>2 DEF UploadArrives, UploadRefused, Refuse, UploadArrive
<1>3. CASE UploadReceives(v)
  <2>1. UNCHANGED fsVars \/ (pc[v] = "read" /\ \E n : WriteChunk(job[v].fd, n, v))
    BY <1>3 DEF UploadReceives, UploadReadChunk, UploadReadEnd
  <2>. QED
    BY <1>1, <2>1
<1>4. CASE UploadCreate(v)
  BY <1>1, <1>4 DEF UploadCreate
<1>5. CASE UploadCheck(v) \/ ChecksumMismatch(v)
  <2>1. UNCHANGED fsVars \/ (pc[v] \in {"check", "verify"} /\ RemoveFile(SavedPath(v)))
    BY <1>5 DEF UploadCheck, ChecksumMismatch
  <2>. QED
    BY <1>1, <2>1
<1>6. CASE UploadStat(v) \/ UploadCreateFails(v) \/ ChecksumMatches(v) \/ UploadFinish(v)
           \/ UploadRelease(v) \/ UploadReleaseGone(v) \/ UploadCancelCtx(v)
  BY <1>6 DEF UploadStat, UploadCreateFails, ChecksumMatches, UploadFinish, UploadRelease,
     UploadReleaseGone, UploadCancelCtx
<1>. QED
  BY <1>2, <1>3, <1>4, <1>5, <1>6 DEF UploadNext, UploadRun

(* The file created is a new one, or one made for the same path.           *)
LEMMA OpenedIs ==
  ASSUME NamesInv, NEW v, SavedPath(v) \notin Existing
  PROVE  \/ Opened(SavedPath(v), v) = v
         \/ /\ Past(Opened(SavedPath(v), v))
            /\ SavedPath(Opened(SavedPath(v), v)) = SavedPath(v)
BY DEF Opened, Present, NamesInv

(* An upload leaves alone the file of another one that shares no path.     *)
LEMMA DiskFrame ==
  ASSUME ServerTypeOK, ExistingInv, NamesInv, NEW v \in Upload, UploadNext(v),
         NEW u, u # v, Past(u), ~Contested(u)
  PROVE  /\ SavedPath(u) \in DOMAIN dir' <=> Present(SavedPath(u))
         /\ Present(SavedPath(u)) => dir'[SavedPath(u)] = dir[SavedPath(u)]
         /\ data'[u] = data[u]
<1>1. Past(v) => SavedPath(v) # SavedPath(u)
  BY DEF Contested, Past
<1>2. CASE UNCHANGED fsVars
  BY <1>2 DEF fsVars, Present
<1>3. CASE /\ Past(v) /\ SavedPath(v) \notin Existing
           /\ CreateFile(SavedPath(v), v)
  <2>1. Opened(SavedPath(v), v) # u
    BY <1>1, <1>3, OpenedIs
  <2>2. data'[u] = data[u]
    BY <1>3, <2>1 DEF CreateFile
  <2>. QED
    BY <1>1, <1>3, <2>2 DEF CreateFile, Present
<1>4. CASE Past(v) /\ RemoveFile(SavedPath(v))
  BY <1>1, <1>4 DEF RemoveFile, Present
<1>5. ASSUME Past(v), NEW n, WriteChunk(job[v].fd, n, v)
      PROVE  UNCHANGED dir /\ data'[u] = data[u]
  <2>1. job[v].fd # u
    BY <1>1, <1>5 DEF NamesInv, Past
  <2>. QED
    BY <1>5, <2>1 DEF WriteChunk
<1>. QED
  BY <1>2, <1>3, <1>4, <1>5, DiskSteps DEF Present

LEMMA NamesStep ==
  ASSUME ServerTypeOK, ExistingInv, NamesInv, NEW v \in Upload, UploadNext(v)
  PROVE  NamesInv'
<1>. JobTypeOK /\ ControlTypeOK
  BY DEF ServerTypeOK, UploadTypeOK
<1>1. ASSUME NEW q \in DOMAIN dir' \ Existing, q \in DOMAIN dir, dir'[q] = dir[q]
      PROVE  Past(dir[q])' /\ SavedPath(dir[q])' = q
  <2>1. PICK w : w = dir[q]
    OBVIOUS
  <2>2. Past(w) /\ SavedPath(w) = q
    BY <1>1, <2>1 DEF NamesInv
  <2>3. /\ w \in DOMAIN job' /\ pc'[w] \notin {"idle", "stat"}
        /\ SavedPath(w)' = q
    BY <2>2, PastStays
  <2>. QED
    BY <1>1, <2>1, <2>3 DEF Past, SavedPath
<1>2. ASSUME NEW q \in DOMAIN dir' \ Existing
      PROVE  Past(dir[q])' /\ SavedPath(dir[q])' = q
  <2>1. CASE UNCHANGED fsVars
    BY <1>1, <1>2, <2>1 DEF fsVars
  <2>2. CASE CreateFile(SavedPath(v), v) /\ Past(v)
    <3>1. CASE q \in DOMAIN dir
      <4>1. dir'[q] = dir[q]
        BY <2>2, <3>1 DEF CreateFile, Opened, Present
      <4>. QED
        BY <1>1, <1>2, <3>1, <4>1
    <3>2. CASE q \notin DOMAIN dir
      <4>1. q = SavedPath(v) /\ dir'[q] = v
        BY <1>2, <2>2, <3>2 DEF CreateFile, Opened, Present
      <4>2. /\ v \in DOMAIN job' /\ pc'[v] \notin {"idle", "stat"}
            /\ SavedPath(v)' = SavedPath(v)
        BY <2>2, PastStays
      <4>. QED
        BY <4>1, <4>2 DEF Past, SavedPath
    <3>. QED
      BY <3>1, <3>2
  <2>3. CASE RemoveFile(SavedPath(v))
    BY <1>1, <1>2, <2>3 DEF RemoveFile
  <2>4. CASE \E n : WriteChunk(job[v].fd, n, v)
    BY <1>1, <1>2, <2>4 DEF WriteChunk
  <2>. QED
    BY <2>1, <2>2, <2>3, <2>4, DiskSteps
<1>3. ASSUME NEW u \in DOMAIN job', job'[u].fd # u
      PROVE  Past(u)' /\ Past(job[u].fd)' /\ SavedPath(job[u].fd)' = SavedPath(u)'
  <2>1. PICK w : w = job'[u].fd
    OBVIOUS
  <2>2. ASSUME Past(u), Past(w), SavedPath(w) = SavedPath(u)
        PROVE  Past(u)' /\ Past(job[u].fd)' /\ SavedPath(job[u].fd)' = SavedPath(u)'
    <3>1. /\ u \in DOMAIN job' /\ pc'[u] \notin {"idle", "stat"}
          /\ SavedPath(u)' = SavedPath(u)
      BY <2>2, PastStays
    <3>2. /\ w \in DOMAIN job' /\ pc'[w] \notin {"idle", "stat"}
          /\ SavedPath(w)' = SavedPath(w)
      BY <2>2, PastStays
    <3>. QED
      BY <2>1, <2>2, <3>1, <3>2 DEF Past, SavedPath
  <2>3. CASE u \in DOMAIN job /\ job'[u].fd = job[u].fd
    BY <1>3, <2>1, <2>2, <2>3 DEF NamesInv
  <2>4. CASE u = v /\ UploadCreate(v)
    <3>1. v \in DOMAIN job /\ Past(v) /\ SavedPath(v) \notin Existing
      BY <2>4 DEF UploadCreate, JobTypeOK, ExistingInv, Past
    <3>2. job' = [job EXCEPT ![v] = [job[v] EXCEPT !.fd = Opened(SavedPath(v), v)]]
      BY <2>4 DEF UploadCreate
    <3>3. w = Opened(SavedPath(v), v)
      BY <2>1, <2>4, <3>1, <3>2 DEF JobTypeOK, Job
    <3>4. Past(w) /\ SavedPath(w) = SavedPath(v)
      BY <1>3, <2>1, <2>4, <3>1, <3>3, OpenedIs
    <3>. QED
      BY <2>2, <2>4, <3>1, <3>4
  <2>5. u \in DOMAIN job => (u = v /\ UploadCreate(v)) \/ job'[u].fd = job[u].fd
    <3>1. CASE u # v
      BY <3>1, UploadOthers
    <3>2. CASE u = v /\ Past(v)
      <4>1. pc[v] = "create" => UploadCreate(v) \/ UNCHANGED job
        BY DEF UploadNext, UploadArrives, UploadRefused, Refuse, UploadArrive,
           UploadReceives, UploadReadChunk, UploadReadEnd, UploadRun, UploadStat,
           UploadCreateFails, UploadCheck, ChecksumMatches, ChecksumMismatch,
           UploadFinish, UploadRelease, UploadReleaseGone, UploadCancelCtx
      <4>. QED
        BY <3>2, <4>1, PastStays
    <3>3. CASE u = v /\ v \in DOMAIN job /\ pc[v] = "stat"
      <4>1. UploadStat(v)
        BY <3>3 DEF UploadNext, UploadArrives, UploadRefused, Refuse, UploadArrive,
           UploadReceives, UploadReadChunk, UploadReadEnd, UploadRun, UploadCreate,
           UploadCreateFails, UploadCheck, ChecksumMatches, ChecksumMismatch,
           UploadFinish, UploadRelease, UploadReleaseGone, UploadCancelCtx
      <4>2. UNCHANGED job
            \/ job' = [job EXCEPT ![v] = [job[v] EXCEPT !.try = job[v].try + 1]]
        BY <4>1 DEF UploadStat
      <4>. QED
        BY <3>3, <4>2 DEF JobTypeOK, Job
    <3>. QED
      BY <3>1, <3>2, <3>3 DEF Past, JobTypeOK
  <2>6. u \notin DOMAIN job => job'[u].fd = u
    <3>1. ASSUME u \notin DOMAIN job PROVE u = v /\ UploadArrives(v)
      <4>1. u = v
        BY <1>3, <3>1, UploadOthers
      <4>2. ~UNCHANGED job /\ v \notin DOMAIN job
        BY <1>3, <3>1, <4>1
      <4>3. pc[v] \in {"idle", "replied"}
        BY <4>2 DEF JobTypeOK
      <4>. QED
        BY <4>1, <4>3 DEF UploadNext, UploadReceives, UploadReadChunk, UploadReadEnd,
           UploadRun, UploadStat, UploadCreate, UploadCreateFails, UploadCheck,
           ChecksumMatches, ChecksumMismatch, UploadFinish, UploadRelease,
           UploadReleaseGone, UploadCancelCtx
    <3>2. ASSUME NEW s \in SessionId, NEW f \in FileId, NEW t \in Token,
                 NEW from \in Host, NEW cert \in BOOLEAN, UploadArrive(v, s, f, t, from, cert)
          PROVE  \/ UNCHANGED job
                 \/ job' = With(job, v, [sid |-> s, fid |-> f, try |-> 1, fd |-> v,
                                         written |-> 0])
      BY <3>2 DEF UploadArrive
    <3>3. UploadRefused(v) => UNCHANGED job
      BY DEF UploadRefused, Refuse
    <3>. QED
      BY <1>3, <3>1, <3>2, <3>3 DEF UploadArrives, With
  <2>. QED
    BY <1>3, <2>3, <2>4, <2>5, <2>6
<1>. QED
  BY <1>2, <1>3 DEF NamesInv

LEMMA CountStep ==
  ASSUME ServerTypeOK, CountInv, NEW v \in Upload, UploadNext(v)
  PROVE  CountInv'
<1>. JobTypeOK /\ ControlTypeOK
  BY DEF ServerTypeOK, UploadTypeOK
<1>0. \A u \in Upload \ {v} : pc'[u] = pc[u] /\ reply'[u] = reply[u]
  BY UploadMoves, MovesOnly DEF Request
<1>1. ASSUME NEW u \in DOMAIN job', u # v
      PROVE  /\ u \in DOMAIN job /\ job'[u] = job[u]
             /\ pc'[u] = pc[u] /\ reply'[u] = reply[u]
  <2>1. u \in DOMAIN job /\ job'[u] = job[u]
    BY <1>1, UploadOthers
  <2>. QED
    BY <1>0, <1>1, <2>1 DEF JobTypeOK
<1>2. ASSUME reply'[v] # NoReply => pc'[v] = "replied",
             v \in DOMAIN job' =>
               /\ pc'[v] \in {"stat", "create"} => job'[v].written = 0
               /\ (pc'[v] \in Verified \/ reply'[v] = 200) /\ job'[v].fid \in HasSha
                    => job'[v].written = Size[job'[v].fid]
      PROVE  CountInv'
  BY <1>0, <1>1, <1>2 DEF CountInv
<1>3. ASSUME v \in DOMAIN job
      PROVE  /\ job[v] \in Job
             /\ pc[v] # "replied" => reply[v] = NoReply
             /\ NoReply # 200
  BY <1>3 DEF JobTypeOK, CountInv, NoReply
<1>4. ASSUME UNCHANGED job, v \in DOMAIN job, pc[v] # "replied",
             \/ Answer(v, 400) \/ Answer(v, 422) \/ Answer(v, 500)
      PROVE  CountInv'
  BY <1>2, <1>4 DEF Answer, ControlTypeOK, Request, Verified
<1>5. ASSUME UNCHANGED job, v \in DOMAIN job, pc[v] # "replied", NEW step \in UploadStep,
             Goto(v, step),
             step = "create" => pc[v] = "stat",
             step \in Verified => pc[v] \in Verified
               \/ job[v].fid \notin HasSha \/ job[v].written = Size[job[v].fid],
             step # "stat"
      PROVE  CountInv'
  <2>1. pc'[v] = step /\ reply'[v] = NoReply
    BY <1>3, <1>5 DEF Goto, ControlTypeOK, Request
  <2>. QED
    BY <1>2, <1>3, <1>5, <2>1 DEF CountInv, Verified
<1>6. ASSUME UNCHANGED job, v \in DOMAIN job, pc[v] \in Verified, Answer(v, 200)
      PROVE  CountInv'
  BY <1>2, <1>6 DEF Answer, ControlTypeOK, Request, CountInv, Verified
<1>7. CASE UploadArrives(v)
  <2>1. reply'[v] # NoReply => pc'[v] = "replied"
    <3>1. pc[v] = "idle"
      BY <1>7 DEF UploadArrives, UploadRefused, Refuse, UploadArrive
    <3>2. reply[v] = NoReply
      BY <3>1 DEF CountInv
    <3>3. Moves(v, UploadStep)
      BY UploadMoves
    <3>. QED
      BY <3>2, <3>3 DEF Moves, ControlTypeOK, Request
  <2>2. CASE UNCHANGED job
    <3>1. v \notin DOMAIN job
      BY <1>7 DEF UploadArrives, UploadRefused, Refuse, UploadArrive, JobTypeOK
    <3>2. reply'[v] # NoReply => pc'[v] = "replied"
      BY <2>1
    <3>. QED
      BY <1>2, <2>2, <3>1, <3>2
  <2>3. ASSUME NEW s \in SessionId, NEW f \in FileId, NEW t \in Token,
               NEW from \in Host, NEW cert \in BOOLEAN,
               UploadArrive(v, s, f, t, from, cert), ~UNCHANGED job
        PROVE  CountInv'
    <3>1. /\ Goto(v, "stat")
          /\ job' = With(job, v, [sid |-> s, fid |-> f, try |-> 1, fd |-> v, written |-> 0])
      BY <2>3 DEF UploadArrive
    <3>. QED
      BY <1>2, <2>1, <3>1 DEF Goto, ControlTypeOK, Request, With, Verified, CountInv, NoReply
  <2>. QED
    BY <1>7, <2>2, <2>3 DEF UploadArrives, UploadRefused, Refuse
<1>8. ASSUME NEW er \in {"nil", "eof", "error"}, UploadReadChunk(v, er)
      PROVE  CountInv'
  <2>1. v \in DOMAIN job /\ pc[v] = "read"
    BY <1>8 DEF UploadReadChunk, JobTypeOK
  <2>2. job' = [job EXCEPT ![v] = [job[v] EXCEPT !.written = job[v].written + 1]]
    BY <1>8 DEF UploadReadChunk
  <2>3. job'[v].fid = job[v].fid
    BY <1>3, <2>1, <2>2 DEF Job
  <2>4. \/ Goto(v, "check") \/ Goto(v, "verify") \/ Answer(v, 500)
        \/ Goto(v, "finish") /\ job[v].fid \notin HasSha
    BY <1>8 DEF UploadReadChunk, AfterRead
  <2>. QED
    BY <1>2, <1>3, <2>1, <2>3, <2>4 DEF Goto, Answer, ControlTypeOK, Request, Verified
<1>9. ASSUME NEW er \in {"eof", "error"}, UploadReadEnd(v, er)
      PROVE  CountInv'
  <2>1. v \in DOMAIN job /\ pc[v] = "read" /\ UNCHANGED job
    BY <1>9 DEF UploadReadEnd, JobTypeOK
  <2>2. \/ Goto(v, "verify") \/ Answer(v, 500)
        \/ Goto(v, "finish") /\ job[v].fid \notin HasSha
    BY <1>9 DEF UploadReadEnd, AfterRead
  <2>. QED
    BY <1>4, <1>5, <2>1, <2>2 DEF UploadStep, Verified
<1>10. CASE UploadStat(v)
  <2>1. v \in DOMAIN job /\ pc[v] = "stat" /\ job[v].written = 0 /\ reply[v] = NoReply
    BY <1>3, <1>10 DEF UploadStat, JobTypeOK, CountInv
  <2>2. \/ UNCHANGED job
        \/ job' = [job EXCEPT ![v] = [job[v] EXCEPT !.try = job[v].try + 1]]
    BY <1>10 DEF UploadStat
  <2>3. job'[v].written = 0
    BY <1>3, <2>1, <2>2 DEF Job
  <2>4. Goto(v, "stat") \/ Goto(v, "create")
    BY <1>10 DEF UploadStat
  <2>. QED
    BY <1>2, <1>3, <2>1, <2>3, <2>4 DEF Goto, ControlTypeOK, Request, Verified
<1>11. CASE UploadCreate(v)
  <2>1. v \in DOMAIN job /\ reply[v] = NoReply
    BY <1>3, <1>11 DEF UploadCreate, JobTypeOK
  <2>. QED
    BY <1>2, <1>3, <1>11, <2>1 DEF UploadCreate, Goto, ControlTypeOK, Request, Verified
<1>12. CASE UploadCreateFails(v) \/ UploadCheck(v) \/ ChecksumMismatch(v)
  <2>1. v \in DOMAIN job /\ pc[v] \in {"create", "check", "verify"} /\ UNCHANGED job
    BY <1>12 DEF UploadCreateFails, UploadCheck, ChecksumMismatch, JobTypeOK
  <2>2. Answer(v, 500) \/ Answer(v, 400) \/ Answer(v, 422) \/ Goto(v, "read")
    BY <1>12 DEF UploadCreateFails, UploadCheck, ChecksumMismatch
  <2>. QED
    BY <1>4, <1>5, <2>1, <2>2 DEF UploadStep, Verified
<1>13. CASE ChecksumMatches(v)
  <2>1. /\ v \in DOMAIN job /\ pc[v] = "verify" /\ UNCHANGED job
        /\ job[v].written = Size[job[v].fid] /\ Goto(v, "finish")
    BY <1>13 DEF ChecksumMatches, JobTypeOK
  <2>. QED
    BY <1>5, <2>1 DEF UploadStep, Verified
<1>14. CASE UploadFinish(v) \/ UploadRelease(v) \/ UploadReleaseGone(v) \/ UploadCancelCtx(v)
  <2>1. v \in DOMAIN job /\ pc[v] \in Verified /\ pc[v] # "replied" /\ UNCHANGED job
    BY <1>14 DEF UploadFinish, UploadRelease, UploadReleaseGone, UploadCancelCtx, JobTypeOK,
       Verified
  <2>2. Answer(v, 200) \/ Goto(v, "release") \/ Goto(v, "cancelctx")
    BY <1>14 DEF UploadFinish, UploadRelease, UploadReleaseGone, UploadCancelCtx
  <2>. QED
    BY <1>5, <1>6, <2>1, <2>2 DEF UploadStep
<1>. QED
  BY <1>7, <1>8, <1>9, <1>10, <1>11, <1>12, <1>13, <1>14
  DEF UploadNext, UploadReceives, UploadRun

(* The next mark after the ones received.                                  *)
LEMMA PutReceived ==
  ASSUME NEW n \in Nat, NEW u
  PROVE  Put([k \in 1..n |-> u], n + 1, u) = [k \in 1..n + 1 |-> u]
<1> DEFINE content == [k \in 1..n |-> u]
<1>1. Len(content) = n
  <2>1. content \in Seq({u}) /\ DOMAIN content = 1..n
    OBVIOUS
  <2>. QED
    BY <2>1
<1>2. \A j \in 1..n + 1 : j # n + 1 => j <= n /\ content[j] = u
  OBVIOUS
<1>. QED
  BY <1>1, <1>2 DEF Put

(* An upload past its stat loop that goes on or ends well.                 *)
HoldsFor(u) ==
  /\ Holds(u) => Stored(u)
  /\ Empty(u) => ~Present(SavedPath(u))

LEMMA HoldOwn ==
  ASSUME ServerTypeOK, DiskInv, NEW v \in Upload, UploadNext(v),
         v \in DOMAIN job', pc'[v] \notin {"idle", "stat"}, ~Contested(v)'
  PROVE  HoldsFor(v)'
<1>. JobTypeOK /\ ControlTypeOK /\ SaveDirTypeOK
  BY DEF ServerTypeOK, UploadTypeOK
<1>. NamesInv /\ ExistingInv /\ CountInv /\ HoldInv
  BY DEF DiskInv
<1>. USE DEF HoldsFor
<1>1. ASSUME v \in DOMAIN job, pc[v] # "replied"
      PROVE  job[v] \in Job /\ reply[v] = NoReply
  BY <1>1 DEF JobTypeOK, CountInv
<1>2. ASSUME v \in DOMAIN job, pc[v] \notin {"idle", "stat"}
      PROVE  ~Contested(v) /\ HoldsFor(v)
  BY <1>2, ContestedStays DEF HoldInv, Past
<1>3. NoReply \notin {200, 400, 422}
  BY DEF NoReply
<1>4. ASSUME v \in DOMAIN job, UNCHANGED <<fsVars, job>>,
             pc[v] \in {"check", "read", "verify"} \cup Verified,
             \/ \E step \in UploadStep \ {"create"} : Goto(v, step)
             \/ Answer(v, 200) \/ Answer(v, 500)
      PROVE  HoldsFor(v)'
  <2>1. Stored(v)
    BY <1>2, <1>4 DEF Holds, Verified
  <2>2. Stored(v)'
    BY <1>4, <2>1 DEF Stored, Received, SavedPath, Present, fsVars
  <2>3. pc'[v] # "create" /\ reply'[v] \notin {400, 422}
    BY <1>1, <1>3, <1>4 DEF Goto, Answer, ControlTypeOK, Request, Verified
  <2>. QED
    BY <2>2, <2>3 DEF Empty
<1>5. ASSUME v \in DOMAIN job, UNCHANGED job, RemoveFile(SavedPath(v)),
             Answer(v, 400) \/ Answer(v, 422)
      PROVE  HoldsFor(v)'
  <2>1. SavedPath(v)' = SavedPath(v) /\ SavedPath(v) \notin DOMAIN dir'
    BY <1>5 DEF SavedPath, RemoveFile
  <2>2. pc'[v] = "replied" /\ reply'[v] # 200
    BY <1>5 DEF Answer, ControlTypeOK, Request
  <2>. QED
    BY <2>1, <2>2 DEF Holds, Present, Verified
<1>6. CASE UploadArrives(v)
  <2>1. v \notin DOMAIN job
    BY <1>6 DEF UploadArrives, UploadRefused, Refuse, UploadArrive, JobTypeOK
  <2>2. ASSUME NEW s \in SessionId, NEW f \in FileId, NEW t \in Token,
               NEW from \in Host, NEW cert \in BOOLEAN, UploadArrive(v, s, f, t, from, cert)
        PROVE  pc'[v] = "stat" \/ UNCHANGED job
    BY <2>2 DEF UploadArrive, Goto, ControlTypeOK, Request
  <2>3. UploadRefused(v) => UNCHANGED job
    BY DEF UploadRefused, Refuse
  <2>. QED
    BY <1>6, <2>1, <2>2, <2>3 DEF UploadArrives
<1>7. CASE UploadStat(v)
  <2>1. v \in DOMAIN job /\ pc[v] = "stat" /\ reply[v] = NoReply
    BY <1>1, <1>7 DEF UploadStat, JobTypeOK
  <2>2. ~Present(SavedPath(v))
    BY <1>7 DEF UploadStat, Goto, ControlTypeOK, Request
  <2>3. UNCHANGED <<fsVars, job>> /\ pc'[v] = "create" /\ reply'[v] = NoReply
    BY <1>7, <2>1, <2>2 DEF UploadStat, Goto, ControlTypeOK, Request
  <2>4. ~Present(SavedPath(v))'
    BY <2>2, <2>3 DEF Present, SavedPath, fsVars
  <2>. QED
    BY <1>3, <2>3, <2>4 DEF Holds, Verified
<1>8. CASE UploadCreate(v)
  <2>1. v \in DOMAIN job /\ pc[v] = "create"
    BY <1>8 DEF UploadCreate, JobTypeOK
  <2>2. job[v] \in Job /\ reply[v] = NoReply /\ job[v].written = 0
    BY <1>1, <2>1 DEF CountInv
  <2>3. ~Present(SavedPath(v))
    BY <1>2, <2>1 DEF Empty
  <2>4. Opened(SavedPath(v), v) = v
    BY <2>3 DEF Opened
  <2>5. job' = [job EXCEPT ![v] = [job[v] EXCEPT !.fd = v]]
    BY <1>8, <2>4 DEF UploadCreate
  <2>6. job'[v].fd = v /\ job'[v].written = 0 /\ SavedPath(v)' = SavedPath(v)
    BY <2>1, <2>2, <2>5 DEF Job, SavedPath
  <2>7. /\ SavedPath(v) \in DOMAIN dir' /\ dir'[SavedPath(v)] = v
        /\ data'[v] = << >>
    BY <1>8, <2>4, ServerAssumption DEF UploadCreate, CreateFile, SaveDirTypeOK, Inode
  <2>8. Received(v)' = << >>
    BY <2>6 DEF Received
  <2>9. pc'[v] = "check" /\ reply'[v] = NoReply
    BY <1>8, <2>2 DEF UploadCreate, Goto, ControlTypeOK, Request
  <2>. QED
    BY <1>3, <2>6, <2>7, <2>8, <2>9 DEF Stored, Present, Empty
<1>9. CASE UploadCreateFails(v)
  BY <1>9 DEF UploadCreateFails, Answer, ControlTypeOK, Request, Holds, Empty, Verified
<1>10. CASE UploadCheck(v) \/ ChecksumMismatch(v)
  <2>1. /\ v \in DOMAIN job /\ pc[v] \in {"check", "verify"} /\ UNCHANGED job
        /\ \/ RemoveFile(SavedPath(v)) /\ (Answer(v, 400) \/ Answer(v, 422))
           \/ UNCHANGED fsVars /\ Goto(v, "read")
    BY <1>10 DEF UploadCheck, ChecksumMismatch, JobTypeOK
  <2>. QED
    BY <1>4, <1>5, <2>1 DEF UploadStep
<1>11. ASSUME NEW er \in {"nil", "eof", "error"}, UploadReadChunk(v, er)
       PROVE  HoldsFor(v)'
  <2> DEFINE n == job[v].written
  <2>1. v \in DOMAIN job /\ pc[v] = "read"
    BY <1>11 DEF UploadReadChunk, JobTypeOK
  <2>2. job[v] \in Job /\ reply[v] = NoReply /\ n \in Nat
    BY <1>1, <2>1 DEF Job
  <2>3. Stored(v)
    BY <1>2, <2>1 DEF Holds
  <2>4. /\ job' = [job EXCEPT ![v] = [job[v] EXCEPT !.written = n + 1]]
        /\ WriteChunk(job[v].fd, n + 1, v)
        /\ AfterRead(v, er)
    BY <1>11 DEF UploadReadChunk
  <2>. HIDE DEF n
  <2>5. job'[v].fd = v /\ job'[v].written = n + 1 /\ SavedPath(v)' = SavedPath(v)
    BY <2>1, <2>2, <2>3, <2>4 DEF Job, SavedPath, Stored
  <2>6. data'[v] = Put([k \in 1..n |-> v], n + 1, v) /\ UNCHANGED dir
    BY <2>3, <2>4, ServerAssumption DEF WriteChunk, Stored, Received, SaveDirTypeOK, Inode, n
  <2>7. data'[v] = [k \in 1..n + 1 |-> v]
    BY <2>2, <2>6, PutReceived
  <2>8. Stored(v)'
    BY <2>3, <2>5, <2>6, <2>7 DEF Stored, Present, Received
  <2>9. Goto(v, "check") \/ Goto(v, "verify") \/ Goto(v, "finish") \/ Answer(v, 500)
    BY <2>4 DEF AfterRead
  <2>10. pc'[v] # "create" /\ reply'[v] \notin {400, 422}
    BY <1>3, <2>2, <2>9 DEF Goto, Answer, ControlTypeOK, Request
  <2>. QED
    BY <2>8, <2>10 DEF Empty
<1>12. ASSUME NEW er \in {"eof", "error"}, UploadReadEnd(v, er)
       PROVE  HoldsFor(v)'
  <2>1. v \in DOMAIN job /\ pc[v] = "read" /\ UNCHANGED <<fsVars, job>>
    BY <1>12 DEF UploadReadEnd, JobTypeOK
  <2>2. Goto(v, "verify") \/ Goto(v, "finish") \/ Answer(v, 500)
    BY <1>12 DEF UploadReadEnd, AfterRead
  <2>. QED
    BY <1>4, <2>1, <2>2 DEF UploadStep
<1>13. CASE ChecksumMatches(v) \/ UploadFinish(v) \/ UploadRelease(v)
            \/ UploadReleaseGone(v) \/ UploadCancelCtx(v)
  <2>1. v \in DOMAIN job /\ pc[v] \in {"verify"} \cup Verified /\ UNCHANGED <<fsVars, job>>
    BY <1>13 DEF ChecksumMatches, UploadFinish, UploadRelease, UploadReleaseGone,
       UploadCancelCtx, JobTypeOK, Verified
  <2>2. \/ Goto(v, "finish") \/ Goto(v, "release") \/ Goto(v, "cancelctx")
        \/ Answer(v, 200)
    BY <1>13 DEF ChecksumMatches, UploadFinish, UploadRelease, UploadReleaseGone,
       UploadCancelCtx
  <2>. QED
    BY <1>4, <2>1, <2>2 DEF UploadStep
<1>. QED
  BY <1>6, <1>7, <1>8, <1>9, <1>10, <1>11, <1>12, <1>13
  DEF UploadNext, UploadReceives, UploadRun

LEMMA HoldStep ==
  ASSUME ServerTypeOK, DiskInv, NEW v \in Upload, UploadNext(v)
  PROVE  HoldInv'
<1>. JobTypeOK /\ ControlTypeOK
  BY DEF ServerTypeOK, UploadTypeOK
<1>. NamesInv /\ ExistingInv /\ HoldInv
  BY DEF DiskInv
<1>1. SUFFICES ASSUME NEW u \in DOMAIN job', Past(u)', ~Contested(u)'
               PROVE  HoldsFor(u)'
  BY DEF HoldInv, HoldsFor
<1>2. CASE u = v
  BY <1>1, <1>2, HoldOwn DEF Past
<1>3. CASE u # v
  <2>1. /\ u \in DOMAIN job /\ job'[u] = job[u] /\ SavedPath(u)' = SavedPath(u)
        /\ pc'[u] = pc[u]
    BY <1>1, <1>3, UploadOthers
  <2>2. reply'[u] = reply[u]
    BY <1>3, <2>1, UploadMoves, MovesOnly DEF JobTypeOK, Request
  <2>3. Past(u)
    BY <1>1, <2>1 DEF Past
  <2>4. ~Contested(u)
    BY <1>1, <2>3, ContestedStays
  <2>5. HoldsFor(u)
    BY <2>1, <2>3, <2>4 DEF HoldInv, HoldsFor
  <2>6. (Holds(u)' => Holds(u)) /\ (Empty(u)' => Empty(u))
    BY <2>1, <2>2 DEF Holds, Empty
  <2>7. /\ SavedPath(u) \in DOMAIN dir' <=> Present(SavedPath(u))
        /\ Present(SavedPath(u)) => dir'[SavedPath(u)] = dir[SavedPath(u)]
        /\ data'[u] = data[u]
    BY <1>3, <2>3, <2>4, DiskFrame
  <2>8. Present(SavedPath(u))' <=> Present(SavedPath(u))
    BY <2>1, <2>7 DEF Present
  <2>9. Stored(u) => Stored(u)'
    BY <2>1, <2>7, <2>8 DEF Stored, Received
  <2>. QED
    BY <2>5, <2>6, <2>8, <2>9 DEF HoldsFor
<1>. QED
  BY <1>2, <1>3

LEMMA InitDiskInv == Init => DiskInv
BY InitExistingInv DEF Init, SaveDirInit, DiskInv, NamesInv, CountInv, HoldInv, Request

THEOREM NextDiskInv ==
  ASSUME ServerTypeOK, DiskInv, [Next]_vars
  PROVE  DiskInv'
<1>. ControlTypeOK /\ JobTypeOK
  BY DEF ServerTypeOK, UploadTypeOK
<1>1. ExistingInv'
  BY NextExistingInv DEF DiskInv
<1>2. ASSUME NEW v \in Upload, UploadNext(v)
      PROVE  DiskInv'
  BY <1>1, <1>2, NamesStep, CountStep, HoldStep DEF DiskInv
<1>3. ASSUME UNCHANGED <<fsVars, job>>,
             \A u \in Upload : pc'[u] = pc[u] /\ reply'[u] = reply[u]
      PROVE  DiskInv'
  <2>1. /\ DOMAIN job \subseteq Upload /\ UNCHANGED <<dir, data, job>>
        /\ \A u \in DOMAIN job : pc'[u] = pc[u] /\ reply'[u] = reply[u]
    BY <1>3 DEF JobTypeOK, fsVars
  <2>2. \A u : Past(u)' <=> Past(u)
    BY <2>1 DEF Past
  <2>3. NamesInv'
    BY <2>1, <2>2 DEF DiskInv, NamesInv, SavedPath
  <2>4. CountInv'
    BY <1>3, <2>1 DEF DiskInv, CountInv
  <2>5. HoldInv'
    <3>1. SUFFICES ASSUME NEW u \in DOMAIN job, Past(u), ~Contested(u)' PROVE HoldsFor(u)'
      BY <2>1, <2>2 DEF HoldInv, HoldsFor
    <3>2. ~Contested(u)
      BY <2>1, <3>1 DEF Contested, SavedPath
    <3>3. HoldsFor(u)
      BY <3>1, <3>2 DEF DiskInv, HoldInv, HoldsFor
    <3>. QED
      BY <2>1, <3>3 DEF HoldsFor, Holds, Empty, Stored, Received, Present, SavedPath
  <2>. QED
    BY <1>1, <2>3, <2>4, <2>5 DEF DiskInv
<1>4. ASSUME NEW p \in Prepare, PrepareNext(p)
      PROVE  DiskInv'
  BY <1>3, <1>4, PrepareFrame, PrepareMoves, MovesOnly, ServerAssumption DEF Request
<1>5. ASSUME NEW c \in CancelReq, CancelNext(c)
      PROVE  DiskInv'
  BY <1>3, <1>5, CancelFrame, CancelMoves, MovesOnly, ServerAssumption DEF Request
<1>. QED
  BY <1>2, <1>3, <1>4, <1>5, BackgroundFrame DEF Next, vars, handlerVars

LEMMA DiskInvSuffices ==
  ASSUME ServerTypeOK, DiskInv
  PROVE  DiskMatchesReply
<1>. SUFFICES ASSUME NEW u \in DOMAIN job, ~Contested(u), reply[u] \in {200, 400, 422}
              PROVE  /\ reply[u] = 200 =>
                          /\ Present(SavedPath(u))
                          /\ dir[SavedPath(u)] = u
                          /\ data[u] = Received(u)
                          /\ job[u].fid \in HasSha => job[u].written = Size[job[u].fid]
                     /\ reply[u] \in {400, 422} => ~Present(SavedPath(u))
  BY DEF DiskMatchesReply
<1>1. pc[u] = "replied"
  BY DEF DiskInv, CountInv, NoReply, ServerTypeOK, UploadTypeOK, JobTypeOK
<1>2. HoldsFor(u)
  BY <1>1 DEF DiskInv, HoldInv, HoldsFor, Past
<1>. QED
  BY <1>2 DEF HoldsFor, Holds, Empty, Stored, DiskInv, CountInv

(***************************************************************************)
(* An upload that shares its path with no other leaves on disk what it     *)
(* answered, whatever the other uploads create, write and remove at the    *)
(* same time (server.go:356-399).                                          *)
(***************************************************************************)
THEOREM DiskMatchesReplyAlways == Spec => []DiskMatchesReply
<1>1. Init => ServerTypeOK /\ DiskInv
  BY InitServerTypeOK, InitDiskInv
<1>2. ServerTypeOK /\ DiskInv /\ [Next]_vars => ServerTypeOK' /\ DiskInv'
  BY NextServerTypeOK, NextDiskInv
<1>. QED
  BY <1>1, <1>2, DiskInvSuffices, PTL DEF Spec

=============================================================================
