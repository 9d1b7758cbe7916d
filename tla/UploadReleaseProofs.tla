------------------------- MODULE UploadReleaseProofs ------------------------
(***************************************************************************)
(* Theorems about the handlers of the upload server together: how a        *)
(* session ends (one handler cancels what was deleted, an upload deletes   *)
(* only what was received), what the server keeps of the table's promises, *)
(* and what the checks its handlers make one step at a time are worth.     *)
(***************************************************************************)
EXTENDS UploadServerProofs, FiniteSetTheorems

(***************************************************************************)
(* Request r has taken session s out of the table.                         *)
(***************************************************************************)
Deletes(r, s) ==
  \/ r \in DOMAIN job /\ pc[r] = "cancelctx" /\ job[r].sid = s
  \/ r \in DOMAIN target /\ pc[r] = "cancelctx" /\ target[r] = s

EachHasOneDeleter ==
  \A s \in SessionId :
    /\ s \in closing <=> \E r \in Request : Deletes(r, s)
    /\ \A a, b \in Request : Deletes(a, s) /\ Deletes(b, s) => a = b

LEMMA OneDeleterIs ==
  ASSUME JobTypeOK, TargetTypeOK
  PROVE  OneDeleter <=> EachHasOneDeleter
<1>1. \A r : \A s \in SessionId : r \in Deleters(s) <=> Deletes(r, s)
  BY DEF Deleters, Deletes
<1>2. \A r : \A s \in SessionId : Deletes(r, s) => r \in Request
  BY DEF Deletes, Request, JobTypeOK, TargetTypeOK
<1>3. \A s \in SessionId :
        /\ Deleters(s) # {} <=> \E r \in Request : Deletes(r, s)
        /\ (\A a, b \in Deleters(s) : a = b)
             <=> \A a, b \in Request : Deletes(a, s) /\ Deletes(b, s) => a = b
  BY <1>1, <1>2
<1>. QED
  BY <1>3 DEF OneDeleter, EachHasOneDeleter

(* The three things a step can do to the deleters.                         *)
LEMMA DeletersStay ==
  ASSUME EachHasOneDeleter, closing' = closing,
         \A r \in Request, s \in SessionId : Deletes(r, s)' <=> Deletes(r, s)
  PROVE  EachHasOneDeleter'
BY DEF EachHasOneDeleter, Request

LEMMA DeleterBegins ==
  ASSUME EachHasOneDeleter, NEW q \in Request, NEW t \in SessionId,
         t \notin closing, closing' = closing \cup {t},
         \A r \in Request, s \in SessionId :
           Deletes(r, s)' <=> Deletes(r, s) \/ (r = q /\ s = t)
  PROVE  EachHasOneDeleter'
BY DEF EachHasOneDeleter, Request

LEMMA DeleterEnds ==
  ASSUME EachHasOneDeleter, NEW q \in Request, NEW t \in SessionId,
         Deletes(q, t), closing' = closing \ {t},
         \A s \in SessionId : Deletes(q, s) => s = t,
         \A r \in Request, s \in SessionId : Deletes(r, s)' <=> Deletes(r, s) /\ r # q
  PROVE  EachHasOneDeleter'
BY DEF EachHasOneDeleter, Request

LEMMA InitEachHasOneDeleter == Init => EachHasOneDeleter
BY DEF Init, SMInit, EachHasOneDeleter, Deletes

(* Of the deleters, a step changes at most the request it is a step of.    *)
LEMMA OthersDelete ==
  ASSUME ServerTypeOK, NEW q \in Request,
         \/ q \in Upload /\ UploadNext(q)
         \/ q \in CancelReq /\ CancelNext(q)
  PROVE  \A r \in Request \ {q}, s \in SessionId : Deletes(r, s)' <=> Deletes(r, s)
<1>. ControlTypeOK /\ JobTypeOK /\ TargetTypeOK
  BY DEF ServerTypeOK, UploadTypeOK
<1>1. \A r \in Request \ {q} : pc'[r] = pc[r]
  BY UploadMoves, CancelMoves, MovesOnly
<1>2. CASE q \in Upload /\ UploadNext(q)
  <2>1. UNCHANGED target
    BY <1>2, UploadFrame
  <2>2. \A r \in Request \ {q} :
          /\ r \in DOMAIN job' <=> r \in DOMAIN job
          /\ r \in DOMAIN job => job'[r] = job[r]
    BY <1>2, UploadOthers
  <2>. QED
    BY <1>1, <2>1, <2>2 DEF Deletes
<1>3. CASE q \in CancelReq /\ CancelNext(q)
  <2>1. UNCHANGED job
    BY <1>3, CancelFrame
  <2>2. UNCHANGED target \/ \E s : target' = With(target, q, s)
    BY <1>3 DEF CancelNext, CancelArrives, CancelNothing, Refuse, CancelArrive, CancelFinish
  <2>3. \A r \in Request \ {q} :
          /\ r \in DOMAIN target' <=> r \in DOMAIN target
          /\ r \in DOMAIN target => target'[r] = target[r]
    BY <2>2 DEF With
  <2>. QED
    BY <1>1, <2>1, <2>3 DEF Deletes
<1>. QED
  BY <1>2, <1>3

THEOREM NextEachHasOneDeleter ==
  ASSUME ServerTypeOK, Tracked, EachHasOneDeleter, [Next]_vars
  PROVE  EachHasOneDeleter'
<1>. ControlTypeOK /\ JobTypeOK /\ TargetTypeOK /\ TypeOK
  BY DEF ServerTypeOK, UploadTypeOK
<1>. JobTypeOK' /\ TargetTypeOK'
  BY NextJobTypeOK, NextTargetTypeOK
<1>1. ASSUME NEW u \in Upload, UploadNext(u)
      PROVE  EachHasOneDeleter'
  <2>1. /\ u \in Request /\ u \notin DOMAIN target /\ u \notin DOMAIN target'
        /\ \A r \in Request \ {u}, s \in SessionId : Deletes(r, s)' <=> Deletes(r, s)
    BY <1>1, OthersDelete, ServerAssumption DEF Request, TargetTypeOK
  <2>2. ASSUME closing' = closing, pc'[u] # "cancelctx", pc[u] # "cancelctx"
        PROVE  EachHasOneDeleter'
    <3>1. \A s \in SessionId : ~Deletes(u, s) /\ ~Deletes(u, s)'
      BY <2>2 DEF Deletes
    <3>. QED
      BY <2>1, <2>2, <3>1, DeletersStay
  <2>3. CASE UploadRelease(u)
    <3>. DEFINE t == job[u].sid
    <3>1. u \in DOMAIN job /\ t \in SessionId /\ UNCHANGED job
      BY <2>3 DEF UploadRelease, JobTypeOK, Job
    <3>2. /\ t \in registered /\ closing' = closing \cup {t}
          /\ pc[u] = "release" /\ pc'[u] = "cancelctx"
      BY <2>3 DEF UploadRelease, LoadAndDelete, Goto, ControlTypeOK, Request
    <3>3. t \notin closing
      BY <3>2 DEF Tracked, TypeOK
    <3>4. \A s \in SessionId : ~Deletes(u, s) /\ (Deletes(u, s)' <=> s = t)
      BY <2>1, <3>1, <3>2 DEF Deletes
    <3>. HIDE DEF t
    <3>. QED
      BY <2>1, <3>1, <3>2, <3>3, <3>4, DeleterBegins
  <2>4. CASE UploadCancelCtx(u)
    <3>. DEFINE t == job[u].sid
    <3>1. u \in DOMAIN job /\ t \in SessionId
      BY <2>4 DEF UploadCancelCtx, JobTypeOK, Job
    <3>2. closing' = closing \ {t} /\ pc[u] = "cancelctx" /\ pc'[u] = "replied"
      BY <2>4 DEF UploadCancelCtx, CancelDeleted, Answer, ControlTypeOK, Request
    <3>3. \A s \in SessionId : (Deletes(u, s) <=> s = t) /\ ~Deletes(u, s)'
      BY <2>1, <3>1, <3>2 DEF Deletes
    <3>. HIDE DEF t
    <3>. QED
      BY <2>1, <3>1, <3>2, <3>3, DeleterEnds
  <2>5. CASE UploadRefused(u)
    BY <2>2, <2>5 DEF UploadRefused, Refuse, Answer, ControlTypeOK, Request, smVars
  <2>6. ASSUME NEW s \in SessionId, NEW f \in FileId, NEW t \in Token,
               NEW from \in Host, NEW cert \in BOOLEAN,
               UploadArrive(u, s, f, t, from, cert)
        PROVE  closing' = closing /\ pc'[u] # "cancelctx" /\ pc[u] # "cancelctx"
    BY <2>6 DEF UploadArrive, GetSession, Answer, Goto, ControlTypeOK, Request
  <2>7. CASE UploadReceives(u)
    <3>1. closing' = closing /\ pc[u] = "read"
      BY <2>7 DEF UploadReceives, UploadReadChunk, UploadReadEnd, RecordProgress, smVars
    <3>2. pc'[u] # "cancelctx"
      BY <2>7 DEF UploadReceives, UploadReadChunk, UploadReadEnd, AfterRead, Goto, Answer,
         ControlTypeOK, Request
    <3>. QED
      BY <2>2, <3>1, <3>2
  <2>8. CASE UploadStat(u) \/ UploadCreate(u) \/ UploadCreateFails(u) \/ UploadCheck(u)
             \/ ChecksumMatches(u) \/ ChecksumMismatch(u) \/ UploadFinish(u)
             \/ UploadReleaseGone(u)
    BY <2>2, <2>8 DEF UploadStat, UploadCreate, UploadCreateFails, UploadCheck,
       ChecksumMatches, ChecksumMismatch, UploadFinish, UploadReleaseGone, Goto, Answer,
       ControlTypeOK, Request, smVars
  <2>. QED
    BY <1>1, <2>2, <2>3, <2>4, <2>5, <2>6, <2>7, <2>8 DEF UploadNext, UploadArrives, UploadRun
<1>2. ASSUME NEW c \in CancelReq, CancelNext(c)
      PROVE  EachHasOneDeleter'
  <2>1. /\ c \in Request /\ c \notin DOMAIN job /\ c \notin DOMAIN job'
        /\ \A r \in Request \ {c}, s \in SessionId : Deletes(r, s)' <=> Deletes(r, s)
    BY <1>2, OthersDelete, ServerAssumption DEF Request, JobTypeOK
  <2>2. CASE CancelNothing(c)
    <3>1. closing' = closing /\ pc[c] = "idle" /\ pc'[c] = "replied"
      BY <2>2 DEF CancelNothing, Refuse, Answer, ControlTypeOK, Request, smVars
    <3>2. \A s \in SessionId : ~Deletes(c, s) /\ ~Deletes(c, s)'
      BY <3>1 DEF Deletes
    <3>. QED
      BY <2>1, <3>1, <3>2, DeletersStay
  <2>3. ASSUME NEW t \in SessionId, CancelArrive(c, t)
        PROVE  EachHasOneDeleter'
    <3>1. /\ t \in registered /\ closing' = closing \cup {t}
          /\ pc[c] = "idle" /\ pc'[c] = "cancelctx" /\ target' = With(target, c, t)
      BY <2>3 DEF CancelArrive, LoadAndDelete, Goto, ControlTypeOK, Request
    <3>2. t \notin closing
      BY <3>1 DEF Tracked, TypeOK
    <3>3. c \in DOMAIN target' /\ target'[c] = t
      BY <3>1 DEF With
    <3>4. \A s \in SessionId : ~Deletes(c, s) /\ (Deletes(c, s)' <=> s = t)
      BY <2>1, <3>1, <3>3 DEF Deletes
    <3>. QED
      BY <2>1, <3>1, <3>2, <3>4, DeleterBegins
  <2>4. CASE CancelFinish(c)
    <3>. DEFINE t == target[c]
    <3>1. c \in DOMAIN target /\ t \in SessionId
      BY <2>4 DEF CancelFinish, TargetTypeOK, TypeOK
    <3>2. closing' = closing \ {t} /\ pc[c] = "cancelctx" /\ pc'[c] = "replied"
      BY <2>4 DEF CancelFinish, CancelDeleted, Answer, ControlTypeOK, Request
    <3>3. \A s \in SessionId : (Deletes(c, s) <=> s = t) /\ ~Deletes(c, s)'
      BY <2>1, <3>1, <3>2 DEF Deletes
    <3>. HIDE DEF t
    <3>. QED
      BY <2>1, <3>1, <3>2, <3>3, DeleterEnds
  <2>. QED
    BY <1>2, <2>2, <2>3, <2>4 DEF CancelNext, CancelArrives
<1>3. ASSUME UNCHANGED <<job, target>>, closing' = closing,
             \A r \in Upload \cup CancelReq : pc'[r] = pc[r]
      PROVE  EachHasOneDeleter'
  <2>1. \A r \in Request, s \in SessionId : Deletes(r, s)' <=> Deletes(r, s)
    BY <1>3 DEF Deletes, JobTypeOK, TargetTypeOK
  <2>. QED
    BY <1>3, <2>1, DeletersStay
<1>4. ASSUME NEW p \in Prepare, PrepareNext(p)
      PROVE  EachHasOneDeleter'
  <2>1. closing' = closing
    BY <1>4 DEF PrepareNext, PrepareArrives, PrepareRun, PrepareAnswered, PrepareRefused,
       Refuse, PrepareArrive, PrepareStat, PrepareBusy, PrepareNotBusy, PrepareReject,
       PrepareAccept, CreateSession, smVars
  <2>. QED
    BY <1>3, <1>4, <2>1, PrepareFrame, PrepareMoves, MovesOnly, ServerAssumption DEF Request
<1>5. CASE Background
  <2>1. closing' = closing
    BY <1>5 DEF Background, Tick, Close, SweepStep, SweepTick, SweepVisit, SweepDelete,
       SweepCancel, SweepEnd, SweepExit
  <2>. QED
    BY <1>3, <1>5, <2>1 DEF Background, handlerVars
<1>6. CASE UNCHANGED vars
  BY <1>3, <1>6 DEF vars, smVars, handlerVars
<1>. QED
  BY <1>1, <1>2, <1>4, <1>5, <1>6 DEF Next

(* A deleted session is about to be canceled by exactly one handler.       *)
THEOREM OneDeleterAlways == Spec => []OneDeleter
<1>1. Init => EachHasOneDeleter
  BY InitEachHasOneDeleter
<1>2. ServerTypeOK /\ IInv /\ EachHasOneDeleter /\ [Next]_vars => EachHasOneDeleter'
  BY NextEachHasOneDeleter DEF IInv
<1>3. ServerTypeOK /\ EachHasOneDeleter => OneDeleter
  BY OneDeleterIs DEF ServerTypeOK, UploadTypeOK
<1>. QED
  BY <1>1, <1>2, <1>3, ServerTypeCorrect, ServerInvariant, PTL DEF Spec

----------------------------------------------------------------------------
(***************************************************************************)
(* An upload past its IsCompleted relies on flags that other uploads may   *)
(* have set, and may clear again.  What lasts are the counts in the jobs:  *)
(* every count recorded in a session is one some upload has reached.       *)
(***************************************************************************)
HasReceived(s, f, n) ==
  \E u \in DOMAIN job :
    job[u].sid = s /\ MetaId[job[u].fid] = f /\ job[u].written >= n

ProgressEarned ==
  \A s \in created, f \in FileId, n \in Nat \ {0} :
    sess[s].progress[f] = n => HasReceived(s, f, n)

JobsGrow ==
  \A v \in DOMAIN job :
    /\ v \in DOMAIN job'
    /\ job'[v].sid = job[v].sid /\ job'[v].fid = job[v].fid
    /\ job'[v].written >= job[v].written

LEMMA NextJobsGrow ==
  ASSUME ServerTypeOK, [Next]_vars
  PROVE  JobsGrow
<1>. ControlTypeOK /\ JobTypeOK
  BY DEF ServerTypeOK, UploadTypeOK
<1>0. ASSUME NEW v \in DOMAIN job
      PROVE  job[v] \in Job /\ job[v].written \in Nat
  BY <1>0, BoundsAssumption DEF JobTypeOK, Job
<1>1. CASE UNCHANGED job
  BY <1>0, <1>1 DEF JobsGrow
<1>2. ASSUME NEW u \in Upload, UploadNext(u)
      PROVE  JobsGrow
  <2>1. /\ DOMAIN job \subseteq DOMAIN job'
        /\ \A v \in DOMAIN job \ {u} : job'[v] = job[v]
    BY <1>2, UploadOthers
  <2>2. ASSUME u \in DOMAIN job =>
                 /\ job'[u].sid = job[u].sid /\ job'[u].fid = job[u].fid
                 /\ job'[u].written >= job[u].written
        PROVE  JobsGrow
    BY <1>0, <2>1, <2>2 DEF JobsGrow
  <2>3. ASSUME NEW er \in {"nil", "eof", "error"}, UploadReadChunk(u, er)
        PROVE  JobsGrow
    <3>1. u \in DOMAIN job
      BY <2>3 DEF UploadReadChunk, JobTypeOK
    <3>2. job' = [job EXCEPT ![u] = [job[u] EXCEPT !.written = job[u].written + 1]]
      BY <2>3 DEF UploadReadChunk
    <3>. QED
      BY <1>0, <2>2, <3>1, <3>2 DEF Job
  <2>4. CASE UploadStat(u)
    <3>1. UNCHANGED job
            \/ job' = [job EXCEPT ![u] = [job[u] EXCEPT !.try = job[u].try + 1]]
      BY <2>4 DEF UploadStat
    <3>. QED
      BY <1>0, <1>1, <2>2, <3>1 DEF Job
  <2>5. CASE UploadCreate(u)
    <3>1. job' = [job EXCEPT ![u] = [job[u] EXCEPT !.fd = Opened(SavedPath(u), u)]]
      BY <2>5 DEF UploadCreate
    <3>. QED
      BY <1>0, <2>2, <3>1 DEF Job
  <2>6. CASE UploadArrives(u)
    <3>1. u \notin DOMAIN job
      BY <2>6 DEF UploadArrives, UploadRefused, Refuse, UploadArrive, JobTypeOK
    <3>. QED
      BY <2>2, <3>1
  <2>. QED
    BY <1>1, <1>2, <2>3, <2>4, <2>5, <2>6
    DEF UploadNext, UploadReceives, UploadRun, UploadReadEnd, UploadCreateFails,
        UploadCheck, ChecksumMatches, ChecksumMismatch, UploadFinish, UploadRelease,
        UploadReleaseGone, UploadCancelCtx
<1>. QED
  BY <1>1, <1>2, PrepareFrame, CancelFrame, BackgroundFrame DEF Next, vars, handlerVars

LEMMA ReceivedStays ==
  ASSUME JobTypeOK, JobTypeOK', JobsGrow, NEW s, NEW f, NEW n \in Nat,
         HasReceived(s, f, n)
  PROVE  HasReceived(s, f, n)'
<1>1. PICK u \in DOMAIN job :
        job[u].sid = s /\ MetaId[job[u].fid] = f /\ job[u].written >= n
  BY DEF HasReceived
<1>2. job[u].written \in Nat /\ u \in DOMAIN job' /\ job'[u].written \in Nat
  BY <1>1, BoundsAssumption DEF JobsGrow, JobTypeOK, Job
<1>3. /\ job'[u].sid = s /\ MetaId[job'[u].fid] = f
      /\ job'[u].written >= n
  BY <1>1, <1>2 DEF JobsGrow
<1>. QED
  BY <1>2, <1>3 DEF HasReceived

----------------------------------------------------------------------------
(* What the operations of the table do to files and counts.                *)
SessionsStay ==
  /\ created' = created
  /\ \A s \in created :
       sess'[s].files = sess[s].files /\ sess'[s].progress = sess[s].progress

LEMMA OperationsStay ==
  ASSUME TypeOK,
         \/ \E s \in SessionId : GetSession(s) \/ LoadAndDelete(s) \/ CancelDeleted(s)
         \/ Tick \/ Close \/ SweepStep
         \/ UNCHANGED smVars
  PROVE  SessionsStay
<1>. USE DEF created
<1>1. \A r \in Session :
        /\ Cancel(r).files = r.files /\ Cancel(r).progress = r.progress
        /\ Touch(r, now).files = r.files /\ Touch(r, now).progress = r.progress
  BY DEF Cancel, Touch, Session
<1>2. \A s \in created : sess[s] \in Session
  BY DEF TypeOK
<1>3. CASE UNCHANGED sess
  BY <1>3 DEF SessionsStay
<1>4. ASSUME NEW s \in SessionId, GetSession(s) \/ CancelDeleted(s)
      PROVE  SessionsStay
  BY <1>1, <1>2, <1>4 DEF GetSession, CancelDeleted, SessionsStay, TypeOK
<1>5. CASE SweepCancel
  BY <1>1, <1>2, <1>5 DEF SweepCancel, SessionsStay
<1>. QED
  BY <1>3, <1>4, <1>5 DEF LoadAndDelete, Tick, Close, SweepStep, SweepTick, SweepVisit,
     SweepDelete, SweepEnd, SweepExit, smVars

LEMMA UpdateProgressCounts ==
  ASSUME NEW r \in Session, NEW f, NEW n \in Nat, NEW t \in Nat
  PROVE  /\ UpdateProgress(r, f, n, t).files = r.files
         /\ \A g \in FileId :
              \/ UpdateProgress(r, f, n, t).progress[g] = r.progress[g]
              \/ g = f /\ UpdateProgress(r, f, n, t).progress[g] = n
<1>1. CASE f \notin r.files
  BY <1>1 DEF UpdateProgress, Touch, Session
<1>2. CASE f \in r.files
  <2> DEFINE u == UpdateProgress(r, f, n, t)
             done == IF n >= Size[f] THEN r.completed \cup {f}
                                     ELSE r.completed \ {f}
             counts == [r.progress EXCEPT ![f] = n]
  <2>1. u = [r EXCEPT !.lastAccess = t, !.progress = counts, !.completed = done]
    BY <1>2 DEF UpdateProgress
  <2>2. \A g \in FileId : counts[g] = r.progress[g] \/ (g = f /\ counts[g] = n)
    BY DEF Session
  <2>. HIDE DEF u, counts, done
  <2>3. u.files = r.files /\ u.progress = counts
    BY <2>1 DEF Session
  <2>. QED
    BY <2>2, <2>3 DEF u
<1>. QED
  BY <1>1, <1>2

----------------------------------------------------------------------------
(* Of the steps of the server, two touch files or counts.                  *)
LEMMA StepOnSessions ==
  ASSUME ServerTypeOK, [Next]_vars
  PROVE  \/ SessionsStay
         \/ \E p \in Prepare, s \in SessionId, fs \in SUBSET FileId : PrepareAccept(p, s, fs)
         \/ \E u \in Upload, er \in {"nil", "eof", "error"} : UploadReadChunk(u, er)
<1>. TypeOK /\ JobTypeOK /\ TargetTypeOK
  BY DEF ServerTypeOK, UploadTypeOK
<1>1. CASE UNCHANGED smVars
  BY <1>1, OperationsStay
<1>2. ASSUME NEW u \in Upload, UploadNext(u)
      PROVE  \/ UNCHANGED smVars
             \/ \E s \in SessionId : GetSession(s) \/ LoadAndDelete(s) \/ CancelDeleted(s)
             \/ \E er \in {"nil", "eof", "error"} : UploadReadChunk(u, er)
  <2>1. u \in DOMAIN job => job[u].sid \in SessionId
    BY DEF JobTypeOK, Job
  <2>2. pc[u] \in {"release", "cancelctx"} => u \in DOMAIN job
    BY DEF JobTypeOK
  <2>. QED
    BY <1>2, <2>1, <2>2
    DEF UploadNext, UploadArrives, UploadReceives, UploadRun, UploadRefused, Refuse,
        UploadArrive, UploadReadEnd, UploadStat, UploadCreate, UploadCreateFails,
        UploadCheck, ChecksumMatches, ChecksumMismatch, UploadFinish, UploadRelease,
        UploadReleaseGone, UploadCancelCtx
<1>3. ASSUME NEW c \in CancelReq, CancelNext(c)
      PROVE  \/ UNCHANGED smVars
             \/ \E s \in SessionId : LoadAndDelete(s) \/ CancelDeleted(s)
  <2>1. pc[c] = "cancelctx" => target[c] \in SessionId
    BY DEF TargetTypeOK, TypeOK
  <2>. QED
    BY <1>3, <2>1 DEF CancelNext, CancelArrives, CancelNothing, Refuse, CancelArrive,
       CancelFinish
<1>4. ASSUME NEW p \in Prepare, PrepareNext(p)
      PROVE  \/ UNCHANGED smVars
             \/ \E s \in SessionId, fs \in SUBSET FileId : PrepareAccept(p, s, fs)
  BY <1>4 DEF PrepareNext, PrepareArrives, PrepareRun, PrepareAnswered, PrepareRefused,
     Refuse, PrepareArrive, PrepareStat, PrepareBusy, PrepareNotBusy, PrepareReject
<1>5. CASE Background
  BY <1>5, OperationsStay DEF Background
<1>. QED
  BY <1>1, <1>2, <1>3, <1>4, <1>5, OperationsStay DEF Next, vars

(* The sessions that were there keep their files.                          *)
LEMMA FilesStay ==
  ASSUME ServerTypeOK, [Next]_vars
  PROVE  \A s \in created : s \in created' /\ sess'[s].files = sess[s].files
<1>. TypeOK /\ JobTypeOK
  BY DEF ServerTypeOK, UploadTypeOK
<1>. USE DEF created
<1>1. CASE SessionsStay
  BY <1>1 DEF SessionsStay
<1>2. ASSUME NEW p, NEW t, NEW fs, PrepareAccept(p, t, fs)
      PROVE  \A s \in created : s \in created' /\ sess'[s].files = sess[s].files
  BY <1>2 DEF PrepareAccept, CreateSession
<1>3. ASSUME NEW u \in Upload, NEW er, UploadReadChunk(u, er)
      PROVE  \A s \in created : s \in created' /\ sess'[s].files = sess[s].files
  <2> DEFINE t == job[u].sid
             g == MetaId[job[u].fid]
             n == job[u].written + 1
  <2>1. n \in Nat /\ t \in created
    BY <1>3, BoundsAssumption DEF UploadReadChunk, JobTypeOK, Job
  <2>2. sess' = [sess EXCEPT ![t] = UpdateProgress(sess[t], g, n, now)]
    BY <1>3 DEF UploadReadChunk, RecordProgress
  <2>. HIDE DEF t, g, n
  <2>3. UpdateProgress(sess[t], g, n, now).files = sess[t].files
    BY <2>1, UpdateProgressCounts DEF TypeOK
  <2>. QED
    BY <2>1, <2>2, <2>3
<1>. QED
  BY <1>1, <1>2, <1>3, StepOnSessions

LEMMA InitProgressEarned == Init => ProgressEarned
BY DEF Init, SMInit, ProgressEarned, created

THEOREM NextProgressEarned ==
  ASSUME ServerTypeOK, ProgressEarned, [Next]_vars
  PROVE  ProgressEarned'
<1>. TypeOK /\ JobTypeOK /\ JobTypeOK' /\ JobsGrow
  BY NextJobTypeOK, NextJobsGrow DEF ServerTypeOK, UploadTypeOK
<1>. SUFFICES ASSUME NEW s \in created', NEW f \in FileId, NEW n \in Nat \ {0},
                     sess'[s].progress[f] = n
              PROVE  HasReceived(s, f, n)'
  BY DEF ProgressEarned
<1>1. ASSUME s \in created, sess[s].progress[f] = n
      PROVE  HasReceived(s, f, n)'
  BY <1>1, ReceivedStays DEF ProgressEarned
<1>2. CASE SessionsStay
  BY <1>1, <1>2 DEF SessionsStay
<1>3. ASSUME NEW p, NEW t, NEW fs, PrepareAccept(p, t, fs)
      PROVE  HasReceived(s, f, n)'
  <2>1. sess' = [x \in created \cup {t} |->
                   IF x = t THEN NewUploadSession(offer[p].ip, offer[p].verified, fs, now)
                            ELSE sess[x]]
    BY <1>3 DEF PrepareAccept, CreateSession
  <2>2. s # t
    BY <2>1 DEF NewUploadSession, created
  <2>. QED
    BY <1>1, <2>1, <2>2 DEF created
<1>4. ASSUME NEW u \in Upload, NEW er, UploadReadChunk(u, er)
      PROVE  HasReceived(s, f, n)'
  <2> DEFINE t == job[u].sid
             g == MetaId[job[u].fid]
             m == job[u].written + 1
  <2>1. u \in DOMAIN job /\ m \in Nat /\ t \in created
    BY <1>4, BoundsAssumption DEF UploadReadChunk, JobTypeOK, Job
  <2>2. sess' = [sess EXCEPT ![t] = UpdateProgress(sess[t], g, m, now)]
    BY <1>4 DEF UploadReadChunk, RecordProgress
  <2>3. job' = [job EXCEPT ![u] = [job[u] EXCEPT !.written = m]]
    BY <1>4 DEF UploadReadChunk
  <2>4. /\ u \in DOMAIN job' /\ job'[u].sid = t /\ MetaId[job'[u].fid] = g
        /\ job'[u].written = m
    BY <2>1, <2>3 DEF JobTypeOK, Job
  <2>. HIDE DEF t, g, m
  <2>5. \A k \in FileId :
           \/ UpdateProgress(sess[t], g, m, now).progress[k] = sess[t].progress[k]
           \/ k = g /\ UpdateProgress(sess[t], g, m, now).progress[k] = m
    BY <2>1, UpdateProgressCounts DEF TypeOK
  <2>6. s \in created
    BY <2>2 DEF created
  <2>7. CASE sess'[s].progress[f] = sess[s].progress[f]
    BY <1>1, <2>6, <2>7
  <2>8. CASE s = t /\ f = g /\ n = m
    BY <2>4, <2>8 DEF HasReceived
  <2>. QED
    BY <2>1, <2>2, <2>5, <2>6, <2>7, <2>8 DEF created
<1>. QED
  BY <1>2, <1>3, <1>4, StepOnSessions

----------------------------------------------------------------------------
(* What an upload finds completed has been received in full.               *)
LEMMA CompletedIsReceived ==
  ASSUME ServerTypeOK, CompletedMatchesProgress, ProgressEarned,
         NEW s \in created, IsCompleted(sess[s]), NEW f \in sess[s].files
  PROVE  Size[f] = 0 \/ HasReceived(s, f, Size[f])
<1>. /\ sess[s] \in Session
  BY DEF ServerTypeOK, TypeOK
<1>1. /\ sess[s].files \in SUBSET FileId /\ sess[s].completed \in SUBSET sess[s].files
      /\ sess[s].progress[f] \in Nat /\ Size[f] \in Nat
  BY SizeAssumption DEF Session, CompletedMatchesProgress
<1>2. IsFiniteSet(sess[s].files)
  BY <1>1, FileIdAssumption, FS_Subset
<1>3. sess[s].completed = sess[s].files
  BY <1>1, <1>2, FS_Subset DEF IsCompleted
<1>4. sess[s].progress[f] >= Size[f]
  BY <1>3 DEF CompletedMatchesProgress
<1>. DEFINE n == sess[s].progress[f]
<1>5. CASE Size[f] # 0
  <2>1. n \in Nat \ {0}
    BY <1>1, <1>4, <1>5
  <2>2. HasReceived(s, f, n)
    BY <1>1, <2>1 DEF ProgressEarned
  <2>3. PICK u \in DOMAIN job : job[u].sid = s /\ MetaId[job[u].fid] = f /\ job[u].written >= n
    BY <2>2 DEF HasReceived
  <2>4. job[u].written \in Nat
    BY BoundsAssumption DEF ServerTypeOK, UploadTypeOK, JobTypeOK, Job
  <2>. QED
    BY <1>1, <1>4, <2>3, <2>4 DEF HasReceived
<1>. QED
  BY <1>5

(***************************************************************************)
(* A session is released only by an upload that found it completed; what   *)
(* it had received by then stays received.                                 *)
(***************************************************************************)
Earned(s) == \A f \in sess[s].files : Size[f] = 0 \/ HasReceived(s, f, Size[f])

LEMMA EarnedStays ==
  ASSUME ServerTypeOK, [Next]_vars, NEW s \in created, Earned(s)
  PROVE  Earned(s)'
<1>. JobTypeOK /\ JobTypeOK' /\ JobsGrow
  BY NextJobTypeOK, NextJobsGrow DEF ServerTypeOK, UploadTypeOK
<1>1. sess'[s].files = sess[s].files /\ sess[s].files \subseteq FileId
  BY FilesStay DEF ServerTypeOK, TypeOK, Session
<1>. SUFFICES ASSUME NEW f \in sess[s].files, Size[f] # 0
              PROVE  HasReceived(s, f, Size[f])'
  BY <1>1 DEF Earned
<1>2. Size[f] \in Nat
  BY <1>1, SizeAssumption
<1>3. HasReceived(s, f, Size[f])
  BY DEF Earned
<1>. QED
  BY <1>2, <1>3, ReceivedStays

Releasing == {"release", "cancelctx"}

AllEarned ==
  \A u \in DOMAIN job, s \in SessionId :
    job[u].sid = s /\ pc[u] \in Releasing => Earned(s)

LEMMA AllEarnedSuffices ==
  ASSUME JobTypeOK, AllEarned
  PROVE  ReleaseEarned
BY DEF JobTypeOK, Job, AllEarned, Earned, HasReceived, ReleaseEarned, FullyReceived, Releasing

(* Only UploadFinish makes an upload release its session.                  *)
LEMMA ReleaseBegins ==
  ASSUME ServerTypeOK, [Next]_vars, NEW u \in Upload, pc'[u] \in Releasing
  PROVE  pc[u] \in Releasing \/ UploadFinish(u)
<1>. ControlTypeOK
  BY DEF ServerTypeOK, UploadTypeOK
<1>1. ASSUME NEW r \in Request \ {u}, NEW steps, Moves(r, steps)
      PROVE  pc'[u] = pc[u]
  BY <1>1, MovesOnly DEF Request
<1>2. ASSUME UploadNext(u)
      PROVE  pc[u] \in Releasing \/ UploadFinish(u)
  <2>1. CASE UploadRefused(u)
    BY <2>1 DEF UploadRefused, Refuse, Answer, ControlTypeOK, Request, Releasing
  <2>2. ASSUME NEW s \in SessionId, NEW f \in FileId, NEW t \in Token,
               NEW from \in Host, NEW cert \in BOOLEAN,
               UploadArrive(u, s, f, t, from, cert)
        PROVE  FALSE
    BY <2>2 DEF UploadArrive, Answer, Goto, ControlTypeOK, Request, Releasing
  <2>3. CASE UploadReceives(u)
    BY <2>3 DEF UploadReceives, UploadReadChunk, UploadReadEnd, AfterRead, Goto, Answer,
       ControlTypeOK, Request, Releasing
  <2>. QED
    BY <1>2, <2>1, <2>2, <2>3
    DEF UploadNext, UploadArrives, UploadRun, UploadStat, UploadCreate, UploadCreateFails,
        UploadCheck, ChecksumMatches, ChecksumMismatch, UploadRelease, UploadReleaseGone,
        UploadCancelCtx, Goto, Answer, ControlTypeOK, Request, Releasing
<1>3. ASSUME NEW v \in Upload \ {u}, UploadNext(v)
      PROVE  pc'[u] = pc[u]
  BY <1>1, <1>3, UploadMoves DEF Request
<1>4. ASSUME NEW p \in Prepare, PrepareNext(p)
      PROVE  pc'[u] = pc[u]
  BY <1>1, <1>4, PrepareMoves, ServerAssumption DEF Request
<1>5. ASSUME NEW c \in CancelReq, CancelNext(c)
      PROVE  pc'[u] = pc[u]
  BY <1>1, <1>5, CancelMoves, ServerAssumption DEF Request
<1>. QED
  BY <1>2, <1>3, <1>4, <1>5, BackgroundFrame DEF Next, vars, handlerVars

THEOREM NextAllEarned ==
  ASSUME ServerTypeOK, IInv, ProgressEarned, AllEarned, [Next]_vars
  PROVE  AllEarned'
<1>. ControlTypeOK /\ JobTypeOK /\ JobTypeOK' /\ JobsGrow /\ CompletedMatchesProgress
  BY NextJobTypeOK, NextJobsGrow DEF ServerTypeOK, UploadTypeOK, IInv
<1>. SUFFICES ASSUME NEW u \in DOMAIN job', NEW s \in SessionId,
                     job'[u].sid = s, pc'[u] \in Releasing
              PROVE  Earned(s)'
  BY DEF AllEarned
<1>1. u \in Upload
  BY DEF JobTypeOK
<1>2. pc[u] \in Releasing \/ UploadFinish(u)
  BY <1>1, ReleaseBegins
<1>3. u \in DOMAIN job
  BY <1>1, <1>2 DEF JobTypeOK, UploadFinish, Releasing
<1>4. job[u].sid = s /\ s \in created
  BY <1>3 DEF JobsGrow, JobTypeOK
<1>5. Earned(s)
  <2>1. CASE pc[u] \in Releasing
    BY <1>3, <1>4, <2>1 DEF AllEarned
  <2>2. CASE UploadFinish(u)
    <3>1. IsCompleted(sess[s])
      BY <1>1, <1>4, <2>2 DEF UploadFinish, Goto, Answer, ControlTypeOK, Request, Releasing
    <3>. QED
      BY <1>4, <3>1, CompletedIsReceived DEF Earned
  <2>. QED
    BY <1>2, <2>1, <2>2
<1>. QED
  BY <1>4, <1>5, EarnedStays

(* A session is released only after all its files have been received.      *)
THEOREM ReleaseEarnedAlways == Spec => []ReleaseEarned
<1>1. Init => ProgressEarned /\ AllEarned
  BY InitProgressEarned DEF Init, AllEarned
<1>2. ServerTypeOK /\ IInv /\ ProgressEarned /\ AllEarned /\ [Next]_vars
        => ProgressEarned' /\ AllEarned'
  BY NextProgressEarned, NextAllEarned
<1>3. ServerTypeOK /\ AllEarned => ReleaseEarned
  BY AllEarnedSuffices DEF ServerTypeOK, UploadTypeOK
<1>. QED
  BY <1>1, <1>2, <1>3, ServerTypeCorrect, ServerInvariant, PTL DEF Spec

----------------------------------------------------------------------------
(***************************************************************************)
(* Fairness plays no part in any of this: whatever system makes no steps   *)
(* but those of the handlers, from the same initial states, keeps what the *)
(* handlers and the session table promise.                                 *)
(***************************************************************************)
ServerSafety == Init /\ [][Next]_vars

TablePromises ==
  [](Tracked /\ CompletedMatchesProgress) /\ SweepSparesRecentlyUsed /\ ImplementsSessionLife

HandlerPromises ==
  [](OneDeleter /\ ExistingFilesUntouched /\ DiskMatchesReply /\ ReleaseEarned)

SafetyInv ==
  ServerTypeOK /\ IInv /\ EachHasOneDeleter /\ DiskInv /\ ProgressEarned /\ AllEarned

LEMMA SafetyInitial == Init => SafetyInv
BY InitServerTypeOK, InitIInv, InitEachHasOneDeleter, InitDiskInv, InitProgressEarned
   DEF SafetyInv, Init, AllEarned

LEMMA SafetyStep ==
  ASSUME SafetyInv, [Next]_vars
  PROVE  SafetyInv' /\ [SMNext]_smVars
<1>1. [SMNext]_smVars
  BY StepUsesSessionManager DEF SafetyInv
<1>2. Tracked
  BY DEF SafetyInv, IInv
<1>. QED
  BY <1>1, <1>2, NextServerTypeOK, NextIInv, NextEachHasOneDeleter, NextDiskInv,
     NextProgressEarned, NextAllEarned DEF SafetyInv

LEMMA SafetyGives ==
  ASSUME SafetyInv
  PROVE  OneDeleter /\ ExistingFilesUntouched /\ DiskMatchesReply /\ ReleaseEarned
<1>. ServerTypeOK /\ JobTypeOK /\ TargetTypeOK
  BY DEF SafetyInv, ServerTypeOK, UploadTypeOK
<1>1. OneDeleter
  BY OneDeleterIs DEF SafetyInv
<1>2. ReleaseEarned
  BY AllEarnedSuffices DEF SafetyInv
<1>3. ExistingFilesUntouched
  BY DEF SafetyInv, DiskInv, ExistingInv
<1>4. DiskMatchesReply
  BY DiskInvSuffices DEF SafetyInv
<1>. QED
  BY <1>1, <1>2, <1>3, <1>4

(* The handlers keep the promises of their session table ...               *)
THEOREM ServerKeepsTable == ServerSafety => TablePromises
<1>1. SMInit /\ [][SMNext]_smVars => TablePromises
  BY TrackedAlways, CompletedMatchesProgressAlways, SweepSparesRecentlyUsedAlways,
     ImplementsSessionLifeAlways, PTL DEF SMSafety, TablePromises
<1>2. Init => SMInit
  BY DEF Init
<1>3. SafetyInv /\ [Next]_vars => SafetyInv' /\ [SMNext]_smVars
  BY SafetyStep
<1>. QED
  BY <1>1, <1>2, <1>3, SafetyInitial, PTL DEF ServerSafety

(* ... and their own.                                                      *)
THEOREM ServerKeepsPromises == ServerSafety => HandlerPromises
<1>1. SafetyInv /\ [Next]_vars => SafetyInv'
  BY SafetyStep
<1>2. SafetyInv => OneDeleter /\ ExistingFilesUntouched /\ DiskMatchesReply /\ ReleaseEarned
  BY SafetyGives
<1>. QED
  BY <1>1, <1>2, SafetyInitial, PTL DEF ServerSafety, HandlerPromises

----------------------------------------------------------------------------
(***************************************************************************)
(* What the check for busy sessions is worth, although it walks the map    *)
(* while requests change it.  A session that was in the map when a prepare *)
(* request began, and that nothing has used since, does not make the       *)
(* receiver busy by the time its user is asked.  What can is a session     *)
(* stored since, or one an upload has used since, be it expired: these two *)
(* are all that is behind AtMostOneActive.                                 *)
(***************************************************************************)
QuietSince(p, s, t) ==
  s \in registered /\ sess[s].lastAccess = t /\ pc[p] \in {"idle", "stat"}

QuietSessionBlocks ==
  \A p \in Prepare, s \in SessionId, t \in Nat :
    [](QuietSince(p, s, t) =>
         [](pc[p] = "ask" /\ s \in registered /\ sess[s].lastAccess = t => ~Busy(s)))

(* Until the handler has visited the session, it is among those to visit.  *)
StillChecked(p, s, t) ==
  /\ s \in created
  /\ sess[s].lastAccess >= t
  /\ \/ sess[s].lastAccess > t
     \/ s \notin registered
     \/ ~Busy(s)
     \/ pc[p] \in {"idle", "stat", "replied"}
     \/ pc[p] = "busy" /\ s \in unvisited[p]

LEMMA RangeBegins ==
  ASSUME ServerTypeOK, NEW p \in Prepare, StartRange(p), NEW s \in registered
  PROVE  pc'[p] = "busy" /\ s \in unvisited'[p]
BY DEF StartRange, Goto, ServerTypeOK, UploadTypeOK, ControlTypeOK, PrepareTypeOK, Request

(* A prepare request's own steps: it passes no session that is busy.       *)
LEMMA PassesNoBusy ==
  ASSUME ServerTypeOK, NEW p \in Prepare, PrepareNext(p), NEW s \in registered, Busy(s),
         \/ pc[p] \in {"idle", "stat", "replied"}
         \/ pc[p] = "busy" /\ s \in unvisited[p]
  PROVE  \/ pc'[p] \in {"idle", "stat", "replied"}
         \/ pc'[p] = "busy" /\ s \in unvisited'[p]
<1>. ControlTypeOK /\ PrepareTypeOK /\ p \in Request
  BY DEF ServerTypeOK, UploadTypeOK, Request
<1>1. ASSUME NEW status, Answer(p, status) PROVE pc'[p] = "replied"
  BY <1>1 DEF Answer, ControlTypeOK
<1>2. Goto(p, "stat") => pc'[p] = "stat"
  BY DEF Goto, ControlTypeOK
<1>3. CASE PrepareArrives(p)
  <2>1. CASE PrepareRefused(p)
    BY <1>1, <2>1 DEF PrepareRefused, Refuse
  <2>2. ASSUME NEW ip, NEW v, NEW fs, PrepareArrive(p, ip, v, fs)
        PROVE  StartRange(p) \/ Goto(p, "stat")
    BY <2>2 DEF PrepareArrive
  <2>. QED
    BY <1>2, <1>3, <2>1, <2>2, RangeBegins DEF PrepareArrives
<1>4. ASSUME NEW f, PrepareStat(p, f)
      PROVE  StartRange(p) \/ Goto(p, "stat") \/ Answer(p, 204)
  BY <1>4 DEF PrepareStat
<1>5. ASSUME NEW x, PrepareBusy(p, x)
      PROVE  Answer(p, 409)
  BY <1>5 DEF PrepareBusy
<1>6. ASSUME NEW x, PrepareNotBusy(p, x)
      PROVE  pc'[p] = "busy" /\ s \in unvisited'[p]
  <2>1. pc[p] = "busy" /\ s \in unvisited[p] /\ x # s
    BY <1>6 DEF PrepareNotBusy
  <2>2. unvisited' = [unvisited EXCEPT ![p] = unvisited[p] \ {x}]
    BY <1>6 DEF PrepareNotBusy
  <2>3. Goto(p, "busy")
    BY <1>6, <2>1 DEF PrepareNotBusy
  <2>. QED
    BY <2>1, <2>2, <2>3 DEF Goto, ControlTypeOK, PrepareTypeOK
<1>7. CASE PrepareAnswered(p)
  BY <1>1, <1>7 DEF PrepareAnswered, PrepareReject, PrepareAccept
<1>. QED
  BY <1>1, <1>2, <1>3, <1>4, <1>5, <1>6, <1>7, RangeBegins DEF PrepareNext, PrepareRun

Waits(p) ==
  /\ pc'[p] = pc[p] /\ reply'[p] = reply[p]
  /\ unvisited'[p] = unvisited[p] /\ unchecked'[p] = unchecked[p]
  /\ p \in DOMAIN offer' <=> p \in DOMAIN offer
  /\ p \in DOMAIN offer => offer'[p] = offer[p]

LEMMA OthersWait ==
  ASSUME ServerTypeOK, NEW p \in Prepare, [Next]_vars, ~PrepareNext(p)
  PROVE  Waits(p)
<1>. ControlTypeOK /\ PrepareTypeOK /\ p \in Request
  BY DEF ServerTypeOK, UploadTypeOK, Request
<1>1. ASSUME NEW q \in Prepare, PrepareNext(q)
      PROVE  Waits(p)
  <2>1. q # p
    BY <1>1
  <2>2. pc'[p] = pc[p] /\ reply'[p] = reply[p]
    BY <1>1, <2>1, PrepareMoves, MovesOnly DEF Request
  <2>3. UNCHANGED unvisited \/ \E new : unvisited' = [unvisited EXCEPT ![q] = new]
    BY <1>1 DEF PrepareNext, PrepareArrives, PrepareRun, PrepareAnswered, PrepareRefused,
       Refuse, PrepareArrive, PrepareStat, PrepareBusy, PrepareNotBusy, PrepareReject,
       PrepareAccept, StartRange, prepareVars
  <2>4. UNCHANGED unchecked \/ \E new : unchecked' = [unchecked EXCEPT ![q] = new]
    BY <1>1 DEF PrepareNext, PrepareArrives, PrepareRun, PrepareAnswered, PrepareRefused,
       Refuse, PrepareArrive, PrepareStat, PrepareBusy, PrepareNotBusy, PrepareReject,
       PrepareAccept, prepareVars
  <2>5. UNCHANGED offer \/ \E new : offer' = With(offer, q, new)
    BY <1>1 DEF PrepareNext, PrepareArrives, PrepareRun, PrepareAnswered, PrepareRefused,
       Refuse, PrepareArrive, PrepareStat, PrepareBusy, PrepareNotBusy, PrepareReject,
       PrepareAccept, prepareVars
  <2>6. unvisited'[p] = unvisited[p] /\ unchecked'[p] = unchecked[p]
    BY <2>1, <2>3, <2>4 DEF PrepareTypeOK
  <2>7. /\ p \in DOMAIN offer' <=> p \in DOMAIN offer
        /\ p \in DOMAIN offer => offer'[p] = offer[p]
    BY <2>1, <2>5 DEF With
  <2>. QED
    BY <2>2, <2>6, <2>7 DEF Waits
<1>2. ASSUME UNCHANGED prepareVars, pc'[p] = pc[p], reply'[p] = reply[p]
      PROVE  Waits(p)
  BY <1>2 DEF Waits, prepareVars
<1>3. ASSUME NEW u \in Upload, UploadNext(u)
      PROVE  Waits(p)
  BY <1>2, <1>3, UploadFrame, UploadMoves, MovesOnly, ServerAssumption DEF Request
<1>4. ASSUME NEW c \in CancelReq, CancelNext(c)
      PROVE  Waits(p)
  BY <1>2, <1>4, CancelFrame, CancelMoves, MovesOnly, ServerAssumption DEF Request
<1>. QED
  BY <1>1, <1>2, <1>3, <1>4, BackgroundFrame DEF Next, vars, handlerVars

LEMMA StillCheckedStep ==
  ASSUME ServerTypeOK, NeverAhead, NEW p \in Prepare, NEW s \in SessionId, NEW t \in Nat,
         StillChecked(p, s, t), [Next]_vars
  PROVE  StillChecked(p, s, t)'
<1>. TypeOK /\ s \in created /\ Timeout \in Nat
  BY BoundsAssumption DEF ServerTypeOK, StillChecked
<1>1. AgesFrom(s)
  BY StepUsesSessionManager, StepAges
<1>2. /\ sess[s].lastAccess \in Nat /\ now \in Nat
      /\ sess[s].lastAccess <= now /\ sess[s].lastAccess >= t
  BY DEF TypeOK, Session, NeverAhead, StillChecked
<1>3. s \in created' /\ sess'[s].lastAccess >= sess[s].lastAccess /\ sess'[s].lastAccess >= t
  BY <1>1, <1>2 DEF AgesFrom
<1>4. CASE sess[s].lastAccess > t
  BY <1>1, <1>2, <1>3, <1>4 DEF StillChecked, AgesFrom
<1>5. CASE s \notin registered
  BY <1>1, <1>3, <1>5 DEF StillChecked, AgesFrom
<1>6. CASE ~Busy(s)
  <2>1. now >= sess[s].lastAccess + Timeout
    BY <1>2, <1>6 DEF Busy
  <2>2. sess'[s].lastAccess > t \/ ~(now' < sess'[s].lastAccess + Timeout)
    BY <1>1, <1>2, <2>1 DEF AgesFrom
  <2>. QED
    BY <1>3, <2>2 DEF StillChecked, Busy
<1>7. CASE /\ s \in registered /\ Busy(s)
           /\ \/ pc[p] \in {"idle", "stat", "replied"}
              \/ pc[p] = "busy" /\ s \in unvisited[p]
  <2>1. \/ pc'[p] \in {"idle", "stat", "replied"}
        \/ pc'[p] = "busy" /\ s \in unvisited'[p]
    <3>1. CASE PrepareNext(p)
      BY <1>7, <3>1, PassesNoBusy
    <3>2. CASE ~PrepareNext(p)
      BY <1>7, <3>2, OthersWait DEF Waits
    <3>. QED
      BY <3>1, <3>2
  <2>. QED
    BY <1>3, <2>1 DEF StillChecked
<1>. QED
  BY <1>4, <1>5, <1>6, <1>7 DEF StillChecked

(* The sessions a prepare request does not see are new, or used since.     *)
THEOREM QuietSessionBlocksAlways == Spec => QuietSessionBlocks
<1>1. SUFFICES ASSUME NEW p \in Prepare, NEW s \in SessionId, NEW t \in Nat
               PROVE  Spec => [](QuietSince(p, s, t) =>
                 [](pc[p] = "ask" /\ s \in registered /\ sess[s].lastAccess = t => ~Busy(s)))
  BY DEF QuietSessionBlocks
<1>2. ServerTypeOK /\ QuietSince(p, s, t) => StillChecked(p, s, t)
  BY DEF QuietSince, StillChecked, ServerTypeOK, TypeOK
<1>3. ServerTypeOK /\ NeverAhead /\ StillChecked(p, s, t) /\ [Next]_vars
        => StillChecked(p, s, t)'
  BY StillCheckedStep
<1>4. StillChecked(p, s, t)
        => (pc[p] = "ask" /\ s \in registered /\ sess[s].lastAccess = t => ~Busy(s))
  BY DEF StillChecked
<1>5. Spec => []NeverAhead
  BY UsesSessionManagerAlways, NeverAheadAlways, PTL DEF UsesSessionManager
<1>. QED
  BY <1>2, <1>3, <1>4, <1>5, ServerTypeCorrect, PTL DEF Spec

----------------------------------------------------------------------------
(***************************************************************************)
(* How soon a canceled session stops its uploads: the flag is looked at    *)
(* once per chunk, by each upload for itself.  An upload that has yet to   *)
(* look receives nothing more and is refused, and one that waits for its   *)
(* sender already takes one more chunk at most (server.go:356-389).        *)
(***************************************************************************)
CanceledAt(u, n) ==
  u \in DOMAIN job /\ sess[job[u].sid].canceled /\ job[u].written = n

YetToLook(u) == pc[u] \in {"stat", "create", "check"}

CanceledTakesNoMore ==
  \A u \in Upload, n \in Nat :
    /\ [](CanceledAt(u, n) /\ YetToLook(u) =>
            [](job[u].written = n /\ reply[u] \notin {200, 422}))
    /\ [](CanceledAt(u, n) => [](job[u].written <= n + 1))

(* The session of an upload stays canceled, and the upload keeps it.       *)
LEMMA CanceledStays ==
  ASSUME ServerTypeOK, [Next]_vars, NEW u \in DOMAIN job, sess[job[u].sid].canceled
  PROVE  u \in DOMAIN job' /\ sess'[job'[u].sid].canceled
<1>. TypeOK /\ JobTypeOK
  BY DEF ServerTypeOK, UploadTypeOK
<1>1. u \in DOMAIN job' /\ job'[u].sid = job[u].sid
  BY NextJobsGrow DEF JobsGrow
<1>2. PICK s : s = job[u].sid
  OBVIOUS
<1>3. s \in created
  BY <1>2 DEF JobTypeOK
<1>4. AgesFrom(s)
  BY <1>3, StepUsesSessionManager, StepAges
<1>. QED
  BY <1>1, <1>2, <1>4 DEF AgesFrom

Refused(u, n) ==
  /\ u \in DOMAIN job /\ sess[job[u].sid].canceled /\ job[u].written = n
  /\ \/ YetToLook(u) /\ reply[u] = NoReply
     \/ pc[u] = "replied" /\ reply[u] \in {400, 500}

OneMore(u, n) ==
  /\ u \in DOMAIN job /\ sess[job[u].sid].canceled
  /\ \/ job[u].written <= n
     \/ job[u].written = n + 1 /\ pc[u] # "read"

LEMMA UploadsOnTheirOwn ==
  ASSUME ServerTypeOK, [Next]_vars, NEW u \in DOMAIN job, ~UploadNext(u)
  PROVE  job'[u] = job[u] /\ pc'[u] = pc[u] /\ reply'[u] = reply[u]
<1>. ControlTypeOK /\ JobTypeOK /\ u \in Upload
  BY DEF ServerTypeOK, UploadTypeOK, JobTypeOK
<1>1. ASSUME NEW v \in Upload, UploadNext(v)
      PROVE  job'[u] = job[u] /\ pc'[u] = pc[u] /\ reply'[u] = reply[u]
  <2>1. v # u
    BY <1>1
  <2>2. job'[u] = job[u] /\ pc'[u] = pc[u]
    BY <1>1, <2>1, UploadOthers
  <2>3. reply'[u] = reply[u]
    BY <1>1, <2>1, UploadMoves, MovesOnly DEF Request
  <2>. QED
    BY <2>2, <2>3
<1>2. ASSUME NEW p \in Prepare, PrepareNext(p)
      PROVE  job'[u] = job[u] /\ pc'[u] = pc[u] /\ reply'[u] = reply[u]
  BY <1>2, PrepareFrame, PrepareMoves, MovesOnly, ServerAssumption DEF Request
<1>3. ASSUME NEW c \in CancelReq, CancelNext(c)
      PROVE  job'[u] = job[u] /\ pc'[u] = pc[u] /\ reply'[u] = reply[u]
  BY <1>3, CancelFrame, CancelMoves, MovesOnly, ServerAssumption DEF Request
<1>. QED
  BY <1>1, <1>2, <1>3, BackgroundFrame DEF Next, vars, handlerVars

(* The steps of an upload whose session is canceled.                       *)
LEMMA CanceledUploadSteps ==
  ASSUME ServerTypeOK, NEW u \in DOMAIN job, sess[job[u].sid].canceled, UploadNext(u)
  PROVE  \/ /\ YetToLook(u) /\ job'[u].written = job[u].written
            /\ \/ pc'[u] \in {"stat", "create", "check"} /\ reply' = reply
               \/ Answer(u, 400) \/ Answer(u, 500)
         \/ pc[u] = "read" /\ pc'[u] # "read" /\ job'[u].written <= job[u].written + 1
         \/ /\ pc[u] \in {"verify", "finish", "release", "cancelctx"} /\ pc'[u] # "read"
            /\ job'[u].written = job[u].written
<1>. ControlTypeOK /\ JobTypeOK /\ u \in Upload /\ u \in Request
  BY DEF ServerTypeOK, UploadTypeOK, JobTypeOK, Request
<1>1. job[u] \in Job /\ job[u].written \in Nat /\ pc[u] # "idle"
  BY BoundsAssumption DEF JobTypeOK, Job
<1>2. \A step : Goto(u, step) => pc'[u] = step /\ reply' = reply
  BY DEF Goto, ControlTypeOK
<1>3. \A status : Answer(u, status) => pc'[u] = "replied"
  BY DEF Answer, ControlTypeOK
<1>4. CASE UploadStat(u)
  <2>1. \/ job' = [job EXCEPT ![u] = [job[u] EXCEPT !.try = job[u].try + 1]] /\ Goto(u, "stat")
        \/ UNCHANGED job /\ Goto(u, "create")
    BY <1>4 DEF UploadStat
  <2>2. job'[u].written = job[u].written
    BY <1>1, <2>1 DEF Job
  <2>. QED
    BY <1>2, <1>4, <2>1, <2>2 DEF UploadStat, YetToLook
<1>5. CASE UploadCreate(u)
  <2>1. PICK i : job' = [job EXCEPT ![u] = [job[u] EXCEPT !.fd = i]]
    BY <1>5 DEF UploadCreate
  <2>2. job'[u].written = job[u].written
    BY <1>1, <2>1 DEF Job
  <2>. QED
    BY <1>2, <1>5, <2>2 DEF UploadCreate, YetToLook
<1>6. CASE UploadCreateFails(u)
  BY <1>6 DEF UploadCreateFails, YetToLook
<1>7. CASE UploadCheck(u)
  BY <1>7 DEF UploadCheck, YetToLook
<1>8. ASSUME NEW er, AfterRead(u, er), er \in {"nil", "eof", "error"}
      PROVE  pc'[u] # "read"
  <2>1. \/ Goto(u, "check") \/ Goto(u, "verify") \/ Goto(u, "finish") \/ Answer(u, 500)
    BY <1>8 DEF AfterRead
  <2>. QED
    BY <1>2, <1>3, <2>1
<1>9. ASSUME NEW er \in {"nil", "eof", "error"}, UploadReadChunk(u, er)
      PROVE  pc[u] = "read" /\ pc'[u] # "read" /\ job'[u].written <= job[u].written + 1
  <2>1. /\ pc[u] = "read" /\ AfterRead(u, er)
        /\ job' = [job EXCEPT ![u] = [job[u] EXCEPT !.written = job[u].written + 1]]
    BY <1>9 DEF UploadReadChunk
  <2>2. job'[u].written = job[u].written + 1
    BY <1>1, <2>1 DEF Job
  <2>. QED
    BY <1>1, <1>8, <2>1, <2>2
<1>10. ASSUME NEW er \in {"eof", "error"}, UploadReadEnd(u, er)
       PROVE  pc[u] = "read" /\ pc'[u] # "read" /\ job'[u].written <= job[u].written + 1
  <2>1. pc[u] = "read" /\ AfterRead(u, er) /\ UNCHANGED job
    BY <1>10 DEF UploadReadEnd
  <2>. QED
    BY <1>1, <1>8, <2>1
<1>11. CASE UploadReceives(u)
  BY <1>9, <1>10, <1>11 DEF UploadReceives
<1>12. CASE \/ ChecksumMatches(u) \/ ChecksumMismatch(u) \/ UploadFinish(u)
            \/ UploadRelease(u) \/ UploadReleaseGone(u) \/ UploadCancelCtx(u)
  <2>1. /\ pc[u] \in {"verify", "finish", "release", "cancelctx"} /\ UNCHANGED job
        /\ \/ \E step \in {"finish", "release", "cancelctx"} : Goto(u, step)
           \/ \E status \in {200, 422} : Answer(u, status)
    BY <1>12 DEF ChecksumMatches, ChecksumMismatch, UploadFinish, UploadRelease,
       UploadReleaseGone, UploadCancelCtx
  <2>2. pc'[u] # "read"
    BY <1>2, <1>3, <2>1
  <2>. QED
    BY <2>1, <2>2
<1>13. ~UploadArrives(u)
  BY <1>1 DEF UploadArrives, UploadRefused, Refuse, UploadArrive
<1>. QED
  BY <1>4, <1>5, <1>6, <1>7, <1>11, <1>12, <1>13 DEF UploadNext, UploadRun

LEMMA RefusedStep ==
  ASSUME ServerTypeOK, NEW u \in Upload, NEW n \in Nat, Refused(u, n), [Next]_vars
  PROVE  Refused(u, n)'
<1>. ControlTypeOK /\ u \in Request
  BY DEF ServerTypeOK, UploadTypeOK, Request
<1>1. u \in DOMAIN job /\ sess[job[u].sid].canceled /\ job[u].written = n
  BY DEF Refused
<1>2. u \in DOMAIN job' /\ sess'[job'[u].sid].canceled
  BY <1>1, CanceledStays
<1>3. CASE UploadNext(u)
  <2>1. /\ YetToLook(u) /\ reply[u] = NoReply /\ job'[u].written = job[u].written
        /\ \/ pc'[u] \in {"stat", "create", "check"} /\ reply' = reply
           \/ Answer(u, 400) \/ Answer(u, 500)
    BY <1>1, <1>3, CanceledUploadSteps DEF Refused, YetToLook
  <2>2. Answer(u, 400) \/ Answer(u, 500) => pc'[u] = "replied" /\ reply'[u] \in {400, 500}
    BY DEF Answer, ControlTypeOK
  <2>. QED
    BY <1>1, <1>2, <2>1, <2>2 DEF Refused, YetToLook
<1>4. CASE ~UploadNext(u)
  BY <1>1, <1>2, <1>4, UploadsOnTheirOwn DEF Refused, YetToLook
<1>. QED
  BY <1>3, <1>4

LEMMA OneMoreStep ==
  ASSUME ServerTypeOK, NEW u \in Upload, NEW n \in Nat, OneMore(u, n), [Next]_vars
  PROVE  OneMore(u, n)'
<1>1. u \in DOMAIN job /\ sess[job[u].sid].canceled /\ job[u].written \in Nat
  BY BoundsAssumption DEF OneMore, ServerTypeOK, UploadTypeOK, JobTypeOK, Job
<1>2. u \in DOMAIN job' /\ sess'[job'[u].sid].canceled
  BY <1>1, CanceledStays
<1>3. CASE UploadNext(u)
  <2>1. \/ pc'[u] # "read" /\ job'[u].written = job[u].written
        \/ pc[u] = "read" /\ pc'[u] # "read" /\ job'[u].written <= job[u].written + 1
    BY <1>1, <1>3, CanceledUploadSteps DEF YetToLook, Answer, ServerTypeOK, UploadTypeOK,
       ControlTypeOK, Request
  <2>2. job'[u].written \in Nat
    BY <1>2, NextServerTypeOK, BoundsAssumption DEF ServerTypeOK, UploadTypeOK, JobTypeOK, Job
  <2>3. \/ job'[u].written <= n
        \/ job'[u].written = n + 1 /\ pc'[u] # "read"
    BY <1>1, <2>1, <2>2 DEF OneMore
  <2>. QED
    BY <1>2, <2>3 DEF OneMore
<1>4. CASE ~UploadNext(u)
  <2>1. job'[u] = job[u] /\ pc'[u] = pc[u]
    BY <1>1, <1>4, UploadsOnTheirOwn
  <2>. QED
    BY <1>2, <2>1 DEF OneMore
<1>. QED
  BY <1>3, <1>4

(* After a cancel, at most one more chunk of any upload, and no false 200. *)
THEOREM CanceledTakesNoMoreAlways == Spec => CanceledTakesNoMore
<1>1. SUFFICES ASSUME NEW u \in Upload, NEW n \in Nat
               PROVE  Spec =>
                 /\ [](CanceledAt(u, n) /\ YetToLook(u) =>
                         [](job[u].written = n /\ reply[u] \notin {200, 422}))
                 /\ [](CanceledAt(u, n) => [](job[u].written <= n + 1))
  BY DEF CanceledTakesNoMore
<1>2. DiskInv /\ CanceledAt(u, n) /\ YetToLook(u) => Refused(u, n)
  BY DEF CanceledAt, YetToLook, Refused, DiskInv, CountInv
<1>3. ServerTypeOK /\ Refused(u, n) /\ [Next]_vars => Refused(u, n)'
  BY RefusedStep
<1>4. Refused(u, n) => job[u].written = n /\ reply[u] \notin {200, 422}
  BY DEF Refused, NoReply
<1>5. CanceledAt(u, n) => OneMore(u, n)
  BY DEF CanceledAt, OneMore
<1>6. ServerTypeOK /\ OneMore(u, n) /\ [Next]_vars => OneMore(u, n)'
  BY OneMoreStep
<1>7. ServerTypeOK /\ OneMore(u, n) => job[u].written <= n + 1
  BY BoundsAssumption DEF OneMore, ServerTypeOK, UploadTypeOK, JobTypeOK, Job
<1>8. Spec => []DiskInv
  <2>1. SafetyInv /\ [Next]_vars => SafetyInv'
    BY SafetyStep
  <2>2. SafetyInv => DiskInv
    BY DEF SafetyInv
  <2>. QED
    BY <2>1, <2>2, SafetyInitial, PTL DEF Spec
<1>. QED
  BY <1>2, <1>3, <1>4, <1>5, <1>6, <1>7, <1>8, ServerTypeCorrect, PTL DEF Spec

----------------------------------------------------------------------------
(***************************************************************************)
(* The duplicate check is not atomic: a prepare request answered 204 has   *)
(* met each of the files it offers in the directory, at some moment of its *)
(* own (server.go:193-216, 261-264).  That the others were still there is  *)
(* more than the handler can know.                                         *)
(***************************************************************************)
DuplicatesWereThere ==
  \A p \in Prepare, f \in FileId :
    [](pc[p] = "stat" => ~Duplicate(f))
      => [](p \in DOMAIN offer /\ f \in offer[p].files => reply[p] # 204)

StillToStat(p, f) ==
  /\ reply[p] # NoReply => pc[p] = "replied"
  /\ p \in DOMAIN offer /\ f \in offer[p].files =>
       reply[p] # 204 /\ (pc[p] = "stat" => f \in unchecked[p])

LEMMA StillToStatStep ==
  ASSUME ServerTypeOK, NEW p \in Prepare, NEW f \in FileId,
         pc[p] = "stat" => ~Duplicate(f), StillToStat(p, f), [Next]_vars
  PROVE  StillToStat(p, f)'
<1>. ControlTypeOK /\ PrepareTypeOK /\ p \in Request
  BY DEF ServerTypeOK, UploadTypeOK, Request
<1>1. \A status : Answer(p, status) => pc'[p] = "replied" /\ reply'[p] = status
  BY DEF Answer, ControlTypeOK
<1>2. \A step : Goto(p, step) => pc'[p] = step /\ reply'[p] = reply[p]
  BY DEF Goto, ControlTypeOK
<1>3. ASSUME NEW status, Answer(p, status), status # 204
      PROVE  StillToStat(p, f)'
  BY <1>1, <1>3 DEF StillToStat
<1>4. ASSUME pc[p] # "replied", StartRange(p)
      PROVE  StillToStat(p, f)'
  <2>1. Goto(p, "ask") \/ Goto(p, "busy")
    BY <1>4 DEF StartRange
  <2>. QED
    BY <1>2, <1>4, <2>1 DEF StillToStat, NoReply
<1>5. ASSUME NEW ip, NEW v, NEW fs \in SUBSET FileId, PrepareArrive(p, ip, v, fs)
      PROVE  StillToStat(p, f)'
  <2>1. pc[p] = "idle" /\ (StartRange(p) \/ Goto(p, "stat"))
    BY <1>5 DEF PrepareArrive
  <2>2. CASE Goto(p, "stat")
    <3>1. offer'[p].files = fs
      BY <1>5 DEF PrepareArrive, With
    <3>2. unchecked'[p] = fs
      BY <1>5 DEF PrepareArrive, PrepareTypeOK
    <3>. QED
      BY <1>2, <2>1, <2>2, <3>1, <3>2 DEF StillToStat, NoReply
  <2>. QED
    BY <1>4, <2>1, <2>2
<1>6. ASSUME NEW g \in FileId, PrepareStat(p, g)
      PROVE  StillToStat(p, f)'
  <2>1. pc[p] = "stat" /\ g \in unchecked[p] /\ offer' = offer /\ ~Duplicate(f)
    BY <1>6 DEF PrepareStat
  <2>2. CASE ~Duplicate(g)
    BY <1>4, <1>6, <2>1, <2>2 DEF PrepareStat
  <2>3. CASE Duplicate(g)
    <3>1. f # g
      BY <2>1, <2>3
    <3>2. unchecked' = [unchecked EXCEPT ![p] = unchecked[p] \ {g}]
      BY <1>6, <2>3 DEF PrepareStat
    <3>3. f \in unchecked[p] => f \in unchecked'[p]
      BY <3>1, <3>2 DEF PrepareTypeOK
    <3>4. \/ Goto(p, "stat")
          \/ unchecked[p] = {g} /\ Answer(p, 204)
      BY <1>6, <2>3 DEF PrepareStat
    <3>5. CASE Goto(p, "stat")
      BY <1>2, <2>1, <3>3, <3>5 DEF StillToStat, NoReply
    <3>6. CASE unchecked[p] = {g} /\ Answer(p, 204)
      BY <1>1, <2>1, <3>1, <3>6 DEF StillToStat
    <3>. QED
      BY <3>4, <3>5, <3>6
  <2>. QED
    BY <2>2, <2>3
<1>7. ASSUME NEW x, PrepareNotBusy(p, x)
      PROVE  StillToStat(p, f)'
  <2>1. pc[p] = "busy" /\ offer' = offer /\ (Goto(p, "ask") \/ Goto(p, "busy"))
    BY <1>7 DEF PrepareNotBusy
  <2>. QED
    BY <1>2, <2>1 DEF StillToStat, NoReply
<1>8. CASE PrepareNext(p)
  <2>1. CASE PrepareArrives(p)
    BY <1>3, <1>5, <2>1 DEF PrepareArrives, PrepareRefused, Refuse
  <2>2. CASE PrepareRun(p)
    BY <1>3, <1>6, <1>7, <2>2 DEF PrepareRun, PrepareBusy
  <2>3. CASE PrepareAnswered(p)
    BY <1>3, <2>3 DEF PrepareAnswered, PrepareReject, PrepareAccept
  <2>. QED
    BY <1>8, <2>1, <2>2, <2>3 DEF PrepareNext
<1>9. CASE ~PrepareNext(p)
  BY <1>9, OthersWait DEF Waits, StillToStat
<1>. QED
  BY <1>8, <1>9

THEOREM DuplicatesWereThereAlways == Spec => DuplicatesWereThere
<1>1. SUFFICES ASSUME NEW p \in Prepare, NEW f \in FileId
               PROVE  Spec => ([](pc[p] = "stat" => ~Duplicate(f))
                 => [](p \in DOMAIN offer /\ f \in offer[p].files => reply[p] # 204))
  BY DEF DuplicatesWereThere
<1>2. Init => StillToStat(p, f)
  BY DEF Init, StillToStat, Request, NoReply
<1>3. ServerTypeOK /\ (pc[p] = "stat" => ~Duplicate(f)) /\ StillToStat(p, f) /\ [Next]_vars
        => StillToStat(p, f)'
  BY StillToStatStep
<1>4. StillToStat(p, f) => (p \in DOMAIN offer /\ f \in offer[p].files => reply[p] # 204)
  BY DEF StillToStat
<1>. QED
  BY <1>2, <1>3, <1>4, ServerTypeCorrect, PTL DEF Spec

----------------------------------------------------------------------------
(***************************************************************************)
(* No handler is left without a step while others change what it looks at: *)
(* a prepare request has a file to stat or a session to visit, which it    *)
(* finds busy or not, and one that took a session out of the map finds it  *)
(* yet to be canceled.  That the steps are taken is left to the runs.      *)
(***************************************************************************)
HasAStep(p) ==
  /\ pc[p] = "stat" => unchecked[p] # {}
  /\ pc[p] = "busy" => unvisited[p] # {}

NoHandlerStuck ==
  /\ \A p \in Prepare : HasAStep(p)
  /\ \A u \in DOMAIN job : pc[u] = "cancelctx" => job[u].sid \in closing
  /\ \A c \in DOMAIN target : pc[c] = "cancelctx" => target[c] \in closing

LEMMA HasAStepStays ==
  ASSUME ServerTypeOK, NEW p \in Prepare, HasAStep(p), [Next]_vars
  PROVE  HasAStep(p)'
<1>. ControlTypeOK /\ PrepareTypeOK /\ p \in Request
  BY DEF ServerTypeOK, UploadTypeOK, Request
<1>1. ASSUME NEW status, Answer(p, status) PROVE HasAStep(p)'
  BY <1>1 DEF Answer, ControlTypeOK, HasAStep
<1>2. \A step : Goto(p, step) => pc'[p] = step
  BY DEF Goto, ControlTypeOK
<1>3. ASSUME StartRange(p) PROVE HasAStep(p)'
  <2>1. unvisited'[p] = registered
    BY <1>3 DEF StartRange, PrepareTypeOK
  <2>2. CASE registered = {}
    BY <1>2, <1>3, <2>2 DEF StartRange, HasAStep
  <2>3. CASE registered # {}
    BY <1>2, <1>3, <2>1, <2>3 DEF StartRange, HasAStep
  <2>. QED
    BY <2>2, <2>3
<1>4. ASSUME NEW ip, NEW v, NEW fs \in SUBSET FileId, PrepareArrive(p, ip, v, fs)
      PROVE  HasAStep(p)'
  <2>1. CASE fs = {}
    BY <1>3, <1>4, <2>1 DEF PrepareArrive
  <2>2. CASE fs # {}
    <3>1. unchecked'[p] = fs
      BY <1>4 DEF PrepareArrive, PrepareTypeOK
    <3>. QED
      BY <1>2, <1>4, <2>2, <3>1 DEF PrepareArrive, HasAStep
  <2>. QED
    BY <2>1, <2>2
<1>5. ASSUME NEW g \in FileId, PrepareStat(p, g)
      PROVE  HasAStep(p)'
  <2>1. CASE ~Duplicate(g)
    BY <1>3, <1>5, <2>1 DEF PrepareStat
  <2>2. CASE Duplicate(g)
    <3>1. g \in unchecked[p] /\ unchecked' = [unchecked EXCEPT ![p] = unchecked[p] \ {g}]
      BY <1>5, <2>2 DEF PrepareStat
    <3>2. unchecked'[p] = unchecked[p] \ {g}
      BY <3>1 DEF PrepareTypeOK
    <3>3. \/ Answer(p, 204)
          \/ unchecked[p] # {g} /\ Goto(p, "stat")
      BY <1>5, <2>2 DEF PrepareStat
    <3>. QED
      BY <1>1, <1>2, <3>1, <3>2, <3>3 DEF HasAStep
  <2>. QED
    BY <2>1, <2>2
<1>6. ASSUME NEW x, PrepareNotBusy(p, x)
      PROVE  HasAStep(p)'
  <2>1. x \in unvisited[p] /\ unvisited' = [unvisited EXCEPT ![p] = unvisited[p] \ {x}]
    BY <1>6 DEF PrepareNotBusy
  <2>2. unvisited'[p] = unvisited[p] \ {x}
    BY <2>1 DEF PrepareTypeOK
  <2>3. \/ Goto(p, "ask")
        \/ unvisited[p] # {x} /\ Goto(p, "busy")
    BY <1>6 DEF PrepareNotBusy
  <2>. QED
    BY <1>2, <2>1, <2>2, <2>3 DEF HasAStep
<1>7. CASE PrepareNext(p)
  <2>1. CASE PrepareArrives(p)
    BY <1>1, <1>4, <2>1 DEF PrepareArrives, PrepareRefused, Refuse
  <2>2. CASE PrepareRun(p)
    BY <1>1, <1>5, <1>6, <2>2 DEF PrepareRun, PrepareBusy
  <2>3. CASE PrepareAnswered(p)
    BY <1>1, <2>3 DEF PrepareAnswered, PrepareReject, PrepareAccept
  <2>. QED
    BY <1>7, <2>1, <2>2, <2>3 DEF PrepareNext
<1>8. CASE ~PrepareNext(p)
  BY <1>8, OthersWait DEF Waits, HasAStep
<1>. QED
  BY <1>7, <1>8

THEOREM NoHandlerStuckAlways == Spec => []NoHandlerStuck
<1> DEFINE PreparesWalk == \A p \in Prepare : HasAStep(p)
<1>1. Init => PreparesWalk
  BY DEF Init, HasAStep, Request
<1>2. ServerTypeOK /\ PreparesWalk /\ [Next]_vars => PreparesWalk'
  BY HasAStepStays
<1>3. ServerTypeOK /\ OneDeleter /\ PreparesWalk => NoHandlerStuck
  <2>. SUFFICES ASSUME ServerTypeOK, OneDeleter, PreparesWalk PROVE NoHandlerStuck
    OBVIOUS
  <2>1. ASSUME NEW u \in DOMAIN job, pc[u] = "cancelctx" PROVE job[u].sid \in closing
    <3>1. job[u].sid \in SessionId
      BY DEF ServerTypeOK, UploadTypeOK, JobTypeOK, Job
    <3>2. u \in Deleters(job[u].sid)
      BY <2>1 DEF Deleters
    <3>. QED
      BY <3>1, <3>2 DEF OneDeleter
  <2>2. ASSUME NEW c \in DOMAIN target, pc[c] = "cancelctx" PROVE target[c] \in closing
    <3>1. target[c] \in SessionId
      BY DEF ServerTypeOK, UploadTypeOK, TargetTypeOK, TypeOK
    <3>2. c \in Deleters(target[c])
      BY <2>2 DEF Deleters
    <3>. QED
      BY <3>1, <3>2 DEF OneDeleter
  <2>. QED
    BY <2>1, <2>2 DEF NoHandlerStuck
<1>. HIDE DEF PreparesWalk
<1>. QED
  BY <1>1, <1>2, <1>3, ServerTypeCorrect, OneDeleterAlways, PTL DEF Spec

=============================================================================
