---------------------------- MODULE UploadServer ----------------------------
(***************************************************************************)
(* The receiver's handlers of prepare-upload, upload and cancel, in        *)
(* src/pkg/server/server.go, over the session table of SessionManager and  *)
(* the directory of SaveDir.                                               *)
(*                                                                         *)
(* Every HTTP request runs in a goroutine of its own, and no lock spans    *)
(* two steps of a handler.  A request is used once: it arrives with some   *)
(* arguments, its handler goes through the steps named by pc, and ends     *)
(* with a reply.  Each step below is what a handler does between two       *)
(* points where other goroutines can change what it sees.                  *)
(***************************************************************************)
EXTENDS SessionManager, SaveDir

CONSTANTS
  Prepare,    \* POST /prepare-upload requests
  Upload,     \* POST /upload requests
  CancelReq,  \* POST /cancel requests
  MetaId,     \* the id inside the metadata kept under each key
  HasSha,     \* the files offered with a SHA-256
  Candidate,  \* the names getUniquePath tries for a file, in order
  MaxTry,     \* bound on the number of names tried
  StrictTLS   \* the server's strictTLS option

ASSUME ServerAssumption ==
  /\ Prepare \cap Upload = {} /\ Prepare \cap CancelReq = {}
  /\ Upload \cap CancelReq = {}
  /\ Writer = Upload
  /\ MetaId \in [FileId -> FileId \cup {NoId}]
  /\ HasSha \subseteq FileId
  /\ MaxTry \in Nat \ {0}
  /\ Candidate \in [FileId -> [1..MaxTry -> Path]]
  /\ StrictTLS \in BOOLEAN

VARIABLES
  pc,         \* the step each request is at
  reply,      \* the status each request was answered with, NoReply before
  offer,      \* what the prepare requests that arrived ask for
  unchecked,  \* their files areAllFilesDuplicate has yet to stat
  unvisited,  \* the sessions their IsBusy has yet to visit
  job,        \* the uploads that passed validation
  target      \* the session each cancel request deleted

prepareVars == <<offer, unchecked, unvisited>>
handlerVars == <<pc, reply, prepareVars, job, target>>
vars == <<smVars, fsVars, handlerVars>>

Request == Prepare \cup Upload \cup CancelReq

NoReply == 0
Status == {200, 204, 400, 401, 403, 405, 409, 422, 500}

PrepareStep == {"idle", "stat", "busy", "ask", "replied"}
UploadStep ==
  {"idle", "stat", "create", "check", "read", "verify", "finish", "release",
   "cancelctx", "replied"}
CancelStep == {"idle", "cancelctx", "replied"}

Offer == [ip : Host, verified : BOOLEAN, files : SUBSET FileId]

(* try counts the names tried, fd is the inode written to (from "check"    *)
(* on), written the chunks received.                                       *)
Job == [sid : SessionId, fid : FileId, try : 1..MaxTry, fd : Inode,
        written : 0..MaxBytes]

Path1(f) == Candidate[f][1]
SavedPath(u) == Candidate[job[u].fid][job[u].try]

ControlTypeOK ==
  /\ pc \in [Request -> PrepareStep \cup UploadStep]
  /\ \A p \in Prepare : pc[p] \in PrepareStep
  /\ \A u \in Upload : pc[u] \in UploadStep
  /\ \A c \in CancelReq : pc[c] \in CancelStep
  /\ reply \in [Request -> Status \cup {NoReply}]

PrepareTypeOK ==
  /\ offer \in [DOMAIN offer -> Offer]
  /\ DOMAIN offer \subseteq Prepare
  /\ \A p \in Prepare : pc[p] \in {"stat", "busy", "ask"} => p \in DOMAIN offer
  /\ unchecked \in [Prepare -> SUBSET FileId]
  /\ unvisited \in [Prepare -> SUBSET created]

JobTypeOK ==
  /\ job \in [DOMAIN job -> Job]
  /\ DOMAIN job \subseteq Upload
  /\ \A u \in Upload : pc[u] \notin {"idle", "replied"} => u \in DOMAIN job
  /\ \A u \in DOMAIN job : pc[u] # "idle" /\ job[u].sid \in created

TargetTypeOK ==
  /\ target \in [DOMAIN target -> created]
  /\ DOMAIN target \subseteq CancelReq
  /\ \A c \in CancelReq : pc[c] = "cancelctx" => c \in DOMAIN target
  /\ \A c \in DOMAIN target : pc[c] # "idle"

UploadTypeOK == ControlTypeOK /\ PrepareTypeOK /\ JobTypeOK /\ TargetTypeOK

ServerTypeOK == TypeOK /\ SaveDirTypeOK /\ UploadTypeOK

----------------------------------------------------------------------------
Goto(r, step) == pc' = [pc EXCEPT ![r] = step] /\ UNCHANGED reply

Answer(r, status) ==
  /\ pc' = [pc EXCEPT ![r] = "replied"]
  /\ reply' = [reply EXCEPT ![r] = status]

(* A function extended with, or changed at, one argument.                  *)
With(f, x, v) == [y \in DOMAIN f \cup {x} |-> IF y = x THEN v ELSE f[y]]

Init ==
  /\ SMInit
  /\ SaveDirInit
  /\ pc = [r \in Request |-> "idle"]
  /\ reply = [r \in Request |-> NoReply]
  /\ offer = [p \in {} |-> p]
  /\ unchecked = [p \in Prepare |-> {}]
  /\ unvisited = [p \in Prepare |-> {}]
  /\ job = [u \in {} |-> u]
  /\ target = [c \in {} |-> c]

(***************************************************************************)
(* Refusals that read nothing the handlers share: a wrong method, PIN or   *)
(* body, a missing certificate, an unknown session id.                     *)
(***************************************************************************)
Refuse(r, status) ==
  /\ pc[r] = "idle"
  /\ Answer(r, status)
  /\ UNCHANGED <<smVars, fsVars, prepareVars, job, target>>

PrepareRefused(p) == \E status \in {400, 401, 403, 405} : Refuse(p, status)
UploadRefused(u) == \E status \in {400, 405} : Refuse(u, status)

----------------------------------------------------------------------------
(***************************************************************************)
(* handlePrepareUpload.  The duplicate check stats the offered files one   *)
(* at a time, in the map's order, until one is missing or of another size. *)
(* An offer of no files is no duplicate.  When it fails, IsBusy visits     *)
(* the sessions in the map; with none to visit it is over.                 *)
(***************************************************************************)
StartRange(p) ==
  /\ unvisited' = [unvisited EXCEPT ![p] = registered]
  /\ Goto(p, IF registered = {} THEN "ask" ELSE "busy")

PrepareArrive(p, ip, verified, files) ==
  /\ pc[p] = "idle"
  /\ offer' = With(offer, p, [ip |-> ip, verified |-> verified, files |-> files])
  /\ unchecked' = [unchecked EXCEPT ![p] = files]
  /\ IF files = {} THEN StartRange(p) ELSE Goto(p, "stat") /\ UNCHANGED unvisited
  /\ UNCHANGED <<smVars, fsVars, job, target>>

Duplicate(f) == Present(Path1(f)) /\ Length(Path1(f)) = Size[f]

(* Mutant of PrepareStat: a duplicate is looked at again and again.        *)
PrepareStatAgain(p, f) ==
  /\ pc[p] = "stat"
  /\ f \in unchecked[p]
  /\ IF ~Duplicate(f) THEN StartRange(p) ELSE Goto(p, "stat") /\ UNCHANGED unvisited
  /\ UNCHANGED <<smVars, fsVars, offer, unchecked, job, target>>

PrepareStat(p, f) ==
  /\ pc[p] = "stat"
  /\ f \in unchecked[p]
  /\ unchecked' = [unchecked EXCEPT ![p] = IF Duplicate(f) THEN @ \ {f} ELSE {}]
  /\ IF ~Duplicate(f) THEN StartRange(p)
     ELSE /\ IF unchecked[p] = {f} THEN Answer(p, 204) ELSE Goto(p, "stat")
          /\ UNCHANGED unvisited
  /\ UNCHANGED <<smVars, fsVars, offer, job, target>>

(***************************************************************************)
(* One visit of IsBusy's Range.  A session stored since the Range began    *)
(* may or may not be met, and one deleted since may still be: Range makes  *)
(* no promise on either.                                                   *)
(***************************************************************************)
PrepareBusy(p, s) ==
  /\ pc[p] = "busy"
  /\ s \in unvisited[p] \cup registered
  /\ Busy(s)
  /\ unvisited' = [unvisited EXCEPT ![p] = {}]
  /\ Answer(p, 409)
  /\ UNCHANGED <<smVars, fsVars, offer, unchecked, job, target>>

PrepareNotBusy(p, s) ==
  /\ pc[p] = "busy"
  /\ s \in unvisited[p]
  /\ ~Busy(s) \/ s \notin registered
  /\ unvisited' = [unvisited EXCEPT ![p] = @ \ {s}]
  /\ Goto(p, IF unvisited[p] = {s} THEN "ask" ELSE "busy")
  /\ UNCHANGED <<smVars, fsVars, offer, unchecked, job, target>>

(***************************************************************************)
(* OnPrepareUpload: the receiving user's decision, at any time or never.   *)
(* Nothing accepted is a rejection.  The session is created, and its id    *)
(* and tokens sent, without another look at the other sessions.            *)
(***************************************************************************)
PrepareReject(p) ==
  /\ pc[p] = "ask"
  /\ Answer(p, 403)
  /\ UNCHANGED <<smVars, fsVars, prepareVars, job, target>>

PrepareAccept(p, s, files) ==
  /\ pc[p] = "ask"
  /\ files # {}
  /\ files \subseteq offer[p].files
  /\ CreateSession(s, offer[p].ip, offer[p].verified, files)
  /\ Answer(p, 200)
  /\ UNCHANGED <<fsVars, prepareVars, job, target>>

----------------------------------------------------------------------------
(***************************************************************************)
(* handleUpload.  validateUploadRequest touches the session before it      *)
(* looks at anything else of the request.                                  *)
(***************************************************************************)
Token == SessionId \X FileId

Validation(s, f, token, from, cert) ==
  IF f \notin sess[s].files \/ token # <<s, f>> THEN 400
  ELSE IF from # sess[s].ip THEN 403
  ELSE IF StrictTLS /\ ~(cert /\ sess[s].verified) THEN 403
  ELSE IF StrictTLS /\ MetaId[f] = NoId THEN 500
  ELSE 200

UploadArrive(u, s, f, token, from, cert) ==
  LET status == Validation(s, f, token, from, cert) IN
  /\ pc[u] = "idle"
  /\ GetSession(s)
  /\ IF status = 200
     THEN /\ Goto(u, "stat")
          /\ job' = With(job, u, [sid |-> s, fid |-> f, try |-> 1, fd |-> u,
                                  written |-> 0])
     ELSE Answer(u, status) /\ UNCHANGED job
  /\ UNCHANGED <<fsVars, prepareVars, target>>

(***************************************************************************)
(* saveUploadedFile.  getUniquePath stats one name after the other until   *)
(* one is free; the file is created in another step.                       *)
(***************************************************************************)
(* Mutant of UploadStat: the first name is taken unseen.                   *)
UploadStatNothing(u) ==
  /\ pc[u] = "stat"
  /\ Goto(u, "create")
  /\ UNCHANGED <<smVars, fsVars, prepareVars, job, target>>

UploadStat(u) ==
  /\ pc[u] = "stat"
  /\ IF Present(SavedPath(u))
     THEN /\ job[u].try < MaxTry
          /\ job' = [job EXCEPT ![u] = [@ EXCEPT !.try = job[u].try + 1]]
          /\ Goto(u, "stat")
     ELSE Goto(u, "create") /\ UNCHANGED job
  /\ UNCHANGED <<smVars, fsVars, prepareVars, target>>

UploadCreate(u) ==
  /\ pc[u] = "create"
  /\ CreateFile(SavedPath(u), u)
  /\ job' = [job EXCEPT ![u] = [@ EXCEPT !.fd = Opened(SavedPath(u), u)]]
  /\ Goto(u, "check")
  /\ UNCHANGED <<smVars, prepareVars, target>>

UploadCreateFails(u) ==
  /\ pc[u] = "create"
  /\ Answer(u, 500)
  /\ UNCHANGED <<smVars, fsVars, prepareVars, job, target>>

(* Mutant of UploadCheck: the session is not looked at.                    *)
UploadCheckNothing(u) ==
  /\ pc[u] = "check"
  /\ Goto(u, "read")
  /\ UNCHANGED <<smVars, fsVars, prepareVars, job, target>>

(* The head of the loop: a canceled session removes the file.              *)
UploadCheck(u) ==
  /\ pc[u] = "check"
  /\ IF sess[job[u].sid].canceled
     THEN RemoveFile(SavedPath(u)) /\ Answer(u, 400)
     ELSE Goto(u, "read") /\ UNCHANGED fsVars
  /\ UNCHANGED <<smVars, prepareVars, job, target>>

(***************************************************************************)
(* One body.Read, which returns when the sender's connection has           *)
(* something to give: a chunk, the end, an error, or a chunk with either.  *)
(* The chunk is written and counted.  A failed write ends the upload like  *)
(* a read error, its short count included.  On an error the file stays.    *)
(***************************************************************************)
AfterRead(u, er) ==
  CASE er = "nil" -> Goto(u, "check")
    [] er = "eof" -> Goto(u, IF job[u].fid \in HasSha THEN "verify" ELSE "finish")
    [] er = "error" -> Answer(u, 500)

UploadReadChunk(u, er) ==
  LET n == job[u].written + 1 IN
  /\ pc[u] = "read"
  /\ n <= MaxBytes
  /\ WriteChunk(job[u].fd, n, u)
  /\ job' = [job EXCEPT ![u] = [@ EXCEPT !.written = n]]
  /\ RecordProgress(job[u].sid, MetaId[job[u].fid], n)
  /\ AfterRead(u, er)
  /\ UNCHANGED <<prepareVars, target>>

UploadReadEnd(u, er) ==
  /\ pc[u] = "read"
  /\ AfterRead(u, er)
  /\ UNCHANGED <<smVars, fsVars, prepareVars, job, target>>

(***************************************************************************)
(* The checksum of the bytes received is compared with the one offered,    *)
(* which is that of a file of the declared size: bytes of another number   *)
(* never match, bytes of the right number match unless they were damaged.  *)
(***************************************************************************)
ChecksumMatches(u) ==
  /\ pc[u] = "verify"
  /\ job[u].written = Size[job[u].fid]
  /\ Goto(u, "finish")
  /\ UNCHANGED <<smVars, fsVars, prepareVars, job, target>>

(* Mutant of ChecksumMismatch: the file is left behind.                    *)
ChecksumMismatchKeepsFile(u) ==
  /\ pc[u] = "verify"
  /\ Answer(u, 422)
  /\ UNCHANGED <<smVars, fsVars, prepareVars, job, target>>

ChecksumMismatch(u) ==
  /\ pc[u] = "verify"
  /\ RemoveFile(SavedPath(u))
  /\ Answer(u, 422)
  /\ UNCHANGED <<smVars, prepareVars, job, target>>

(* OnDone, then the release of a session whose files are all completed.    *)
UploadFinish(u) ==
  /\ pc[u] = "finish"
  /\ IF IsCompleted(sess[job[u].sid]) THEN Goto(u, "release") ELSE Answer(u, 200)
  /\ UNCHANGED <<smVars, fsVars, prepareVars, job, target>>

(* Mutant of UploadRelease: Delete without a Cancel.                       *)
UploadReleaseKeepsContext(u) ==
  /\ pc[u] = "release"
  /\ registered' = registered \ {job[u].sid}
  /\ Answer(u, 200)
  /\ UNCHANGED <<now, sess, closing, sweep, running, fsVars, prepareVars, job,
                 target>>

UploadRelease(u) ==
  /\ pc[u] = "release"
  /\ LoadAndDelete(job[u].sid)
  /\ Goto(u, "cancelctx")
  /\ UNCHANGED <<fsVars, prepareVars, job, target>>

UploadReleaseGone(u) ==
  /\ pc[u] = "release"
  /\ job[u].sid \notin registered
  /\ Answer(u, 200)
  /\ UNCHANGED <<smVars, fsVars, prepareVars, job, target>>

UploadCancelCtx(u) ==
  /\ pc[u] = "cancelctx"
  /\ CancelDeleted(job[u].sid)
  /\ Answer(u, 200)
  /\ UNCHANGED <<fsVars, prepareVars, job, target>>

----------------------------------------------------------------------------
(***************************************************************************)
(* handleCancel: DeleteSession with whatever id came, 200 in any case.     *)
(***************************************************************************)
CancelArrive(c, s) ==
  /\ pc[c] = "idle"
  /\ LoadAndDelete(s)
  /\ target' = With(target, c, s)
  /\ Goto(c, "cancelctx")
  /\ UNCHANGED <<fsVars, prepareVars, job>>

CancelNothing(c) == \E status \in {200, 405} : Refuse(c, status)

(* Mutant of CancelFinish: the handler answers without canceling.          *)
CancelFinishKeepsContext(c) ==
  /\ pc[c] = "cancelctx"
  /\ Answer(c, 200)
  /\ UNCHANGED <<smVars, fsVars, prepareVars, job, target>>

CancelFinish(c) ==
  /\ pc[c] = "cancelctx"
  /\ CancelDeleted(target[c])
  /\ Answer(c, 200)
  /\ UNCHANGED <<fsVars, prepareVars, job, target>>

----------------------------------------------------------------------------
(***************************************************************************)
(* For each request: its arrival, what waits for the receiving user or the *)
(* sender's connection, and what the handler does by itself.               *)
(***************************************************************************)
PrepareArrives(p) ==
  \/ PrepareRefused(p)
  \/ \E ip \in Host, v \in BOOLEAN, fs \in SUBSET FileId : PrepareArrive(p, ip, v, fs)

PrepareRun(p) ==
  \/ \E f \in FileId : PrepareStat(p, f)
  \/ \E s \in SessionId : PrepareBusy(p, s) \/ PrepareNotBusy(p, s)

PrepareAnswered(p) ==
  \/ PrepareReject(p)
  \/ \E s \in SessionId, fs \in SUBSET FileId : PrepareAccept(p, s, fs)

UploadArrives(u) ==
  \/ UploadRefused(u)
  \/ \E s \in SessionId, f \in FileId, t \in Token, from \in Host, cert \in BOOLEAN :
       UploadArrive(u, s, f, t, from, cert)

UploadReceives(u) ==
  \/ \E er \in {"nil", "eof", "error"} : UploadReadChunk(u, er)
  \/ \E er \in {"eof", "error"} : UploadReadEnd(u, er)

UploadRun(u) ==
  \/ UploadStat(u)
  \/ UploadCreate(u) \/ UploadCreateFails(u)
  \/ UploadCheck(u)
  \/ ChecksumMatches(u) \/ ChecksumMismatch(u)
  \/ UploadFinish(u)
  \/ UploadRelease(u) \/ UploadReleaseGone(u)
  \/ UploadCancelCtx(u)

CancelArrives(c) == CancelNothing(c) \/ \E s \in SessionId : CancelArrive(c, s)

PrepareNext(p) == PrepareArrives(p) \/ PrepareRun(p) \/ PrepareAnswered(p)
UploadNext(u) == UploadArrives(u) \/ UploadReceives(u) \/ UploadRun(u)
CancelNext(c) == CancelArrives(c) \/ CancelFinish(c)

Background == (Tick \/ Close \/ SweepStep) /\ UNCHANGED <<fsVars, handlerVars>>

Next ==
  \/ \E p \in Prepare : PrepareNext(p)
  \/ \E u \in Upload : UploadNext(u)
  \/ \E c \in CancelReq : CancelNext(c)
  \/ Background

(***************************************************************************)
(* Goroutines that can run do.  Nothing makes a request arrive, the user   *)
(* decide, or a sender send.                                               *)
(***************************************************************************)
Fairness ==
  /\ \A p \in Prepare : WF_vars(PrepareRun(p))
  /\ \A u \in Upload : WF_vars(UploadRun(u))
  /\ \A c \in CancelReq : WF_vars(CancelFinish(c))
  /\ WF_vars(SweepStep /\ UNCHANGED <<fsVars, handlerVars>>)

Spec == Init /\ [][Next]_vars /\ Fairness

=============================================================================
