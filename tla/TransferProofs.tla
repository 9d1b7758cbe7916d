--------------------------- MODULE TransferProofs ---------------------------
(***************************************************************************)
(* What one call of SendFiles guarantees for any number of files of any    *)
(* size, and any receiver, user and network, proved with TLAPS: its state  *)
(* keeps its types, the receiver's part is a behaviour of UploadServer,    *)
(* the call with the receiver implements FileTransfer, a success means the *)
(* files are stored, and a failure ends the session.                       *)
(***************************************************************************)
EXTENDS TransferProperties, UploadReleaseProofs

(***************************************************************************)
(* The receiver's steps are steps of UploadServer.                         *)
(***************************************************************************)
LEMMA RequestsAre ==
  /\ PrepareCall \in Prepare /\ CancelCall \in CancelReq
  /\ \A f \in FileId : UploadCall[f] \in Upload
  /\ \A f \in FileId : UploadCall[f] # PrepareCall /\ UploadCall[f] # CancelCall
  /\ PrepareCall \in Request /\ CancelCall \in Request
  /\ \A f \in FileId : UploadCall[f] \in Request
BY TransferAssumption, ServerAssumption DEF Request

(* A step of the handler of a request that was sent.                       *)
Handles(r) ==
  \/ r \in Prepare /\ PrepareNext(r)
  \/ r \in Upload /\ UploadNext(r)
  \/ r \in CancelReq /\ CancelNext(r)

Started(r) == conn[r] # "none" \/ pc[r] # "idle"

LEMMA PrepareSteps ==
  ASSUME given \in 1..Len(Order),
         PrepareDelivered \/ PrepareRun(PrepareCall) \/ PrepareAnswered(PrepareCall)
  PROVE  Started(PrepareCall) /\ PrepareNext(PrepareCall)
<1>1. CASE PrepareDelivered
  <2>1. Given \in SUBSET FileId
    BY TransferAssumption DEF Given
  <2>2. PrepareArrives(PrepareCall)
    BY <1>1, <2>1, TransferAssumption DEF PrepareDelivered, PrepareArrives, PrepareRefused
  <2>. QED
    BY <1>1, <2>2 DEF PrepareDelivered, Sent, Started, PrepareNext
<1>2. CASE PrepareRun(PrepareCall)
  BY <1>2 DEF PrepareRun, PrepareStat, PrepareBusy, PrepareNotBusy, Started, PrepareNext
<1>3. CASE PrepareAnswered(PrepareCall)
  BY <1>3 DEF PrepareAnswered, PrepareReject, PrepareAccept, Started, PrepareNext
<1>. QED
  BY <1>1, <1>2, <1>3

LEMMA UploadSteps ==
  ASSUME TypeOK, NEW f \in FileId,
         UploadDelivered(f) \/ BodyArrives(f) \/ UploadRun(UploadCall[f])
  PROVE  Started(UploadCall[f]) /\ UploadNext(UploadCall[f])
<1>1. CASE UploadDelivered(f)
  <2>1. ASSUME NEW from \in Host, NEW cert \in BOOLEAN,
               UploadArrive(UploadCall[f], session, f, <<session, f>>, from, cert)
        PROVE  UploadArrives(UploadCall[f])
    <3>1. session \in SessionId
      BY <2>1 DEF UploadArrive, GetSession, TypeOK, created
    <3>2. <<session, f>> \in Token
      BY <3>1 DEF Token
    <3>. QED
      BY <2>1, <3>1, <3>2 DEF UploadArrives
  <2>2. UploadArrives(UploadCall[f])
    BY <1>1, <2>1 DEF UploadDelivered, UploadArrives, UploadRefused
  <2>. QED
    BY <1>1, <2>2 DEF UploadDelivered, Sent, Started, UploadNext
<1>2. CASE BodyArrives(f)
  <2>1. UploadReceives(UploadCall[f])
    BY <1>2 DEF BodyArrives, UploadReceives
  <2>. QED
    BY <1>2, <2>1 DEF BodyArrives, Started, UploadNext
<1>3. CASE UploadRun(UploadCall[f])
  <2>1. pc[UploadCall[f]] # "idle"
    BY <1>3 DEF UploadRun, UploadStat, UploadCreate, UploadCreateFails, UploadCheck,
       ChecksumMatches, ChecksumMismatch, UploadFinish, UploadRelease,
       UploadReleaseGone, UploadCancelCtx
  <2>. QED
    BY <1>3, <2>1 DEF Started, UploadNext
<1>. QED
  BY <1>1, <1>2, <1>3

LEMMA CancelSteps ==
  ASSUME TypeOK, CancelDelivered \/ CancelFinish(CancelCall)
  PROVE  Started(CancelCall) /\ CancelNext(CancelCall)
<1>1. CASE CancelDelivered
  <2>1. ASSUME CancelArrive(CancelCall, session) PROVE session \in SessionId
    BY <2>1 DEF CancelArrive, LoadAndDelete, TypeOK, created
  <2>2. CancelArrives(CancelCall)
    BY <1>1, <2>1 DEF CancelDelivered, CancelArrives, CancelNothing
  <2>. QED
    BY <1>1, <2>2 DEF CancelDelivered, Sent, Started, CancelNext
<1>2. CASE CancelFinish(CancelCall)
  BY <1>2 DEF CancelFinish, Started, CancelNext
<1>. QED
  BY <1>1, <1>2

LEMMA ReceiverSteps ==
  ASSUME TypeOK, given \in 1..Len(Order), ReceiverStep
  PROVE  \/ \E r \in Request : Started(r) /\ Handles(r)
         \/ Background
<1>1. CASE PrepareDelivered \/ PrepareRun(PrepareCall) \/ PrepareAnswered(PrepareCall)
  BY <1>1, PrepareSteps, RequestsAre DEF Handles
<1>2. ASSUME NEW f \in FileId,
             UploadDelivered(f) \/ BodyArrives(f) \/ UploadRun(UploadCall[f])
      PROVE  \E r \in Request : Started(r) /\ Handles(r)
  BY <1>2, UploadSteps, RequestsAre DEF Handles
<1>3. CASE CancelDelivered \/ CancelFinish(CancelCall)
  BY <1>3, CancelSteps, RequestsAre DEF Handles
<1>. QED
  BY <1>1, <1>2, <1>3 DEF ReceiverStep

LEMMA TransferStepIsServerStep ==
  ASSUME TypeOK, given \in 1..Len(Order), [TransferNext]_allVars
  PROVE  [Next]_vars
<1>1. CASE ClientNext \/ UNCHANGED allVars
  BY <1>1 DEF ClientNext, ClientRun, SendPrepare, PrepareUntrusted, PrepareSkipped,
     PrepareTurnedDown, PrepareGranted, AllDone, SkipNotAccepted, StartUpload,
     UploadAccepted, UploadTurnedDown, CancelReturns, PrepareBreaks, OpenFails,
     UploadBreaks, CancelBreaks, CancelAfterFailure, allVars
<1>2. CASE ReceiverNext
  BY <1>2, ReceiverSteps DEF ReceiverNext, Handles, Next
<1>. QED
  BY <1>1, <1>2 DEF TransferNext

----------------------------------------------------------------------------
(***************************************************************************)
(* The client's variables.                                                 *)
(***************************************************************************)
ClientTypeOK ==
  /\ phase \in Phase
  /\ next \in 1..Len(Order) + 1
  /\ session \in created \cup {NoSession}
  /\ results \in [FileId -> Verdict]
  /\ err \in {"nil", "rejected", "failed"}
  /\ conn \in [Request -> {"none", "open", "broken"}]
  /\ trusted \in BOOLEAN
  /\ given \in 1..Len(Order)
  /\ phase \in {"files", "upload", "cancel"} => session \in created
  /\ phase = "upload" => next <= given

LEMMA TypeOKIs == TransferTypeOK <=> ServerTypeOK /\ ClientTypeOK
BY DEF TransferTypeOK, ClientTypeOK

LEMMA LengthIsNatural == Len(Order) \in Nat
BY TransferAssumption

LEMMA CurrentIs ==
  ASSUME given \in 1..Len(Order), next \in 1..Len(Order) + 1, next <= given
  PROVE  /\ next \in 1..Len(Order)
         /\ Current \in FileId
         /\ CurrentCall \in Request
<1>1. next \in 1..Len(Order)
  BY LengthIsNatural
<1>2. Current \in FileId
  BY <1>1, TransferAssumption DEF Current
<1>. QED
  BY <1>1, <1>2, RequestsAre DEF CurrentCall

LEMMA ClientKeepsServer ==
  ASSUME ClientNext
  PROVE  UNCHANGED vars /\ UNCHANGED created /\ UNCHANGED given
<1>1. UNCHANGED vars /\ UNCHANGED given
  BY DEF ClientNext, ClientRun, SendPrepare, PrepareUntrusted, PrepareSkipped,
     PrepareTurnedDown, PrepareGranted, AllDone, SkipNotAccepted, StartUpload,
     UploadAccepted, UploadTurnedDown, CancelReturns, PrepareBreaks, OpenFails,
     UploadBreaks, CancelBreaks, CancelAfterFailure
<1>. QED
  BY <1>1 DEF vars, smVars, created

LEMMA PreparePhaseTyped ==
  ASSUME ClientTypeOK, UNCHANGED created,
         \/ SendPrepare \/ PrepareUntrusted \/ PrepareSkipped
         \/ PrepareTurnedDown \/ PrepareBreaks
         \/ \E s \in SessionId : PrepareGranted(s)
  PROVE  ClientTypeOK'
<1>. USE RequestsAre DEF ClientTypeOK, Phase, Verdict
<1>1. CASE SendPrepare
  <2>1. conn' \in [Request -> {"none", "open", "broken"}]
    BY <1>1 DEF SendPrepare, Open
  <2>. QED
    BY <1>1, <2>1 DEF SendPrepare
<1>2. CASE PrepareUntrusted \/ PrepareTurnedDown
  BY <1>2 DEF PrepareUntrusted, PrepareTurnedDown, Finish
<1>3. CASE PrepareSkipped
  BY <1>3 DEF PrepareSkipped, Finish
<1>4. CASE PrepareBreaks
  BY <1>4 DEF PrepareBreaks, Finish
<1>5. ASSUME NEW s \in SessionId, PrepareGranted(s) PROVE ClientTypeOK'
  BY <1>5 DEF PrepareGranted
<1>. QED
  BY <1>1, <1>2, <1>3, <1>4, <1>5

LEMMA FailureTyped ==
  ASSUME ClientTypeOK, UNCHANGED created, phase \in {"files", "upload"},
         next <= given,
         NEW connected \in [Request -> {"none", "open", "broken"}],
         CancelAfterFailure(connected)
  PROVE  ClientTypeOK'
<1>1. Current \in FileId
  BY CurrentIs DEF ClientTypeOK
<1>2. results' \in [FileId -> Verdict]
  BY <1>1 DEF CancelAfterFailure, Report, ClientTypeOK, Verdict
<1>3. conn' \in [Request -> {"none", "open", "broken"}]
  BY RequestsAre DEF CancelAfterFailure
<1>. QED
  BY <1>2, <1>3 DEF CancelAfterFailure, ClientTypeOK, Phase

LEMMA FilePhaseTyped ==
  ASSUME ClientTypeOK, UNCHANGED created,
         \/ AllDone \/ SkipNotAccepted \/ StartUpload \/ UploadAccepted
         \/ CancelReturns \/ CancelBreaks
         \/ OpenFails \/ UploadBreaks \/ UploadTurnedDown
  PROVE  ClientTypeOK'
<1>. USE DEF ClientTypeOK
<1>1. CASE AllDone
  BY <1>1 DEF AllDone, Finish, Phase
<1>2. CASE SkipNotAccepted
  <2>1. Current \in FileId /\ next + 1 \in 1..Len(Order) + 1
    <3>1. next <= given
      BY <1>2 DEF SkipNotAccepted
    <3>2. Current \in FileId /\ next \in 1..Len(Order)
      BY <3>1, CurrentIs
    <3>. QED
      BY <3>2, LengthIsNatural
  <2>2. results' \in [FileId -> Verdict]
    BY <1>2, <2>1 DEF SkipNotAccepted, Report, Verdict
  <2>3. /\ phase = "files" /\ phase' = "files" /\ next' = next + 1
        /\ UNCHANGED <<session, err, conn, trusted, given>>
    BY <1>2 DEF SkipNotAccepted
  <2>. QED
    BY <2>1, <2>2, <2>3
<1>3. CASE StartUpload
  <2>1. CurrentCall \in Request
    BY <1>3, CurrentIs DEF StartUpload
  <2>. QED
    BY <1>3, <2>1 DEF StartUpload, Open, Phase
<1>4. CASE UploadAccepted
  <2>1. Current \in FileId /\ next + 1 \in 1..Len(Order) + 1
    <3>1. next <= given
      BY <1>4 DEF UploadAccepted
    <3>2. Current \in FileId /\ next \in 1..Len(Order)
      BY <3>1, CurrentIs
    <3>. QED
      BY <3>2, LengthIsNatural
  <2>2. results' \in [FileId -> Verdict]
    BY <1>4, <2>1 DEF UploadAccepted, Report, Verdict
  <2>3. /\ phase = "upload" /\ phase' = "files" /\ next' = next + 1
        /\ UNCHANGED <<session, err, conn, trusted, given>>
    BY <1>4 DEF UploadAccepted
  <2>. QED
    BY <2>1, <2>2, <2>3 DEF Phase
<1>5. CASE CancelReturns
  BY <1>5 DEF CancelReturns, Finish, Phase
<1>6. CASE CancelBreaks
  BY <1>6, RequestsAre DEF CancelBreaks, Finish, Phase
<1>7. CASE OpenFails
  BY <1>7, FailureTyped DEF OpenFails
<1>8. CASE UploadTurnedDown
  BY <1>8, FailureTyped DEF UploadTurnedDown
<1>9. CASE UploadBreaks
  <2>1. CurrentCall \in Request
    BY <1>9, CurrentIs DEF UploadBreaks
  <2>2. [conn EXCEPT ![CurrentCall] = "broken"] \in [Request -> {"none", "open", "broken"}]
    BY <2>1
  <2>. QED
    BY <1>9, <2>2, FailureTyped DEF UploadBreaks
<1>. QED
  BY <1>1, <1>2, <1>3, <1>4, <1>5, <1>6, <1>7, <1>8, <1>9

LEMMA ClientTyped ==
  ASSUME ClientTypeOK, created \subseteq created', [TransferNext]_allVars
  PROVE  ClientTypeOK'
<1>1. CASE ClientNext
  BY <1>1, ClientKeepsServer, PreparePhaseTyped, FilePhaseTyped DEF ClientNext, ClientRun
<1>2. CASE UNCHANGED clientVars
  BY <1>2 DEF ClientTypeOK, clientVars
<1>. QED
  BY <1>1, <1>2 DEF TransferNext, ReceiverNext, allVars

LEMMA TransferTypedStep ==
  ASSUME TransferTypeOK, [TransferNext]_allVars
  PROVE  TransferTypeOK'
<1>. ServerTypeOK /\ ClientTypeOK /\ TypeOK
  BY TypeOKIs DEF ServerTypeOK
<1>1. [Next]_vars
  BY TransferStepIsServerStep DEF ClientTypeOK
<1>2. ServerTypeOK'
  BY <1>1, NextServerTypeOK
<1>3. created \subseteq created'
  BY <1>1, StepUsesSessionManager, CreatedGrows
<1>4. ClientTypeOK'
  BY <1>3, ClientTyped
<1>. QED
  BY <1>2, <1>4 DEF TransferTypeOK, ClientTypeOK

LEMMA TransferInitial == TransferInit => TransferTypeOK
<1>. SUFFICES ASSUME TransferInit PROVE TransferTypeOK
  OBVIOUS
<1>1. ServerTypeOK
  BY InitServerTypeOK DEF TransferInit
<1>2. 1 \in 1..Len(Order) + 1
  BY LengthIsNatural
<1>3. ClientTypeOK
  BY <1>2 DEF TransferInit, ClientTypeOK, Phase, Verdict
<1>. QED
  BY <1>1, <1>3, TypeOKIs

(***************************************************************************)
(* Client and receiver keep their types: an answer to a request is a       *)
(* session the receiver has created, and an upload is of a file of the     *)
(* slice.                                                                  *)
(***************************************************************************)
THEOREM TransferTyped == TransferSpec => []TransferTypeOK
BY TransferInitial, TransferTypedStep, PTL DEF TransferSpec

(***************************************************************************)
(* The receiver's part of a transfer is a behaviour of UploadServer, so    *)
(* that what is proved of UploadServer holds in a transfer.                *)
(***************************************************************************)
THEOREM TransferUsesServer == TransferSpec => Init /\ [][Next]_vars
<1>1. TransferInit => Init
  BY DEF TransferInit
<1>2. TransferTypeOK /\ [TransferNext]_allVars => [Next]_vars
  BY TransferStepIsServerStep DEF TransferTypeOK, ServerTypeOK
<1>. QED
  BY <1>1, <1>2, TransferTyped, PTL DEF TransferSpec

----------------------------------------------------------------------------
(***************************************************************************)
(* A request that has no connection has not arrived, and an answer is      *)
(* final.                                                                  *)
(***************************************************************************)
ReplyInv ==
  \A r \in Request :
    /\ reply[r] # NoReply => pc[r] = "replied"
    /\ conn[r] = "none" => pc[r] = "idle"

Final == \A r \in Request : reply[r] # NoReply => reply'[r] = reply[r]

LEMMA HandlesMoves ==
  ASSUME NEW r \in Request, Handles(r)
  PROVE  Moves(r, PrepareStep \cup UploadStep)
<1>1. CancelStep \subseteq UploadStep
  BY DEF CancelStep, UploadStep
<1>2. ASSUME NEW steps \in SUBSET (PrepareStep \cup UploadStep), Moves(r, steps)
      PROVE  Moves(r, PrepareStep \cup UploadStep)
  BY <1>2 DEF Moves
<1>. QED
  BY <1>1, <1>2, PrepareMoves, UploadMoves, CancelMoves DEF Handles

LEMMA HandlesUnanswered ==
  ASSUME NEW r \in Request, Handles(r)
  PROVE  pc[r] # "replied"
<1>1. ASSUME PrepareNext(r) PROVE pc[r] # "replied"
  <2>1. CASE PrepareArrives(r)
    <3>1. PrepareRefused(r) => pc[r] = "idle"
      BY DEF PrepareRefused, Refuse
    <3>2. \A ip, v, fs : PrepareArrive(r, ip, v, fs) => pc[r] = "idle"
      BY DEF PrepareArrive
    <3>. QED
      BY <2>1, <3>1, <3>2 DEF PrepareArrives
  <2>2. CASE PrepareRun(r)
    BY <2>2 DEF PrepareRun, PrepareStat, PrepareBusy, PrepareNotBusy
  <2>3. CASE PrepareAnswered(r)
    BY <2>3 DEF PrepareAnswered, PrepareReject, PrepareAccept
  <2>. QED
    BY <1>1, <2>1, <2>2, <2>3 DEF PrepareNext
<1>2. ASSUME UploadNext(r) PROVE pc[r] # "replied"
  <2>1. CASE UploadArrives(r) \/ UploadReceives(r)
    BY <2>1 DEF UploadArrives, UploadRefused, Refuse, UploadArrive, UploadReceives,
       UploadReadChunk, UploadReadEnd
  <2>2. CASE UploadRun(r)
    BY <2>2 DEF UploadRun, UploadStat, UploadCreate, UploadCreateFails, UploadCheck,
       ChecksumMatches, ChecksumMismatch, UploadFinish, UploadRelease,
       UploadReleaseGone, UploadCancelCtx
  <2>. QED
    BY <1>2, <2>1, <2>2 DEF UploadNext
<1>3. ASSUME CancelNext(r) PROVE pc[r] # "replied"
  BY <1>3 DEF CancelNext, CancelArrives, CancelNothing, Refuse, CancelArrive, CancelFinish
<1>. QED
  BY <1>1, <1>2, <1>3 DEF Handles

LEMMA ConnStays ==
  ASSUME ClientTypeOK, ClientNext, NEW r \in Request, conn'[r] = "none"
  PROVE  conn[r] = "none"
<1>1. \/ conn' = conn
      \/ \E q : conn' = [conn EXCEPT ![q] = "open"] \/ conn' = [conn EXCEPT ![q] = "broken"]
      \/ conn' = [[conn EXCEPT ![CurrentCall] = "broken"] EXCEPT ![CancelCall] = "open"]
  BY DEF ClientNext, ClientRun, SendPrepare, PrepareUntrusted, PrepareSkipped,
     PrepareTurnedDown, PrepareGranted, AllDone, SkipNotAccepted, StartUpload,
     UploadAccepted, UploadTurnedDown, CancelReturns, PrepareBreaks, OpenFails,
     UploadBreaks, CancelBreaks, CancelAfterFailure, Open
<1>2. conn \in [Request -> {"none", "open", "broken"}]
  BY DEF ClientTypeOK
<1>3. ASSUME NEW q, NEW v \in {"open", "broken"}, conn' = [conn EXCEPT ![q] = v]
      PROVE  conn[r] = "none"
  BY <1>2, <1>3
<1>4. CASE conn' = [[conn EXCEPT ![CurrentCall] = "broken"] EXCEPT ![CancelCall] = "open"]
  BY <1>2, <1>4
<1>. QED
  BY <1>1, <1>3, <1>4

LEMMA ReplyStep ==
  ASSUME TransferTypeOK, ReplyInv, [TransferNext]_allVars
  PROVE  ReplyInv' /\ Final
<1>. ControlTypeOK /\ TypeOK /\ ClientTypeOK
  BY TypeOKIs DEF ServerTypeOK, UploadTypeOK
<1>1. CASE ClientNext
  <2>1. UNCHANGED <<pc, reply>>
    BY <1>1, ClientKeepsServer DEF vars, handlerVars
  <2>. QED
    BY <1>1, <2>1, ConnStays DEF ReplyInv, Final
<1>2. CASE UNCHANGED <<pc, reply, conn>>
  BY <1>2 DEF ReplyInv, Final
<1>3. ASSUME UNCHANGED conn, NEW r \in Request, Started(r), Handles(r)
      PROVE  ReplyInv' /\ Final
  <2>1. conn[r] # "none"
    BY <1>3 DEF ReplyInv, Started
  <2>2. pc[r] # "replied" /\ reply[r] = NoReply
    BY <1>3, HandlesUnanswered DEF ReplyInv
  <2>3. Moves(r, PrepareStep \cup UploadStep)
    BY <1>3, HandlesMoves
  <2>4. \A q \in Request \ {r} : pc'[q] = pc[q] /\ reply'[q] = reply[q]
    BY <2>3, MovesOnly
  <2>5. reply'[r] # NoReply => pc'[r] = "replied"
    BY <2>2, <2>3 DEF Moves, ControlTypeOK
  <2>. QED
    BY <1>3, <2>1, <2>2, <2>4, <2>5 DEF ReplyInv, Final
<1>4. CASE ReceiverNext
  <2>1. UNCHANGED conn /\ ReceiverStep
    BY <1>4 DEF ReceiverNext, clientVars
  <2>2. CASE Background
    BY <1>2, <2>1, <2>2 DEF Background, handlerVars
  <2>. QED
    BY <1>3, <2>1, <2>2, ReceiverSteps DEF ClientTypeOK
<1>. QED
  BY <1>1, <1>2, <1>4 DEF TransferNext, allVars, vars, handlerVars, clientVars

----------------------------------------------------------------------------
(***************************************************************************)
(* What the client has reported is what the receiver has said: nothing of  *)
(* the files it has yet to come to, "sent" of files answered 200 or known  *)
(* by the 204, "not accepted" of files never asked to be stored.           *)
(***************************************************************************)
ToReport(k) ==
  phase \in {"start", "prepare"} \/ (phase \in {"files", "upload"} /\ k >= next)

ToSend(k) ==
  \/ phase \in {"start", "prepare"}
  \/ phase = "files" /\ k >= next
  \/ phase = "upload" /\ k > next

FileInv(f) ==
  /\ results[f] = "sent" => f \in StoredFiles
  /\ results[f] = "not accepted" => conn[UploadCall[f]] = "none" /\ reply[PrepareCall] = 200
  /\ phase \in {"start", "prepare", "files", "upload"} => results[f] # "failed"

ReportInv ==
  /\ \A k \in 1..Len(Order) : ToReport(k) => results[Order[k]] = "none"
  /\ \A k \in 1..Len(Order) : ToSend(k) => conn[UploadCall[Order[k]]] = "none"
  /\ \A f \in FileId : FileInv(f)
  /\ phase \in {"files", "upload", "cancel"} => reply[PrepareCall] = 200

LEMMA OrderIs ==
  /\ \A k \in 1..Len(Order) : Order[k] \in FileId
  /\ \A f \in FileId : \E k \in 1..Len(Order) : Order[k] = f
  /\ \A j, k \in 1..Len(Order) : Order[j] = Order[k] => j = k
BY TransferAssumption

LEMMA ReportInitial == TransferInit => ReplyInv /\ ReportInv
<1>. SUFFICES ASSUME TransferInit PROVE ReplyInv /\ ReportInv
  OBVIOUS
<1>1. ReplyInv
  BY DEF TransferInit, Init, ReplyInv
<1>2. /\ phase = "start"
      /\ \A f \in FileId : results[f] = "none"
      /\ \A r \in Request : conn[r] = "none"
  BY DEF TransferInit
<1>3. ReportInv
  BY <1>2, OrderIs, RequestsAre DEF ReportInv, FileInv
<1>. QED
  BY <1>1, <1>3

(* The receiver's steps change answers only, and those for good.           *)
LEMMA StoredGrows ==
  ASSUME Final, UNCHANGED given
  PROVE  /\ StoredFiles \subseteq StoredFiles'
         /\ reply[PrepareCall] = 200 => reply'[PrepareCall] = 200
<1>1. \A r \in Request : /\ reply[r] = 200 => reply'[r] = 200
                         /\ reply[r] = 204 => reply'[r] = 204
  BY DEF Final, NoReply
<1>. QED
  BY <1>1, RequestsAre DEF StoredFiles, Given

LEMMA ReportReceiver ==
  ASSUME ReportInv, Final, UNCHANGED clientVars
  PROVE  ReportInv'
<1>1. UNCHANGED <<phase, next, results, conn, given>>
  BY DEF clientVars
<1>2. ASSUME NEW f \in FileId PROVE FileInv(f)'
  BY <1>1, StoredGrows DEF ReportInv, FileInv
<1>. QED
  BY <1>1, <1>2, StoredGrows DEF ReportInv, ToReport, ToSend

(* The client's steps keep the answers.                                    *)
LEMMA ReportPrepare ==
  ASSUME ClientTypeOK, ReportInv, UNCHANGED <<reply, given>>,
         \/ SendPrepare \/ PrepareUntrusted \/ PrepareSkipped
         \/ PrepareTurnedDown \/ PrepareBreaks
         \/ \E s \in SessionId : PrepareGranted(s)
  PROVE  ReportInv'
<1>1. phase \in {"start", "prepare"} /\ StoredFiles' = StoredFiles
  BY DEF SendPrepare, PrepareUntrusted, PrepareSkipped, PrepareTurnedDown, PrepareBreaks,
     PrepareGranted, StoredFiles, Given
<1>2. /\ \A f \in FileId : results[f] = "none"
      /\ \A f \in FileId : conn[UploadCall[f]] = "none"
  BY <1>1, OrderIs DEF ReportInv, ToReport, ToSend
<1>3. \A f \in FileId : conn'[UploadCall[f]] = "none"
  BY <1>2, RequestsAre DEF SendPrepare, PrepareUntrusted, PrepareSkipped, PrepareTurnedDown,
     PrepareBreaks, PrepareGranted, Open, ClientTypeOK
<1>4. CASE PrepareSkipped
  <2>1. /\ phase' = "returned" /\ reply[PrepareCall] = 204
        /\ results' = [f \in FileId |-> IF f \in Given THEN "sent" ELSE "none"]
    BY <1>4 DEF PrepareSkipped, Finish
  <2>2. \A f \in FileId : f \in Given => f \in StoredFiles'
    BY <1>1, <2>1 DEF StoredFiles
  <2>. QED
    BY <2>1, <2>2 DEF ReportInv, FileInv, ToReport, ToSend
<1>5. CASE ~PrepareSkipped
  <2>1. results' = results
    BY <1>5 DEF SendPrepare, PrepareUntrusted, PrepareTurnedDown, PrepareBreaks, PrepareGranted
  <2>2. phase' \in {"files", "upload", "cancel"} => reply'[PrepareCall] = 200
    BY <1>5 DEF SendPrepare, PrepareUntrusted, PrepareTurnedDown, PrepareBreaks,
       PrepareGranted, Finish
  <2>3. \A f \in FileId : FileInv(f)'
    BY <1>2, <1>3, <2>1 DEF FileInv
  <2>4. \A k \in 1..Len(Order) :
          results'[Order[k]] = "none" /\ conn'[UploadCall[Order[k]]] = "none"
    BY <1>2, <1>3, <2>1, OrderIs
  <2>. QED
    BY <2>2, <2>3, <2>4 DEF ReportInv
<1>. QED
  BY <1>4, <1>5

(* A verdict on the current file, which has none.                          *)
LEMMA ReportCurrent ==
  ASSUME ClientTypeOK, next <= given, NEW verdict, Report(verdict)
  PROVE  /\ results'[Current] = verdict
         /\ \A f \in FileId \ {Current} : results'[f] = results[f]
         /\ \A k \in 1..Len(Order) : k # next => results'[Order[k]] = results[Order[k]]
<1>1. Current \in FileId /\ next \in 1..Len(Order)
  BY CurrentIs DEF ClientTypeOK
<1>2. results'[Current] = verdict /\ \A f \in FileId \ {Current} : results'[f] = results[f]
  BY <1>1 DEF Report, ClientTypeOK
<1>. QED
  BY <1>1, <1>2, OrderIs DEF Current

LEMMA Positions ==
  ASSUME NEW len \in Nat, NEW n \in 1..len
  PROVE  n >= n /\ \A k \in 1..len : k >= n + 1 => k # n /\ k >= n /\ k > n
OBVIOUS

LEMMA OtherCalls ==
  ASSUME NEW f \in FileId, NEW g \in FileId, f # g
  PROVE  UploadCall[f] # UploadCall[g]
BY TransferAssumption

(* A verdict with which the loop goes on to the next file.                 *)
LEMMA ReportNext ==
  ASSUME ClientTypeOK, ReportInv, UNCHANGED <<reply, given, conn>>,
         phase \in {"files", "upload"}, next <= given,
         phase' = "files", next' = next + 1,
         \/ Report("sent") /\ reply[CurrentCall] = 200
         \/ Report("not accepted") /\ phase = "files"
  PROVE  ReportInv'
<1>1. /\ Current \in FileId /\ next \in 1..Len(Order)
      /\ StoredFiles' = StoredFiles
  BY CurrentIs DEF ClientTypeOK, StoredFiles, Given
<1>2. reply[PrepareCall] = 200
  BY DEF ReportInv
<1>3. PICK verdict \in {"sent", "not accepted"} :
        /\ results'[Current] = verdict
        /\ \A f \in FileId \ {Current} : results'[f] = results[f]
        /\ \A k \in 1..Len(Order) : k # next => results'[Order[k]] = results[Order[k]]
        /\ verdict = "sent" => reply[CurrentCall] = 200
        /\ verdict = "not accepted" => phase = "files"
  BY ReportCurrent
<1>4. ASSUME NEW f \in FileId PROVE FileInv(f)'
  <2>1. CASE f = Current
    <3>1. results'[f] = verdict
      BY <1>3, <2>1
    <3>2. verdict = "sent" => f \in StoredFiles
      BY <1>3, <2>1 DEF StoredFiles, Given, CurrentCall
    <3>3. ASSUME verdict = "not accepted" PROVE conn[UploadCall[f]] = "none"
      <4>1. ToSend(next)
        BY <1>1, <1>3, <3>3, Positions, LengthIsNatural DEF ToSend
      <4>. QED
        BY <1>1, <2>1, <4>1 DEF ReportInv, Current
    <3>. QED
      BY <1>1, <1>2, <3>1, <3>2, <3>3 DEF FileInv
  <2>2. CASE f # Current
    <3>1. FileInv(f) /\ results'[f] = results[f]
      BY <1>3, <2>2 DEF ReportInv
    <3>. QED
      BY <1>1, <3>1 DEF FileInv
  <2>. QED
    BY <2>1, <2>2
<1>5. \A k \in 1..Len(Order) : k >= next + 1 => k # next /\ k >= next /\ k > next
  BY <1>1, Positions, LengthIsNatural
<1>6. ASSUME NEW k \in 1..Len(Order), ToReport(k)'
      PROVE  results'[Order[k]] = "none"
  <2>1. k # next /\ k >= next
    BY <1>5, <1>6 DEF ToReport
  <2>2. ToReport(k)
    BY <2>1 DEF ToReport
  <2>3. results[Order[k]] = "none"
    BY <2>2 DEF ReportInv
  <2>4. results'[Order[k]] = results[Order[k]]
    BY <1>3, <2>1
  <2>. QED
    BY <2>3, <2>4
<1>7. ASSUME NEW k \in 1..Len(Order), ToSend(k)'
      PROVE  conn'[UploadCall[Order[k]]] = "none"
  <2>1. k >= next /\ k > next
    BY <1>5, <1>7 DEF ToSend
  <2>2. ToSend(k)
    BY <2>1 DEF ToSend
  <2>. QED
    BY <2>2 DEF ReportInv
<1>. QED
  BY <1>2, <1>4, <1>6, <1>7 DEF ReportInv

LEMMA ReportUploading ==
  ASSUME ClientTypeOK, ReportInv, UNCHANGED <<reply, given>>, StartUpload
  PROVE  ReportInv'
<1>1. /\ phase = "files" /\ phase' = "upload" /\ next <= given
      /\ conn' = [conn EXCEPT ![CurrentCall] = "open"]
      /\ UNCHANGED <<next, results>>
  BY DEF StartUpload, Open
<1>2. /\ Current \in FileId /\ next \in 1..Len(Order)
      /\ StoredFiles' = StoredFiles
  BY <1>1, CurrentIs DEF ClientTypeOK, StoredFiles, Given
<1>3. \A f \in FileId : f # Current => conn'[UploadCall[f]] = conn[UploadCall[f]]
  BY <1>1, <1>2, OtherCalls, RequestsAre DEF ClientTypeOK, CurrentCall
<1>4. results[Current] = "none"
  BY <1>1, <1>2 DEF ReportInv, ToReport, Current
<1>5. ASSUME NEW f \in FileId PROVE FileInv(f)'
  <2>1. FileInv(f)
    BY DEF ReportInv
  <2>. QED
    BY <1>1, <1>2, <1>3, <1>4, <2>1 DEF FileInv, ReportInv
<1>6. ASSUME NEW k \in 1..Len(Order), ToSend(k)'
      PROVE  conn'[UploadCall[Order[k]]] = "none"
  <2>1. k > next /\ k # next
    BY <1>1, <1>2, <1>6 DEF ToSend
  <2>2. Order[k] # Current /\ Order[k] \in FileId
    BY <1>2, <2>1, OrderIs DEF Current
  <2>3. ToSend(k)
    BY <1>1, <1>2, <2>1 DEF ToSend
  <2>. QED
    BY <1>3, <2>2, <2>3 DEF ReportInv
<1>7. \A k \in 1..Len(Order) : ToReport(k)' => results'[Order[k]] = "none"
  BY <1>1 DEF ReportInv, ToReport
<1>. QED
  BY <1>1, <1>5, <1>6, <1>7 DEF ReportInv

LEMMA ReportFailure ==
  ASSUME ClientTypeOK, ReportInv, UNCHANGED <<reply, given>>, next <= given,
         phase \in {"files", "upload"},
         NEW connected, CancelAfterFailure(connected),
         connected = conn \/ connected = [conn EXCEPT ![CurrentCall] = "broken"]
  PROVE  ReportInv'
<1>1. phase' = "cancel" /\ Report("failed") /\ conn' = [connected EXCEPT ![CancelCall] = "open"]
  BY DEF CancelAfterFailure
<1>2. Current \in FileId /\ StoredFiles' = StoredFiles
  BY CurrentIs DEF ClientTypeOK, StoredFiles, Given
<1>3. /\ results'[Current] = "failed"
      /\ \A f \in FileId \ {Current} : results'[f] = results[f]
  BY <1>1, ReportCurrent
<1>4. ASSUME NEW f \in FileId, f # Current
      PROVE  conn'[UploadCall[f]] = conn[UploadCall[f]]
  <2>1. UploadCall[f] # CurrentCall /\ UploadCall[f] # CancelCall /\ UploadCall[f] \in Request
    BY <1>2, <1>4, OtherCalls, RequestsAre DEF CurrentCall
  <2>2. CASE connected = conn
    BY <1>1, <2>1, <2>2 DEF ClientTypeOK
  <2>3. CASE connected = [conn EXCEPT ![CurrentCall] = "broken"]
    <3>1. connected[UploadCall[f]] = conn[UploadCall[f]] /\ DOMAIN connected = Request
      BY <2>1, <2>3 DEF ClientTypeOK
    <3>. QED
      BY <1>1, <2>1, <3>1
  <2>. QED
    BY <2>2, <2>3
<1>5. ASSUME NEW f \in FileId PROVE FileInv(f)'
  <2>1. CASE f = Current
    BY <1>1, <1>3, <2>1 DEF FileInv
  <2>2. CASE f # Current
    <3>1. FileInv(f) /\ results'[f] = results[f]
      BY <1>3, <2>2 DEF ReportInv
    <3>. QED
      BY <1>1, <1>2, <1>4, <2>2, <3>1 DEF FileInv
  <2>. QED
    BY <2>1, <2>2
<1>. QED
  BY <1>1, <1>5 DEF ReportInv, ToReport, ToSend

(* The steps that end the call.                                            *)
LEMMA ReportOver ==
  ASSUME ClientTypeOK, ReportInv, UNCHANGED <<reply, given, results>>, phase' = "returned",
         \A f \in FileId : conn'[UploadCall[f]] = conn[UploadCall[f]]
  PROVE  ReportInv'
<1>1. StoredFiles' = StoredFiles
  BY DEF StoredFiles, Given
<1>2. ASSUME NEW f \in FileId PROVE FileInv(f)'
  <2>1. FileInv(f)
    BY DEF ReportInv
  <2>. QED
    BY <1>1, <2>1 DEF FileInv
<1>. QED
  BY <1>2 DEF ReportInv, ToReport, ToSend

LEMMA ReportFiles ==
  ASSUME ClientTypeOK, ReportInv, UNCHANGED <<reply, given>>,
         \/ AllDone \/ SkipNotAccepted \/ StartUpload \/ UploadAccepted
         \/ CancelReturns \/ CancelBreaks
         \/ OpenFails \/ UploadBreaks \/ UploadTurnedDown
  PROVE  ReportInv'
<1>1. CASE AllDone \/ CancelReturns
  BY <1>1, ReportOver DEF AllDone, CancelReturns, Finish
<1>2. CASE CancelBreaks
  BY <1>2, RequestsAre, ReportOver DEF CancelBreaks, Finish, ClientTypeOK
<1>3. CASE SkipNotAccepted
  BY <1>3, ReportNext DEF SkipNotAccepted
<1>4. CASE UploadAccepted
  <2>1. next <= given
    BY <1>4 DEF UploadAccepted, ClientTypeOK
  <2>. QED
    BY <1>4, <2>1, ReportNext DEF UploadAccepted
<1>5. CASE OpenFails
  BY <1>5, ReportFailure DEF OpenFails
<1>6. CASE UploadBreaks \/ UploadTurnedDown
  <2>1. next <= given /\ phase = "upload"
    BY <1>6 DEF UploadBreaks, UploadTurnedDown, ClientTypeOK
  <2>. QED
    BY <1>6, <2>1, ReportFailure DEF UploadBreaks, UploadTurnedDown
<1>. QED
  BY <1>1, <1>2, <1>3, <1>4, <1>5, <1>6, ReportUploading

LEMMA ReportStep ==
  ASSUME TransferTypeOK, ReplyInv, ReportInv, [TransferNext]_allVars
  PROVE  ReplyInv' /\ ReportInv'
<1>1. ClientTypeOK
  BY TypeOKIs
<1>2. ReplyInv' /\ Final
  BY ReplyStep
<1>3. CASE ClientNext
  <2>1. UNCHANGED <<reply, given>>
    BY <1>3, ClientKeepsServer DEF vars, handlerVars
  <2>. QED
    BY <1>1, <1>2, <1>3, <2>1, ReportPrepare, ReportFiles DEF ClientNext, ClientRun
<1>4. CASE UNCHANGED clientVars
  BY <1>2, <1>4, ReportReceiver
<1>. QED
  BY <1>3, <1>4 DEF TransferNext, ReceiverNext, allVars

----------------------------------------------------------------------------
(***************************************************************************)
(* Every step of the call or of the receiver is a step of FileTransfer, or *)
(* changes nothing of it.                                                  *)
(***************************************************************************)
LEMMA RefinesInitially == TransferInit => Abstract!TransferInit
<1>. SUFFICES ASSUME TransferInit PROVE Abstract!TransferInit
  OBVIOUS
<1>1. \A r \in Request : reply[r] = 0
  BY DEF TransferInit, Init, NoReply
<1>2. StoredFiles = {}
  BY <1>1, RequestsAre DEF StoredFiles, Given
<1>3. results = [f \in FileId |-> "none"] /\ phase = "start"
  BY DEF TransferInit
<1>4. phase # "returned"
  BY <1>3
<1>. QED
  BY <1>2, <1>3, <1>4 DEF Abstract!TransferInit, Abstract!Unreported

(* A file that was never asked to be stored is not.                        *)
LEMMA NeverStored ==
  ASSUME ReplyInv, NEW f \in FileId, conn[UploadCall[f]] = "none", reply[PrepareCall] = 200
  PROVE  f \notin StoredFiles
<1>1. reply[UploadCall[f]] = NoReply
  BY RequestsAre DEF ReplyInv
<1>2. NoReply # 200
  BY DEF NoReply
<1>. QED
  BY <1>1, <1>2 DEF StoredFiles, Given

(* The receiver stores files: none that was reported before.               *)
LEMMA ReceiverStores ==
  ASSUME ClientTypeOK, ReportInv, ReportInv', ReplyInv', Final, UNCHANGED clientVars
  PROVE  Abstract!TransferNext
<1>. DEFINE new == StoredFiles' \ StoredFiles
<1>2. UNCHANGED <<phase, results, conn, given>>
  BY DEF clientVars
<1>1. StoredFiles' = StoredFiles \cup new /\ new \in SUBSET FileId
  BY <1>2, StoredGrows DEF StoredFiles
<1>3. ASSUME NEW f \in new PROVE results[f] \in {"none", "failed"}
  <2>1. f \in FileId /\ f \in StoredFiles' /\ f \notin StoredFiles
    BY <1>1
  <2>2. results[f] \in Verdict
    BY <2>1 DEF ClientTypeOK
  <2>3. results[f] # "sent"
    BY <2>1 DEF ReportInv, FileInv
  <2>4. ASSUME results[f] = "not accepted" PROVE FALSE
    <3>1. FileInv(f)'
      BY <2>1 DEF ReportInv
    <3>2. conn'[UploadCall[f]] = "none" /\ reply'[PrepareCall] = 200
      BY <1>2, <2>4, <3>1 DEF FileInv
    <3>3. reply'[UploadCall[f]] = NoReply
      BY <2>1, <3>2, RequestsAre DEF ReplyInv
    <3>4. NoReply # 200
      BY DEF NoReply
    <3>. QED
      BY <2>1, <3>2, <3>3, <3>4 DEF StoredFiles, Given
  <2>. QED
    BY <2>2, <2>3, <2>4 DEF Verdict
<1>4. Abstract!Store(new)
  BY <1>1, <1>2, <1>3 DEF Abstract!Store
<1>. QED
  BY <1>1, <1>4 DEF Abstract!TransferNext

(* A verdict on the current file.                                          *)
LEMMA VerdictReported ==
  ASSUME ClientTypeOK, ReportInv, UNCHANGED <<reply, given>>, phase \in {"files", "upload"},
         phase' # "returned", next <= given,
         \/ Report("sent") /\ Current \in StoredFiles
         \/ Report("not accepted") /\ Current \notin StoredFiles
         \/ Report("failed")
  PROVE  Abstract!TransferNext
<1>1. Current \in FileId /\ next \in 1..Len(Order)
  BY CurrentIs DEF ClientTypeOK
<1>2. StoredFiles' = StoredFiles
  BY DEF StoredFiles, Given
<1>3. results[Current] = "none"
  <2>1. next >= next
    BY <1>1, Positions, LengthIsNatural
  <2>2. ToReport(next)
    BY <2>1 DEF ToReport
  <2>. QED
    BY <1>1, <2>2 DEF ReportInv, Current
<1>4. ~Abstract!Failing
  BY DEF Abstract!Failing, ReportInv, FileInv
<1>5. (phase = "returned")' = (phase = "returned") /\ phase # "returned"
  BY Zenon
<1>6. \/ Abstract!ReportSent(Current) \/ Abstract!ReportNotAccepted(Current)
      \/ Abstract!ReportFailed(Current)
  BY <1>2, <1>5 DEF Report, Abstract!ReportSent, Abstract!ReportNotAccepted,
     Abstract!ReportFailed
<1>. QED
  BY <1>1, <1>3, <1>4, <1>5, <1>6 DEF Abstract!TransferNext

(* The end of the call.                                                    *)
LEMMA CallReturns ==
  ASSUME UNCHANGED <<reply, given, results>>, phase # "returned", phase' = "returned"
  PROVE  Abstract!TransferNext
<1>1. StoredFiles' = StoredFiles
  BY DEF StoredFiles, Given
<1>2. Abstract!Return
  BY <1>1, Zenon DEF Abstract!Return
<1>. QED
  BY <1>2 DEF Abstract!TransferNext

(* All files at once.                                                      *)
LEMMA AllReported ==
  ASSUME ClientTypeOK, ReplyInv, ReportInv, UNCHANGED <<reply, given>>, PrepareSkipped
  PROVE  Abstract!TransferNext
<1>1. /\ phase = "prepare" /\ phase' = "returned" /\ reply[PrepareCall] = 204
      /\ results' = [f \in FileId |-> IF f \in Given THEN "sent" ELSE "none"]
  BY DEF PrepareSkipped, Finish
<1>2. \A f \in FileId : results[f] = "none"
  BY <1>1, OrderIs DEF ReportInv, ToReport
<1>3. results = [f \in FileId |-> "none"]
  BY <1>2 DEF ClientTypeOK
<1>4. StoredFiles' = StoredFiles
  BY DEF StoredFiles, Given
<1>5. ASSUME NEW f \in FileId PROVE f \in StoredFiles <=> f \in Given
  <2>1. conn[UploadCall[f]] = "none"
    BY <1>1, OrderIs DEF ReportInv, ToSend
  <2>2. reply[UploadCall[f]] # 200
    BY <2>1, RequestsAre DEF ReplyInv, NoReply
  <2>. QED
    BY <1>1, <2>2 DEF StoredFiles
<1>6. results' = [f \in FileId |-> IF f \in StoredFiles THEN "sent" ELSE "none"]
  BY <1>1, <1>5
<1>7. phase # "returned" /\ (phase = "returned")' = TRUE
  BY <1>1, Zenon
<1>8. Abstract!ReportAllSent
  BY <1>3, <1>4, <1>6, <1>7 DEF Abstract!ReportAllSent, Abstract!Unreported
<1>. QED
  BY <1>7, <1>8 DEF Abstract!TransferNext

(* Steps in between.                                                       *)
LEMMA NothingReported ==
  ASSUME UNCHANGED <<reply, given, results>>, phase # "returned", phase' # "returned"
  PROVE  UNCHANGED Abstract!transferVars
<1>1. StoredFiles' = StoredFiles
  BY DEF StoredFiles, Given
<1>2. (phase = "returned")' = (phase = "returned")
  BY Zenon
<1>. QED
  BY <1>1, <1>2 DEF Abstract!transferVars

LEMMA ClientRefines ==
  ASSUME ClientTypeOK, ReplyInv, ReportInv, ClientNext
  PROVE  [Abstract!TransferNext]_(Abstract!transferVars)
<1>1. UNCHANGED <<reply, given>>
  BY ClientKeepsServer DEF vars, handlerVars
<1>2. CASE SendPrepare \/ StartUpload \/ \E s \in SessionId : PrepareGranted(s)
  <2>1. phase # "returned" /\ phase' # "returned" /\ UNCHANGED results
    BY <1>2 DEF SendPrepare, StartUpload, PrepareGranted
  <2>. QED
    BY <1>1, <2>1, NothingReported
<1>3. CASE PrepareUntrusted \/ PrepareTurnedDown \/ PrepareBreaks \/ AllDone
           \/ CancelReturns \/ CancelBreaks
  <2>1. phase # "returned" /\ phase' = "returned" /\ UNCHANGED results
    BY <1>3 DEF PrepareUntrusted, PrepareTurnedDown, PrepareBreaks, AllDone, CancelReturns,
       CancelBreaks, Finish
  <2>. QED
    BY <1>1, <2>1, CallReturns
<1>4. CASE PrepareSkipped
  BY <1>1, <1>4, AllReported
<1>5. CASE SkipNotAccepted
  <2>1. /\ phase = "files" /\ phase' = "files" /\ next <= given
        /\ Report("not accepted")
    BY <1>5 DEF SkipNotAccepted
  <2>2. Current \in FileId /\ next \in 1..Len(Order)
    BY <2>1, CurrentIs DEF ClientTypeOK
  <2>3. ToSend(next)
    BY <2>1, <2>2, Positions, LengthIsNatural DEF ToSend
  <2>4. conn[UploadCall[Current]] = "none" /\ reply[PrepareCall] = 200
    BY <2>1, <2>2, <2>3 DEF ReportInv, Current
  <2>5. Current \notin StoredFiles
    BY <2>2, <2>4, NeverStored
  <2>. QED
    BY <1>1, <2>1, <2>5, VerdictReported
<1>6. CASE UploadAccepted
  <2>1. /\ phase = "upload" /\ phase' = "files" /\ next <= given
        /\ Report("sent") /\ reply[CurrentCall] = 200
    BY <1>6 DEF UploadAccepted, ClientTypeOK
  <2>2. Current \in FileId
    BY <2>1, CurrentIs DEF ClientTypeOK
  <2>3. Current \in StoredFiles
    BY <2>1, <2>2 DEF StoredFiles, Given, CurrentCall
  <2>. QED
    BY <1>1, <2>1, <2>3, VerdictReported
<1>7. CASE OpenFails \/ UploadBreaks \/ UploadTurnedDown
  <2>1. /\ phase \in {"files", "upload"} /\ phase' = "cancel" /\ next <= given
        /\ Report("failed")
    BY <1>7 DEF OpenFails, UploadBreaks, UploadTurnedDown, CancelAfterFailure, ClientTypeOK
  <2>. QED
    BY <1>1, <2>1, VerdictReported
<1>. QED
  BY <1>2, <1>3, <1>4, <1>5, <1>6, <1>7 DEF ClientNext, ClientRun

LEMMA TransferRefines ==
  ASSUME TransferTypeOK, ReplyInv, ReportInv, ReplyInv', ReportInv', [TransferNext]_allVars
  PROVE  [Abstract!TransferNext]_(Abstract!transferVars)
<1>. ClientTypeOK
  BY TypeOKIs
<1>1. CASE ClientNext
  BY <1>1, ClientRefines
<1>2. CASE UNCHANGED clientVars
  BY <1>2, ReplyStep, ReceiverStores
<1>. QED
  BY <1>1, <1>2 DEF TransferNext, ReceiverNext, allVars

(***************************************************************************)
(* SendFiles, the receiver's handlers and the network between them keep    *)
(* the promises of FileTransfer: what is reported sent is stored, what is  *)
(* reported not accepted never is, and a report is final, whichever        *)
(* connections break (client.go:155-303, server.go:177-449).               *)
(***************************************************************************)
THEOREM TransferImplements == TransferSpec => ImplementsFileTransfer
<1>. DEFINE RefinementInv == TransferTypeOK /\ ReplyInv /\ ReportInv
<1>1. TransferInit => RefinementInv
  BY TransferInitial, ReportInitial
<1>2. RefinementInv /\ [TransferNext]_allVars => RefinementInv'
  BY TransferTypedStep, ReportStep
<1>3. RefinementInv /\ RefinementInv' /\ [TransferNext]_allVars
        => [Abstract!TransferNext]_(Abstract!transferVars)
  BY TransferRefines
<1>. QED
  BY <1>1, <1>2, <1>3, RefinesInitially, PTL
     DEF TransferSpec, ImplementsFileTransfer, Abstract!TransferSpec

----------------------------------------------------------------------------
(***************************************************************************)
(* The invariant of a whole call.  Its uploads are of their own files, and *)
(* one whose body has ended has received the file's size.                  *)
(***************************************************************************)
CallsInv ==
  /\ \A u \in DOMAIN job : u = UploadCall[job[u].fid]
  /\ \A u \in DOMAIN job :
       pc[u] \in {"verify"} \cup Verified \/ reply[u] = 200 => job[u].written = Size[job[u].fid]
  /\ \A u \in Upload : reply[u] = 200 => u \in DOMAIN job

(* Only the last upload made may be other than reported sent.              *)
LoopInv ==
  /\ \A k \in 1..Len(Order) : conn[UploadCall[Order[k]]] # "none" =>
       /\ reply[PrepareCall] = 200
       /\ results[Order[k]] = "sent" \/ k = next
  /\ phase \in {"start", "prepare"} => next = 1
  /\ \A k \in 1..Len(Order) : k < next => results[Order[k]] # "none"
  /\ phase = "returned" /\ err = "nil" => reply[PrepareCall] = 204 \/ next > given

(* No upload of the call shares the path of a file that was sent.          *)
SentBy(f) == results[f] = "sent" /\ reply[UploadCall[f]] = 200

DistinctInv ==
  \A f, g \in FileId :
    f # g /\ SentBy(f) /\ Past(UploadCall[g])
      => SavedPath(UploadCall[g]) # SavedPath(UploadCall[f])

(* What the prepare handler has found to be a duplicate still is.          *)
DuplicateInv ==
  /\ pc[PrepareCall] = "stat" => \A f \in Given \ unchecked[PrepareCall] : Duplicate(f)
  /\ reply[PrepareCall] = 204 => \A f \in Given : Duplicate(f)

(* The cancel request is made of the session granted, after a failure.     *)
CancelInv ==
  /\ conn[CancelCall] # "none" => phase \in {"cancel", "returned"} /\ session \in created
  /\ phase = "returned" /\ conn[CancelCall] = "open" => reply[CancelCall] # NoReply
  /\ pc[CancelCall] # "idle" => session \notin registered

TransferInv == TransferTypeOK /\ ReplyInv /\ ReportInv /\ DiskInv

(* A handler's step is one of an upload, or leaves uploads and disk alone. *)
LEMMA ReceiverCases ==
  ASSUME TransferTypeOK, ReceiverStep
  PROVE  \/ \E f \in FileId :
               /\ UploadDelivered(f) \/ BodyArrives(f) \/ UploadRun(UploadCall[f])
               /\ Started(UploadCall[f]) /\ UploadNext(UploadCall[f])
         \/ /\ \/ PrepareDelivered \/ PrepareRun(PrepareCall) \/ PrepareAnswered(PrepareCall)
               \/ CancelDelivered \/ CancelFinish(CancelCall)
               \/ Background
            /\ UNCHANGED <<fsVars, job>>
            /\ \A u \in Upload : pc'[u] = pc[u] /\ reply'[u] = reply[u]
<1>. ServerTypeOK /\ TypeOK /\ ControlTypeOK /\ given \in 1..Len(Order)
  BY DEF TransferTypeOK, ServerTypeOK, UploadTypeOK
<1>1. CASE PrepareDelivered \/ PrepareRun(PrepareCall) \/ PrepareAnswered(PrepareCall)
  <2>1. PrepareNext(PrepareCall)
    BY <1>1, PrepareSteps
  <2>. QED
    BY <1>1, <2>1, PrepareFrame, PrepareMoves, MovesOnly, RequestsAre, ServerAssumption
       DEF Request
<1>2. CASE CancelDelivered \/ CancelFinish(CancelCall)
  <2>1. CancelNext(CancelCall)
    BY <1>2, CancelSteps
  <2>. QED
    BY <1>2, <2>1, CancelFrame, CancelMoves, MovesOnly, RequestsAre, ServerAssumption
       DEF Request
<1>3. CASE Background
  BY <1>3 DEF Background, handlerVars
<1>4. ASSUME NEW f \in FileId,
             UploadDelivered(f) \/ BodyArrives(f) \/ UploadRun(UploadCall[f])
      PROVE  Started(UploadCall[f]) /\ UploadNext(UploadCall[f])
  BY <1>4, UploadSteps
<1>. QED
  BY <1>1, <1>2, <1>3, <1>4 DEF ReceiverStep

(***************************************************************************)
(* The uploads are those of the call, each of its own file, and one that   *)
(* has reached the end of its body has received the file's size.           *)
(***************************************************************************)
Ended(u) == pc[u] \in {"verify"} \cup Verified \/ reply[u] = 200

LEMMA CallStep ==
  ASSUME TransferInv, CallsInv, NEW f \in FileId,
         UploadDelivered(f) \/ BodyArrives(f) \/ UploadRun(UploadCall[f]),
         UploadNext(UploadCall[f])
  PROVE  CallsInv'
<1> DEFINE u == UploadCall[f]
<1>. ServerTypeOK /\ TypeOK /\ ControlTypeOK /\ JobTypeOK /\ DiskInv /\ CountInv
  BY DEF TransferInv, TransferTypeOK, ServerTypeOK, UploadTypeOK, DiskInv
<1>1. u \in Upload /\ u \in Request
  BY RequestsAre
<1>2. /\ \A w \in DOMAIN job' \ {u} : w \in DOMAIN job /\ job'[w] = job[w]
      /\ \A w \in Upload \ {u} : pc'[w] = pc[w] /\ reply'[w] = reply[w]
      /\ DOMAIN job \subseteq DOMAIN job'
  BY <1>1, UploadOthers, UploadMoves, MovesOnly DEF Request
<1>3. DOMAIN job \subseteq Upload /\ (u \in DOMAIN job => job[u] \in Job /\ job[u].fid = f)
  BY <1>1, TransferAssumption DEF JobTypeOK, Job, CallsInv
<1>4. ASSUME u \in DOMAIN job' => job'[u].fid = f,
             Ended(u)' /\ u \in DOMAIN job' => job'[u].written = Size[f],
             reply'[u] = 200 => u \in DOMAIN job'
      PROVE  CallsInv'
  BY <1>2, <1>3, <1>4 DEF CallsInv, Ended
<1>. HIDE DEF u
<1>5. pc[u] # "replied" => reply[u] = NoReply /\ reply[u] # 200
  BY <1>1 DEF CountInv, NoReply
<1>6. CASE UploadDelivered(f)
  <2>1. pc[u] = "idle" /\ u \notin DOMAIN job
    BY <1>6 DEF UploadDelivered, Refuse, UploadArrive, JobTypeOK, u
  <2>2. ASSUME NEW from \in Host, NEW cert \in BOOLEAN,
               UploadArrive(u, session, f, <<session, f>>, from, cert)
        PROVE  CallsInv'
    <3>1. CASE Validation(session, f, <<session, f>>, from, cert) = 200
      <4>1. /\ Goto(u, "stat")
            /\ job' = With(job, u, [sid |-> session, fid |-> f, try |-> 1, fd |-> u,
                                    written |-> 0])
        BY <2>2, <3>1 DEF UploadArrive
      <4>2. u \in DOMAIN job' /\ job'[u].fid = f
        BY <4>1 DEF With
      <4>3. pc'[u] = "stat" /\ reply'[u] = reply[u]
        BY <1>1, <4>1 DEF Goto, ControlTypeOK
      <4>. QED
        BY <1>4, <1>5, <2>1, <4>2, <4>3 DEF Ended, Verified
    <3>2. CASE Validation(session, f, <<session, f>>, from, cert) # 200
      <4>1. UNCHANGED job /\ Answer(u, Validation(session, f, <<session, f>>, from, cert))
        BY <2>2, <3>2 DEF UploadArrive
      <4>2. reply'[u] # 200
        BY <1>1, <3>2, <4>1 DEF Answer, ControlTypeOK
      <4>. QED
        BY <1>4, <2>1, <4>1, <4>2
    <3>. QED
      BY <3>1, <3>2
  <2>3. CASE Refuse(u, 400)
    <3>1. UNCHANGED job /\ reply'[u] # 200
      BY <1>1, <2>3 DEF Refuse, Answer, ControlTypeOK
    <3>. QED
      BY <1>4, <2>1, <3>1
  <2>. QED
    BY <1>6, <2>2, <2>3 DEF UploadDelivered, u
<1>7. CASE BodyArrives(f)
  <2>1. u \in DOMAIN job /\ pc[u] = "read" /\ job[u] \in Job /\ job[u].fid = f
    BY <1>1, <1>3, <1>7 DEF BodyArrives, JobTypeOK, u
  <2>2. reply[u] = NoReply /\ reply[u] # 200
    BY <1>5, <2>1
  <2>3. ASSUME NEW er \in {"nil", "eof", "error"}, UploadReadChunk(u, er),
               er = "eof" => job[u].written + 1 = Size[f]
        PROVE  CallsInv'
    <3>1. job' = [job EXCEPT ![u] = [job[u] EXCEPT !.written = job[u].written + 1]]
      BY <2>3 DEF UploadReadChunk
    <3>2. u \in DOMAIN job' /\ job'[u].fid = f /\ job'[u].written = job[u].written + 1
      BY <2>1, <3>1 DEF Job
    <3>3. \/ Goto(u, "check") \/ Answer(u, 500)
          \/ er = "eof" /\ (Goto(u, "verify") \/ Goto(u, "finish"))
      BY <2>3 DEF UploadReadChunk, AfterRead
    <3>4. Ended(u)' => er = "eof"
      BY <1>1, <2>2, <3>3 DEF Goto, Answer, ControlTypeOK, Ended, Verified
    <3>. QED
      BY <1>4, <2>3, <3>2, <3>4
  <2>4. ASSUME NEW er \in {"eof", "error"}, UploadReadEnd(u, er),
               er = "eof" => job[u].written = Size[f]
        PROVE  CallsInv'
    <3>1. UNCHANGED job
      BY <2>4 DEF UploadReadEnd
    <3>2. Answer(u, 500) \/ (er = "eof" /\ (Goto(u, "verify") \/ Goto(u, "finish")))
      BY <2>4 DEF UploadReadEnd, AfterRead
    <3>3. Ended(u)' => er = "eof"
      BY <1>1, <2>2, <3>2 DEF Goto, Answer, ControlTypeOK, Ended, Verified
    <3>. QED
      BY <1>4, <2>1, <2>4, <3>1, <3>3
  <2>. QED
    BY <1>7, <2>3, <2>4 DEF BodyArrives, u
<1>8. CASE UploadRun(u)
  <2>1. u \in DOMAIN job /\ pc[u] \notin {"idle", "replied"}
    BY <1>1, <1>8 DEF UploadRun, UploadStat, UploadCreate, UploadCreateFails, UploadCheck,
       ChecksumMatches, ChecksumMismatch, UploadFinish, UploadRelease, UploadReleaseGone,
       UploadCancelCtx, JobTypeOK
  <2>2. \/ UNCHANGED job
        \/ \E x : job' = [job EXCEPT ![u] = [job[u] EXCEPT !.try = x]]
        \/ \E x : job' = [job EXCEPT ![u] = [job[u] EXCEPT !.fd = x]]
    BY <1>8 DEF UploadRun, UploadStat, UploadCreate, UploadCreateFails, UploadCheck,
       ChecksumMatches, ChecksumMismatch, UploadFinish, UploadRelease, UploadReleaseGone,
       UploadCancelCtx
  <2>3. /\ u \in DOMAIN job' /\ job'[u].fid = f
        /\ job'[u].written = job[u].written
    BY <1>3, <2>1, <2>2 DEF Job
  <2>4. Ended(u)' => Ended(u)
    <3>1. CASE UploadStat(u) \/ UploadCreate(u) \/ UploadCreateFails(u) \/ UploadCheck(u)
               \/ ChecksumMismatch(u)
      <4>1. \/ Goto(u, "stat") \/ Goto(u, "create") \/ Goto(u, "check") \/ Goto(u, "read")
            \/ Answer(u, 500) \/ Answer(u, 400) \/ Answer(u, 422)
        BY <3>1 DEF UploadStat, UploadCreate, UploadCreateFails, UploadCheck,
           ChecksumMismatch
      <4>. QED
        BY <1>1, <1>5, <2>1, <4>1 DEF Goto, Answer, ControlTypeOK, Ended, Verified
    <3>2. CASE ChecksumMatches(u) \/ UploadFinish(u) \/ UploadRelease(u)
               \/ UploadReleaseGone(u) \/ UploadCancelCtx(u)
      BY <3>2 DEF ChecksumMatches, UploadFinish, UploadRelease, UploadReleaseGone,
         UploadCancelCtx, Ended, Verified
    <3>. QED
      BY <1>8, <3>1, <3>2 DEF UploadRun
  <2>5. Ended(u) => job[u].written = Size[f]
    BY <1>3, <2>1 DEF CallsInv, Ended
  <2>. QED
    BY <1>4, <2>3, <2>4, <2>5
<1>. QED
  BY <1>6, <1>7, <1>8 DEF u

LEMMA CallsStep ==
  ASSUME TransferInv, CallsInv, [TransferNext]_allVars
  PROVE  CallsInv'
<1>. TransferTypeOK /\ JobTypeOK
  BY DEF TransferInv, TransferTypeOK, ServerTypeOK, UploadTypeOK
<1>1. ASSUME UNCHANGED job, \A u \in Upload : pc'[u] = pc[u] /\ reply'[u] = reply[u]
      PROVE  CallsInv'
  <2>1. \A u \in DOMAIN job : pc'[u] = pc[u] /\ reply'[u] = reply[u]
    BY <1>1 DEF JobTypeOK
  <2>. QED
    BY <1>1, <2>1 DEF CallsInv
<1>2. CASE ReceiverNext
  BY <1>1, <1>2, ReceiverCases, CallStep DEF ReceiverNext
<1>3. CASE ClientNext \/ UNCHANGED allVars
  BY <1>1, <1>3, ClientKeepsServer DEF vars, handlerVars, allVars
<1>. QED
  BY <1>2, <1>3 DEF TransferNext

----------------------------------------------------------------------------
(***************************************************************************)
(* The loop: an upload request is made only after the grant, and only the  *)
(* last one made may have failed.                                          *)
(***************************************************************************)
LEMMA LoopPrepare ==
  ASSUME ClientTypeOK, ReportInv, LoopInv, UNCHANGED <<reply, given>>,
         \/ SendPrepare \/ PrepareUntrusted \/ PrepareSkipped
         \/ PrepareTurnedDown \/ PrepareBreaks
         \/ \E s \in SessionId : PrepareGranted(s)
  PROVE  LoopInv'
<1>1. phase \in {"start", "prepare"} /\ next' = next
  BY DEF SendPrepare, PrepareUntrusted, PrepareSkipped, PrepareTurnedDown, PrepareBreaks,
     PrepareGranted
<1>2. \A k \in 1..Len(Order) : conn'[UploadCall[Order[k]]] = "none"
  <2>1. \A f \in FileId : conn[UploadCall[f]] = "none"
    BY <1>1, OrderIs DEF ReportInv, ToSend
  <2>2. \A f \in FileId : conn'[UploadCall[f]] = "none"
    BY <2>1, RequestsAre DEF SendPrepare, PrepareUntrusted, PrepareSkipped,
       PrepareTurnedDown, PrepareBreaks, PrepareGranted, Open, ClientTypeOK
  <2>. QED
    BY <2>2, OrderIs
<1>3. next' = 1 /\ \A k \in 1..Len(Order) : ~(k < next')
  BY <1>1, LengthIsNatural DEF LoopInv
<1>4. phase' = "returned" /\ err' = "nil" => reply'[PrepareCall] = 204
  BY DEF SendPrepare, PrepareUntrusted, PrepareSkipped, PrepareTurnedDown, PrepareBreaks,
     PrepareGranted, Finish
<1>. QED
  BY <1>2, <1>3, <1>4 DEF LoopInv

LEMMA Below ==
  ASSUME NEW len \in Nat, NEW n \in 1..len
  PROVE  \A k \in 1..len : k < n + 1 => k = n \/ k < n
OBVIOUS

LEMMA LoopNext ==
  ASSUME ClientTypeOK, ReportInv, LoopInv, UNCHANGED <<reply, given, conn>>,
         phase \in {"files", "upload"}, next <= given,
         phase' = "files", next' = next + 1,
         Report("sent") \/ (Report("not accepted") /\ phase = "files")
  PROVE  LoopInv'
<1>1. next \in 1..Len(Order)
  BY CurrentIs DEF ClientTypeOK
<1>2. PICK verdict \in {"sent", "not accepted"} :
        /\ results'[Current] = verdict
        /\ \A k \in 1..Len(Order) : k # next => results'[Order[k]] = results[Order[k]]
        /\ verdict = "not accepted" => phase = "files"
  BY ReportCurrent
<1>3. ASSUME NEW k \in 1..Len(Order), conn'[UploadCall[Order[k]]] # "none"
      PROVE  reply'[PrepareCall] = 200 /\ results'[Order[k]] = "sent"
  <2>1. reply[PrepareCall] = 200 /\ (results[Order[k]] = "sent" \/ k = next)
    BY <1>3 DEF LoopInv
  <2>2. CASE k = next
    <3>1. ~ToSend(next)
      BY <1>1, <1>3, <2>2 DEF ReportInv
    <3>2. phase # "files"
      BY <1>1, <3>1, Positions, LengthIsNatural DEF ToSend
    <3>. QED
      BY <1>2, <2>1, <2>2, <3>2 DEF Current
  <2>. QED
    BY <1>2, <2>1, <2>2
<1>4. \A k \in 1..Len(Order) : k < next + 1 => k = next \/ k < next
  BY <1>1, Below, LengthIsNatural
<1>5. ASSUME NEW k \in 1..Len(Order), k < next'
      PROVE  results'[Order[k]] # "none"
  <2>1. k = next \/ k < next
    <3>1. k < next + 1
      BY <1>5, Zenon
    <3>. QED
      BY <1>4, <3>1, Zenon
  <2>2. CASE k = next
    BY <1>2, <2>2 DEF Current
  <2>3. CASE k # next
    <3>1. results[Order[k]] # "none"
      BY <2>1, <2>3 DEF LoopInv
    <3>2. results'[Order[k]] = results[Order[k]]
      BY <1>2, <2>3, Zenon
    <3>. QED
      BY <3>1, <3>2
  <2>. QED
    BY <2>2, <2>3
<1>. QED
  BY <1>3, <1>5 DEF LoopInv

(* The steps that stay at the file they are at.                            *)
LEMMA LoopWaits ==
  ASSUME ClientTypeOK, ReportInv, LoopInv, UNCHANGED <<reply, given, next>>,
         phase \in {"files", "upload", "cancel"}, phase' \notin {"start", "prepare"},
         \A k \in 1..Len(Order) : k # next =>
           /\ results'[Order[k]] = results[Order[k]]
           /\ conn'[UploadCall[Order[k]]] = conn[UploadCall[Order[k]]],
         phase' = "returned" /\ err' = "nil" => next > given
  PROVE  LoopInv'
<1>1. reply[PrepareCall] = 200
  BY DEF ReportInv
<1>2. \A k \in 1..Len(Order) : k < next => k # next
  BY LengthIsNatural DEF ClientTypeOK
<1>. QED
  BY <1>1, <1>2 DEF LoopInv

LEMMA LoopFiles ==
  ASSUME ClientTypeOK, ReportInv, LoopInv, UNCHANGED <<reply, given>>,
         \/ AllDone \/ SkipNotAccepted \/ StartUpload \/ UploadAccepted
         \/ CancelReturns \/ CancelBreaks
         \/ OpenFails \/ UploadBreaks \/ UploadTurnedDown
  PROVE  LoopInv'
<1>1. CASE SkipNotAccepted
  BY <1>1, LoopNext DEF SkipNotAccepted
<1>2. CASE UploadAccepted
  <2>1. next <= given
    BY <1>2 DEF UploadAccepted, ClientTypeOK
  <2>. QED
    BY <1>2, <2>1, LoopNext DEF UploadAccepted
<1>3. CASE AllDone \/ CancelReturns
  BY <1>3, LoopWaits DEF AllDone, CancelReturns, Finish
<1>4. CASE CancelBreaks
  <2>1. /\ phase = "cancel" /\ phase' = "returned" /\ err' = "failed"
        /\ conn' = [conn EXCEPT ![CancelCall] = "broken"] /\ UNCHANGED <<next, results>>
    BY <1>4 DEF CancelBreaks, Finish
  <2>2. \A f \in FileId : conn'[UploadCall[f]] = conn[UploadCall[f]]
    BY <2>1, RequestsAre DEF ClientTypeOK
  <2>. QED
    BY <2>1, <2>2, OrderIs, LoopWaits
<1>5. CASE StartUpload \/ OpenFails \/ UploadBreaks \/ UploadTurnedDown
  <2>1. next <= given /\ phase \in {"files", "upload"} /\ UNCHANGED next
    BY <1>5 DEF StartUpload, OpenFails, UploadBreaks, UploadTurnedDown, CancelAfterFailure,
       ClientTypeOK
  <2>2. next \in 1..Len(Order) /\ Current \in FileId
    BY <2>1, CurrentIs DEF ClientTypeOK
  <2>3. UNCHANGED results \/ Report("failed")
    BY <1>5 DEF StartUpload, OpenFails, UploadBreaks, UploadTurnedDown, CancelAfterFailure
  <2>4. \A k \in 1..Len(Order) : k # next => results'[Order[k]] = results[Order[k]]
    BY <2>1, <2>3, ReportCurrent
  <2>5. \/ conn' = [conn EXCEPT ![CurrentCall] = "open"]
        \/ conn' = [conn EXCEPT ![CancelCall] = "open"]
        \/ conn' = [[conn EXCEPT ![CurrentCall] = "broken"] EXCEPT ![CancelCall] = "open"]
    BY <1>5 DEF StartUpload, OpenFails, UploadBreaks, UploadTurnedDown, CancelAfterFailure,
       Open
  <2>6. ASSUME NEW k \in 1..Len(Order), k # next
        PROVE  conn'[UploadCall[Order[k]]] = conn[UploadCall[Order[k]]]
    <3>1. /\ UploadCall[Order[k]] # CurrentCall /\ UploadCall[Order[k]] # CancelCall
          /\ UploadCall[Order[k]] \in Request
      BY <2>2, <2>6, OrderIs, OtherCalls, RequestsAre DEF Current, CurrentCall
    <3>. QED
      BY <2>5, <3>1 DEF ClientTypeOK
  <2>7. phase' \in {"upload", "cancel"}
    BY <1>5 DEF StartUpload, OpenFails, UploadBreaks, UploadTurnedDown, CancelAfterFailure
  <2>. QED
    BY <2>1, <2>4, <2>6, <2>7, LoopWaits
<1>. QED
  BY <1>1, <1>2, <1>3, <1>4, <1>5

LEMMA LoopStep ==
  ASSUME TransferInv, LoopInv, [TransferNext]_allVars
  PROVE  LoopInv'
<1>1. ClientTypeOK /\ ReportInv /\ Final
  BY TypeOKIs, ReplyStep DEF TransferInv
<1>2. CASE ClientNext
  <2>1. UNCHANGED <<reply, given>>
    BY <1>2, ClientKeepsServer DEF vars, handlerVars
  <2>. QED
    BY <1>1, <1>2, <2>1, LoopPrepare, LoopFiles DEF ClientNext, ClientRun
<1>3. CASE UNCHANGED clientVars
  <2>1. /\ reply[PrepareCall] = 200 => reply'[PrepareCall] = 200
        /\ reply[PrepareCall] = 204 => reply'[PrepareCall] = 204
    BY <1>1, RequestsAre DEF Final, NoReply
  <2>. QED
    BY <1>3, <2>1 DEF LoopInv, clientVars
<1>. QED
  BY <1>2, <1>3 DEF TransferNext, ReceiverNext, allVars

----------------------------------------------------------------------------
(***************************************************************************)
(* What is reported sent keeps its path: the uploads of a call follow one  *)
(* another, unless one failed and its handler still runs, and that one     *)
(* finds the names of the files already stored taken.                      *)
(***************************************************************************)
LEMMA SentHeld ==
  ASSUME TransferInv, CallsInv, DistinctInv, NEW f \in FileId, SentBy(f)
  PROVE  /\ UploadCall[f] \in DOMAIN job /\ pc[UploadCall[f]] = "replied"
         /\ Past(UploadCall[f]) /\ ~Contested(UploadCall[f])
         /\ job[UploadCall[f]].fid = f /\ job[UploadCall[f]].written = Size[f]
         /\ Stored(UploadCall[f])
<1> DEFINE u == UploadCall[f]
<1>. JobTypeOK /\ CountInv /\ HoldInv
  BY DEF TransferInv, TransferTypeOK, ServerTypeOK, UploadTypeOK, DiskInv
<1>1. u \in Upload /\ u \in Request /\ reply[u] = 200
  BY RequestsAre DEF SentBy
<1>2. u \in DOMAIN job /\ pc[u] = "replied"
  BY <1>1 DEF CallsInv, CountInv, NoReply
<1>3. job[u].fid = f /\ job[u].written = Size[f]
  <2>1. job[u].fid \in FileId /\ UploadCall[job[u].fid] = u
    BY <1>2 DEF CallsInv, JobTypeOK, Job
  <2>2. job[u].fid = f
    BY <2>1, OtherCalls
  <2>. QED
    BY <1>1, <1>2, <2>2 DEF CallsInv
<1>4. Past(u)
  BY <1>2 DEF Past
<1>5. ASSUME NEW w \in DOMAIN job \ {u}, Past(w) PROVE SavedPath(w) # SavedPath(u)
  <2>1. PICK g \in FileId : w = UploadCall[g]
    BY DEF CallsInv, JobTypeOK, Job
  <2>2. g # f
    BY <1>5, <2>1
  <2>. QED
    BY <1>5, <2>1, <2>2 DEF DistinctInv
<1>6. ~Contested(u)
  BY <1>5 DEF Contested, Past
<1>7. Stored(u)
  BY <1>1, <1>2, <1>4, <1>6 DEF HoldInv, Holds
<1>. QED
  BY <1>2, <1>3, <1>4, <1>6, <1>7

(* Of the uploads, a step of one makes at most that one choose its name.   *)
LEMMA NewlyPast ==
  ASSUME ServerTypeOK, NEW v \in Upload, UploadNext(v),
         NEW w, Past(w)', ~Past(w)
  PROVE  w = v /\ SavedPath(v)' = SavedPath(v) /\ ~Present(SavedPath(v))
<1>. JobTypeOK /\ ControlTypeOK
  BY DEF ServerTypeOK, UploadTypeOK
<1>1. w \in DOMAIN job' /\ pc'[w] \notin {"idle", "stat"}
  BY DEF Past
<1>2. w = v
  <2>1. SUFFICES ASSUME w # v PROVE FALSE
    OBVIOUS
  <2>2. w \in DOMAIN job /\ pc'[w] = pc[w]
    BY <1>1, <2>1, UploadOthers
  <2>. QED
    BY <1>1, <2>2 DEF Past
<1>3. v \notin DOMAIN job \/ pc[v] \in {"idle", "stat"}
  BY <1>2 DEF Past
<1>4. CASE UploadArrives(v)
  <2>1. v \notin DOMAIN job
    BY <1>4 DEF UploadArrives, UploadRefused, Refuse, UploadArrive, JobTypeOK
  <2>2. ASSUME NEW s, NEW f, NEW t, NEW from, NEW cert, UploadArrive(v, s, f, t, from, cert)
        PROVE  pc'[v] = "stat" \/ UNCHANGED job
    BY <2>2 DEF UploadArrive, Goto, ControlTypeOK, Request
  <2>3. UploadRefused(v) => UNCHANGED job
    BY DEF UploadRefused, Refuse
  <2>. QED
    BY <1>1, <1>2, <1>4, <2>1, <2>2, <2>3 DEF UploadArrives
<1>5. CASE UploadStat(v)
  BY <1>1, <1>2, <1>5 DEF UploadStat, Goto, ControlTypeOK, Request, SavedPath
<1>6. CASE UploadNext(v) /\ ~UploadArrives(v) /\ ~UploadStat(v)
  <2>1. pc[v] \notin {"idle", "stat", "replied"}
    BY <1>6 DEF UploadNext, UploadReceives, UploadReadChunk, UploadReadEnd, UploadRun,
       UploadCreate, UploadCreateFails, UploadCheck, ChecksumMatches, ChecksumMismatch,
       UploadFinish, UploadRelease, UploadReleaseGone, UploadCancelCtx
  <2>. QED
    BY <1>3, <2>1 DEF JobTypeOK
<1>. QED
  BY <1>2, <1>4, <1>5, <1>6

LEMMA DistinctReceiver ==
  ASSUME TransferInv, CallsInv, DistinctInv, UNCHANGED results,
         NEW h \in FileId, UploadNext(UploadCall[h])
  PROVE  \A f, g \in FileId :
           f # g /\ SentBy(f) /\ Past(UploadCall[g])'
             => SavedPath(UploadCall[g])' # SavedPath(UploadCall[f])'
<1> DEFINE v == UploadCall[h]
<1>. ServerTypeOK
  BY DEF TransferInv, TransferTypeOK
<1>1. v \in Upload /\ UploadNext(v)
  BY RequestsAre
<1>. HIDE DEF v
<1>2. SUFFICES ASSUME NEW f \in FileId, NEW g \in FileId, f # g, SentBy(f),
                      Past(UploadCall[g])'
               PROVE  SavedPath(UploadCall[g])' # SavedPath(UploadCall[f])'
  OBVIOUS
<1>3. PICK a : a = UploadCall[f]
  OBVIOUS
<1>4. PICK b : b = UploadCall[g]
  OBVIOUS
<1>5. Past(a) /\ Stored(a)
  BY <1>2, <1>3, SentHeld
<1>6. SavedPath(a)' = SavedPath(a) /\ Present(SavedPath(a))
  BY <1>1, <1>5, PastStays DEF Stored
<1>7. CASE Past(b)
  <2>1. SavedPath(b) # SavedPath(a)
    BY <1>2, <1>3, <1>4, <1>7 DEF DistinctInv
  <2>2. SavedPath(b)' = SavedPath(b)
    BY <1>1, <1>7, PastStays
  <2>. QED
    BY <1>3, <1>4, <1>6, <2>1, <2>2
<1>8. CASE ~Past(b)
  <2>1. Past(b)'
    BY <1>2, <1>4
  <2>2. b = v /\ SavedPath(v)' = SavedPath(v) /\ ~Present(SavedPath(v))
    BY <1>1, <1>8, <2>1, NewlyPast
  <2>. QED
    BY <1>3, <1>4, <1>6, <2>2
<1>. QED
  BY <1>7, <1>8

LEMMA SentIs ==
  ASSUME ReportInv, ReplyInv, LoopInv, NEW f \in FileId
  PROVE  /\ conn[UploadCall[f]] = "none" => reply[UploadCall[f]] = NoReply
         /\ conn[UploadCall[f]] # "none" => reply[PrepareCall] = 200
         /\ results[f] = "sent" /\ reply[PrepareCall] = 200 => SentBy(f)
         /\ results[f] = "sent" => reply[PrepareCall] = 204 \/ SentBy(f)
         /\ conn[UploadCall[f]] # "none" => results[f] = "sent" \/ f = Current
<1>1. PICK k \in 1..Len(Order) : Order[k] = f
  BY OrderIs
<1>2. conn[UploadCall[f]] # "none" =>
        /\ reply[PrepareCall] = 200
        /\ results[f] = "sent" \/ f = Current
  BY <1>1 DEF LoopInv, Current
<1>3. ASSUME results[f] = "sent" PROVE reply[UploadCall[f]] = 200 \/ reply[PrepareCall] = 204
  <2>1. FileInv(f)
    BY DEF ReportInv
  <2>2. f \in StoredFiles
    BY <1>3, <2>1 DEF FileInv
  <2>. QED
    BY <2>2 DEF StoredFiles
<1>4. conn[UploadCall[f]] = "none" => reply[UploadCall[f]] = NoReply
  BY RequestsAre DEF ReplyInv
<1>. QED
  BY <1>2, <1>3, <1>4 DEF SentBy

LEMMA SentBefore ==
  ASSUME ReportInv, LoopInv', ReplyInv', ReportInv', LoopInv, ReplyInv, Final,
         NEW f \in FileId, SentBy(f)', results[f] = "sent"
  PROVE  SentBy(f)
<1>1. results'[f] = "sent" /\ reply'[UploadCall[f]] = 200
  BY DEF SentBy
<1>2. reply'[PrepareCall] = 200
  <2>1. PICK k \in 1..Len(Order) : Order[k] = f
    BY OrderIs
  <2>2. conn'[UploadCall[f]] # "none"
    BY <1>1, RequestsAre DEF ReplyInv, NoReply
  <2>. QED
    BY <2>1, <2>2 DEF LoopInv
<1>3. reply[PrepareCall] # 204
  BY <1>2, RequestsAre DEF Final, NoReply
<1>. QED
  BY <1>3, SentIs

LEMMA DistinctClient ==
  ASSUME TransferInv, CallsInv, LoopInv, DistinctInv, ClientNext, LoopInv', ReplyInv',
         ReportInv', Final
  PROVE  DistinctInv'
<1>. ClientTypeOK /\ ReportInv /\ ReplyInv /\ CountInv /\ JobTypeOK
  BY TypeOKIs DEF TransferInv, TransferTypeOK, ServerTypeOK, UploadTypeOK, DiskInv
<1>1. UNCHANGED <<pc, reply, job>>
  BY ClientKeepsServer DEF vars, handlerVars
<1>2. \A u : (Past(u)' <=> Past(u)) /\ SavedPath(u)' = SavedPath(u)
  BY <1>1 DEF Past, SavedPath
<1>3. SUFFICES ASSUME NEW f \in FileId, NEW g \in FileId, f # g, SentBy(f)',
                      Past(UploadCall[g])
               PROVE  SavedPath(UploadCall[g]) # SavedPath(UploadCall[f])
  BY <1>2 DEF DistinctInv
<1>4. CASE SentBy(f)
  BY <1>3, <1>4 DEF DistinctInv
<1>5. CASE ~SentBy(f)
  <2>1. results'[f] = "sent" /\ results[f] # "sent" /\ reply[UploadCall[f]] = 200
    BY <1>1, <1>3, <1>5, SentBefore DEF SentBy
  <2>2. conn[UploadCall[f]] # "none" /\ reply[PrepareCall] = 200
    BY <2>1, SentIs DEF NoReply
  <2>3. f = Current
    BY <2>1, <2>2, SentIs
  <2>4. pc[UploadCall[g]] # "idle"
    BY <1>3 DEF Past
  <2>5. conn[UploadCall[g]] # "none"
    BY <2>4, RequestsAre DEF ReplyInv
  <2>6. SentBy(g)
    BY <1>3, <2>2, <2>3, <2>5, SentIs
  <2>7. Past(UploadCall[f])
    BY <2>1, RequestsAre DEF Past, CallsInv, CountInv, NoReply
  <2>. QED
    BY <1>3, <2>6, <2>7 DEF DistinctInv
<1>. QED
  BY <1>4, <1>5

LEMMA DistinctStep ==
  ASSUME TransferInv, CallsInv, LoopInv, DistinctInv, [TransferNext]_allVars
  PROVE  DistinctInv'
<1>. ReportInv /\ ReplyInv /\ TransferTypeOK /\ JobTypeOK
  BY DEF TransferInv, TransferTypeOK, ServerTypeOK, UploadTypeOK
<1>1. LoopInv' /\ ReplyInv' /\ ReportInv' /\ Final
  BY LoopStep, ReplyStep, ReportStep
<1>2. CASE ClientNext
  BY <1>1, <1>2, DistinctClient
<1>3. ASSUME UNCHANGED <<results, job>>, \A u \in Upload : pc'[u] = pc[u] /\ reply'[u] = reply[u]
      PROVE  DistinctInv'
  <2>1. \A f \in FileId : SentBy(f)' <=> SentBy(f)
    BY <1>3, RequestsAre DEF SentBy
  <2>2. \A f \in FileId : /\ Past(UploadCall[f])' <=> Past(UploadCall[f])
                          /\ SavedPath(UploadCall[f])' = SavedPath(UploadCall[f])
    BY <1>3, RequestsAre DEF Past, SavedPath
  <2>. QED
    BY <2>1, <2>2 DEF DistinctInv
<1>4. CASE ReceiverNext
  <2>1. UNCHANGED results /\ ReceiverStep
    BY <1>4 DEF ReceiverNext, clientVars
  <2>2. ASSUME NEW h \in FileId, UploadNext(UploadCall[h])
        PROVE  DistinctInv'
    <3>1. \A f \in FileId : SentBy(f)' => SentBy(f)
      BY <1>1, <2>1, SentBefore DEF SentBy
    <3>. QED
      BY <2>1, <2>2, <3>1, DistinctReceiver DEF DistinctInv
  <2>. QED
    BY <1>3, <2>1, <2>2, ReceiverCases
<1>5. CASE UNCHANGED allVars
  BY <1>3, <1>5 DEF allVars, vars, handlerVars, clientVars
<1>. QED
  BY <1>2, <1>4, <1>5 DEF TransferNext

----------------------------------------------------------------------------
(***************************************************************************)
(* Until the prepare request is answered nothing is uploaded, and after a  *)
(* 204 nothing ever is: what its handler has seen in the directory stays.  *)
(***************************************************************************)
LEMMA NothingUploaded ==
  ASSUME ReplyInv, LoopInv, NEW f \in FileId, Started(UploadCall[f])
  PROVE  reply[PrepareCall] = 200 /\ pc[PrepareCall] = "replied"
<1>1. conn[UploadCall[f]] # "none"
  BY RequestsAre DEF ReplyInv, Started
<1>2. PICK k \in 1..Len(Order) : Order[k] = f
  BY OrderIs
<1>3. reply[PrepareCall] = 200
  BY <1>1, <1>2 DEF LoopInv
<1>. QED
  BY <1>3, RequestsAre DEF ReplyInv, NoReply

LEMMA DuplicatePrepare ==
  ASSUME ServerTypeOK, ReplyInv, DuplicateInv, UNCHANGED given,
         PrepareDelivered \/ PrepareRun(PrepareCall) \/ PrepareAnswered(PrepareCall),
         given \in 1..Len(Order)
  PROVE  DuplicateInv'
<1> DEFINE p == PrepareCall
<1>. ControlTypeOK /\ PrepareTypeOK
  BY DEF ServerTypeOK, UploadTypeOK
<1>1. PrepareNext(p) /\ p \in Prepare /\ p \in Request
  BY PrepareSteps, RequestsAre
<1>2. UNCHANGED fsVars /\ pc[p] # "replied" /\ reply[p] = NoReply
  BY <1>1, PrepareFrame, HandlesUnanswered DEF Handles, ReplyInv
<1>3. Given' = Given /\ \A f : Duplicate(f)' <=> Duplicate(f)
  BY <1>2 DEF Given, Duplicate, Present, Length, Path1, fsVars
<1>4. ASSUME pc'[p] # "stat", reply'[p] # 204 PROVE DuplicateInv'
  BY <1>4 DEF DuplicateInv
<1>5. ASSUME NEW step \in PrepareStep \ {"stat"}, Goto(p, step) PROVE DuplicateInv'
  BY <1>1, <1>2, <1>4, <1>5 DEF Goto, ControlTypeOK, NoReply
<1>6. ASSUME NEW status, status # 204, Answer(p, status) PROVE DuplicateInv'
  BY <1>1, <1>4, <1>6 DEF Answer, ControlTypeOK
<1>7. StartRange(p) => DuplicateInv'
  BY <1>5 DEF StartRange, PrepareStep
<1>8. ASSUME NEW v, PrepareArrive(p, Sender, v, Given)
      PROVE  DuplicateInv'
  <2>1. StartRange(p) \/ Goto(p, "stat")
    BY <1>8 DEF PrepareArrive
  <2>2. unchecked' = [unchecked EXCEPT ![p] = Given]
    BY <1>8 DEF PrepareArrive
  <2>3. unchecked'[p] = Given
    BY <1>1, <2>2 DEF PrepareTypeOK
  <2>4. CASE Goto(p, "stat")
    <3>1. reply'[p] # 204
      BY <1>2, <2>4 DEF Goto, NoReply
    <3>. QED
      BY <1>3, <2>3, <3>1 DEF DuplicateInv
  <2>. QED
    BY <1>7, <2>1, <2>4
<1>9. ASSUME NEW f \in FileId, PrepareStat(p, f)
      PROVE  DuplicateInv'
  <2>1. pc[p] = "stat" /\ \A g \in Given \ unchecked[p] : Duplicate(g)
    BY <1>9 DEF PrepareStat, DuplicateInv
  <2>2. CASE ~Duplicate(f)
    BY <1>7, <1>9, <2>2 DEF PrepareStat
  <2>3. CASE Duplicate(f)
    <3>1. unchecked' = [unchecked EXCEPT ![p] = unchecked[p] \ {f}]
      BY <1>9, <2>3 DEF PrepareStat
    <3>2. unchecked'[p] = unchecked[p] \ {f}
      BY <1>1, <3>1 DEF PrepareTypeOK
    <3>3. \A g \in Given' \ unchecked'[p] : Duplicate(g)'
      BY <1>3, <2>1, <2>3, <3>2
    <3>4. \/ Goto(p, "stat")
          \/ unchecked'[p] = {} /\ Answer(p, 204)
      BY <1>9, <2>3, <3>2 DEF PrepareStat
    <3>5. CASE Goto(p, "stat")
      <4>1. reply'[p] # 204
        BY <1>2, <3>5 DEF Goto, NoReply
      <4>. QED
        BY <3>3, <4>1 DEF DuplicateInv
    <3>6. CASE unchecked'[p] = {}
      BY <3>3, <3>6 DEF DuplicateInv
    <3>. QED
      BY <3>4, <3>5, <3>6
  <2>. QED
    BY <2>2, <2>3
<1>10. ASSUME NEW s, PrepareBusy(p, s) \/ PrepareNotBusy(p, s)
       PROVE  DuplicateInv'
  <2>1. Answer(p, 409) \/ Goto(p, "ask") \/ Goto(p, "busy")
    BY <1>10 DEF PrepareBusy, PrepareNotBusy
  <2>. QED
    BY <1>5, <1>6, <2>1 DEF PrepareStep
<1>11. CASE PrepareAnswered(p)
  <2>1. Answer(p, 403) \/ Answer(p, 200)
    BY <1>11 DEF PrepareAnswered, PrepareReject, PrepareAccept
  <2>. QED
    BY <1>6, <2>1
<1>12. CASE PrepareDelivered
  <2>1. ASSUME NEW status \in {401, 403}, Refuse(p, status) PROVE DuplicateInv'
    BY <1>6, <2>1 DEF Refuse
  <2>. QED
    BY <1>8, <1>12, <2>1 DEF PrepareDelivered
<1>. QED
  BY <1>9, <1>10, <1>11, <1>12 DEF PrepareRun

LEMMA DuplicateStep ==
  ASSUME TransferInv, LoopInv, DuplicateInv, [TransferNext]_allVars
  PROVE  DuplicateInv'
<1>. TransferTypeOK /\ ServerTypeOK /\ ReplyInv /\ TypeOK /\ ControlTypeOK
     /\ given \in 1..Len(Order)
  BY DEF TransferInv, TransferTypeOK, ServerTypeOK, UploadTypeOK
<1>1. ASSUME UNCHANGED <<fsVars, given, pc, reply, unchecked>> PROVE DuplicateInv'
  BY <1>1 DEF DuplicateInv, Given, Duplicate, Present, Length, Path1, fsVars
<1>2. CASE ClientNext \/ UNCHANGED allVars
  BY <1>1, <1>2, ClientKeepsServer
     DEF allVars, vars, handlerVars, prepareVars, clientVars
<1>3. CASE ReceiverNext
  <2>1. UNCHANGED given /\ ReceiverStep
    BY <1>3 DEF ReceiverNext, clientVars
  <2>2. CASE PrepareDelivered \/ PrepareRun(PrepareCall) \/ PrepareAnswered(PrepareCall)
    BY <2>1, <2>2, DuplicatePrepare
  <2>3. ASSUME NEW f \in FileId,
               UploadDelivered(f) \/ BodyArrives(f) \/ UploadRun(UploadCall[f])
        PROVE  DuplicateInv'
    <3>1. Started(UploadCall[f]) /\ UploadNext(UploadCall[f])
      BY <2>3, UploadSteps
    <3>2. reply[PrepareCall] = 200 /\ pc[PrepareCall] = "replied"
      BY <3>1, NothingUploaded
    <3>3. reply'[PrepareCall] = 200 /\ pc'[PrepareCall] = "replied"
      BY <3>1, <3>2, UploadMoves, MovesOnly, RequestsAre
    <3>. QED
      BY <3>3 DEF DuplicateInv
  <2>4. CASE CancelDelivered \/ CancelFinish(CancelCall)
    <3>1. CancelNext(CancelCall)
      BY <2>4, CancelSteps
    <3>2. PrepareCall # CancelCall
      BY TransferAssumption, ServerAssumption
    <3>3. UNCHANGED <<fsVars, unchecked>>
      BY <3>1, CancelFrame, RequestsAre DEF prepareVars
    <3>4. pc'[PrepareCall] = pc[PrepareCall] /\ reply'[PrepareCall] = reply[PrepareCall]
      BY <3>1, <3>2, CancelMoves, MovesOnly, RequestsAre
    <3>. QED
      BY <2>1, <3>3, <3>4 DEF DuplicateInv, Given, Duplicate, Present, Length, Path1, fsVars
  <2>5. CASE Background
    BY <1>1, <2>1, <2>5 DEF Background, handlerVars, prepareVars
  <2>. QED
    BY <2>1, <2>2, <2>3, <2>4, <2>5 DEF ReceiverStep
<1>. QED
  BY <1>2, <1>3 DEF TransferNext

----------------------------------------------------------------------------
(***************************************************************************)
(* A cancel request is made after a failure only, and once its handler has *)
(* looked the session is out of the table for good.                        *)
(***************************************************************************)
LEMMA GoneStays ==
  ASSUME [SMNext]_smVars, NEW s \in created, s \notin registered
  PROVE  s \notin registered'
BY DEF SMNext, SweepStep, Tick, CreateSession, GetSession, RecordProgress,
       LoadAndDelete, CancelDeleted, Close, SweepTick, SweepVisit, SweepDelete,
       SweepCancel, SweepEnd, SweepExit, smVars

LEMMA CancelClient ==
  ASSUME TransferTypeOK, ReplyInv, CancelInv, ClientNext
  PROVE  CancelInv'
<1>. ClientTypeOK
  BY TypeOKIs
<1>1. UNCHANGED <<pc, reply, registered, created>>
  BY ClientKeepsServer DEF vars, handlerVars, smVars
<1>2. conn[CancelCall] = "none" => pc[CancelCall] = "idle"
  BY RequestsAre DEF ReplyInv
<1>3. ASSUME conn[CancelCall] = "none", conn'[CancelCall] = "none" PROVE CancelInv'
  BY <1>1, <1>2, <1>3 DEF CancelInv
<1>4. CASE \/ SendPrepare \/ PrepareUntrusted \/ PrepareSkipped
           \/ PrepareTurnedDown \/ PrepareBreaks
           \/ \E s \in SessionId : PrepareGranted(s)
  <2>1. phase \in {"start", "prepare"}
    BY <1>4 DEF SendPrepare, PrepareUntrusted, PrepareSkipped, PrepareTurnedDown,
       PrepareBreaks, PrepareGranted
  <2>2. \/ conn' = conn \/ conn' = [conn EXCEPT ![PrepareCall] = "open"]
        \/ conn' = [conn EXCEPT ![PrepareCall] = "broken"]
    BY <1>4 DEF SendPrepare, PrepareUntrusted, PrepareSkipped, PrepareTurnedDown,
       PrepareBreaks, PrepareGranted, Open
  <2>3. PrepareCall # CancelCall
    BY TransferAssumption, ServerAssumption
  <2>. QED
    BY <1>3, <2>1, <2>2, <2>3, RequestsAre DEF CancelInv, ClientTypeOK
<1>5. CASE AllDone \/ SkipNotAccepted \/ StartUpload \/ UploadAccepted
  <2>1. phase \in {"files", "upload"} /\ conn[CancelCall] = "none"
    BY <1>5 DEF AllDone, SkipNotAccepted, StartUpload, UploadAccepted, CancelInv
  <2>2. conn' = conn \/ (next <= given /\ conn' = [conn EXCEPT ![CurrentCall] = "open"])
    BY <1>5 DEF AllDone, SkipNotAccepted, StartUpload, UploadAccepted, Open
  <2>3. next <= given => CurrentCall # CancelCall
    BY CurrentIs, RequestsAre DEF ClientTypeOK, CurrentCall
  <2>4. conn'[CancelCall] = "none"
    BY <2>1, <2>2, <2>3, RequestsAre DEF ClientTypeOK
  <2>. QED
    BY <1>3, <2>1, <2>4
<1>6. CASE OpenFails \/ UploadBreaks \/ UploadTurnedDown
  <2>1. phase' = "cancel" /\ session' = session /\ phase \in {"files", "upload"}
    BY <1>6 DEF OpenFails, UploadBreaks, UploadTurnedDown, CancelAfterFailure
  <2>2. session \in created /\ pc[CancelCall] = "idle"
    BY <1>2, <2>1 DEF ClientTypeOK, CancelInv
  <2>. QED
    BY <1>1, <2>1, <2>2 DEF CancelInv
<1>7. CASE CancelReturns
  <2>1. /\ phase = "cancel" /\ phase' = "returned" /\ UNCHANGED <<session, conn>>
        /\ reply[CancelCall] # NoReply
    BY <1>7 DEF CancelReturns, Finish, Answered
  <2>. QED
    BY <1>1, <2>1 DEF CancelInv, ClientTypeOK
<1>8. CASE CancelBreaks
  <2>1. /\ phase = "cancel" /\ phase' = "returned" /\ UNCHANGED session
        /\ conn'[CancelCall] = "broken"
    BY <1>8, RequestsAre DEF CancelBreaks, Finish, ClientTypeOK
  <2>. QED
    BY <1>1, <2>1 DEF CancelInv, ClientTypeOK
<1>. QED
  BY <1>4, <1>5, <1>6, <1>7, <1>8 DEF ClientNext, ClientRun

LEMMA CancelStepInv ==
  ASSUME TransferInv, CancelInv, [TransferNext]_allVars
  PROVE  CancelInv'
<1>. /\ TransferTypeOK /\ ReplyInv
     /\ ServerTypeOK /\ TypeOK /\ ControlTypeOK /\ given \in 1..Len(Order)
  BY DEF TransferInv, TransferTypeOK, ServerTypeOK, UploadTypeOK
<1>1. [Next]_vars
  BY TransferStepIsServerStep
<1>2. [SMNext]_smVars
  BY <1>1, StepUsesSessionManager
<1>3. created \subseteq created' /\ Final
  BY <1>2, CreatedGrows, ReplyStep
<1>4. CASE ClientNext
  BY <1>4, CancelClient
<1>5. ASSUME UNCHANGED clientVars,
             pc[CancelCall] = "idle" => pc'[CancelCall] = "idle" \/ session \notin registered'
      PROVE  CancelInv'
  <2>1. UNCHANGED <<conn, phase, session>>
    BY <1>5 DEF clientVars
  <2>2. reply[CancelCall] # NoReply => reply'[CancelCall] # NoReply
    BY <1>3, RequestsAre DEF Final
  <2>3. ASSUME pc[CancelCall] # "idle" PROVE session \notin registered'
    <3>1. session \in created /\ session \notin registered
      BY <2>3, RequestsAre DEF CancelInv, ReplyInv
    <3>. QED
      BY <1>2, <3>1, GoneStays
  <2>4. pc'[CancelCall] # "idle" => session' \notin registered'
    BY <1>5, <2>1, <2>3
  <2>. QED
    BY <1>3, <2>1, <2>2, <2>4 DEF CancelInv
<1>6. CASE ReceiverNext
  <2>1. UNCHANGED clientVars /\ ReceiverStep
    BY <1>6 DEF ReceiverNext
  <2>2. ASSUME NEW r \in Request, r # CancelCall, Handles(r) PROVE CancelInv'
    <3>1. pc'[CancelCall] = pc[CancelCall]
      BY <2>2, HandlesMoves, MovesOnly, RequestsAre
    <3>. QED
      BY <1>5, <2>1, <3>1
  <2>3. CASE CancelDelivered
    <3>1. session \notin registered'
      BY <2>3 DEF CancelDelivered, Refuse, CancelArrive, LoadAndDelete, smVars
    <3>. QED
      BY <1>5, <2>1, <3>1
  <2>4. CASE CancelFinish(CancelCall)
    BY <1>5, <2>1, <2>4 DEF CancelFinish
  <2>5. CASE Background
    BY <1>5, <2>1, <2>5 DEF Background, handlerVars
  <2>6. CASE PrepareDelivered \/ PrepareRun(PrepareCall) \/ PrepareAnswered(PrepareCall)
    <3>1. PrepareCall # CancelCall
      BY TransferAssumption, ServerAssumption
    <3>. QED
      BY <2>2, <2>6, <3>1, PrepareSteps, RequestsAre DEF Handles
  <2>7. ASSUME NEW f \in FileId,
               UploadDelivered(f) \/ BodyArrives(f) \/ UploadRun(UploadCall[f])
        PROVE  CancelInv'
    BY <2>2, <2>7, UploadSteps, RequestsAre DEF Handles
  <2>. QED
    BY <2>1, <2>3, <2>4, <2>5, <2>6, <2>7 DEF ReceiverStep
<1>7. CASE UNCHANGED allVars
  BY <1>5, <1>7 DEF allVars, vars, handlerVars
<1>. QED
  BY <1>4, <1>6, <1>7 DEF TransferNext

----------------------------------------------------------------------------
CallInv == CallsInv /\ LoopInv /\ DistinctInv /\ DuplicateInv /\ CancelInv

LEMMA CallInitial == TransferInit => TransferInv /\ CallInv
<1>. SUFFICES ASSUME TransferInit PROVE TransferInv /\ CallInv
  OBVIOUS
<1>1. TransferInv
  BY TransferInitial, ReportInitial, InitDiskInv DEF TransferInv, TransferInit
<1>2. /\ phase = "start" /\ next = 1 /\ DOMAIN job = {}
      /\ \A f \in FileId : results[f] = "none"
      /\ \A r \in Request : conn[r] = "none" /\ pc[r] = "idle" /\ reply[r] = NoReply
  BY DEF TransferInit, Init
<1>3. CallsInv
  BY <1>2 DEF CallsInv, NoReply, Request
<1>4. LoopInv
  BY <1>2, OrderIs, RequestsAre, LengthIsNatural DEF LoopInv
<1>5. DistinctInv /\ DuplicateInv /\ CancelInv
  BY <1>2, RequestsAre DEF DistinctInv, SentBy, DuplicateInv, CancelInv, NoReply
<1>. QED
  BY <1>1, <1>3, <1>4, <1>5 DEF CallInv

LEMMA TransferInvStep ==
  ASSUME TransferInv, CallInv, [TransferNext]_allVars
  PROVE  TransferInv' /\ CallInv'
<1>. TransferTypeOK /\ ServerTypeOK /\ TypeOK /\ given \in 1..Len(Order)
  BY DEF TransferInv, TransferTypeOK, ServerTypeOK
<1>1. TransferTypeOK' /\ ReplyInv' /\ ReportInv'
  BY TransferTypedStep, ReportStep DEF TransferInv
<1>2. DiskInv'
  BY TransferStepIsServerStep, NextDiskInv DEF TransferInv
<1>3. CallsInv' /\ LoopInv' /\ DistinctInv' /\ DuplicateInv' /\ CancelInv'
  BY CallsStep, LoopStep, DistinctStep, DuplicateStep, CancelStepInv DEF CallInv
<1>. QED
  BY <1>1, <1>2, <1>3 DEF TransferInv, CallInv

(* A whole call keeps the invariant.                                      *)
THEOREM CallInvariant == TransferSpec => [](TransferInv /\ CallInv)
BY CallInitial, TransferInvStep, PTL DEF TransferSpec

(* A successful call has stored every file.                                *)
LEMMA SuccessIs ==
  ASSUME TransferInv, CallInv
  PROVE  SuccessMeansStored
<1>. ClientTypeOK /\ ReportInv /\ ReplyInv /\ LoopInv /\ DuplicateInv
  BY TypeOKIs DEF TransferInv, CallInv
<1>1. SUFFICES ASSUME phase = "returned", ExitCode = 0, NEW f \in Given
               PROVE  IF reply[PrepareCall] = 204 THEN Duplicate(f) ELSE StoredWhole(f)
  BY DEF SuccessMeansStored
<1>2. CASE reply[PrepareCall] = 204
  BY <1>1, <1>2 DEF DuplicateInv
<1>3. CASE reply[PrepareCall] # 204
  <2>1. err = "nil" /\ \A g \in FileId : results[g] \in {"sent", "none"}
    BY <1>1 DEF ExitCode, ClientTypeOK
  <2>2. PICK k \in 1..given : f = Order[k]
    BY DEF Given
  <2>3. k \in 1..Len(Order) /\ k <= given
    BY <2>2, LengthIsNatural DEF ClientTypeOK
  <2>4. next > given
    BY <1>1, <1>3, <2>1 DEF LoopInv
  <2>5. k < next
    BY <2>3, <2>4, LengthIsNatural DEF ClientTypeOK
  <2>6. f \in FileId /\ results[f] = "sent"
    BY <2>1, <2>2, <2>3, <2>5, OrderIs DEF LoopInv
  <2>7. SentBy(f)
    BY <1>3, <2>6, SentIs
  <2>8. /\ UploadCall[f] \in DOMAIN job /\ Stored(UploadCall[f])
        /\ job[UploadCall[f]].written = Size[f]
    BY <2>6, <2>7, SentHeld DEF CallInv
  <2>. QED
    BY <1>3, <2>8 DEF StoredWhole, Stored, Received
<1>. QED
  BY <1>2, <1>3

(***************************************************************************)
(* "localsend send" exits with 0 only if every file is in the receiver's   *)
(* directory, whole (main.go:584-618, client.go:200-206, 239-255,          *)
(* server.go:356-399).                                                     *)
(***************************************************************************)
THEOREM SuccessMeansStoredAlways == TransferSpec => []SuccessMeansStored
BY CallInvariant, SuccessIs, PTL

(* A failed call has left a session that is over.                          *)
LEMMA FailureIs ==
  ASSUME TransferInv, CallInv, Tracked, EachHasOneDeleter
  PROVE  FailureEndsSession
<1>. TransferTypeOK /\ ControlTypeOK /\ JobTypeOK /\ TargetTypeOK /\ TypeOK /\ ReplyInv
     /\ CancelInv /\ CallsInv
  BY DEF TransferInv, TransferTypeOK, ServerTypeOK, UploadTypeOK, CallInv
<1>1. SUFFICES ASSUME phase = "returned", session # NoSession, conn[CancelCall] = "open"
               PROVE  /\ session \notin registered
                      /\ \/ sess[session].canceled \/ Sweeping(session)
                         \/ \E f \in FileId : pc[UploadCall[f]] = "cancelctx"
  BY DEF FailureEndsSession
<1>2. reply[CancelCall] # NoReply /\ session \in created
  BY <1>1 DEF CancelInv
<1>3. pc[CancelCall] = "replied"
  BY <1>2, RequestsAre DEF ReplyInv
<1>4. session \notin registered
  BY <1>3 DEF CancelInv
<1>5. session \in closing \/ Sweeping(session) \/ sess[session].canceled
  BY <1>2, <1>4 DEF Tracked
<1>6. ASSUME session \in closing
      PROVE  \E f \in FileId : pc[UploadCall[f]] = "cancelctx"
  <2>1. session \in SessionId
    BY <1>2 DEF TypeOK
  <2>2. PICK r \in Request : Deletes(r, session)
    BY <1>6, <2>1 DEF EachHasOneDeleter
  <2>3. pc[r] = "cancelctx" /\ (r \in DOMAIN job \/ r \in DOMAIN target)
    BY <2>2 DEF Deletes
  <2>4. r \notin DOMAIN target
    BY <1>3, <2>3, TransferAssumption DEF TargetTypeOK
  <2>5. r = UploadCall[job[r].fid] /\ job[r].fid \in FileId
    BY <2>3, <2>4 DEF CallsInv, JobTypeOK, Job
  <2>. QED
    BY <2>3, <2>5
<1>. QED
  BY <1>4, <1>5, <1>6

(***************************************************************************)
(* After a failed upload whose cancel request was answered the session is  *)
(* out of the table, and canceled or about to be by one goroutine          *)
(* (client.go:246-252, server.go:433).                                     *)
(***************************************************************************)
THEOREM FailureEndsSessionAlways == TransferSpec => []FailureEndsSession
<1>1. TransferInit => IInv /\ EachHasOneDeleter
  BY InitIInv, InitEachHasOneDeleter DEF TransferInit, Init
<1>2. ASSUME TransferInv, IInv, EachHasOneDeleter, [TransferNext]_allVars
      PROVE  IInv' /\ EachHasOneDeleter'
  <2>1. ServerTypeOK /\ TypeOK /\ given \in 1..Len(Order) /\ Tracked
    BY <1>2 DEF TransferInv, TransferTypeOK, ServerTypeOK, IInv
  <2>2. [Next]_vars
    BY <1>2, <2>1, TransferStepIsServerStep
  <2>3. [SMNext]_smVars
    BY <2>1, <2>2, StepUsesSessionManager
  <2>. QED
    BY <1>2, <2>1, <2>2, <2>3, NextIInv, NextEachHasOneDeleter
<1>3. TransferInv /\ CallInv /\ IInv /\ EachHasOneDeleter => FailureEndsSession
  BY FailureIs DEF IInv
<1>. QED
  BY <1>1, <1>2, <1>3, CallInvariant, PTL DEF TransferSpec

----------------------------------------------------------------------------
(***************************************************************************)
(* The uploads of a call take turns.  All but the last one made have been  *)
(* answered 200, so no two of them run at once, and the one that runs      *)
(* finds the names of the others taken: what the handlers promise of       *)
(* uploads that share no path holds of all uploads of a call.              *)
(***************************************************************************)
LEMMA AllButOneSent ==
  ASSUME ReportInv, ReplyInv, LoopInv, NEW f \in FileId, NEW g \in FileId, f # g,
         pc[UploadCall[f]] # "idle", pc[UploadCall[g]] # "idle"
  PROVE  SentBy(f) \/ SentBy(g)
<1>1. conn[UploadCall[f]] # "none" /\ conn[UploadCall[g]] # "none"
  BY RequestsAre DEF ReplyInv
<1>2. reply[PrepareCall] = 200
  BY <1>1, SentIs
<1>3. results[f] = "sent" \/ results[g] = "sent"
  BY <1>1, SentIs
<1>. QED
  BY <1>2, <1>3, SentIs

LEMMA OneIsUnderWay ==
  ASSUME TransferInv, CallInv
  PROVE  OneUploadAtATime
<1>. ReportInv /\ ReplyInv /\ LoopInv
  BY DEF TransferInv, CallInv
<1>1. \A f \in FileId : SentBy(f) => ~UnderWay(f)
  BY RequestsAre DEF SentBy, UnderWay, ReplyInv, NoReply
<1>. QED
  BY <1>1, AllButOneSent DEF OneUploadAtATime, UnderWay

(* At most one upload of a call is under way, broken connections or not.   *)
THEOREM OneUploadAtATimeAlways == TransferSpec => []OneUploadAtATime
BY CallInvariant, OneIsUnderWay, PTL

(***************************************************************************)
(* No upload of a call shares the path it has chosen with another, whether *)
(* or not either was answered: the race between getUniquePath and          *)
(* os.Create (server.go:337-343) needs uploads of two senders.             *)
(***************************************************************************)
Uncontested == \A u \in DOMAIN job : Past(u) => ~Contested(u)

LEMMA NoneContested ==
  ASSUME TransferInv, CallInv
  PROVE  Uncontested
<1>. ReportInv /\ ReplyInv /\ LoopInv /\ CallsInv /\ DistinctInv /\ JobTypeOK
  BY DEF TransferInv, CallInv, TransferTypeOK, ServerTypeOK, UploadTypeOK
<1>1. SUFFICES ASSUME NEW u \in DOMAIN job, NEW v \in DOMAIN job \ {u}, Past(u), Past(v)
               PROVE  SavedPath(v) # SavedPath(u)
  BY DEF Uncontested, Contested, Past
<1>2. PICK f \in FileId : u = UploadCall[f]
  BY DEF CallsInv, JobTypeOK, Job
<1>3. PICK g \in FileId : v = UploadCall[g]
  BY DEF CallsInv, JobTypeOK, Job
<1>4. f # g
  BY <1>1, <1>2, <1>3
<1>5. SentBy(f) \/ SentBy(g)
  BY <1>1, <1>2, <1>3, <1>4, AllButOneSent DEF Past
<1>. QED
  BY <1>1, <1>2, <1>3, <1>4, <1>5 DEF DistinctInv

THEOREM UncontestedAlways == TransferSpec => []Uncontested
BY CallInvariant, NoneContested, PTL

LEMMA AllIntact ==
  ASSUME ServerTypeOK, CountInv, DiskMatchesReply, Uncontested
  PROVE  StoredIntact
<1>. SUFFICES ASSUME NEW u \in DOMAIN job, reply[u] = 200
              PROVE  Present(SavedPath(u)) /\ data[dir[SavedPath(u)]] = Received(u)
  BY DEF StoredIntact
<1>1. Past(u)
  BY DEF Past, CountInv, NoReply, ServerTypeOK, UploadTypeOK, JobTypeOK
<1>. QED
  BY <1>1 DEF Uncontested, DiskMatchesReply

(***************************************************************************)
(* Every file answered 200 is on the receiver's disk as received: the      *)
(* comment at server.go:456 is right as long as one call of SendFiles is   *)
(* all there is.                                                           *)
(***************************************************************************)
THEOREM TransferStoresIntact == TransferSpec => []StoredIntact
<1>1. TransferInv /\ CallInv => StoredIntact
  <2>. SUFFICES ASSUME TransferInv, CallInv PROVE StoredIntact
    OBVIOUS
  <2>1. ServerTypeOK /\ DiskInv /\ CountInv
    BY DEF TransferInv, TransferTypeOK, DiskInv
  <2>. QED
    BY <2>1, DiskInvSuffices, NoneContested, AllIntact
<1>. QED
  BY <1>1, CallInvariant, PTL

(* With this client, the receiver keeps all it promises of any clients.    *)
THEOREM TransferKeepsServer == TransferSpec => TablePromises /\ HandlerPromises
BY TransferUsesServer, ServerKeepsTable, ServerKeepsPromises, PTL DEF ServerSafety

=============================================================================
