------------------------------ MODULE Transfer ------------------------------
(***************************************************************************)
(* One call of SendFiles, in src/pkg/client/client.go, and the receiver    *)
(* that answers it: the client's steps beside those of UploadServer.       *)
(*                                                                         *)
(* The client makes one prepare-upload request, one upload request for     *)
(* each accepted file, in the order of the slice, and, when an upload      *)
(* fails, one cancel request.  Each request travels on a connection that   *)
(* may break at any time: before the request is delivered, while its       *)
(* handler runs, or after the answer was sent, and the client cannot tell  *)
(* which.  A request whose connection broke may still be delivered, and    *)
(* its handler goes on with what it has received.                          *)
(***************************************************************************)
EXTENDS UploadServer

CONSTANTS
  PrepareCall,  \* the prepare-upload request
  UploadCall,   \* the upload request of every file
  CancelCall,   \* the cancel request
  Sender,       \* the address the client prepares from
  Order         \* the files: SendFiles is given the first ones, in this order

ASSUME TransferAssumption ==
  /\ Prepare = {PrepareCall} /\ CancelReq = {CancelCall}
  /\ UploadCall \in [FileId -> Upload]
  /\ \A f, g \in FileId : UploadCall[f] = UploadCall[g] => f = g
  /\ Sender \in Host
  /\ Order \in Seq(FileId)
  /\ \A f \in FileId : \E k \in 1..Len(Order) : Order[k] = f
  /\ \A j, k \in 1..Len(Order) : Order[j] = Order[k] => j = k
  /\ \A f \in FileId : Size[f] <= MaxBytes

VARIABLES
  phase,    \* where SendFiles is
  next,     \* the index of the file it is at
  session,  \* the session id it was answered, NoSession before
  results,  \* what it will report of every file
  err,      \* the error it returns
  conn,     \* the connection of every request
  trusted,  \* the receiver's certificate is the expected one
  given     \* how many files of Order this call is given

clientVars == <<phase, next, session, results, err, conn, trusted, given>>
allVars == <<vars, clientVars>>

NoSession == "no session"

Phase == {"start", "prepare", "files", "upload", "cancel", "returned"}
Verdict == {"none", "sent", "not accepted", "failed"}

TransferTypeOK ==
  /\ ServerTypeOK
  /\ phase \in Phase
  /\ next \in 1..Len(Order) + 1
  /\ session \in created \cup {NoSession}
  /\ results \in [FileId -> Verdict]
  /\ err \in {"nil", "rejected", "failed"}
  /\ conn \in [Request -> {"none", "open", "broken"}]
  /\ trusted \in BOOLEAN
  /\ given \in 1..Len(Order)
  /\ phase \in {"files", "upload", "cancel"} => session \in created
  /\ phase = "upload" => next <= given

TransferInit ==
  /\ Init
  /\ phase = "start"
  /\ next = 1
  /\ session = NoSession
  /\ results = [f \in FileId |-> "none"]
  /\ err = "nil"
  /\ conn = [r \in Request |-> "none"]
  /\ trusted \in BOOLEAN
  /\ given \in 1..Len(Order)

----------------------------------------------------------------------------
(***************************************************************************)
(* The client.                                                             *)
(***************************************************************************)
Given == {Order[k] : k \in 1..given}

Current == Order[next]
CurrentCall == UploadCall[Current]

Answered(r) == conn[r] = "open" /\ reply[r] # NoReply

Open(r) == conn' = [conn EXCEPT ![r] = "open"]

Finish(error) == phase' = "returned" /\ err' = error

Report(verdict) == results' = [results EXCEPT ![Current] = verdict]

SendPrepare ==
  /\ phase = "start"
  /\ phase' = "prepare"
  /\ Open(PrepareCall)
  /\ UNCHANGED <<vars, next, session, results, err, trusted, given>>

(* The certificate is compared before the status is looked at: a session   *)
(* the receiver has opened is then left to its cleanup loop.               *)
PrepareUntrusted ==
  /\ phase = "prepare"
  /\ Answered(PrepareCall)
  /\ ~trusted
  /\ Finish("failed")
  /\ UNCHANGED <<vars, next, session, results, conn, trusted, given>>

PrepareSkipped ==
  /\ phase = "prepare"
  /\ Answered(PrepareCall) /\ trusted
  /\ reply[PrepareCall] = 204
  /\ results' = [f \in FileId |-> IF f \in Given THEN "sent" ELSE "none"]
  /\ Finish("nil")
  /\ UNCHANGED <<vars, next, session, conn, trusted, given>>

PrepareTurnedDown ==
  /\ phase = "prepare"
  /\ Answered(PrepareCall) /\ trusted
  /\ reply[PrepareCall] \notin {200, 204}
  /\ Finish(IF reply[PrepareCall] = 403 THEN "rejected" ELSE "failed")
  /\ UNCHANGED <<vars, next, session, results, conn, trusted, given>>

(* Mutant of PrepareGranted: the session id of the answer is not kept.     *)
PrepareGrantedForgotten(s) ==
  /\ phase = "prepare"
  /\ Answered(PrepareCall) /\ trusted
  /\ reply[PrepareCall] = 200
  /\ s \in created
  /\ phase' = "files"
  /\ UNCHANGED <<vars, next, session, results, err, conn, trusted, given>>

PrepareGranted(s) ==
  /\ phase = "prepare"
  /\ Answered(PrepareCall) /\ trusted
  /\ reply[PrepareCall] = 200
  /\ s \in created
  /\ session' = s
  /\ phase' = "files"
  /\ UNCHANGED <<vars, next, results, err, conn, trusted, given>>

(* The request fails, or the body of its answer cannot be read.            *)
PrepareBreaks ==
  /\ phase = "prepare"
  /\ conn' = [conn EXCEPT ![PrepareCall] = "broken"]
  /\ Finish("failed")
  /\ UNCHANGED <<vars, next, session, results, trusted, given>>

----------------------------------------------------------------------------
(* The loop over the files.                                                *)
AllDone ==
  /\ phase = "files"
  /\ next > given
  /\ Finish("nil")
  /\ UNCHANGED <<vars, next, session, results, conn, trusted, given>>

SkipNotAccepted ==
  /\ phase = "files"
  /\ next <= given
  /\ Current \notin sess[session].files
  /\ Report("not accepted")
  /\ next' = next + 1
  /\ UNCHANGED <<vars, phase, session, err, conn, trusted, given>>

StartUpload ==
  /\ phase = "files"
  /\ next <= given
  /\ Current \in sess[session].files
  /\ phase' = "upload"
  /\ Open(CurrentCall)
  /\ UNCHANGED <<vars, next, session, results, err, trusted, given>>

(* cancelSession follows every failure of uploadFile.                      *)
CancelAfterFailure(connected) ==
  /\ Report("failed")
  /\ phase' = "cancel"
  /\ conn' = [connected EXCEPT ![CancelCall] = "open"]
  /\ UNCHANGED <<vars, next, session, err, trusted, given>>

(* The file cannot be opened: nothing of it is sent.                       *)
OpenFails ==
  /\ phase = "files"
  /\ next <= given
  /\ Current \in sess[session].files
  /\ CancelAfterFailure(conn)

(* Mutant of UploadBreaks: the other files are sent all the same.          *)
UploadBreaksGoesOn ==
  /\ phase = "upload"
  /\ Report("failed")
  /\ next' = next + 1
  /\ phase' = "files"
  /\ conn' = [conn EXCEPT ![CurrentCall] = "broken"]
  /\ UNCHANGED <<vars, session, err, trusted, given>>

UploadBreaks ==
  /\ phase = "upload"
  /\ CancelAfterFailure([conn EXCEPT ![CurrentCall] = "broken"])

(* Mutant of UploadAccepted: any answer is taken for success.              *)
UploadAcceptedAnyStatus ==
  /\ phase = "upload"
  /\ Answered(CurrentCall) /\ trusted
  /\ Report("sent")
  /\ next' = next + 1
  /\ phase' = "files"
  /\ UNCHANGED <<vars, session, err, conn, trusted, given>>

UploadAccepted ==
  /\ phase = "upload"
  /\ Answered(CurrentCall) /\ trusted
  /\ reply[CurrentCall] = 200
  /\ Report("sent")
  /\ next' = next + 1
  /\ phase' = "files"
  /\ UNCHANGED <<vars, session, err, conn, trusted, given>>

(* Mutant of UploadTurnedDown: a refused file is tried again for ever.     *)
UploadRetried ==
  /\ phase = "upload"
  /\ Answered(CurrentCall)
  /\ ~(trusted /\ reply[CurrentCall] = 200)
  /\ phase' = "files"
  /\ UNCHANGED <<vars, next, session, results, err, conn, trusted, given>>

UploadTurnedDown ==
  /\ phase = "upload"
  /\ Answered(CurrentCall)
  /\ ~(trusted /\ reply[CurrentCall] = 200)
  /\ CancelAfterFailure(conn)

(* The outcome of the cancel request is ignored; it has no time limit.     *)
CancelReturns ==
  /\ phase = "cancel"
  /\ Answered(CancelCall)
  /\ Finish("failed")
  /\ UNCHANGED <<vars, next, session, results, conn, trusted, given>>

CancelBreaks ==
  /\ phase = "cancel"
  /\ conn' = [conn EXCEPT ![CancelCall] = "broken"]
  /\ Finish("failed")
  /\ UNCHANGED <<vars, next, session, results, trusted, given>>

(* What the client does by itself, and what happens to its connections.    *)
ClientRun ==
  \/ SendPrepare
  \/ PrepareUntrusted \/ PrepareSkipped \/ PrepareTurnedDown
  \/ \E s \in SessionId : PrepareGranted(s)
  \/ AllDone \/ SkipNotAccepted \/ StartUpload
  \/ UploadAccepted \/ UploadTurnedDown
  \/ CancelReturns

ClientNext ==
  \/ ClientRun
  \/ PrepareBreaks \/ OpenFails \/ UploadBreaks \/ CancelBreaks

----------------------------------------------------------------------------
(***************************************************************************)
(* The receiver, given the requests this client makes.  A PIN may be       *)
(* wrong, a certificate missing, the sender's address another one by now.  *)
(***************************************************************************)
Sent(r) == conn[r] # "none"

PrepareDelivered ==
  /\ Sent(PrepareCall)
  /\ \/ \E status \in {401, 403} : Refuse(PrepareCall, status)
     \/ \E v \in BOOLEAN : PrepareArrive(PrepareCall, Sender, v, Given)

UploadDelivered(f) ==
  /\ Sent(UploadCall[f])
  /\ \/ session \notin registered /\ Refuse(UploadCall[f], 400)
     \/ \E from \in Host, cert \in BOOLEAN :
          UploadArrive(UploadCall[f], session, f, <<session, f>>, from, cert)

(***************************************************************************)
(* The request announces the size of the file, and the body ends there or  *)
(* with the connection.  The last chunk may come with the end of the body; *)
(* a chunk that comes with an error could not be written to the disk.      *)
(***************************************************************************)
BodyArrives(f) ==
  LET u == UploadCall[f] IN
  /\ pc[u] = "read"
  /\ \/ /\ job[u].written < Size[f]
        /\ \/ UploadReadChunk(u, "nil") \/ UploadReadChunk(u, "error")
           \/ job[u].written + 1 = Size[f] /\ UploadReadChunk(u, "eof")
     \/ job[u].written = Size[f] /\ UploadReadEnd(u, "eof")
     \/ conn[u] = "broken" /\ UploadReadEnd(u, "error")

CancelDelivered ==
  /\ Sent(CancelCall)
  /\ \/ session \notin registered /\ Refuse(CancelCall, 200)
     \/ CancelArrive(CancelCall, session)

ReceiverStep ==
  \/ PrepareDelivered \/ PrepareRun(PrepareCall) \/ PrepareAnswered(PrepareCall)
  \/ \E f \in FileId :
       UploadDelivered(f) \/ BodyArrives(f) \/ UploadRun(UploadCall[f])
  \/ CancelDelivered \/ CancelFinish(CancelCall)
  \/ Background

ReceiverNext == ReceiverStep /\ UNCHANGED clientVars

TransferNext == ClientNext \/ ReceiverNext

(***************************************************************************)
(* Both programs run; time passes; a connection that is not broken         *)
(* delivers, and the receiver learns of one that is (TCP keep-alive).      *)
(* The receiving user may never decide.                                    *)
(***************************************************************************)
Network ==
  /\ WF_allVars(conn[PrepareCall] = "open" /\ PrepareDelivered /\ UNCHANGED clientVars)
  /\ WF_allVars(conn[CancelCall] = "open" /\ CancelDelivered /\ UNCHANGED clientVars)
  /\ \A f \in FileId :
       /\ WF_allVars(conn[UploadCall[f]] = "open" /\ UploadDelivered(f) /\ UNCHANGED clientVars)
       /\ WF_allVars(BodyArrives(f) /\ UNCHANGED clientVars)

TransferFairness ==
  /\ Fairness
  /\ WF_allVars(ClientRun)
  /\ WF_allVars(Tick /\ UNCHANGED <<fsVars, handlerVars, clientVars>>)
  /\ Network

TransferSpec == TransferInit /\ [][TransferNext]_allVars /\ TransferFairness

=============================================================================
