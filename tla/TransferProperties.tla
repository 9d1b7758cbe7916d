------------------------- MODULE TransferProperties -------------------------
(***************************************************************************)
(* What a call of SendFiles guarantees against this receiver, whatever     *)
(* connections break and whenever.                                         *)
(***************************************************************************)
EXTENDS Transfer, UploadServerProperties

(***************************************************************************)
(* The files the receiver has said it stored: each answered 200, or all    *)
(* that were offered when the prepare request was answered 204.            *)
(***************************************************************************)
StoredFiles ==
  {f \in FileId : \/ reply[UploadCall[f]] = 200
                  \/ reply[PrepareCall] = 204 /\ f \in Given}

Abstract == INSTANCE FileTransfer WITH
  File <- FileId,
  stored <- StoredFiles,
  reported <- results,
  over <- (phase = "returned")

(***************************************************************************)
(* SendFiles with the network and the receiver keeps what FileTransfer     *)
(* promises: client.go:155-303 and the handlers of server.go it calls.     *)
(***************************************************************************)
ImplementsFileTransfer == Abstract!TransferSpec

(***************************************************************************)
(* The exit status of the send command, from what SendFiles returns.       *)
(***************************************************************************)
ExitCode ==
  IF err = "rejected" THEN 3
  ELSE IF err = "failed" \/ \E f \in FileId : results[f] \notin {"sent", "none"} THEN 4
  ELSE 0

(***************************************************************************)
(* "localsend send" exits with 0 only if every file is in the receiver's   *)
(* directory, whole: under the name the upload chose and with its bytes    *)
(* alone, or, when nothing was sent, under the first name and of the same  *)
(* size (main.go:584-618, client.go:200-206, 239-255, server.go:356-399).  *)
(***************************************************************************)
StoredWhole(f) ==
  LET u == UploadCall[f] IN
  /\ u \in DOMAIN job
  /\ Present(SavedPath(u)) /\ dir[SavedPath(u)] = u
  /\ data[u] = [k \in 1..Size[f] |-> u]

SuccessMeansStored ==
  phase = "returned" /\ ExitCode = 0 =>
    \A f \in Given :
      IF reply[PrepareCall] = 204 THEN Duplicate(f) ELSE StoredWhole(f)

(***************************************************************************)
(* After a failed upload whose cancel request was answered, the session is *)
(* out of the receiver's table and canceled, so that an upload still       *)
(* running on a broken connection is told to stop; or the cleanup loop, or *)
(* an upload that completed it although its connection had broken, took it *)
(* first and is about to cancel it (client.go:246-252, server.go:433).     *)
(***************************************************************************)
FailureEndsSession ==
  phase = "returned" /\ session # NoSession /\ err = "failed"
    /\ conn[CancelCall] = "open" =>
      /\ session \notin registered
      /\ \/ sess[session].canceled \/ Sweeping(session)
         \/ \E f \in FileId : pc[UploadCall[f]] = "cancelctx"

(***************************************************************************)
(* Of all uploads of a call at most one has a handler under way, also when *)
(* connections break and their requests arrive late: the client goes on to *)
(* a file only when the one before it was answered, and to none after a    *)
(* failure (client.go:239-255).  The races between uploads the receiver    *)
(* leaves open need two clients, or another one.                           *)
(***************************************************************************)
UnderWay(f) == pc[UploadCall[f]] \notin {"idle", "replied"}

OneUploadAtATime ==
  \A f, g \in FileId : UnderWay(f) /\ UnderWay(g) => f = g

(***************************************************************************)
(* Once the receiver has granted the transfer, SendFiles returns, if every *)
(* connection delivers or breaks: it sets no time limit of its own on an   *)
(* upload or a cancel request (client.go:112, 228-234).                    *)
(***************************************************************************)
SendReturns == phase = "files" ~> phase = "returned"

(***************************************************************************)
(* Whatever the client left behind comes to an end: a session that stays   *)
(* in the table after SendFiles has returned expires, unless the manager   *)
(* is closed (the bound of the clock aside), and an upload of it ends.     *)
(***************************************************************************)
OutOfTime(s) == sess[s].lastAccess + Timeout >= MaxTime

ReceiverSettles ==
  /\ \A s \in SessionId :
       phase = "returned" /\ s \in registered
         ~> s \notin registered \/ OutOfTime(s) \/ ~running
  /\ \A f \in FileId :
       phase = "returned" /\ UploadCall[f] \in DOMAIN job
         ~> pc[UploadCall[f]] = "replied"

=============================================================================
