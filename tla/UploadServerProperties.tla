----------------------- MODULE UploadServerProperties -----------------------
(***************************************************************************)
(* What the receiver's handlers guarantee however their steps, the cleanup *)
(* loop's and the passage of time interleave, and, in the last section,    *)
(* what its documentation claims and the code does not keep.               *)
(***************************************************************************)
EXTENDS UploadServer

(***************************************************************************)
(* The handlers use the session table only through its operations: every   *)
(* behaviour of the server is, for the table, a behaviour of               *)
(* SessionManager, whose properties therefore hold here too.               *)
(***************************************************************************)
UsesSessionManager == SMSafety

(***************************************************************************)
(* A deleted session is going to be canceled by exactly one of the         *)
(* handlers that raced to delete it: a cancel request, a second one, the   *)
(* last upload and another upload that saw the session complete            *)
(* (DeleteSession, session.go:161-167, called at server.go:427 and 441).   *)
(***************************************************************************)
Deleters(s) ==
  {u \in DOMAIN job : pc[u] = "cancelctx" /\ job[u].sid = s}
    \cup {c \in DOMAIN target : pc[c] = "cancelctx" /\ target[c] = s}

OneDeleter ==
  \A s \in SessionId :
    /\ s \in closing <=> Deleters(s) # {}
    /\ \A a, b \in Deleters(s) : a = b

(***************************************************************************)
(* No upload, however it ends, alters or removes a file that was in the    *)
(* directory before (getUniquePath, os.Create and the two os.Remove,       *)
(* server.go:341-343, 360, 394).                                           *)
(***************************************************************************)
ExistingFilesUntouched ==
  \A p \in Existing : Present(p) /\ dir[p] = p /\ data[p] = OldContent(p)

(***************************************************************************)
(* Two uploads contest a path when both have chosen it.  The uploads that  *)
(* share no path leave on disk what they answered: 200 means the file is   *)
(* at its path with exactly the bytes received, all of them if there was a *)
(* checksum; 400 and 422 mean nothing is left (server.go:356-399).         *)
(***************************************************************************)
Contested(u) ==
  \E v \in DOMAIN job \ {u} :
    pc[v] \notin {"idle", "stat"} /\ SavedPath(v) = SavedPath(u)

Received(u) == [k \in 1..job[u].written |-> u]

DiskMatchesReply ==
  \A u \in DOMAIN job : ~Contested(u) =>
    /\ reply[u] = 200 =>
         /\ Present(SavedPath(u))
         /\ dir[SavedPath(u)] = u
         /\ data[u] = Received(u)
         /\ job[u].fid \in HasSha => job[u].written = Size[job[u].fid]
    /\ reply[u] \in {400, 422} => ~Present(SavedPath(u))

(***************************************************************************)
(* The receiver releases a session by itself only after each of its        *)
(* non-empty files has been received in full by an upload of that session, *)
(* although the flags it looks at are set and cleared by all uploads and   *)
(* read without a lock over the decision (server.go:426-428).              *)
(***************************************************************************)
FullyReceived(s, f) ==
  \E u \in DOMAIN job :
    job[u].sid = s /\ MetaId[job[u].fid] = f /\ job[u].written >= Size[f]

ReleaseEarned ==
  \A u \in DOMAIN job : pc[u] \in {"release", "cancelctx"} =>
    \A f \in sess[job[u].sid].files : Size[f] = 0 \/ FullyReceived(job[u].sid, f)

----------------------------------------------------------------------------
(***************************************************************************)
(* Once its session is canceled, an upload that is not waiting for its     *)
(* sender is answered, whatever the sender does next: it never waits for   *)
(* the sender again (server.go:356-362).                                   *)
(***************************************************************************)
CanceledUploadEnds ==
  \A u \in Upload :
    (u \in DOMAIN job /\ sess[job[u].sid].canceled /\ pc[u] # "read")
      ~> pc[u] = "replied"

(***************************************************************************)
(* A session that left the table is eventually canceled, by whichever      *)
(* goroutine took it out, so that its other uploads can notice.            *)
(***************************************************************************)
DeletedIsCanceled ==
  \A s \in SessionId :
    (s \in created /\ s \notin registered)
      ~> (s \in created /\ sess[s].canceled)

(***************************************************************************)
(* A prepare request reaches the user, or an answer, without the help of   *)
(* any other request (server.go:261-270).                                  *)
(***************************************************************************)
PrepareDecided ==
  \A p \in Prepare : pc[p] \in {"stat", "busy"} ~> pc[p] \in {"ask", "replied"}

----------------------------------------------------------------------------
(***************************************************************************)
(* Claims of the documentation that the code breaks.                       *)
(***************************************************************************)

(***************************************************************************)
(* docs/protocol_spec.md:197, "409: Transfer blocked by another active     *)
(* session": at most one session is active.  Two prepare requests pass     *)
(* IsBusy before either creates its session.                               *)
(***************************************************************************)
AtMostOneActive ==
  \A s, t \in registered : Busy(s) /\ Busy(t) => s = t

(***************************************************************************)
(* server.go:456, "a unique path in the save directory that does not       *)
(* conflict": every file answered 200 is on disk as received.  Two uploads *)
(* find the same name free before either creates it.                       *)
(***************************************************************************)
StoredIntact ==
  \A u \in DOMAIN job : reply[u] = 200 =>
    Present(SavedPath(u)) /\ data[dir[SavedPath(u)]] = Received(u)

(***************************************************************************)
(* server.go:425, "Release the session if transfer for all files in the    *)
(* session is completed": a session is released by an upload only when     *)
(* every accepted file has been transferred.  An empty file counts as      *)
(* completed before it is transferred.                                     *)
(***************************************************************************)
Transferred(s, f) ==
  \E u \in DOMAIN job :
    /\ job[u].sid = s /\ job[u].fid = f
    /\ pc[u] \in {"finish", "release", "cancelctx", "replied"}

ReleasedWhenAllTransferred ==
  \A u \in DOMAIN job : pc[u] = "release" =>
    \A f \in sess[job[u].sid].files : Transferred(job[u].sid, f)

=============================================================================
