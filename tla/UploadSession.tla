--------------------------- MODULE UploadSession ---------------------------
(***************************************************************************)
(* The data of one transfer session: struct UploadSession and its methods  *)
(* in src/pkg/session/session.go.  Every method holds the session's mutex  *)
(* for its whole body (or reads one immutable field), so each is one       *)
(* operator on the session's record.  The module has no state of its own:  *)
(* SessionManager keeps the records.                                       *)
(*                                                                         *)
(* A file's size and the bytes received for it are counted in the chunks   *)
(* one body.Read returns; a token is identified with the (session, file)   *)
(* pair it was drawn for (a fresh UUID, session.go:35).                    *)
(***************************************************************************)
EXTENDS Naturals, FiniteSets

CONSTANTS
  FileId,   \* the keys of the files map of a prepare-upload request
  Size,     \* the declared size of every file
  Host      \* the addresses requests come from

(* The id in the metadata of a file whose sender left the field out.       *)
NoId == ""

ASSUME FileIdAssumption == IsFiniteSet(FileId)
ASSUME SizeAssumption == Size \in [FileId -> Nat]

(***************************************************************************)
(* The fields the handlers read or write.  progress is total on FileId:    *)
(* outside files, where the code has no map entry, it stays 0.             *)
(***************************************************************************)
Session ==
  [ip : Host, verified : BOOLEAN, lastAccess : Nat, files : SUBSET FileId,
   progress : [FileId -> Nat], completed : SUBSET FileId, canceled : BOOLEAN]

(***************************************************************************)
(* A session offered by ip for the accepted files at time t.  A file of    *)
(* size 0 counts as completed from the start.                              *)
(***************************************************************************)
NewUploadSession(ip, verified, files, t) ==
  [ip |-> ip, verified |-> verified, lastAccess |-> t, files |-> files,
   progress |-> [f \in FileId |-> 0],
   completed |-> {f \in files : Size[f] = 0},
   canceled |-> FALSE]

Touch(session, t) == [session EXCEPT !.lastAccess = t]

Cancel(session) == [session EXCEPT !.canceled = TRUE]

(* Mutant of UpdateProgress: a short count leaves the flag set.            *)
UpdateProgressKeepsFlag(session, f, bytes, t) ==
  IF f \in session.files
  THEN [session EXCEPT
          !.lastAccess = t,
          !.progress = [@ EXCEPT ![f] = bytes],
          !.completed = IF bytes >= Size[f] THEN @ \cup {f} ELSE @]
  ELSE Touch(session, t)

(***************************************************************************)
(* The completed flag follows the byte count in both directions: a count   *)
(* below the size clears it.  An id the session does not hold only renews  *)
(* the last access.                                                        *)
(***************************************************************************)
UpdateProgress(session, f, bytes, t) ==
  IF f \in session.files
  THEN [session EXCEPT
          !.lastAccess = t,
          !.progress = [@ EXCEPT ![f] = bytes],
          !.completed = IF bytes >= Size[f] THEN @ \cup {f} ELSE @ \ {f}]
  ELSE Touch(session, t)

(* Mutant of IsCompleted: one completed file is enough.                    *)
IsStarted(session) == session.completed # {}

(* All files done: the code compares the sizes of the two maps.            *)
IsCompleted(session) ==
  Cardinality(session.completed) = Cardinality(session.files)

=============================================================================
