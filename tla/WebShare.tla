------------------------------ MODULE WebShare ------------------------------
(***************************************************************************)
(* Sharing files with browsers: StartDownloadServer, StopDownloadServer    *)
(* and the three handlers of the download server, in                       *)
(* src/pkg/server/server.go:474-735.                                       *)
(*                                                                         *)
(* The server's fields downloadServer, sharedFiles and downloadSession are *)
(* touched under downloadMu only, so a critical section that waits for     *)
(* nothing is one step, possible when the mutex is free.  Two sections     *)
(* wait while they hold it: StopDownloadServer, for the requests in        *)
(* progress to end or its context to, and handlePrepareDownload, for its   *)
(* visitor to take an answer too long for the connection's buffers (every  *)
(* answer is taken to be that long).                                       *)
(*                                                                         *)
(* A call of StartDownloadServer stands for the http.Server and the        *)
(* session UUID it makes.  A visit is one connection with one request.     *)
(***************************************************************************)
EXTENDS Naturals

CONSTANTS
  Starter,     \* calls of StartDownloadServer
  Stopper,     \* calls of StopDownloadServer
  Deadline,    \* the stoppers whose context ends
  Visit,       \* requests of browsers
  SharedFile,  \* the ids of the files
  Shares,      \* the files each starter is to share
  None         \* nil, no session, nobody

ASSUME WebShareAssumption ==
  /\ Shares \in [Starter -> SUBSET SharedFile]
  /\ Deadline \subseteq Stopper
  /\ Stopper \cap Visit = {}
  /\ Starter \cap Stopper = {}
  /\ None \notin Starter \cup Stopper \cup Visit

VARIABLES
  current,  \* downloadServer
  session,  \* downloadSession
  files,    \* sharedFiles
  holder,   \* who waits with downloadMu held, None when it is free
  serve,    \* each server's listener and its Serve goroutine
  shut,     \* the servers whose Shutdown has been called
  call,     \* where each call of Start and Stop is
  vpc,      \* the step each visit is at
  request,  \* what the visits that arrived ask for, and of which server
  seen,     \* the session and files a visit has read under the mutex
  status    \* what each visit was answered

shareVars == <<current, session, files>>
serverVars == <<shareVars, holder, serve, shut, call>>
visitVars == <<vpc, request, seen, status>>
webVars == <<serverVars, visitVars>>

Caller == Starter \cup Stopper

(***************************************************************************)
(* "bound": the port is open, Serve has not run yet.  "closed": the port   *)
(* is released.                                                            *)
(***************************************************************************)
ServePhase == {"none", "bound", "serving", "closed"}

Kind == {"page", "list", "file"}

Request ==
  [on : Starter, kind : Kind, sid : Starter \cup {None}, fid : SharedFile,
   pin : BOOLEAN]

Share == [session : Starter \cup {None}, files : SUBSET SharedFile]

Status == {0, 200, 303, 401, 403, 404, 405, 500}

WebTypeOK ==
  /\ current \in Starter \cup {None}
  /\ session \in Starter \cup {None}
  /\ files \in SUBSET SharedFile
  /\ holder \in Stopper \cup Visit \cup {None}
  /\ serve \in [Starter -> ServePhase]
  /\ shut \in SUBSET Starter
  /\ call \in [Caller -> {"idle", "called", "draining", "returned", "failed"}]
  /\ vpc \in [Visit -> {"idle", "look", "write", "open", "copy", "done"}]
  /\ request \in [DOMAIN request -> Request]
  /\ seen \in [DOMAIN seen -> Share]
  /\ status \in [Visit -> Status]
  /\ DOMAIN request = {v \in Visit : vpc[v] # "idle"}
  /\ \A v \in Visit : vpc[v] \in {"write", "open", "copy"} => v \in DOMAIN seen
  /\ DOMAIN seen \subseteq DOMAIN request
  /\ \A c \in Stopper : holder = c <=> call[c] = "draining"
  /\ \A v \in Visit : holder = v => vpc[v] = "write"

----------------------------------------------------------------------------
WebInit ==
  /\ current = None
  /\ session = None
  /\ files = {}
  /\ holder = None
  /\ serve = [a \in Starter |-> "none"]
  /\ shut = {}
  /\ call = [c \in Caller |-> "idle"]
  /\ vpc = [v \in Visit |-> "idle"]
  /\ request = [v \in {} |-> v]
  /\ seen = [v \in {} |-> v]
  /\ status = [v \in Visit |-> 0]

Call(c) ==
  /\ call[c] = "idle"
  /\ call' = [call EXCEPT ![c] = "called"]
  /\ UNCHANGED <<shareVars, holder, serve, shut, visitVars>>

Return(c, how) == call' = [call EXCEPT ![c] = how]

(***************************************************************************)
(* StartDownloadServer.  The files and the session are set before the port *)
(* is opened, and stay when that fails.                                    *)
(***************************************************************************)
StartRefused(a) ==
  /\ call[a] = "called"
  /\ holder = None
  /\ current # None
  /\ Return(a, "failed")
  /\ UNCHANGED <<shareVars, holder, serve, shut, visitVars>>

Publish(a) ==
  /\ call[a] = "called"
  /\ holder = None
  /\ current = None
  /\ files' = Shares[a]
  /\ session' = a

StartListens(a) ==
  /\ Publish(a)
  /\ current' = a
  /\ serve' = [serve EXCEPT ![a] = "bound"]
  /\ Return(a, "returned")
  /\ UNCHANGED <<holder, shut, visitVars>>

StartListenFails(a) ==
  /\ Publish(a)
  /\ Return(a, "failed")
  /\ UNCHANGED <<current, holder, serve, shut, visitVars>>

(***************************************************************************)
(* The goroutine that serves.  A server that was shut down before its      *)
(* Serve began closes the listener at once.                                *)
(***************************************************************************)
ServeBegin(a) ==
  /\ serve[a] = "bound"
  /\ serve' = [serve EXCEPT ![a] = IF a \in shut THEN "closed" ELSE "serving"]
  /\ UNCHANGED <<shareVars, holder, shut, call, visitVars>>

(***************************************************************************)
(* StopDownloadServer.  Shutdown closes the listener Serve runs on, then   *)
(* waits for the requests in progress, at most as long as the context.     *)
(***************************************************************************)
StopNothing(c) ==
  /\ call[c] = "called"
  /\ holder = None
  /\ current = None
  /\ Return(c, "returned")
  /\ UNCHANGED <<shareVars, holder, serve, shut, visitVars>>

(* Mutant of StopBegin: the server is forgotten without a Shutdown.        *)
StopForgets(c) ==
  /\ call[c] = "called"
  /\ holder = None
  /\ current # None
  /\ current' = None /\ files' = {} /\ session' = None
  /\ Return(c, "returned")
  /\ UNCHANGED <<holder, serve, shut, visitVars>>

StopBegin(c) ==
  /\ call[c] = "called"
  /\ holder = None
  /\ current # None
  /\ holder' = c
  /\ shut' = shut \cup {current}
  /\ serve' = [serve EXCEPT ![current] = IF @ = "serving" THEN "closed" ELSE @]
  /\ Return(c, "draining")
  /\ UNCHANGED <<shareVars, visitVars>>

Active(a) == {v \in DOMAIN request : request[v].on = a /\ vpc[v] # "done"}

(* Mutant of StopEnd: a return without an unlock.                          *)
StopEndLocked(c) ==
  /\ call[c] = "draining"
  /\ Active(current) = {} \/ c \in Deadline
  /\ current' = None
  /\ files' = {}
  /\ session' = None
  /\ Return(c, "returned")
  /\ UNCHANGED <<holder, serve, shut, visitVars>>

StopEnd(c) ==
  /\ call[c] = "draining"
  /\ Active(current) = {} \/ c \in Deadline
  /\ current' = None
  /\ files' = {}
  /\ session' = None
  /\ holder' = None
  /\ Return(c, "returned")
  /\ UNCHANGED <<serve, shut, visitVars>>

----------------------------------------------------------------------------
(***************************************************************************)
(* The handlers.  handleWebUI and handleDownload look at method and PIN    *)
(* before they lock; handlePrepareDownload at the PIN afterwards.  Only    *)
(* handleDownload reads a session from its request.                        *)
(***************************************************************************)
Arrived(v, a, kind, sid, fid, pin) ==
  /\ vpc[v] = "idle"
  /\ kind # "file" => sid = None
  /\ serve[a] = "serving"
  /\ request' = [w \in DOMAIN request \cup {v} |->
                   IF w = v THEN [on |-> a, kind |-> kind, sid |-> sid,
                                  fid |-> fid, pin |-> pin]
                            ELSE request[w]]
  /\ UNCHANGED <<serverVars, seen>>

Done(v, code) ==
  /\ vpc' = [vpc EXCEPT ![v] = "done"]
  /\ status' = [status EXCEPT ![v] = code]

Goto(v, step) == vpc' = [vpc EXCEPT ![v] = step] /\ UNCHANGED status

VisitArrive(v, a, kind, sid, fid, pin) ==
  /\ Arrived(v, a, kind, sid, fid, pin)
  /\ pin \/ kind = "list"
  /\ Goto(v, "look")

(* The PIN form or the redirection after it, 401, and the wrong paths and  *)
(* methods.                                                                *)
VisitRefused(v, a, kind, sid, fid, pin) ==
  /\ Arrived(v, a, kind, sid, fid, pin)
  /\ \/ kind = "page" /\ ~pin /\ Done(v, 200)
     \/ kind = "page" /\ (Done(v, 303) \/ Done(v, 404))
     \/ kind = "file" /\ ~pin /\ Done(v, 401)
     \/ kind = "file" /\ Done(v, 405)

Look(v, kind) ==
  /\ vpc[v] = "look"
  /\ request[v].kind = kind
  /\ holder = None
  /\ UNCHANGED <<shareVars, serve, shut, call, request>>

See(v) ==
  seen' = [w \in DOMAIN seen \cup {v} |->
             IF w = v THEN [session |-> session, files |-> files] ELSE seen[w]]

PageLook(v) ==
  /\ Look(v, "page")
  /\ See(v)
  /\ Goto(v, "write")
  /\ UNCHANGED holder

ListNothing(v) ==
  /\ Look(v, "list")
  /\ session = None
  /\ Done(v, 404)
  /\ UNCHANGED <<holder, seen>>

ListUnauthorized(v) ==
  /\ Look(v, "list")
  /\ session # None
  /\ ~request[v].pin
  /\ Done(v, 401)
  /\ UNCHANGED <<holder, seen>>

(* The answer is written with the mutex held.                              *)
ListLook(v) ==
  /\ Look(v, "list")
  /\ session # None
  /\ request[v].pin
  /\ See(v)
  /\ holder' = v
  /\ Goto(v, "write")

FileForbidden(v) ==
  /\ Look(v, "file")
  /\ session = None \/ request[v].sid # session
  /\ Done(v, 403)
  /\ UNCHANGED <<holder, seen>>

FileUnknown(v) ==
  /\ Look(v, "file")
  /\ session # None /\ request[v].sid = session
  /\ request[v].fid \notin files
  /\ Done(v, 404)
  /\ UNCHANGED <<holder, seen>>

(* Mutant of FileLook: any session will do.                                *)
FileLookAnySession(v) ==
  /\ Look(v, "file")
  /\ session # None
  /\ request[v].fid \in files
  /\ See(v)
  /\ Goto(v, "open")
  /\ UNCHANGED holder

FileLook(v) ==
  /\ Look(v, "file")
  /\ session # None /\ request[v].sid = session
  /\ request[v].fid \in files
  /\ See(v)
  /\ Goto(v, "open")
  /\ UNCHANGED holder

(* The file is opened after the mutex is released.                         *)
FileOpen(v) ==
  /\ vpc[v] = "open"
  /\ Goto(v, "copy") \/ Done(v, 500)
  /\ UNCHANGED <<serverVars, request, seen>>

(* The visitor has taken the page, the list or the file, or is gone.       *)
VisitorTakes(v) ==
  /\ vpc[v] \in {"write", "copy"}
  /\ Done(v, 200)
  /\ holder' = IF holder = v THEN None ELSE holder
  /\ UNCHANGED <<shareVars, serve, shut, call, request, seen>>

----------------------------------------------------------------------------
StartRun(a) == StartRefused(a) \/ StartListens(a) \/ StartListenFails(a)

StopRun(c) == StopNothing(c) \/ StopBegin(c) \/ StopEnd(c)

VisitRun(v) ==
  \/ PageLook(v)
  \/ ListNothing(v) \/ ListUnauthorized(v) \/ ListLook(v)
  \/ FileForbidden(v) \/ FileUnknown(v) \/ FileLook(v)
  \/ FileOpen(v)

VisitArrives(v) ==
  \E a \in Starter, kind \in Kind, sid \in Starter \cup {None}, fid \in SharedFile,
     pin \in BOOLEAN :
    VisitArrive(v, a, kind, sid, fid, pin) \/ VisitRefused(v, a, kind, sid, fid, pin)

WebNext ==
  \/ \E c \in Caller : Call(c)
  \/ \E a \in Starter : StartRun(a) \/ ServeBegin(a)
  \/ \E c \in Stopper : StopRun(c)
  \/ \E v \in Visit : VisitArrives(v) \/ VisitRun(v) \/ VisitorTakes(v)

(***************************************************************************)
(* Goroutines that can run do, and a context that ends does.  Nothing      *)
(* makes a visitor take what it is sent.                                   *)
(***************************************************************************)
WebFairness ==
  /\ \A a \in Starter : WF_webVars(StartRun(a)) /\ WF_webVars(ServeBegin(a))
  /\ \A c \in Stopper : WF_webVars(StopRun(c))
  /\ \A v \in Visit : WF_webVars(VisitRun(v))

WebSpec == WebInit /\ [][WebNext]_webVars /\ WebFairness

(* Visitors that take their answers, all of them.                          *)
PoliteSpec == WebSpec /\ \A v \in Visit : WF_webVars(VisitorTakes(v))

----------------------------------------------------------------------------
(***************************************************************************)
(* What a visitor is shown or sent is one share: the session and the files *)
(* of one call of StartDownloadServer, although starts that fail, stops    *)
(* whose context ends, and visits of earlier servers mix; and a file goes  *)
(* only to a visit that names the session it is shared under               *)
(* (server.go:561-565, 635-655, 698-716).                                  *)
(***************************************************************************)
SeenIsOneShare ==
  \A v \in DOMAIN seen :
    /\ seen[v].files = IF seen[v].session = None THEN {} ELSE Shares[seen[v].session]
    /\ request[v].kind = "file" =>
         request[v].sid # None /\ request[v].fid \in Shares[request[v].sid]

(***************************************************************************)
(* A server that is not the current one any more has its port closed in    *)
(* the end, even when it is stopped before its Serve goroutine has run     *)
(* (server.go:497-503, 515).                                               *)
(***************************************************************************)
PortReleased ==
  \A a \in Starter :
    (serve[a] # "none" /\ current # a) ~> serve[a] = "closed"

(***************************************************************************)
(* Unless a visitor leaves the answer to prepare-download untaken for      *)
(* ever, or a stop without a deadline waits for ever, a stop whose context *)
(* ends returns, and every visit gets the mutex (server.go:510-520,        *)
(* 632-634).                                                               *)
(***************************************************************************)
NobodyLockedOut ==
  []<>(holder \notin Visit \cup (Stopper \ Deadline)) =>
    /\ \A c \in Deadline : call[c] = "called" ~> call[c] = "returned"
    /\ \A v \in Visit : vpc[v] = "look" ~> vpc[v] # "look"

----------------------------------------------------------------------------
(***************************************************************************)
(* A claim the code breaks.                                                *)
(***************************************************************************)

(***************************************************************************)
(* server.go:509, "StopDownloadServer gracefully stops the browser sharing *)
(* server": with visitors that take their answers it returns.  It waits    *)
(* for handlers with the mutex held that they wait for.                    *)
(***************************************************************************)
StopReturns ==
  \A c \in Stopper : call[c] = "called" ~> call[c] = "returned"

=============================================================================
