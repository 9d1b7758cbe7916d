--------------------------- MODULE SessionManager --------------------------
(***************************************************************************)
(* The session table of the receiver and its background cleanup loop:      *)
(* SessionManager in src/pkg/session/session.go.                           *)
(*                                                                         *)
(* Two kinds of goroutines act on the table.  HTTP handlers create         *)
(* sessions, look them up, record progress and delete them; the cleanup    *)
(* loop walks the table at every tick of its clock and deletes what has    *)
(* been idle for longer than the timeout.  The table is a sync.Map and     *)
(* every session has a mutex of its own, so only single operations are     *)
(* atomic: a deletion takes the entry out of the map in one step and       *)
(* cancels the session's context in another, and the cleanup loop reads    *)
(* lastAccess, drops the lock, and deletes afterwards.                     *)
(*                                                                         *)
(* A session object outlives its entry: a handler that looked it up keeps  *)
(* the pointer.  sess is the heap of the sessions created so far,          *)
(* registered the keys present in the map.                                 *)
(***************************************************************************)
EXTENDS UploadSession

CONSTANTS
  SessionId,  \* the session ids (UUIDs) there are to draw
  Timeout,    \* session timeout
  MaxBytes,   \* bound on the bytes one request carries
  MaxTime     \* bound on the clock

ASSUME BoundsAssumption ==
  Timeout \in Nat /\ MaxTime \in Nat /\ MaxBytes \in Nat

VARIABLES
  now,         \* the clock
  sess,        \* the sessions created so far: a function on their ids
  registered,  \* the ids in the map
  closing,     \* taken out of the map by a handler that has yet to cancel
  sweep,       \* the cleanup loop
  running      \* the manager's context is not canceled

smVars == <<now, sess, registered, closing, sweep, running>>

created == DOMAIN sess

(***************************************************************************)
(* The cleanup loop: where it is, the time it read at the last tick, the   *)
(* ids Range has yet to visit, and the id found expired, if any.  Range is *)
(* modelled by the ids present when it begins: a session stored meanwhile  *)
(* is never expired at the time the loop read before, and an id deleted    *)
(* meanwhile makes LoadAndDelete fail, so visiting either changes nothing. *)
(***************************************************************************)
Sweep == [pc : {"wait", "scan", "delete", "cancel", "exited"}, at : Nat,
          todo : SUBSET SessionId, due : SUBSET SessionId]

Waiting == [pc |-> "wait", at |-> 0, todo |-> {}, due |-> {}]

TypeOK ==
  /\ now \in Nat
  /\ sess \in [created -> Session]
  /\ created \subseteq SessionId
  /\ registered \subseteq created
  /\ closing \subseteq created
  /\ sweep \in Sweep
  /\ sweep.todo \cup sweep.due \subseteq created
  /\ running \in BOOLEAN

(***************************************************************************)
(* The two readings of the timeout: a session makes the receiver busy      *)
(* while it has been idle for less than the timeout, and is expired for    *)
(* the cleanup loop when it has been idle for more.                        *)
(***************************************************************************)
Busy(s) == now < sess[s].lastAccess + Timeout

ExpiredAt(s, t) == t > sess[s].lastAccess + Timeout

----------------------------------------------------------------------------
SMInit ==
  /\ now = 0
  /\ sess = [s \in {} |-> s]
  /\ registered = {}
  /\ closing = {}
  /\ sweep = Waiting
  /\ running = TRUE

(* Time passes; MaxTime bounds the model.                                  *)
Tick ==
  /\ now < MaxTime
  /\ now' = now + 1
  /\ UNCHANGED <<sess, registered, closing, sweep, running>>

(***************************************************************************)
(* A handler's calls.  CreateSession draws an id never used before.        *)
(***************************************************************************)
CreateSession(s, ip, verified, files) ==
  /\ s \notin created
  /\ sess' = [x \in created \cup {s} |->
                IF x = s THEN NewUploadSession(ip, verified, files, now)
                         ELSE sess[x]]
  /\ registered' = registered \cup {s}
  /\ UNCHANGED <<now, closing, sweep, running>>

(***************************************************************************)
(* Load and Touch.  An expired session the cleanup loop has not met yet is *)
(* returned, and is fresh again.  A deletion between the two calls leaves  *)
(* what a deletion after them leaves, so they are one step.                *)
(***************************************************************************)
GetSession(s) ==
  /\ s \in registered
  /\ sess' = [sess EXCEPT ![s] = Touch(@, now)]
  /\ UNCHANGED <<now, registered, closing, sweep, running>>

(* UpdateProgress through the pointer a handler kept: no lookup.           *)
RecordProgress(s, f, bytes) ==
  /\ s \in created
  /\ sess' = [sess EXCEPT ![s] = UpdateProgress(@, f, bytes, now)]
  /\ UNCHANGED <<now, registered, closing, sweep, running>>

(* Mutant of LoadAndDelete: whether the entry was there is not looked at.  *)
DeleteUnchecked(s) ==
  /\ registered' = registered \ {s}
  /\ closing' = closing \cup {s}
  /\ UNCHANGED <<now, sess, sweep, running>>

(* Mutant of LoadAndDelete: the context is canceled before the entry goes. *)
CancelBeforeDelete(s) ==
  /\ s \in registered
  /\ sess' = [sess EXCEPT ![s] = Cancel(@)]
  /\ closing' = closing \cup {s}
  /\ UNCHANGED <<now, registered, sweep, running>>

(* DeleteSession: the entry leaves the map, then the context is canceled.  *)
LoadAndDelete(s) ==
  /\ s \in registered
  /\ registered' = registered \ {s}
  /\ closing' = closing \cup {s}
  /\ UNCHANGED <<now, sess, sweep, running>>

CancelDeleted(s) ==
  /\ s \in closing
  /\ closing' = closing \ {s}
  /\ sess' = [sess EXCEPT ![s] = Cancel(@)]
  /\ UNCHANGED <<now, registered, sweep, running>>

Close ==
  /\ running
  /\ running' = FALSE
  /\ UNCHANGED <<now, sess, registered, closing, sweep>>

----------------------------------------------------------------------------
(***************************************************************************)
(* The cleanup loop.  When both the tick and the end of the manager's      *)
(* context are ready, select picks either: a tick is possible after Close. *)
(***************************************************************************)
SweepTick ==
  /\ sweep.pc = "wait"
  /\ sweep' = [pc |-> "scan", at |-> now, todo |-> registered, due |-> {}]
  /\ UNCHANGED <<now, sess, registered, closing, running>>

(* Mutant of SweepVisit: a session idle for exactly the timeout is due.    *)
SweepVisitEarly(s) ==
  /\ sweep.pc = "scan"
  /\ s \in sweep.todo
  /\ sweep' = IF sweep.at >= sess[s].lastAccess + Timeout
              THEN [sweep EXCEPT !.pc = "delete", !.todo = @ \ {s},
                                 !.due = {s}]
              ELSE [sweep EXCEPT !.todo = @ \ {s}]
  /\ UNCHANGED <<now, sess, registered, closing, running>>

(* One visit of Range: lastAccess is read under the lock and compared      *)
(* with the time of the tick after the lock is dropped.                    *)
SweepVisit(s) ==
  /\ sweep.pc = "scan"
  /\ s \in sweep.todo
  /\ sweep' = IF ExpiredAt(s, sweep.at)
              THEN [sweep EXCEPT !.pc = "delete", !.todo = @ \ {s},
                                 !.due = {s}]
              ELSE [sweep EXCEPT !.todo = @ \ {s}]
  /\ UNCHANGED <<now, sess, registered, closing, running>>

(* Mutant of SweepDelete: Delete in place of LoadAndDelete.                *)
SweepDeleteUnconditionally ==
  /\ sweep.pc = "delete"
  /\ sweep' = [sweep EXCEPT !.pc = "cancel"]
  /\ registered' = registered \ sweep.due
  /\ UNCHANGED <<now, sess, closing, running>>

(* LoadAndDelete: only the goroutine that finds the entry goes on to       *)
(* cancel.                                                                 *)
SweepDelete ==
  /\ sweep.pc = "delete"
  /\ IF sweep.due \subseteq registered
     THEN sweep' = [sweep EXCEPT !.pc = "cancel"]
     ELSE sweep' = [sweep EXCEPT !.pc = "scan", !.due = {}]
  /\ registered' = registered \ sweep.due
  /\ UNCHANGED <<now, sess, closing, running>>

SweepCancel ==
  /\ sweep.pc = "cancel"
  /\ sess' = [s \in created |->
                IF s \in sweep.due THEN Cancel(sess[s]) ELSE sess[s]]
  /\ sweep' = [sweep EXCEPT !.pc = "scan", !.due = {}]
  /\ UNCHANGED <<now, registered, closing, running>>

(* Mutant of SweepEnd: the loop returns after one walk.                    *)
SweepOnce ==
  /\ sweep.pc = "scan"
  /\ sweep.todo = {}
  /\ sweep' = [Waiting EXCEPT !.pc = "exited"]
  /\ UNCHANGED <<now, sess, registered, closing, running>>

SweepEnd ==
  /\ sweep.pc = "scan"
  /\ sweep.todo = {}
  /\ sweep' = Waiting
  /\ UNCHANGED <<now, sess, registered, closing, running>>

SweepExit ==
  /\ sweep.pc = "wait"
  /\ ~running
  /\ sweep' = [sweep EXCEPT !.pc = "exited"]
  /\ UNCHANGED <<now, sess, registered, closing, running>>

SweepStep ==
  \/ SweepTick
  \/ \E s \in SessionId : SweepVisit(s)
  \/ SweepDelete
  \/ SweepCancel
  \/ SweepEnd
  \/ SweepExit

(***************************************************************************)
(* The manager under any handlers whatever: the calls come in any order    *)
(* and with any argument.                                                  *)
(***************************************************************************)
SMNext ==
  \/ Tick
  \/ \E s \in SessionId, ip \in Host, v \in BOOLEAN, fs \in SUBSET FileId :
       CreateSession(s, ip, v, fs)
  \/ \E s \in SessionId : GetSession(s)
  \/ \E s \in SessionId, f \in FileId \cup {NoId}, n \in 0..MaxBytes :
       RecordProgress(s, f, n)
  \/ \E s \in SessionId : LoadAndDelete(s) \/ CancelDeleted(s)
  \/ Close
  \/ SweepStep

SMSafety == SMInit /\ [][SMNext]_smVars

(* The scheduler runs the cleanup goroutine, and its ticker ticks.         *)
SMSpec == SMSafety /\ WF_smVars(SweepStep)

----------------------------------------------------------------------------
(***************************************************************************)
(* Every session the map has lost is canceled, or is about to be by one    *)
(* goroutine and no other: handlers and the cleanup loop race to delete it *)
(* and a session nobody cancels would keep its uploads running for ever    *)
(* (DeleteSession and startCleanupLoop, session.go:161-167, 204-207).      *)
(***************************************************************************)
Sweeping(s) == sweep.pc = "cancel" /\ s \in sweep.due

Tracked ==
  \A s \in created :
    /\ s \in registered => ~(s \in closing \/ Sweeping(s) \/ sess[s].canceled)
    /\ s \notin registered => s \in closing \/ Sweeping(s) \/ sess[s].canceled
    /\ ~(s \in closing /\ Sweeping(s))
    /\ s \in closing \/ Sweeping(s) => ~sess[s].canceled

(***************************************************************************)
(* The completed flags tell the progress map: whatever order the counts of *)
(* several uploads of one file arrive in, a file is flagged exactly when   *)
(* the last count recorded for it reaches its size (session.go:86-98), so  *)
(* IsCompleted means that every accepted file has been counted in full.    *)
(***************************************************************************)
CompletedMatchesProgress ==
  \A s \in created :
    sess[s].completed = {f \in sess[s].files : sess[s].progress[f] >= Size[f]}

(***************************************************************************)
(* The cleanup loop takes a session only if it had been idle for longer    *)
(* than the timeout at the tick, or was used again after the tick: the     *)
(* one race it leaves open (session.go:197-205).                           *)
(***************************************************************************)
SweepSparesRecentlyUsed ==
  [][\A s \in registered \ registered' :
       s \in closing' \/ ExpiredAt(s, sweep.at) \/ sess[s].lastAccess >= sweep.at
    ]_smVars

(***************************************************************************)
(* A session its sender has abandoned leaves the map while the manager     *)
(* runs, and with it the receiver stops being kept in memory by it: an     *)
(* expired session is released, used again, or the manager is closed.      *)
(***************************************************************************)
AbandonedReleased ==
  \A s \in SessionId :
    (s \in registered /\ ExpiredAt(s, now))
      ~> (s \notin registered \/ ~ExpiredAt(s, now) \/ ~running)

(***************************************************************************)
(* Where a session is in its life, and what it was opened for.             *)
(***************************************************************************)
Stage ==
  [s \in SessionId |->
     IF s \notin created THEN "unused"
     ELSE IF sess[s].canceled THEN "canceled"
     ELSE IF s \in registered THEN "open" ELSE "ended"]

TermsOf(session) ==
  [ip |-> session.ip, verified |-> session.verified, files |-> session.files]

Life == INSTANCE SessionLife WITH
  Id <- SessionId,
  Terms <- [ip : Host, verified : BOOLEAN, files : SUBSET FileId],
  stage <- Stage,
  terms <- [s \in SessionId |->
              IF s \in created THEN TermsOf(sess[s]) ELSE "no terms"]

(***************************************************************************)
(* The table keeps what SessionLife promises, whatever order handlers and  *)
(* the cleanup loop look up, delete and cancel in: no session is ended or  *)
(* canceled twice, comes back, or changes its terms (session.go:142-167,   *)
(* 187-213).                                                               *)
(***************************************************************************)
ImplementsSessionLife == Life!LifeSpec

=============================================================================
