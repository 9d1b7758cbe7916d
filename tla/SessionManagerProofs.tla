------------------------ MODULE SessionManagerProofs ------------------------
(***************************************************************************)
(* What SessionManager guarantees for any number of sessions and files,    *)
(* any timeout and any callers, proved with TLAPS.  The theorems assume    *)
(* SMSafety, the part of SMSpec without fairness, because that is what the *)
(* upload server implements.                                               *)
(***************************************************************************)
EXTENDS SessionManager, TLAPS

(***************************************************************************)
(* Every way of making or changing a session's record makes a session, and *)
(* keeps its completed flags in step with its progress.                    *)
(***************************************************************************)
FlagsMatch(session) ==
  session.completed = {f \in session.files : session.progress[f] >= Size[f]}

LEMMA NewSessionSound ==
  ASSUME NEW ip \in Host, NEW v \in BOOLEAN, NEW fs \in SUBSET FileId,
         NEW t \in Nat
  PROVE  /\ NewUploadSession(ip, v, fs, t) \in Session
         /\ FlagsMatch(NewUploadSession(ip, v, fs, t))
         /\ ~NewUploadSession(ip, v, fs, t).canceled
         /\ NewUploadSession(ip, v, fs, t).lastAccess = t
BY SizeAssumption DEF NewUploadSession, Session, FlagsMatch

LEMMA TouchSound ==
  ASSUME NEW r \in Session, NEW t \in Nat
  PROVE  /\ Touch(r, t) \in Session
         /\ FlagsMatch(r) => FlagsMatch(Touch(r, t))
         /\ Touch(r, t).canceled = r.canceled
         /\ Touch(r, t).lastAccess = t
BY DEF Touch, Session, FlagsMatch

LEMMA CancelSound ==
  ASSUME NEW r \in Session
  PROVE  /\ Cancel(r) \in Session
         /\ FlagsMatch(r) => FlagsMatch(Cancel(r))
         /\ Cancel(r).canceled
         /\ Cancel(r).lastAccess = r.lastAccess
BY DEF Cancel, Session, FlagsMatch

LEMMA UpdateProgressSound ==
  ASSUME NEW r \in Session, NEW f, NEW n \in Nat, NEW t \in Nat
  PROVE  /\ UpdateProgress(r, f, n, t) \in Session
         /\ FlagsMatch(r) => FlagsMatch(UpdateProgress(r, f, n, t))
         /\ UpdateProgress(r, f, n, t).canceled = r.canceled
         /\ UpdateProgress(r, f, n, t).lastAccess = t
<1>1. CASE f \notin r.files
  BY <1>1, TouchSound DEF UpdateProgress
<1>2. CASE f \in r.files
  <2> DEFINE u == UpdateProgress(r, f, n, t)
  <2>1. f \in FileId
    BY <1>2 DEF Session
  <2> DEFINE done == IF n >= Size[f] THEN r.completed \cup {f}
                                     ELSE r.completed \ {f}
             counts == [r.progress EXCEPT ![f] = n]
  <2>2. u = [r EXCEPT !.lastAccess = t, !.progress = counts, !.completed = done]
    BY <1>2 DEF UpdateProgress
  <2>. counts \in [FileId -> Nat] /\ done \in SUBSET FileId
    BY <2>1 DEF Session
  <2>. HIDE DEF u, counts, done
  <2>3. /\ u \in Session
        /\ u.files = r.files
        /\ u.progress = counts
        /\ u.completed = done
        /\ u.canceled = r.canceled
        /\ u.lastAccess = t
    BY <2>2 DEF Session
  <2>4. ASSUME FlagsMatch(r) PROVE FlagsMatch(u)
    <3>1. r.progress \in [FileId -> Nat] /\ r.files \subseteq FileId
      BY DEF Session
    <3>2. \A g \in r.files : u.progress[g] = IF g = f THEN n ELSE r.progress[g]
      BY <2>1, <2>3, <3>1 DEF counts
    <3>. QED
      BY <1>2, <2>3, <2>4, <3>2 DEF FlagsMatch, done
  <2>. QED
    BY <2>3, <2>4 DEF u
<1>. QED
  BY <1>1, <1>2

----------------------------------------------------------------------------
(* The fields of every session have their types.                           *)
THEOREM InitTypeOK == SMInit => TypeOK
BY BoundsAssumption DEF SMInit, TypeOK, created, Sweep, Waiting

THEOREM NextTypeOK ==
  ASSUME TypeOK, [SMNext]_smVars
  PROVE  TypeOK'
<1>. USE DEF TypeOK, created
<1>1. CASE Tick
  BY <1>1 DEF Tick
<1>2. ASSUME NEW s \in SessionId, NEW ip \in Host, NEW v \in BOOLEAN,
             NEW fs \in SUBSET FileId, CreateSession(s, ip, v, fs)
      PROVE  TypeOK'
  <2>1. NewUploadSession(ip, v, fs, now) \in Session
    BY NewSessionSound
  <2>. QED
    BY <1>2, <2>1 DEF CreateSession
<1>3. ASSUME NEW s \in SessionId, GetSession(s)
      PROVE  TypeOK'
  <2>1. sess[s] \in Session
    BY <1>3 DEF GetSession
  <2>2. Touch(sess[s], now) \in Session
    BY <2>1, TouchSound
  <2>. QED
    BY <1>3, <2>2 DEF GetSession
<1>4. ASSUME NEW s \in SessionId, NEW f \in FileId \cup {NoId},
             NEW n \in 0..MaxBytes, RecordProgress(s, f, n)
      PROVE  TypeOK'
  <2>1. sess[s] \in Session /\ n \in Nat
    BY <1>4, BoundsAssumption DEF RecordProgress
  <2>2. UpdateProgress(sess[s], f, n, now) \in Session
    BY <2>1, UpdateProgressSound
  <2>. QED
    BY <1>4, <2>2 DEF RecordProgress
<1>5. ASSUME NEW s \in SessionId, LoadAndDelete(s)
      PROVE  TypeOK'
  BY <1>5 DEF LoadAndDelete
<1>6. ASSUME NEW s \in SessionId, CancelDeleted(s)
      PROVE  TypeOK'
  <2>1. sess[s] \in Session
    BY <1>6 DEF CancelDeleted
  <2>2. Cancel(sess[s]) \in Session
    BY <2>1, CancelSound
  <2>. QED
    BY <1>6, <2>2 DEF CancelDeleted
<1>7. CASE Close
  BY <1>7 DEF Close
<1>8. CASE SweepTick
  BY <1>8 DEF SweepTick, Sweep
<1>9. ASSUME NEW s \in SessionId, SweepVisit(s)
      PROVE  TypeOK'
  BY <1>9 DEF SweepVisit, Sweep
<1>10. CASE SweepDelete
  BY <1>10 DEF SweepDelete, Sweep
<1>11. CASE SweepCancel
  <2>1. \A s \in created : Cancel(sess[s]) \in Session
    BY CancelSound
  <2>2. sess' \in [created -> Session]
    BY <1>11, <2>1 DEF SweepCancel
  <2>3. sweep' \in Sweep /\ sweep'.todo = sweep.todo /\ sweep'.due = {}
    BY <1>11 DEF SweepCancel, Sweep
  <2>. QED
    BY <1>11, <2>2, <2>3 DEF SweepCancel
<1>12. CASE SweepEnd
  BY <1>12 DEF SweepEnd, Sweep, Waiting
<1>13. CASE SweepExit
  BY <1>13 DEF SweepExit, Sweep
<1>14. CASE UNCHANGED smVars
  BY <1>14 DEF smVars
<1>. QED
  BY <1>1, <1>2, <1>3, <1>4, <1>5, <1>6, <1>7, <1>8, <1>9, <1>10, <1>11, <1>12,
     <1>13, <1>14 DEF SMNext, SweepStep

THEOREM TypeCorrect == SMSafety => []TypeOK
BY InitTypeOK, NextTypeOK, PTL DEF SMSafety

----------------------------------------------------------------------------
(***************************************************************************)
(* The invariant the other theorems rest on.  Tracked is inductive only    *)
(* with what the cleanup loop has in hand: at most one session, and that   *)
(* one only between finding it expired and canceling it.                   *)
(***************************************************************************)
SweepShape ==
  /\ sweep.pc \in {"wait", "scan", "exited"} => sweep.due = {}
  /\ sweep.pc \in {"delete", "cancel"} => \E s \in created : sweep.due = {s}
  /\ sweep.at <= now

(* The session about to be deleted was expired when it was visited, and    *)
(* has been used since the tick otherwise.                                 *)
DueWasExpired ==
  sweep.pc = "delete" =>
    \A s \in sweep.due : ExpiredAt(s, sweep.at) \/ sess[s].lastAccess >= sweep.at

IInv == TypeOK /\ SweepShape /\ Tracked /\ DueWasExpired /\ CompletedMatchesProgress

THEOREM InitIInv == SMInit => IInv
<1>1. SMInit => TypeOK
  BY InitTypeOK
<1>2. SMInit => SweepShape /\ DueWasExpired
  BY DEF SMInit, SweepShape, DueWasExpired, Waiting
<1>3. SMInit => Tracked /\ CompletedMatchesProgress
  BY DEF SMInit, Tracked, CompletedMatchesProgress, created
<1>. QED
  BY <1>1, <1>2, <1>3 DEF IInv

THEOREM NextSweepShape ==
  ASSUME TypeOK, SweepShape, [SMNext]_smVars
  PROVE  SweepShape'
<1>. USE DEF TypeOK, SweepShape, created
<1>1. CASE Tick
  BY <1>1 DEF Tick, Sweep
<1>2. ASSUME NEW s \in SessionId, NEW ip \in Host, NEW v \in BOOLEAN,
             NEW fs \in SUBSET FileId, CreateSession(s, ip, v, fs)
      PROVE  SweepShape'
  BY <1>2 DEF CreateSession
<1>3. ASSUME NEW s \in SessionId, GetSession(s)
      PROVE  SweepShape'
  BY <1>3 DEF GetSession
<1>4. ASSUME NEW s \in SessionId, NEW f \in FileId \cup {NoId},
             NEW n \in 0..MaxBytes, RecordProgress(s, f, n)
      PROVE  SweepShape'
  BY <1>4 DEF RecordProgress
<1>5. ASSUME NEW s \in SessionId, LoadAndDelete(s) \/ CancelDeleted(s)
      PROVE  SweepShape'
  BY <1>5 DEF LoadAndDelete, CancelDeleted
<1>6. CASE Close
  BY <1>6 DEF Close
<1>7. CASE SweepTick
  BY <1>7 DEF SweepTick
<1>8. ASSUME NEW s \in SessionId, SweepVisit(s)
      PROVE  SweepShape'
  BY <1>8 DEF SweepVisit, Sweep
<1>9. CASE SweepDelete
  BY <1>9 DEF SweepDelete, Sweep
<1>10. CASE SweepCancel
  BY <1>10 DEF SweepCancel, Sweep
<1>11. CASE SweepEnd
  BY <1>11 DEF SweepEnd, Waiting
<1>12. CASE SweepExit
  BY <1>12 DEF SweepExit, Sweep
<1>13. CASE UNCHANGED smVars
  BY <1>13 DEF smVars
<1>. QED
  BY <1>1, <1>2, <1>3, <1>4, <1>5, <1>6, <1>7, <1>8, <1>9, <1>10, <1>11, <1>12,
     <1>13 DEF SMNext, SweepStep

(***************************************************************************)
(* No step uncancels a session, and only the three kinds of step that take *)
(* a session in or out touch the flags Tracked is about.                   *)
(***************************************************************************)
THEOREM NextTracked ==
  ASSUME TypeOK, SweepShape, Tracked, [SMNext]_smVars
  PROVE  Tracked'
<1>. USE DEF TypeOK, Tracked, Sweeping, created
<1>1. CASE Tick
  BY <1>1 DEF Tick
<1>2. ASSUME NEW s \in SessionId, NEW ip \in Host, NEW v \in BOOLEAN,
             NEW fs \in SUBSET FileId, CreateSession(s, ip, v, fs)
      PROVE  Tracked'
  <2>1. ~NewUploadSession(ip, v, fs, now).canceled
    BY NewSessionSound
  <2>2. s \notin closing /\ s \notin sweep.due /\ s \notin created
    BY <1>2 DEF CreateSession
  <2>. QED
    BY <1>2, <2>1, <2>2 DEF CreateSession
<1>3. ASSUME NEW s \in SessionId, GetSession(s)
      PROVE  Tracked'
  <2>1. Touch(sess[s], now).canceled = sess[s].canceled
    BY <1>3, TouchSound DEF GetSession
  <2>. QED
    BY <1>3, <2>1 DEF GetSession
<1>4. ASSUME NEW s \in SessionId, NEW f \in FileId \cup {NoId},
             NEW n \in 0..MaxBytes, RecordProgress(s, f, n)
      PROVE  Tracked'
  <2>1. sess[s] \in Session /\ n \in Nat
    BY <1>4, BoundsAssumption DEF RecordProgress
  <2>2. UpdateProgress(sess[s], f, n, now).canceled = sess[s].canceled
    BY <2>1, UpdateProgressSound
  <2>. QED
    BY <1>4, <2>2 DEF RecordProgress
<1>5. ASSUME NEW s \in SessionId, LoadAndDelete(s)
      PROVE  Tracked'
  BY <1>5 DEF LoadAndDelete
<1>6. ASSUME NEW s \in SessionId, CancelDeleted(s)
      PROVE  Tracked'
  <2>1. Cancel(sess[s]).canceled
    BY <1>6, CancelSound DEF CancelDeleted
  <2>. QED
    BY <1>6, <2>1 DEF CancelDeleted
<1>7. CASE Close
  BY <1>7 DEF Close
<1>8. CASE SweepTick
  BY <1>8 DEF SweepTick
<1>9. ASSUME NEW s \in SessionId, SweepVisit(s)
      PROVE  Tracked'
  BY <1>9 DEF SweepVisit, Sweep
<1>10. CASE SweepDelete
  <2>1. PICK s \in created : sweep.due = {s}
    BY <1>10 DEF SweepDelete, SweepShape
  <2>2. CASE s \in registered
    BY <1>10, <2>1, <2>2 DEF SweepDelete, Sweep
  <2>3. CASE s \notin registered
    BY <1>10, <2>1, <2>3 DEF SweepDelete, Sweep
  <2>. QED
    BY <2>2, <2>3
<1>11. CASE SweepCancel
  <2>1. \A s \in created : Cancel(sess[s]).canceled
    BY CancelSound
  <2>2. sweep'.pc = "scan"
    BY <1>11 DEF SweepCancel, Sweep
  <2>. QED
    BY <1>11, <2>1, <2>2 DEF SweepCancel
<1>12. CASE SweepEnd
  BY <1>12 DEF SweepEnd, Waiting
<1>13. CASE SweepExit
  BY <1>13 DEF SweepExit, Sweep
<1>14. CASE UNCHANGED smVars
  BY <1>14 DEF smVars
<1>. QED
  BY <1>1, <1>2, <1>3, <1>4, <1>5, <1>6, <1>7, <1>8, <1>9, <1>10, <1>11, <1>12,
     <1>13, <1>14 DEF SMNext, SweepStep

(* The clock only counts up, so what is used after a tick is used no       *)
(* earlier than the time the tick read.                                    *)
THEOREM NextDueWasExpired ==
  ASSUME TypeOK, SweepShape, DueWasExpired, [SMNext]_smVars
  PROVE  DueWasExpired'
<1>. USE DEF TypeOK, SweepShape, DueWasExpired, ExpiredAt, created
<1>1. CASE Tick
  BY <1>1 DEF Tick
<1>2. ASSUME NEW s \in SessionId, NEW ip \in Host, NEW v \in BOOLEAN,
             NEW fs \in SUBSET FileId, CreateSession(s, ip, v, fs)
      PROVE  DueWasExpired'
  <2>1. s \notin sweep.due
    BY <1>2 DEF CreateSession
  <2>. QED
    BY <1>2, <2>1 DEF CreateSession
<1>3. ASSUME NEW s \in SessionId, GetSession(s)
      PROVE  DueWasExpired'
  <2>1. Touch(sess[s], now).lastAccess = now
    BY <1>3, TouchSound DEF GetSession
  <2>2. now >= sweep.at
    BY DEF Sweep
  <2>. QED
    BY <1>3, <2>1, <2>2 DEF GetSession
<1>4. ASSUME NEW s \in SessionId, NEW f \in FileId \cup {NoId},
             NEW n \in 0..MaxBytes, RecordProgress(s, f, n)
      PROVE  DueWasExpired'
  <2>1. sess[s] \in Session /\ n \in Nat
    BY <1>4, BoundsAssumption DEF RecordProgress
  <2>2. UpdateProgress(sess[s], f, n, now).lastAccess = now
    BY <2>1, UpdateProgressSound
  <2>3. now >= sweep.at
    BY DEF Sweep
  <2>. QED
    BY <1>4, <2>2, <2>3 DEF RecordProgress
<1>5. ASSUME NEW s \in SessionId, LoadAndDelete(s)
      PROVE  DueWasExpired'
  BY <1>5 DEF LoadAndDelete
<1>6. ASSUME NEW s \in SessionId, CancelDeleted(s)
      PROVE  DueWasExpired'
  <2>1. Cancel(sess[s]).lastAccess = sess[s].lastAccess
    BY <1>6, CancelSound DEF CancelDeleted
  <2>. QED
    BY <1>6, <2>1 DEF CancelDeleted
<1>7. CASE Close
  BY <1>7 DEF Close
<1>8. CASE SweepTick
  BY <1>8 DEF SweepTick
<1>9. ASSUME NEW s \in SessionId, SweepVisit(s)
      PROVE  DueWasExpired'
  BY <1>9 DEF SweepVisit, Sweep
<1>10. CASE SweepDelete
  BY <1>10 DEF SweepDelete, Sweep
<1>11. CASE SweepCancel
  BY <1>11 DEF SweepCancel, Sweep
<1>12. CASE SweepEnd
  BY <1>12 DEF SweepEnd, Waiting
<1>13. CASE SweepExit
  BY <1>13 DEF SweepExit, Sweep
<1>14. CASE UNCHANGED smVars
  BY <1>14 DEF smVars
<1>. QED
  BY <1>1, <1>2, <1>3, <1>4, <1>5, <1>6, <1>7, <1>8, <1>9, <1>10, <1>11, <1>12,
     <1>13, <1>14 DEF SMNext, SweepStep

THEOREM NextCompletedMatchesProgress ==
  ASSUME TypeOK, CompletedMatchesProgress, [SMNext]_smVars
  PROVE  CompletedMatchesProgress'
<1>. USE DEF TypeOK, created
<1>. DEFINE AllMatch == \A x \in created : FlagsMatch(sess[x])
<1>0. /\ AllMatch
      /\ AllMatch' => CompletedMatchesProgress'
  BY DEF CompletedMatchesProgress, FlagsMatch
<1>. SUFFICES AllMatch'
  BY <1>0
<1>1. ASSUME NEW s \in SessionId, NEW ip \in Host, NEW v \in BOOLEAN,
             NEW fs \in SUBSET FileId, CreateSession(s, ip, v, fs)
      PROVE  AllMatch'
  <2>1. FlagsMatch(NewUploadSession(ip, v, fs, now))
    BY NewSessionSound
  <2>. QED
    BY <1>0, <1>1, <2>1 DEF CreateSession
<1>2. ASSUME NEW s \in SessionId, GetSession(s)
      PROVE  AllMatch'
  <2>1. FlagsMatch(Touch(sess[s], now))
    BY <1>0, <1>2, TouchSound DEF GetSession
  <2>. QED
    BY <1>0, <1>2, <2>1 DEF GetSession
<1>3. ASSUME NEW s \in SessionId, NEW f \in FileId \cup {NoId},
             NEW n \in 0..MaxBytes, RecordProgress(s, f, n)
      PROVE  AllMatch'
  <2>1. sess[s] \in Session /\ n \in Nat
    BY <1>3, BoundsAssumption DEF RecordProgress
  <2>2. FlagsMatch(UpdateProgress(sess[s], f, n, now))
    BY <1>0, <1>3, <2>1, UpdateProgressSound DEF RecordProgress
  <2>. QED
    BY <1>0, <1>3, <2>2 DEF RecordProgress
<1>4. ASSUME NEW s \in SessionId, CancelDeleted(s)
      PROVE  AllMatch'
  <2>1. FlagsMatch(Cancel(sess[s]))
    BY <1>0, <1>4, CancelSound DEF CancelDeleted
  <2>. QED
    BY <1>0, <1>4, <2>1 DEF CancelDeleted
<1>5. CASE SweepCancel
  <2>1. \A s \in created : FlagsMatch(Cancel(sess[s]))
    BY <1>0, CancelSound
  <2>. QED
    BY <1>0, <1>5, <2>1 DEF SweepCancel
<1>6. CASE UNCHANGED sess
  BY <1>0, <1>6
<1>. QED
  BY <1>1, <1>2, <1>3, <1>4, <1>5, <1>6
  DEF SMNext, SweepStep, Tick, LoadAndDelete, Close, SweepTick, SweepVisit,
      SweepDelete, SweepEnd, SweepExit, smVars

THEOREM NextIInv ==
  ASSUME IInv, [SMNext]_smVars
  PROVE  IInv'
BY NextTypeOK, NextSweepShape, NextTracked, NextDueWasExpired,
   NextCompletedMatchesProgress DEF IInv

THEOREM InductiveInvariant == SMSafety => []IInv
BY InitIInv, NextIInv, PTL DEF SMSafety

----------------------------------------------------------------------------
(* A deleted session is canceled, or will be by one goroutine alone.       *)
THEOREM TrackedAlways == SMSafety => []Tracked
<1>1. IInv => Tracked
  BY DEF IInv
<1>. QED
  BY <1>1, InductiveInvariant, PTL

(* The completed flags follow the progress counts.                         *)
THEOREM CompletedMatchesProgressAlways == SMSafety => []CompletedMatchesProgress
<1>1. IInv => CompletedMatchesProgress
  BY DEF IInv
<1>. QED
  BY <1>1, InductiveInvariant, PTL

(***************************************************************************)
(* The cleanup loop spares every session used within the timeout, except   *)
(* one used after the tick.  Only SweepDelete takes a session out without  *)
(* a handler taking charge of it.                                          *)
(***************************************************************************)
THEOREM SweepSparesRecentlyUsedAlways == SMSafety => SweepSparesRecentlyUsed
<1> DEFINE Spared ==
      \A s \in registered \ registered' :
        s \in closing' \/ ExpiredAt(s, sweep.at) \/ sess[s].lastAccess >= sweep.at
<1>1. ASSUME IInv, [SMNext]_smVars
      PROVE  [Spared]_smVars
  <2>. SUFFICES ASSUME NEW s \in registered \ registered'
                PROVE  s \in closing' \/ ExpiredAt(s, sweep.at)
                         \/ sess[s].lastAccess >= sweep.at
    OBVIOUS
  <2>1. ASSUME NEW x \in SessionId, LoadAndDelete(x)
        PROVE  s \in closing'
    BY <2>1 DEF LoadAndDelete
  <2>2. CASE SweepDelete
    BY <1>1, <2>2 DEF SweepDelete, IInv, DueWasExpired
  <2>3. CASE registered \subseteq registered'
    BY <2>3
  <2>. QED
    BY <1>1, <2>1, <2>2, <2>3
    DEF SMNext, SweepStep, Tick, CreateSession, GetSession, RecordProgress,
        CancelDeleted, Close, SweepTick, SweepVisit, SweepCancel, SweepEnd,
        SweepExit, smVars
<1>. QED
  BY <1>1, InductiveInvariant, PTL DEF SMSafety, SweepSparesRecentlyUsed

----------------------------------------------------------------------------
(***************************************************************************)
(* The table implements SessionLife.  A session's stage is read off three  *)
(* places that change in different steps, its canceled flag, the map and   *)
(* the heap, so a step is one transition of the stage only where Tracked   *)
(* and SweepShape hold: the one found expired is canceled once, and alone. *)
(***************************************************************************)
TermsOfAll ==
  [s \in SessionId |-> IF s \in created THEN TermsOf(sess[s]) ELSE "no terms"]

(* The methods of a session keep its terms.                                *)
LEMMA TermsKept ==
  ASSUME NEW r \in Session, NEW f, NEW n, NEW t
  PROVE  /\ TermsOf(Touch(r, t)) = TermsOf(r)
         /\ TermsOf(Cancel(r)) = TermsOf(r)
         /\ TermsOf(UpdateProgress(r, f, n, t)) = TermsOf(r)
<1>1. TermsOf(Touch(r, t)) = TermsOf(r)
  BY DEF TermsOf, Touch, Session
<1>2. TermsOf(Cancel(r)) = TermsOf(r)
  BY DEF TermsOf, Cancel, Session
<1>3. TermsOf(UpdateProgress(r, f, n, t)) = TermsOf(r)
  <2>1. CASE f \notin r.files
    BY <1>1, <2>1 DEF UpdateProgress
  <2>2. CASE f \in r.files
    <3> DEFINE counts == [r.progress EXCEPT ![f] = n]
               done == IF n >= Size[f] THEN r.completed \cup {f}
                                       ELSE r.completed \ {f}
    <3>1. UpdateProgress(r, f, n, t) =
            [r EXCEPT !.lastAccess = t, !.progress = counts, !.completed = done]
      BY <2>2 DEF UpdateProgress
    <3>. HIDE DEF counts, done
    <3>. QED
      BY <3>1 DEF TermsOf, Session
  <2>. QED
    BY <2>1, <2>2
<1>. QED
  BY <1>1, <1>2, <1>3

(* The steps that neither open, end nor cancel a session.                  *)
LEMMA LifeStays ==
  ASSUME created' = created, registered' = registered,
         \A s \in created : /\ sess'[s].canceled = sess[s].canceled
                            /\ TermsOf(sess'[s]) = TermsOf(sess[s])
  PROVE  Stage' = Stage /\ TermsOfAll' = TermsOfAll
BY DEF Stage, TermsOfAll

LEMMA LifeOpens ==
  ASSUME TypeOK, NEW s \in SessionId, NEW ip \in Host, NEW v \in BOOLEAN,
         NEW fs \in SUBSET FileId, CreateSession(s, ip, v, fs)
  PROVE  Life!Open(s)
<1> DEFINE new == NewUploadSession(ip, v, fs, now)
<1>1. new \in Session /\ ~new.canceled
  BY NewSessionSound DEF TypeOK
<1>2. TermsOf(new) \in [ip : Host, verified : BOOLEAN, files : SUBSET FileId]
  BY <1>1 DEF TermsOf, Session
<1>3. /\ s \notin created /\ created' = created \cup {s}
      /\ sess'[s] = new
      /\ \A x \in created : sess'[x] = sess[x]
      /\ registered' = registered \cup {s}
  BY DEF CreateSession, created
<1>. HIDE DEF new
<1>4. Stage[s] = "unused"
  BY <1>3 DEF Stage
<1>5. Stage' = [Stage EXCEPT ![s] = "open"]
  BY <1>1, <1>3 DEF Stage
<1>6. TermsOfAll' = [TermsOfAll EXCEPT ![s] = TermsOf(new)]
  BY <1>3 DEF TermsOfAll
<1>. QED
  BY <1>2, <1>4, <1>5, <1>6 DEF Life!Open, TermsOfAll

(* Taken out of the map, by a handler or by the cleanup loop.              *)
LEMMA LifeEnds ==
  ASSUME TypeOK, Tracked, NEW s \in registered,
         registered' = registered \ {s}, UNCHANGED sess
  PROVE  Life!End(s)
<1>1. s \in created /\ s \in SessionId /\ ~sess[s].canceled
  BY DEF TypeOK, Tracked
<1>2. Stage[s] = "open"
  BY <1>1 DEF Stage
<1>3. Stage' = [Stage EXCEPT ![s] = "ended"]
  BY <1>1 DEF Stage, created
<1>4. TermsOfAll' = TermsOfAll
  BY DEF TermsOfAll, created
<1>. QED
  BY <1>2, <1>3, <1>4 DEF Life!End, TermsOfAll

(* Canceled by whoever took it out.                                        *)
LEMMA LifeCancels ==
  ASSUME TypeOK, Tracked, NEW s \in created, s \in closing \/ Sweeping(s),
         sess' = [x \in created |-> IF x = s THEN Cancel(sess[x]) ELSE sess[x]],
         UNCHANGED registered
  PROVE  Life!Cancel(s)
<1>1. /\ s \in SessionId /\ s \notin registered /\ ~sess[s].canceled
      /\ sess[s] \in Session
  BY DEF TypeOK, Tracked
<1>2. Cancel(sess[s]).canceled /\ TermsOf(Cancel(sess[s])) = TermsOf(sess[s])
  BY <1>1, CancelSound, TermsKept
<1>3. /\ created' = created
      /\ \A x \in created : x # s => sess'[x] = sess[x]
      /\ sess'[s].canceled /\ TermsOf(sess'[s]) = TermsOf(sess[s])
  BY <1>2 DEF created
<1>4. Stage[s] = "ended"
  BY <1>1 DEF Stage
<1>5. Stage' = [Stage EXCEPT ![s] = "canceled"]
  BY <1>1, <1>3 DEF Stage
<1>6. TermsOfAll' = TermsOfAll
  BY <1>3 DEF TermsOfAll
<1>. QED
  BY <1>4, <1>5, <1>6 DEF Life!Cancel, TermsOfAll

LEMMA LifeInitial == SMInit => Life!LifeInit
BY DEF SMInit, Life!LifeInit, Life!NoTerms, Stage, created

THEOREM NextImplementsSessionLife ==
  ASSUME IInv, [SMNext]_smVars
  PROVE  [Life!LifeNext]_(Life!lifeVars)
<1>. USE DEF IInv
<1>. DEFINE Stays == Stage' = Stage /\ TermsOfAll' = TermsOfAll
<1>1. Stays => UNCHANGED Life!lifeVars
  BY DEF Life!lifeVars, TermsOfAll
<1>2. ASSUME NEW s \in SessionId, Life!Open(s) \/ Life!End(s) \/ Life!Cancel(s)
      PROVE  Life!LifeNext
  BY <1>2 DEF Life!LifeNext
<1>3. ASSUME NEW s \in SessionId, NEW ip \in Host, NEW v \in BOOLEAN,
             NEW fs \in SUBSET FileId, CreateSession(s, ip, v, fs)
      PROVE  Life!LifeNext
  BY <1>2, <1>3, LifeOpens
<1>4. ASSUME NEW s \in SessionId, GetSession(s)
      PROVE  Stays
  <2>1. sess[s] \in Session /\ now \in Nat
    BY <1>4 DEF GetSession, TypeOK
  <2>2. /\ Touch(sess[s], now).canceled = sess[s].canceled
        /\ TermsOf(Touch(sess[s], now)) = TermsOf(sess[s])
    BY <2>1, TouchSound, TermsKept
  <2>3. /\ sess' = [sess EXCEPT ![s] = Touch(sess[s], now)]
        /\ registered' = registered /\ created' = created
    BY <1>4 DEF GetSession, created
  <2>. QED
    BY <2>2, <2>3, LifeStays DEF TypeOK
<1>5. ASSUME NEW s \in SessionId, NEW f \in FileId \cup {NoId},
             NEW n \in 0..MaxBytes, RecordProgress(s, f, n)
      PROVE  Stays
  <2>1. sess[s] \in Session /\ n \in Nat /\ now \in Nat
    BY <1>5, BoundsAssumption DEF RecordProgress, TypeOK
  <2> DEFINE new == UpdateProgress(sess[s], f, n, now)
  <2>2. new.canceled = sess[s].canceled /\ TermsOf(new) = TermsOf(sess[s])
    BY <2>1, UpdateProgressSound, TermsKept
  <2>3. /\ sess' = [sess EXCEPT ![s] = new]
        /\ registered' = registered /\ created' = created
    BY <1>5 DEF RecordProgress, created
  <2>. HIDE DEF new
  <2>. QED
    BY <2>2, <2>3, LifeStays DEF TypeOK
<1>6. ASSUME NEW s \in SessionId, LoadAndDelete(s)
      PROVE  Life!LifeNext
  BY <1>2, <1>6, LifeEnds DEF LoadAndDelete
<1>7. ASSUME NEW s \in SessionId, CancelDeleted(s)
      PROVE  Life!LifeNext
  <2>1. s \in created /\ sess \in [created -> Session]
    BY <1>7 DEF CancelDeleted, TypeOK
  <2>2. sess' = [x \in created |-> IF x = s THEN Cancel(sess[x]) ELSE sess[x]]
    BY <1>7, <2>1 DEF CancelDeleted
  <2>. QED
    BY <1>2, <1>7, <2>1, <2>2, LifeCancels DEF CancelDeleted
<1>8. CASE SweepDelete
  <2>1. PICK s \in created : sweep.due = {s}
    BY <1>8 DEF SweepDelete, SweepShape
  <2>2. CASE s \in registered
    BY <1>2, <1>8, <2>1, <2>2, LifeEnds DEF SweepDelete, TypeOK
  <2>3. CASE s \notin registered
    <3>1. registered' = registered /\ UNCHANGED sess
      BY <1>8, <2>1, <2>3 DEF SweepDelete
    <3>. QED
      BY <1>1, <3>1, LifeStays DEF created
  <2>. QED
    BY <2>2, <2>3
<1>9. CASE SweepCancel
  <2>1. PICK s \in created : sweep.due = {s}
    BY <1>9 DEF SweepCancel, SweepShape
  <2>2. sess' = [x \in created |-> IF x = s THEN Cancel(sess[x]) ELSE sess[x]]
    BY <1>9, <2>1 DEF SweepCancel
  <2>3. Sweeping(s) /\ UNCHANGED registered /\ s \in SessionId
    BY <1>9, <2>1 DEF SweepCancel, Sweeping, TypeOK
  <2>. QED
    BY <1>2, <2>2, <2>3, LifeCancels
<1>10. CASE UNCHANGED <<sess, registered>>
  BY <1>1, <1>10, LifeStays DEF created
<1>. QED
  BY <1>1, <1>3, <1>4, <1>5, <1>6, <1>7, <1>8, <1>9, <1>10
  DEF SMNext, SweepStep, Tick, Close, SweepTick, SweepVisit, SweepEnd, SweepExit,
      smVars

(***************************************************************************)
(* The session table implements the life of a session: opened, ended and   *)
(* canceled once each, in this order, under terms that never change.       *)
(***************************************************************************)
THEOREM ImplementsSessionLifeAlways == SMSafety => ImplementsSessionLife
BY LifeInitial, NextImplementsSessionLife, InductiveInvariant, PTL
   DEF SMSafety, ImplementsSessionLife, Life!LifeSpec

----------------------------------------------------------------------------
(***************************************************************************)
(* How one session ages: it is never forgotten, never back in the map, and *)
(* a canceled one stays canceled; its last access stays or becomes the     *)
(* present time, so that it is never ahead of the clock and never moves    *)
(* back.  Methods of different goroutines each read the clock themselves.  *)
(***************************************************************************)
AgesFrom(s) ==
  /\ s \in created'
  /\ s \in registered' => s \in registered
  /\ sess[s].canceled => sess'[s].canceled
  /\ \/ sess'[s].lastAccess = sess[s].lastAccess /\ now' \in {now, now + 1}
     \/ sess'[s].lastAccess = now /\ now' = now

LEMMA StepAges ==
  ASSUME TypeOK, [SMNext]_smVars, NEW s \in created
  PROVE  AgesFrom(s)
<1>. USE DEF created
<1>1. sess[s] \in Session /\ now \in Nat
  BY DEF TypeOK
<1>2. CASE UNCHANGED <<sess, now, registered>>
  BY <1>2 DEF AgesFrom
<1>3. CASE Tick
  BY <1>3 DEF Tick, AgesFrom
<1>4. ASSUME NEW x \in SessionId, NEW ip, NEW v, NEW fs, CreateSession(x, ip, v, fs)
      PROVE  AgesFrom(s)
  BY <1>4 DEF CreateSession, AgesFrom
<1>5. ASSUME NEW x \in SessionId, GetSession(x)
      PROVE  AgesFrom(s)
  <2>1. sess' = [sess EXCEPT ![x] = Touch(sess[x], now)] /\ UNCHANGED <<now, registered>>
    BY <1>5 DEF GetSession
  <2>2. s # x => sess'[s] = sess[s]
    BY <2>1
  <2>3. s = x => sess'[s] = Touch(sess[s], now)
    BY <2>1
  <2>. QED
    BY <1>1, <2>1, <2>2, <2>3, TouchSound DEF AgesFrom
<1>6. ASSUME NEW x \in SessionId, NEW f \in FileId \cup {NoId}, NEW n \in 0..MaxBytes,
             RecordProgress(x, f, n)
      PROVE  AgesFrom(s)
  <2>1. /\ sess' = [sess EXCEPT ![x] = UpdateProgress(sess[x], f, n, now)]
        /\ UNCHANGED <<now, registered>> /\ n \in Nat
    BY <1>6, BoundsAssumption DEF RecordProgress
  <2>2. s # x => sess'[s] = sess[s]
    BY <2>1
  <2>3. s = x => sess'[s] = UpdateProgress(sess[s], f, n, now)
    BY <2>1
  <2>. QED
    BY <1>1, <2>1, <2>2, <2>3, UpdateProgressSound DEF AgesFrom
<1>7. ASSUME NEW x \in SessionId, LoadAndDelete(x)
      PROVE  AgesFrom(s)
  BY <1>7 DEF LoadAndDelete, AgesFrom
<1>8. ASSUME NEW x \in SessionId, CancelDeleted(x)
      PROVE  AgesFrom(s)
  <2>1. sess' = [sess EXCEPT ![x] = Cancel(sess[x])] /\ UNCHANGED <<now, registered>>
    BY <1>8 DEF CancelDeleted
  <2>2. sess'[s] = sess[s] \/ sess'[s] = Cancel(sess[s])
    BY <2>1
  <2>. QED
    BY <1>1, <2>1, <2>2, CancelSound DEF AgesFrom
<1>9. CASE SweepDelete
  BY <1>9 DEF SweepDelete, AgesFrom
<1>10. CASE SweepCancel
  <2>1. /\ sess' = [x \in created |-> IF x \in sweep.due THEN Cancel(sess[x]) ELSE sess[x]]
        /\ UNCHANGED <<now, registered>>
    BY <1>10 DEF SweepCancel
  <2>2. sess'[s] = sess[s] \/ sess'[s] = Cancel(sess[s])
    BY <2>1
  <2>. QED
    BY <1>1, <2>1, <2>2, CancelSound DEF AgesFrom
<1>11. ASSUME Close \/ SweepTick \/ (\E x \in SessionId : SweepVisit(x)) \/ SweepEnd \/ SweepExit
              \/ UNCHANGED smVars
       PROVE  UNCHANGED <<sess, now, registered>>
  BY <1>11 DEF Close, SweepTick, SweepVisit, SweepEnd, SweepExit, smVars
<1>. QED
  BY <1>2, <1>3, <1>4, <1>5, <1>6, <1>7, <1>8, <1>9, <1>10, <1>11 DEF SMNext, SweepStep

NeverAhead == \A s \in created : sess[s].lastAccess <= now

LEMMA NewIsNow ==
  ASSUME TypeOK, [SMNext]_smVars, NEW s \in created' \ created
  PROVE  sess'[s].lastAccess = now /\ now' = now
<1>1. CASE \E x \in SessionId, ip \in Host, v \in BOOLEAN, fs \in SUBSET FileId :
             CreateSession(x, ip, v, fs)
  <2>1. PICK x \in SessionId, ip \in Host, v \in BOOLEAN, fs \in SUBSET FileId :
               CreateSession(x, ip, v, fs)
    BY <1>1
  <2>2. s = x /\ sess'[s] = NewUploadSession(ip, v, fs, now) /\ now' = now
    BY <2>1 DEF CreateSession, created
  <2>. QED
    BY <2>2, NewSessionSound DEF TypeOK
<1>2. ASSUME ~\E x \in SessionId, ip \in Host, v \in BOOLEAN, fs \in SUBSET FileId :
               CreateSession(x, ip, v, fs)
      PROVE  created' = created
  BY <1>2 DEF SMNext, SweepStep, Tick, GetSession, RecordProgress, LoadAndDelete,
     CancelDeleted, Close, SweepTick, SweepVisit, SweepDelete, SweepCancel, SweepEnd,
     SweepExit, smVars, created, TypeOK
<1>. QED
  BY <1>1, <1>2

LEMMA NeverAheadStep ==
  ASSUME TypeOK, NeverAhead, [SMNext]_smVars
  PROVE  NeverAhead'
<1>. SUFFICES ASSUME NEW s \in created' PROVE sess'[s].lastAccess <= now'
  BY DEF NeverAhead
<1>1. now \in Nat
  BY DEF TypeOK
<1>2. CASE s \in created
  <2>1. sess[s].lastAccess \in Nat /\ sess[s].lastAccess <= now
    BY <1>2 DEF TypeOK, Session, NeverAhead
  <2>2. AgesFrom(s)
    BY <1>2, StepAges
  <2>. QED
    BY <1>1, <2>1, <2>2 DEF AgesFrom
<1>3. CASE s \notin created
  BY <1>1, <1>3, NewIsNow
<1>. QED
  BY <1>2, <1>3

(* No session has been used in the future ...                              *)
THEOREM NeverAheadAlways == SMSafety => []NeverAhead
<1>1. SMInit => NeverAhead
  BY DEF SMInit, NeverAhead, created
<1>. QED
  BY <1>1, TypeCorrect, NeverAheadStep, PTL DEF SMSafety

(***************************************************************************)
(* ... so the last use a session remembers never moves back: an idle time  *)
(* that was measured can only have been too long.                          *)
(***************************************************************************)
LastAccessGrows ==
  [][\A s \in created : s \in created' /\ sess'[s].lastAccess >= sess[s].lastAccess]_smVars

THEOREM LastAccessGrowsAlways == SMSafety => LastAccessGrows
<1>1. ASSUME TypeOK, NeverAhead, [SMNext]_smVars, NEW s \in created
      PROVE  s \in created' /\ sess'[s].lastAccess >= sess[s].lastAccess
  <2>1. sess[s].lastAccess \in Nat /\ sess[s].lastAccess <= now /\ now \in Nat
    BY <1>1 DEF TypeOK, Session, NeverAhead
  <2>2. AgesFrom(s)
    BY <1>1, StepAges
  <2>. QED
    BY <2>1, <2>2 DEF AgesFrom
<1>2. TypeOK /\ NeverAhead /\ [SMNext]_smVars
        => [\A s \in created : s \in created' /\ sess'[s].lastAccess >= sess[s].lastAccess]_smVars
  BY <1>1
<1>. QED
  BY <1>2, TypeCorrect, NeverAheadAlways, PTL DEF SMSafety, LastAccessGrows

=============================================================================
