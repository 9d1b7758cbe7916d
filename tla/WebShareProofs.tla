---------------------------- MODULE WebShareProofs --------------------------
(***************************************************************************)
(* Theorems about WebShare: for any number of starts, stops and visits, of *)
(* any files.                                                              *)
(***************************************************************************)
EXTENDS WebShare, TLAPS

THEOREM InitWebTypeOK == WebInit => WebTypeOK
BY WebShareAssumption DEF WebInit, WebTypeOK, Caller, ServePhase, Status

(* What the calls of Start and Stop leave in the visits, and conversely.   *)
LEMMA ServeOnly ==
  ASSUME WebTypeOK, UNCHANGED visitVars,
         current' \in Starter \cup {None}, session' \in Starter \cup {None},
         files' \in SUBSET SharedFile, holder' \in Stopper \cup Visit \cup {None},
         serve' \in [Starter -> ServePhase], shut' \in SUBSET Starter,
         call' \in [Caller -> {"idle", "called", "draining", "returned", "failed"}],
         \A c \in Stopper : holder' = c <=> call'[c] = "draining",
         holder' \in Visit => holder' = holder
  PROVE  WebTypeOK'
BY DEF WebTypeOK, visitVars

THEOREM NextWebTypeOK ==
  ASSUME WebTypeOK, [WebNext]_webVars
  PROVE  WebTypeOK'
<1>. USE WebShareAssumption
<1>1. ASSUME NEW c \in Caller, Call(c)
      PROVE  WebTypeOK'
  BY <1>1, ServeOnly DEF Call, WebTypeOK, Caller, shareVars, visitVars
<1>2. ASSUME NEW a \in Starter, StartRun(a) \/ ServeBegin(a)
      PROVE  WebTypeOK'
  <2>1. Shares[a] \in SUBSET SharedFile
    OBVIOUS
  <2>. QED
    BY <1>2, <2>1, ServeOnly
    DEF StartRun, StartRefused, StartListens, StartListenFails, Publish, Return,
        ServeBegin, ServePhase, WebTypeOK, Caller, shareVars, visitVars
<1>3. ASSUME NEW c \in Stopper, StopRun(c)
      PROVE  WebTypeOK'
  BY <1>3, ServeOnly
  DEF StopRun, StopNothing, StopBegin, StopEnd, Return, ServePhase, WebTypeOK,
      Caller, shareVars, visitVars
<1>4. ASSUME NEW v \in Visit, VisitArrives(v)
      PROVE  WebTypeOK'
  <2>. PICK a \in Starter, kind \in Kind, sid \in Starter \cup {None},
            fid \in SharedFile, pin \in BOOLEAN :
         VisitArrive(v, a, kind, sid, fid, pin) \/ VisitRefused(v, a, kind, sid, fid, pin)
    BY <1>4 DEF VisitArrives
  <2>. DEFINE r == [on |-> a, kind |-> kind, sid |-> sid, fid |-> fid, pin |-> pin]
  <2>1. r \in Request
    BY DEF Request
  <2>2. /\ vpc[v] = "idle"
        /\ request' = [w \in DOMAIN request \cup {v} |->
                         IF w = v THEN r ELSE request[w]]
        /\ UNCHANGED <<serverVars, seen>>
    BY DEF VisitArrive, VisitRefused, Arrived
  <2>3. \/ vpc' = [vpc EXCEPT ![v] = "look"] /\ status' = status
        \/ \E code \in {200, 303, 401, 404, 405} :
             /\ vpc' = [vpc EXCEPT ![v] = "done"]
             /\ status' = [status EXCEPT ![v] = code]
    BY DEF VisitArrive, VisitRefused, Goto, Done
  <2>. HIDE DEF r
  <2>4. /\ request' \in [DOMAIN request' -> Request]
        /\ DOMAIN request' = DOMAIN request \cup {v}
    BY <2>1, <2>2 DEF WebTypeOK
  <2>5. /\ vpc' \in [Visit -> {"idle", "look", "write", "open", "copy", "done"}]
        /\ status' \in [Visit -> Status]
    BY <2>3 DEF WebTypeOK, Status
  <2>6. /\ vpc'[v] \in {"look", "done"}
        /\ \A w \in Visit \ {v} : vpc'[w] = vpc[w]
    BY <2>3 DEF WebTypeOK
  <2>. QED
    BY <2>2, <2>4, <2>5, <2>6 DEF WebTypeOK, serverVars, shareVars
<1>5. ASSUME NEW v \in Visit, VisitRun(v) \/ VisitorTakes(v)
      PROVE  WebTypeOK'
  <2>1. /\ UNCHANGED <<shareVars, serve, shut, call, request>>
        /\ vpc[v] \in {"look", "write", "open", "copy"}
    BY <1>5 DEF VisitRun, PageLook, ListNothing, ListUnauthorized, ListLook,
       FileForbidden, FileUnknown, FileLook, FileOpen, VisitorTakes, Look, serverVars
  <2>2. /\ vpc' \in [Visit -> {"idle", "look", "write", "open", "copy", "done"}]
        /\ \A w \in Visit \ {v} : vpc'[w] = vpc[w]
        /\ vpc'[v] \in {"write", "open", "copy", "done"}
        /\ status' \in [Visit -> Status]
    BY <1>5 DEF VisitRun, PageLook, ListNothing, ListUnauthorized, ListLook,
       FileForbidden, FileUnknown, FileLook, FileOpen, VisitorTakes, Look, Done, Goto,
       WebTypeOK, Status
  <2>3. \/ seen' = seen /\ (vpc'[v] = "done" \/ vpc[v] = "open")
        \/ See(v)
    BY <1>5 DEF VisitRun, PageLook, ListNothing, ListUnauthorized, ListLook,
       FileForbidden, FileUnknown, FileLook, FileOpen, VisitorTakes, Look, Done, Goto,
       WebTypeOK
  <2>4. /\ seen' \in [DOMAIN seen' -> Share]
        /\ DOMAIN seen \subseteq DOMAIN seen'
        /\ DOMAIN seen' \subseteq DOMAIN seen \cup {v}
        /\ vpc'[v] \in {"write", "open", "copy"} => v \in DOMAIN seen'
    <3>1. CASE See(v)
      <4>. DEFINE sh == [session |-> session, files |-> files]
      <4>1. sh \in Share
        BY DEF WebTypeOK, Share
      <4>2. seen' = [w \in DOMAIN seen \cup {v} |-> IF w = v THEN sh ELSE seen[w]]
        BY <3>1 DEF See
      <4>. HIDE DEF sh
      <4>. QED
        BY <4>1, <4>2 DEF WebTypeOK
    <3>2. CASE seen' = seen /\ (vpc'[v] = "done" \/ vpc[v] = "open")
      BY <3>2 DEF WebTypeOK
    <3>. QED
      BY <2>3, <3>1, <3>2
  <2>5. \/ holder' = holder /\ (holder = v => vpc'[v] = "write")
        \/ holder' = v /\ holder = None /\ vpc'[v] = "write"
        \/ holder' = None /\ holder = v
    BY <1>5 DEF VisitRun, PageLook, ListNothing, ListUnauthorized, ListLook,
       FileForbidden, FileUnknown, FileLook, FileOpen, VisitorTakes, Look, Done, Goto,
       WebTypeOK, serverVars
  <2>6. v \notin Stopper /\ v # None
    OBVIOUS
  <2>7. /\ holder' \in Stopper \cup Visit \cup {None}
        /\ \A c \in Stopper : holder' = c <=> call[c] = "draining"
        /\ \A w \in Visit : holder' = w => vpc'[w] = "write"
    BY <2>2, <2>5, <2>6 DEF WebTypeOK
  <2>8. DOMAIN request = {w \in Visit : vpc'[w] # "idle"}
    BY <2>1, <2>2 DEF WebTypeOK
  <2>. QED
    BY <2>1, <2>2, <2>4, <2>7, <2>8 DEF WebTypeOK, shareVars
<1>6. CASE UNCHANGED webVars
  BY <1>6 DEF WebTypeOK, webVars, serverVars, shareVars, visitVars
<1>. QED
  BY <1>1, <1>2, <1>3, <1>4, <1>5, <1>6 DEF WebNext

(* The server's fields and the visits have their types.                    *)
THEOREM WebTypeCorrect == WebSpec => []WebTypeOK
BY InitWebTypeOK, NextWebTypeOK, PTL DEF WebSpec

----------------------------------------------------------------------------
(***************************************************************************)
(* The fields are one share at every step, whoever holds the mutex: the    *)
(* reason why what a visit reads is one.                                   *)
(***************************************************************************)
FieldsAreOneShare ==
  files = IF session = None THEN {} ELSE Shares[session]

ShareInv == FieldsAreOneShare /\ SeenIsOneShare

LEMMA InitShareInv == WebInit => ShareInv
BY DEF WebInit, ShareInv, FieldsAreOneShare, SeenIsOneShare

LEMMA NextShareInv ==
  ASSUME WebTypeOK, ShareInv, [WebNext]_webVars
  PROVE  ShareInv'
<1>. USE WebShareAssumption
<1>1. FieldsAreOneShare'
  <2>1. ASSUME UNCHANGED shareVars
        PROVE  FieldsAreOneShare'
    BY <2>1 DEF ShareInv, FieldsAreOneShare, shareVars
  <2>2. ASSUME NEW a \in Starter, StartRun(a) \/ ServeBegin(a)
        PROVE  FieldsAreOneShare'
    BY <2>1, <2>2 DEF StartRun, StartRefused, StartListens, StartListenFails, Publish,
       ServeBegin, FieldsAreOneShare
  <2>3. ASSUME NEW c \in Stopper, StopRun(c)
        PROVE  FieldsAreOneShare'
    BY <2>1, <2>3 DEF StopRun, StopNothing, StopBegin, StopEnd, FieldsAreOneShare
  <2>4. ASSUME NEW v \in Visit, VisitArrives(v) \/ VisitRun(v) \/ VisitorTakes(v)
        PROVE  FieldsAreOneShare'
    <3>1. UNCHANGED shareVars
      BY <2>4 DEF VisitArrives, VisitArrive, VisitRefused, Arrived, VisitRun, PageLook,
         ListNothing, ListUnauthorized, ListLook, FileForbidden, FileUnknown, FileLook,
         FileOpen, VisitorTakes, Look, serverVars
    <3>. QED
      BY <2>1, <3>1
  <2>. QED
    BY <2>1, <2>2, <2>3, <2>4 DEF WebNext, Call, webVars, serverVars
<1>2. ASSUME UNCHANGED <<request, seen>>
      PROVE  SeenIsOneShare'
  BY <1>2 DEF ShareInv, SeenIsOneShare
<1>3. ASSUME NEW v \in Visit, VisitArrives(v)
      PROVE  SeenIsOneShare'
  <2>1. UNCHANGED seen /\ v \notin DOMAIN request
    BY <1>3 DEF VisitArrives, VisitArrive, VisitRefused, Arrived, WebTypeOK
  <2>2. \A w \in DOMAIN request : request'[w] = request[w]
    BY <1>3, <2>1 DEF VisitArrives, VisitArrive, VisitRefused, Arrived
  <2>. QED
    BY <2>1, <2>2 DEF ShareInv, SeenIsOneShare, WebTypeOK
<1>4. ASSUME NEW v \in Visit, VisitRun(v) \/ VisitorTakes(v)
      PROVE  SeenIsOneShare'
  <2>1. UNCHANGED request
    BY <1>4 DEF VisitRun, PageLook, ListNothing, ListUnauthorized, ListLook,
       FileForbidden, FileUnknown, FileLook, FileOpen, VisitorTakes, Look
  <2>2. \/ UNCHANGED seen
        \/ See(v) /\ (request[v].kind = "file" =>
                        session # None /\ request[v].sid = session
                          /\ request[v].fid \in files)
    BY <1>4 DEF VisitRun, PageLook, ListNothing, ListUnauthorized, ListLook,
       FileForbidden, FileUnknown, FileLook, FileOpen, VisitorTakes, Look
  <2>3. CASE UNCHANGED seen
    BY <2>1, <2>3, <1>2
  <2>4. ASSUME See(v),
               request[v].kind = "file" =>
                 session # None /\ request[v].sid = session /\ request[v].fid \in files
        PROVE  SeenIsOneShare'
    <3>. DEFINE sh == [session |-> session, files |-> files]
    <3>1. /\ sh.session = session /\ sh.files = files
          /\ seen' = [w \in DOMAIN seen \cup {v} |-> IF w = v THEN sh ELSE seen[w]]
      BY <2>4 DEF See
    <3>. HIDE DEF sh
    <3>2. /\ DOMAIN seen' = DOMAIN seen \cup {v} /\ seen'[v] = sh
          /\ \A w \in DOMAIN seen \ {v} : seen'[w] = seen[w]
      BY <3>1
    <3>3. request[v].kind = "file" =>
            request[v].sid # None /\ request[v].fid \in Shares[request[v].sid]
      BY <2>4 DEF ShareInv, FieldsAreOneShare
    <3>4. sh.files = IF sh.session = None THEN {} ELSE Shares[sh.session]
      BY <3>1 DEF ShareInv, FieldsAreOneShare
    <3>. QED
      BY <2>1, <3>2, <3>3, <3>4 DEF ShareInv, SeenIsOneShare
  <2>. QED
    BY <2>2, <2>3, <2>4
<1>5. SeenIsOneShare'
  BY <1>2, <1>3, <1>4
  DEF WebNext, Call, StartRun, StartRefused, StartListens, StartListenFails,
      ServeBegin, StopRun, StopNothing, StopBegin, StopEnd, webVars, visitVars
<1>. QED
  BY <1>1, <1>5 DEF ShareInv

(* What a visitor is shown or sent is one share, and a file goes only to a *)
(* visit that names its session.                                           *)
THEOREM SeenIsOneShareAlways == WebSpec => []SeenIsOneShare
<1>1. WebInit => WebTypeOK /\ ShareInv
  BY InitWebTypeOK, InitShareInv
<1>2. WebTypeOK /\ ShareInv /\ [WebNext]_webVars => WebTypeOK' /\ ShareInv'
  BY NextWebTypeOK, NextShareInv
<1>3. ShareInv => SeenIsOneShare
  BY DEF ShareInv
<1>. QED
  BY <1>1, <1>2, <1>3, PTL DEF WebSpec

----------------------------------------------------------------------------
(***************************************************************************)
(* Which servers have a port.  A server that a call of Start has not made  *)
(* yet has none; one that answers is the current one and not being         *)
(* stopped; one whose Serve is still to run is the current one or has been *)
(* shut down.  A stop holds the mutex from its Shutdown until the server   *)
(* is forgotten.                                                           *)
(***************************************************************************)
NotYetMade == \A a \in Starter : call[a] \in {"idle", "called"} =>
                serve[a] = "none" /\ a # current /\ a \notin shut

OnlyCurrentHasPort == \A a \in Starter :
  /\ serve[a] = "serving" => a = current /\ a \notin shut
  /\ serve[a] = "bound" => a = current \/ a \in shut
  /\ serve[a] = "closed" => a \in shut

CurrentIsShared ==
  current # None => session = current /\ serve[current] # "none"

StopHolds == holder \in Stopper <=> current \in shut

ServerInv == NotYetMade /\ OnlyCurrentHasPort /\ CurrentIsShared /\ StopHolds

(***************************************************************************)
(* At most one port answers browsers, that of the last server started, and *)
(* behind it are the session and files of that very call of Start; while a *)
(* stop waits for visitors none answers (server.go:474-520).               *)
(***************************************************************************)
OneServing ==
  \A a \in Starter : serve[a] = "serving" =>
    a = current /\ session = a /\ files = Shares[a] /\ holder \notin Stopper

LEMMA InitServerInv == WebInit => ServerInv
BY WebShareAssumption
DEF WebInit, ServerInv, NotYetMade, OnlyCurrentHasPort, CurrentIsShared, StopHolds, Caller

(* A visit touches no field of the server, and the mutex only for itself.  *)
LEMMA VisitsAside ==
  ASSUME NEW v \in Visit, VisitArrives(v) \/ VisitRun(v) \/ VisitorTakes(v)
  PROVE  /\ UNCHANGED <<shareVars, serve, shut, call>>
         /\ \/ holder' = holder
            \/ holder' = v /\ holder = None
            \/ holder' = None /\ holder = v
BY DEF VisitArrives, VisitArrive, VisitRefused, Arrived, VisitRun, PageLook, ListNothing,
   ListUnauthorized, ListLook, FileForbidden, FileUnknown, FileLook, FileOpen,
   VisitorTakes, Look, serverVars

(* The steps that make no server, stop none and leave the mutex to stops.  *)
LEMMA ServersAlone ==
  ASSUME ServerInv, UNCHANGED <<shareVars, serve, shut>>,
         \A a \in Starter : call'[a] \in {"idle", "called"} => call[a] \in {"idle", "called"},
         holder' \in Stopper <=> holder \in Stopper
  PROVE  ServerInv'
BY DEF ServerInv, NotYetMade, OnlyCurrentHasPort, CurrentIsShared, StopHolds, shareVars

LEMMA StartServers ==
  ASSUME WebTypeOK, ServerInv, NEW a \in Starter, StartRun(a)
  PROVE  ServerInv'
<1>. USE WebShareAssumption
<1>1. CASE StartRefused(a)
  BY <1>1, ServersAlone DEF StartRefused, Return, WebTypeOK, Caller
<1>2. CASE StartListens(a)
  <2>1. /\ call[a] = "called" /\ current = None /\ holder \notin Stopper
        /\ current' = a /\ session' = a /\ UNCHANGED <<holder, shut>>
        /\ serve' = [serve EXCEPT ![a] = "bound"]
        /\ call' = [call EXCEPT ![a] = "returned"]
    BY <1>2 DEF StartListens, Publish, Return
  <2>2. /\ serve'[a] = "bound" /\ call'[a] = "returned"
        /\ \A b \in Starter \ {a} : serve'[b] = serve[b] /\ call'[b] = call[b]
    BY <2>1 DEF WebTypeOK, Caller
  <2>3. a \notin shut
    BY <2>1 DEF ServerInv, NotYetMade
  <2>4. NotYetMade' /\ OnlyCurrentHasPort'
    BY <2>1, <2>2, <2>3 DEF ServerInv, NotYetMade, OnlyCurrentHasPort
  <2>. QED
    BY <2>1, <2>2, <2>3, <2>4 DEF ServerInv, CurrentIsShared, StopHolds
<1>3. CASE StartListenFails(a)
  <2>1. /\ current = None /\ UNCHANGED <<current, holder, serve, shut>>
        /\ call' = [call EXCEPT ![a] = "failed"]
    BY <1>3 DEF StartListenFails, Publish, Return
  <2>2. \A b \in Starter : call'[b] \in {"idle", "called"} => call[b] \in {"idle", "called"}
    BY <2>1 DEF WebTypeOK, Caller
  <2>. QED
    BY <2>1, <2>2
    DEF ServerInv, NotYetMade, OnlyCurrentHasPort, CurrentIsShared, StopHolds
<1>. QED
  BY <1>1, <1>2, <1>3 DEF StartRun

LEMMA ServeBeginServers ==
  ASSUME WebTypeOK, ServerInv, NEW a \in Starter, ServeBegin(a)
  PROVE  ServerInv'
<1>1. /\ serve[a] = "bound"
      /\ serve'[a] = IF a \in shut THEN "closed" ELSE "serving"
      /\ \A b \in Starter \ {a} : serve'[b] = serve[b]
      /\ UNCHANGED <<current, session, holder, shut, call>>
  BY DEF ServeBegin, WebTypeOK, shareVars
<1>2. a # current => a \in shut
  BY <1>1 DEF ServerInv, OnlyCurrentHasPort
<1>3. NotYetMade' /\ OnlyCurrentHasPort'
  BY <1>1, <1>2 DEF ServerInv, NotYetMade, OnlyCurrentHasPort
<1>4. CurrentIsShared'
  <2>1. current # None => current \in Starter
    BY DEF WebTypeOK
  <2>. QED
    BY <1>1, <2>1 DEF ServerInv, CurrentIsShared
<1>. QED
  BY <1>1, <1>3, <1>4 DEF ServerInv, StopHolds

LEMMA StopServers ==
  ASSUME WebTypeOK, ServerInv, NEW c \in Stopper, StopRun(c)
  PROVE  ServerInv'
<1>. USE WebShareAssumption
<1>1. c \notin Starter
  OBVIOUS
<1>2. \A a \in Starter : call'[a] = call[a]
  BY <1>1 DEF StopRun, StopNothing, StopBegin, StopEnd, Return, WebTypeOK, Caller
<1>3. CASE StopNothing(c)
  BY <1>2, <1>3, ServersAlone DEF StopNothing
<1>4. CASE StopBegin(c)
  <2>1. /\ current \in Starter /\ holder' \in Stopper /\ shut' = shut \cup {current}
        /\ serve'[current] = IF serve[current] = "serving" THEN "closed" ELSE serve[current]
        /\ \A b \in Starter \ {current} : serve'[b] = serve[b]
        /\ UNCHANGED <<current, session>>
    BY <1>4 DEF StopBegin, WebTypeOK, shareVars
  <2>2. NotYetMade'
    BY <1>2, <2>1 DEF ServerInv, NotYetMade
  <2>3. OnlyCurrentHasPort'
    BY <2>1 DEF ServerInv, OnlyCurrentHasPort
  <2>4. CurrentIsShared' /\ StopHolds'
    BY <2>1 DEF ServerInv, CurrentIsShared, StopHolds
  <2>. QED
    BY <2>2, <2>3, <2>4 DEF ServerInv
<1>5. CASE StopEnd(c)
  <2>1. /\ holder = c /\ current' = None /\ holder' = None /\ UNCHANGED <<serve, shut>>
        /\ None \notin shut /\ None \notin Stopper
    BY <1>5 DEF StopEnd, WebTypeOK
  <2>2. current \in shut
    BY <2>1 DEF ServerInv, StopHolds
  <2>3. NotYetMade' /\ OnlyCurrentHasPort'
    BY <1>2, <2>1, <2>2 DEF ServerInv, NotYetMade, OnlyCurrentHasPort
  <2>. QED
    BY <2>1, <2>3 DEF ServerInv, CurrentIsShared, StopHolds
<1>. QED
  BY <1>3, <1>4, <1>5 DEF StopRun

LEMMA NextServerInv ==
  ASSUME WebTypeOK, ServerInv, [WebNext]_webVars
  PROVE  ServerInv'
<1>. USE WebShareAssumption
<1>1. ASSUME NEW c \in Caller, Call(c) PROVE ServerInv'
  BY <1>1, ServersAlone DEF Call, WebTypeOK, Caller
<1>2. ASSUME NEW v \in Visit, VisitArrives(v) \/ VisitRun(v) \/ VisitorTakes(v)
      PROVE  ServerInv'
  BY <1>2, VisitsAside, ServersAlone
<1>3. CASE UNCHANGED webVars
  BY <1>3, ServersAlone DEF webVars, serverVars
<1>. QED
  BY <1>1, <1>2, <1>3, StartServers, ServeBeginServers, StopServers DEF WebNext

THEOREM OneServingAlways == WebSpec => []OneServing
<1>1. WebInit => WebTypeOK /\ ShareInv /\ ServerInv
  BY InitWebTypeOK, InitShareInv, InitServerInv
<1>2. WebTypeOK /\ ShareInv /\ ServerInv /\ [WebNext]_webVars
        => WebTypeOK' /\ ShareInv' /\ ServerInv'
  BY NextWebTypeOK, NextShareInv, NextServerInv
<1>3. ShareInv /\ ServerInv => OneServing
  BY WebShareAssumption
  DEF ShareInv, FieldsAreOneShare, ServerInv, OnlyCurrentHasPort, CurrentIsShared,
      StopHolds, OneServing
<1>. QED
  BY <1>1, <1>2, <1>3, PTL DEF WebSpec

----------------------------------------------------------------------------
(***************************************************************************)
(* A visit arrives at the current server, and finds the files of its share *)
(* behind it (server.go:497-503, 541).                                     *)
(***************************************************************************)
ArrivesAtCurrent ==
  [][\A v \in Visit : vpc[v] = "idle" /\ vpc'[v] # "idle" =>
       request'[v].on = current /\ files = Shares[request'[v].on]]_webVars

THEOREM ArrivesAtCurrentAlways == WebSpec => ArrivesAtCurrent
<1>1. ASSUME WebTypeOK, OneServing, WebNext, NEW v \in Visit, vpc[v] = "idle", vpc'[v] # "idle"
      PROVE  request'[v].on = current /\ files = Shares[request'[v].on]
  <2>1. PICK w \in Visit : VisitArrives(w) \/ VisitRun(w) \/ VisitorTakes(w)
    BY <1>1 DEF WebNext, Call, StartRun, StartRefused, StartListens, StartListenFails,
       ServeBegin, StopRun, StopNothing, StopBegin, StopEnd, visitVars
  <2>2. \A u \in Visit \ {w} : vpc'[u] = vpc[u]
    BY <1>1, <2>1 DEF VisitArrives, VisitArrive, VisitRefused, VisitRun, PageLook,
       ListNothing, ListUnauthorized, ListLook, FileForbidden, FileUnknown, FileLook,
       FileOpen, VisitorTakes, Done, Goto, WebTypeOK
  <2>3. w = v /\ ~VisitRun(v) /\ ~VisitorTakes(v)
    BY <1>1, <2>1, <2>2 DEF VisitRun, PageLook, ListNothing, ListUnauthorized, ListLook,
       FileForbidden, FileUnknown, FileLook, FileOpen, VisitorTakes, Look
  <2>4. PICK a \in Starter, kind \in Kind, sid \in Starter \cup {None},
             fid \in SharedFile, pin \in BOOLEAN :
          Arrived(v, a, kind, sid, fid, pin)
    BY <2>1, <2>3 DEF VisitArrives, VisitArrive, VisitRefused
  <2>5. serve[a] = "serving" /\ request'[v].on = a
    BY <2>4 DEF Arrived
  <2>. QED
    BY <1>1, <2>5 DEF OneServing
<1>2. WebTypeOK /\ OneServing /\ [WebNext]_webVars =>
        [\A v \in Visit : vpc[v] = "idle" /\ vpc'[v] # "idle" =>
           request'[v].on = current /\ files = Shares[request'[v].on]]_webVars
  BY <1>1
<1>. QED
  BY <1>2, WebTypeCorrect, OneServingAlways, PTL DEF WebSpec, ArrivesAtCurrent

----------------------------------------------------------------------------
(***************************************************************************)
(* The list a visitor is being sent is what is shared at that moment, for  *)
(* as long as it takes it, whatever starts and stops are called meanwhile: *)
(* handlePrepareDownload answers with the mutex held (server.go:632-658).  *)
(***************************************************************************)
ListIsCurrent ==
  \A v \in Visit : holder = v => seen[v].session = session /\ seen[v].files = files

THEOREM ListIsCurrentAlways == WebSpec => []ListIsCurrent
<1>. USE WebShareAssumption
<1>1. WebInit => ListIsCurrent
  BY DEF WebInit, ListIsCurrent
<1>2. ASSUME WebTypeOK, ListIsCurrent, [WebNext]_webVars PROVE ListIsCurrent'
  <2>1. ASSUME UNCHANGED <<seen, shareVars>>, holder' \in Visit => holder' = holder
        PROVE  ListIsCurrent'
    BY <1>2, <2>1 DEF ListIsCurrent, shareVars
  <2>2. ASSUME UNCHANGED seen, holder' \notin Visit PROVE ListIsCurrent'
    BY <2>2 DEF ListIsCurrent
  <2>3. ASSUME NEW c \in Caller, Call(c) PROVE ListIsCurrent'
    BY <2>1, <2>3 DEF Call, visitVars
  <2>4. ASSUME NEW a \in Starter, StartRun(a) \/ ServeBegin(a) PROVE ListIsCurrent'
    BY <2>1, <2>2, <2>4 DEF StartRun, StartRefused, StartListens, StartListenFails, Publish,
       ServeBegin, visitVars
  <2>5. ASSUME NEW c \in Stopper, StopRun(c) PROVE ListIsCurrent'
    BY <2>1, <2>2, <2>5 DEF StopRun, StopNothing, StopBegin, StopEnd, visitVars
  <2>6. ASSUME NEW v \in Visit, VisitArrives(v) \/ VisitRun(v) \/ VisitorTakes(v)
        PROVE  ListIsCurrent'
    <3>1. CASE See(v)
      <4>1. UNCHANGED shareVars
        BY <2>6, VisitsAside
      <4>. DEFINE sh == [session |-> session, files |-> files]
      <4>2. seen' = [w \in DOMAIN seen \cup {v} |-> IF w = v THEN sh ELSE seen[w]]
        BY <3>1 DEF See
      <4>3. sh.session = session /\ sh.files = files
        OBVIOUS
      <4>. HIDE DEF sh
      <4>4. holder' \in {None, holder, v}
        BY <2>6, VisitsAside
      <4>5. \A w \in Visit : holder = w => w \in DOMAIN seen
        BY <1>2 DEF WebTypeOK
      <4>6. seen'[v] = sh /\ \A w \in DOMAIN seen \ {v} : seen'[w] = seen[w]
        BY <4>2
      <4>. QED
        BY <1>2, <4>1, <4>3, <4>4, <4>5, <4>6 DEF ListIsCurrent, shareVars
    <3>2. CASE ~See(v)
      <4>1. UNCHANGED <<seen, shareVars>> /\ holder' \in {None, holder}
        BY <2>6, <3>2 DEF VisitArrives, VisitArrive, VisitRefused, Arrived, VisitRun,
           PageLook, ListNothing, ListUnauthorized, ListLook, FileForbidden, FileUnknown,
           FileLook, FileOpen, VisitorTakes, Look, serverVars
      <4>. QED
        BY <2>1, <4>1
    <3>. QED
      BY <3>1, <3>2
  <2>7. CASE UNCHANGED webVars
    BY <2>1, <2>7 DEF webVars, serverVars, visitVars
  <2>. QED
    BY <1>2, <2>3, <2>4, <2>5, <2>6, <2>7 DEF WebNext
<1>. QED
  BY <1>1, <1>2, WebTypeCorrect, PTL DEF WebSpec

----------------------------------------------------------------------------
(***************************************************************************)
(* A stop is graceful: a visit outlives the server it came to only when    *)
(* some stop's context ended before the visitor took its answer.  Without  *)
(* such a stop nobody is cut off, also when the server was stopped before  *)
(* its Serve began, and when others were started since (server.go:510-520).*)
(***************************************************************************)
OnlyDeadlinesCutOff ==
  \A v \in DOMAIN request :
    vpc[v] # "done" /\ request[v].on # current =>
      \E c \in Deadline : call[c] = "returned"

(* A stop that returned has, for good.                                     *)
LEMMA ReturnedStays ==
  ASSUME WebTypeOK, [WebNext]_webVars, NEW c \in Deadline, call[c] = "returned"
  PROVE  call'[c] = "returned"
<1>. USE WebShareAssumption
<1>1. c \in Stopper /\ c \in Caller /\ c \notin Starter
  BY DEF Caller
<1>2. ASSUME NEW d \in Caller, NEW how, call[d] # "returned",
             call' = [call EXCEPT ![d] = how]
      PROVE  call'[c] = "returned"
  BY <1>1, <1>2 DEF WebTypeOK
<1>3. ASSUME NEW d \in Caller, Call(d) PROVE call'[c] = "returned"
  BY <1>2, <1>3 DEF Call
<1>4. ASSUME NEW a \in Starter, StartRun(a) PROVE call'[c] = "returned"
  BY <1>1, <1>4 DEF StartRun, StartRefused, StartListens, StartListenFails, Publish,
     Return, WebTypeOK, Caller
<1>5. ASSUME NEW d \in Stopper, StopRun(d) PROVE call'[c] = "returned"
  <2>1. call[d] # "returned" /\ d \in Caller
    BY <1>5 DEF StopRun, StopNothing, StopBegin, StopEnd, Caller
  <2>. QED
    BY <1>2, <1>5, <2>1 DEF StopRun, StopNothing, StopBegin, StopEnd, Return
<1>6. CASE UNCHANGED call
  BY <1>6
<1>7. ASSUME NEW v \in Visit, VisitArrives(v) \/ VisitRun(v) \/ VisitorTakes(v)
      PROVE  call'[c] = "returned"
  BY <1>6, <1>7, VisitsAside
<1>. QED
  BY <1>3, <1>4, <1>5, <1>6, <1>7 DEF WebNext, ServeBegin, webVars, serverVars

LEMMA CutOffStep ==
  ASSUME WebTypeOK, ServerInv, OneServing, OnlyDeadlinesCutOff, [WebNext]_webVars
  PROVE  OnlyDeadlinesCutOff'
<1>. USE WebShareAssumption
<1>1. ASSUME NEW c \in Deadline, call[c] = "returned" PROVE OnlyDeadlinesCutOff'
  BY <1>1, ReturnedStays DEF OnlyDeadlinesCutOff
<1>2. SUFFICES ASSUME \A c \in Deadline : call[c] # "returned"
               PROVE  OnlyDeadlinesCutOff'
  BY <1>1
<1>3. \A v \in DOMAIN request : vpc[v] # "done" => request[v].on = current
  BY <1>2 DEF OnlyDeadlinesCutOff
<1>4. ASSUME UNCHANGED <<current, vpc, request>> PROVE OnlyDeadlinesCutOff'
  BY <1>3, <1>4 DEF OnlyDeadlinesCutOff
<1>5. ASSUME NEW c \in Caller, Call(c) PROVE OnlyDeadlinesCutOff'
  BY <1>4, <1>5 DEF Call, shareVars, visitVars
<1>6. ASSUME NEW a \in Starter, StartRun(a) \/ ServeBegin(a) PROVE OnlyDeadlinesCutOff'
  <2>1. CASE StartListens(a)
    <3>1. current = None /\ UNCHANGED <<vpc, request>>
      BY <2>1 DEF StartListens, Publish, visitVars
    <3>2. \A v \in DOMAIN request : request[v].on # None
      BY DEF WebTypeOK, Request
    <3>. QED
      BY <1>3, <3>1, <3>2 DEF OnlyDeadlinesCutOff
  <2>. QED
    BY <1>4, <1>6, <2>1 DEF StartRun, StartRefused, StartListenFails, ServeBegin,
       shareVars, visitVars
<1>7. ASSUME NEW c \in Stopper, StopRun(c) PROVE OnlyDeadlinesCutOff'
  <2>1. CASE StopEnd(c)
    <3>1. UNCHANGED <<vpc, request>> /\ call' = [call EXCEPT ![c] = "returned"]
      BY <2>1 DEF StopEnd, Return, visitVars
    <3>2. CASE c \in Deadline
      BY <3>1, <3>2 DEF OnlyDeadlinesCutOff, WebTypeOK, Caller
    <3>3. CASE Active(current) = {}
      <4>1. \A v \in DOMAIN request : vpc[v] = "done"
        BY <1>3, <3>3 DEF Active
      <4>. QED
        BY <3>1, <4>1 DEF OnlyDeadlinesCutOff
    <3>. QED
      BY <2>1, <3>2, <3>3 DEF StopEnd
  <2>. QED
    BY <1>4, <1>7, <2>1 DEF StopRun, StopNothing, StopBegin, shareVars, visitVars
<1>8. ASSUME NEW v \in Visit, VisitArrives(v) PROVE OnlyDeadlinesCutOff'
  <2>1. PICK a \in Starter, kind \in Kind, sid \in Starter \cup {None},
             fid \in SharedFile, pin \in BOOLEAN :
          /\ Arrived(v, a, kind, sid, fid, pin)
          /\ \E step \in {"look", "done"} : vpc' = [vpc EXCEPT ![v] = step]
    BY <1>8 DEF VisitArrives, VisitArrive, VisitRefused, Goto, Done
  <2>2. /\ serve[a] = "serving" /\ request'[v].on = a /\ UNCHANGED current
        /\ v \notin DOMAIN request /\ DOMAIN request' = DOMAIN request \cup {v}
        /\ \A w \in DOMAIN request : request'[w] = request[w]
    BY <2>1 DEF Arrived, serverVars, shareVars, WebTypeOK
  <2>3. \A w \in DOMAIN request : vpc'[w] = vpc[w]
    BY <2>1, <2>2 DEF WebTypeOK
  <2>. QED
    BY <1>3, <2>2, <2>3 DEF OnlyDeadlinesCutOff, OneServing
<1>9. ASSUME NEW v \in Visit, VisitRun(v) \/ VisitorTakes(v) PROVE OnlyDeadlinesCutOff'
  <2>1. UNCHANGED <<current, request>> /\ vpc[v] \notin {"idle", "done"}
    BY <1>9 DEF VisitRun, PageLook, ListNothing, ListUnauthorized, ListLook,
       FileForbidden, FileUnknown, FileLook, FileOpen, VisitorTakes, Look, serverVars,
       shareVars
  <2>2. \A w \in Visit \ {v} : vpc'[w] = vpc[w]
    BY <1>9 DEF VisitRun, PageLook, ListNothing, ListUnauthorized, ListLook,
       FileForbidden, FileUnknown, FileLook, FileOpen, VisitorTakes, Look, Done, Goto,
       WebTypeOK
  <2>3. \A w \in DOMAIN request : vpc'[w] # "done" => vpc[w] # "done"
    BY <2>1, <2>2 DEF WebTypeOK
  <2>. QED
    BY <1>3, <2>1, <2>3 DEF OnlyDeadlinesCutOff
<1>10. CASE UNCHANGED webVars
  BY <1>4, <1>10 DEF webVars, serverVars, shareVars, visitVars
<1>. QED
  BY <1>5, <1>6, <1>7, <1>8, <1>9, <1>10 DEF WebNext

THEOREM OnlyDeadlinesCutOffAlways == WebSpec => []OnlyDeadlinesCutOff
<1>1. WebInit => ServerInv /\ OnlyDeadlinesCutOff
  BY InitServerInv DEF WebInit, OnlyDeadlinesCutOff
<1>2. WebTypeOK /\ ServerInv /\ OneServing /\ OnlyDeadlinesCutOff /\ [WebNext]_webVars
        => ServerInv' /\ OnlyDeadlinesCutOff'
  BY NextServerInv, CutOffStep
<1>. QED
  BY <1>1, <1>2, WebTypeCorrect, OneServingAlways, PTL DEF WebSpec

=============================================================================
