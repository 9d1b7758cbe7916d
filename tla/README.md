# TLA+ models and proofs for localsend (Go)

The program sends files between devices of a local network: it discovers peers
(UDP multicast, mDNS, a subnet scan), and a sender negotiates a session with a
receiver over HTTP(S) (`prepare-upload`), uploads each file (`upload`), and may
give up (`cancel`). It can also share files with browsers (`prepare-download`,
`download`). Paths below are relative to the repository (`src/`).

## 1. Inventory

| Component | Source | State it keeps | Operations |
|---|---|---|---|
| upload sessions | `pkg/session/session.go:12-98,215-221` | per session, under its own mutex: last access, progress and completed flag per file, canceled context; immutable: sender address, verified flag, files, tokens | `NewUploadSession`, `Touch`, `Cancel`, `UpdateProgress`, `IsCompleted`, `IsCanceled` |
| session manager | `session.go:100-213` | `sync.Map` of sessions, a context, the cleanup goroutine and its ticker | `CreateSession`, `GetSession`, `DeleteSession`, `IsBusy`, `Close`, `startCleanupLoop` |
| upload server | `pkg/server/server.go:171-472` | none of its own: the session table and the save directory | `handlePrepareUpload`, `handleUpload`, `handleCancel`, `getUniquePath` |
| info, register, start, shutdown | `server.go:69-170` | `httpServer`, written by `Start`, read by `Shutdown` | `Start`, `Shutdown`, `handleInfo`, `handleRegister` |
| download server | `server.go:474-735` | under `downloadMu`: `downloadServer`, `sharedFiles`, `downloadSession` | `StartDownloadServer`, `StopDownloadServer`, `handleWebUI`, `handlePrepareDownload`, `handleDownload` |
| sending client | `pkg/client/client.go` | local to `SendFiles`: session id, results | `SendFiles`, `uploadFile`, `cancelSession`, `Register` |
| UDP multicast discovery | `pkg/discovery/discovery.go:20-220` | `lastReceived` (a `sync.Map`), the listening sockets | `SendAnnounce`, `StartMulticastListener` |
| legacy scan | `discovery.go:222-397` | a semaphore of 64, a wait group | `ScanLegacy`, `scanHost` |
| mDNS, listener and advertiser groups | `pkg/discovery/mdns.go` | registrations, closers | `StartListeners`, `StartAdvertising`, ... |
| certificates | `pkg/crypto/crypto.go` | two files on disk | `LoadOrGenerateCredentials`, `GenerateSelfSignedCert` |
| protocol types, aliases | `pkg/protocol/` | none | data types, a random alias |
| command line | `cmd/localsend/main.go` | the map of devices a search finds, the port chosen | `receive`, `send`, `scan` |
| messages, socket options, test script | `internal/i18n/`, `pkg/discovery/sockopts_*.go`, `test/` | a read-only table | lookup, system calls |

**How they interact.** A sender's `SendFiles` makes HTTP requests; every request
runs in a goroutine of the receiver's HTTP server. `handlePrepareUpload` stats
the save directory, asks the manager `IsBusy`, calls the user back, creates a
session. `handleUpload` looks the session up, finds a free name, creates the
file, and for every chunk read from the connection writes it and records the
progress in the session; the upload that finds all files completed deletes the
session. `handleCancel` deletes it too, and so does the cleanup loop once it has
been idle for the timeout. A deletion cancels the session's context, which
uploads in progress poll between two reads. Discovery calls back with devices;
the command line prints them, registers back, or picks one to send to.

**Hard behaviours.** No lock spans two steps of any upload handler: check and
act are separate everywhere (`IsBusy` and `CreateSession`, `Stat` and `Create`,
the last access read and `LoadAndDelete`, `IsCompleted` and `DeleteSession`).
Sessions are shared by pointer and outlive their entry in the map. Uploads block
in `body.Read` with no timeout. Errors leave files and counts behind.
The download server keeps its mutex while it waits for handlers that need the
mutex. The client gives its transfers no time limit and cannot tell a lost
request from a lost answer. A search builds its list while its goroutines still
write to the map. Two processes read and write one pair of credential files, and
bind one range of ports, without a lock. `PROJECT.json` lists every hazard at its
line.

**What makes each component correct.**

- *Sessions and manager*: a session taken out of the table is canceled, once, by
  the one goroutine that took it out; the completed flags tell the progress
  counts; the cleanup loop does not take a session in use, and takes an
  abandoned one eventually.
- *Upload server*: it uses the table only through the manager's operations;
  files that were there stay as they were; the answer to an upload tells what is
  on disk; a session is released only after its files were received; one sender
  at a time; a canceled upload ends and leaves nothing.
- *Download server*: a file is sent only under the session it was shared in; a
  page lists the files of one share; a stop ends and leaves nothing listening.
- *Client*: it reports a file as sent only if the receiver stored it, whatever
  connections break; a failed transfer ends its session; the call returns.
- *Discovery*: the duplicate filter loses no device; a listener whose context
  ended leaves no goroutine; at most `Slots` probes are under way, and all are
  over when the scan returns; a list misses nothing found in time; a send leaves
  nothing of its search running.
- *Credentials and start*: a complete pair of files is used and kept; torn files
  do not stop a start and are replaced; a start comes to serve or to send, and
  exits for no other reason than a refused write or a port taken when it is needed.

## 2. Modules

```
UploadSession      one session: the data and the methods of UploadSession
  SessionManager   the table, handlers calling it at random, the cleanup loop
    UploadServer   (with SaveDir) the three handlers over the table and the disk
      UploadServerProperties   what they promise; what the documentation claims
      Transfer     SendFiles and its connections composed with UploadServer
        TransferProperties     what a transfer promises
SessionLife        abstract: what the table promises of every session
FileTransfer       abstract: what a call of SendFiles promises its user
SaveDir            the save directory: os.Stat, os.Create, Write, os.Remove
WebShare           sharing with browsers: start, stop and the three handlers
MulticastListener  the goroutines of the listener and their duplicate filter
LegacyScan         the subnet scan: targets, slots, probes
  DeviceSearch     the search of scan and send: scan, listener, mDNS, the list
Startup            start of receive and send: ports, credentials, Server.Start
SessionManagerProofs, UploadServerProofs, UploadReleaseProofs, WebShareProofs,
TransferProofs, MulticastListenerProofs, DeviceSearchProofs, StartupProofs
                   theorems
MCSessionManager, MCUploadServer, MCWebShare, MCTransfer, MCMulticastListener,
MCDeviceSearch, MCStartup
                   instances for TLC
```

There are three refinements. `UploadServer` implements `SessionManager` under the
identity: its steps change the table only as `SMNext` allows
(`UsesSessionManager`). `SessionManager`, and with it the server and the receiver
of a transfer, implements `SessionLife` (`ImplementsSessionLife`): a session is
opened once, under terms that never change, ends once, and is canceled once,
after its end. The mapping is

| `SessionLife` | `SessionManager` |
|---|---|
| `stage` | *unused* if not in `created`, else *canceled* if its context is, else *open* if in the table, else *ended* |
| `terms` | the sender's address, the verified flag and the files of the session in the heap |

`Transfer` implements `FileTransfer` (`ImplementsFileTransfer`) under

| `FileTransfer` | `Transfer` |
|---|---|
| `stored` | the files whose upload was answered 200; all that were offered when the prepare was answered 204 |
| `reported` | `results` |
| `over` | `phase = "returned"` |

**UploadSession** has no variables. A session is a record; each method of the
struct, which holds the session's mutex for its whole body, is an operator on the
record. Sizes and byte counts are in units of one `body.Read`. A token is a
fresh UUID, identified with the (session, file) pair it was drawn for.

**SessionManager**: `registered` is the key set of the `sync.Map`, `sess` the
heap of all sessions created (a handler keeps its pointer after a deletion),
`closing` the sessions a handler took out of the map and has not canceled yet,
`sweep` the cleanup goroutine (program counter, time of its tick, keys still to
visit, the one found expired), `running` the manager's context, `now` the clock.
Actions are the manager's methods, split where another goroutine can interfere:
`LoadAndDelete`/`CancelDeleted` are the two halves of `DeleteSession`,
`SweepTick`/`SweepVisit`/`SweepDelete`/`SweepCancel`/`SweepEnd`/`SweepExit` the
loop. `SMNext` allows any handler to make any call at any time, so the module is
also the abstract specification of the table that `UploadServer` implements.

**SaveDir** models the operating system as the receiver uses it (external): a
path names an inode, a descriptor writes to an inode whatever happens to the
path, `os.Create` truncates a file that is there, a write past the end after a
truncation leaves a hole. The content is one mark per chunk: who wrote it.

**UploadServer** has one step per stretch of a handler between two accesses to
state other goroutines change:

| Request | Steps (`pc`) | Code |
|---|---|---|
| prepare | `idle` → `stat` → `busy` → `ask` → `replied` | `areAllFilesDuplicate` 185-199, `IsBusy` session.go:169-185, `filterAcceptedFiles` 201-230, `CreateSession` 286 |
| upload | `idle` → `stat` → `create` → `check` ⇄ `read` → `verify` → `finish` → `release` → `cancelctx` → `replied` | `validateUploadRequest` 297-333, `getUniquePath` 456-472, `os.Create` 343, the loop 356-387, checksum 389-399, `IsCompleted` 426, `DeleteSession` 427 |
| cancel | `idle` → `cancelctx` → `replied` | `handleCancel` 433-444 |

Steps merged on purpose, and why nothing is lost: `Load` and `Touch` of
`GetSession` (a deletion in between leaves what a deletion just after leaves);
`body.Read`, the write and `UpdateProgress` (until the count is recorded only the
upload's own inode and counter change; another upload on the same inode meets
the same chunk marks in either order of the two writes); the last `Stat` of
the duplicate check and the start of `IsBusy`'s `Range` (the check reads the
disk, the `Range` the table, and `Range` is not a snapshot anyway). `Range` in
`IsBusy` may or may not meet a session stored after it began; the cleanup loop's
`Range` visits the keys present at its start, as a session stored later cannot be
expired at the time read before.

Left out of `UploadServer`: PINs, wrong methods and bodies that do not parse are one refusal
(`Refuse`) each, as they read nothing shared; JSON, headers, logging and the
progress callback; the comparison of fingerprints is the Boolean `verified`.

**WebShare** has the server's three fields (`current` for `downloadServer`,
`session`, `files`), the mutex (`holder`), and per call of
`StartDownloadServer` its `http.Server`: listener and `Serve` goroutine
(`serve`), whether it was shut down (`shut`). The fields are touched under
`downloadMu` only, so a critical section that waits for nothing is one step,
enabled when `holder = None`. Two sections wait with the mutex held and are two
steps each: `StopBegin`/`StopEnd` around `Shutdown`, and `ListLook` /
`VisitorTakes` around the writing of the answer to `prepare-download`.
`handleDownload` opens and sends the file after it has unlocked (`FileOpen`,
`VisitorTakes`). A server shut down before its goroutine reached `Serve` keeps
its listener until that call finds it closed (`ServeBegin`). Whether the port can
be bound is a free choice. A visit is one connection with one request: a
connection accepted before a shutdown whose request is read after it is the same
as a request that arrived just before, since arriving reads nothing shared. The
PIN form, the cookie and the redirection are refusals or answers that read
nothing shared (`VisitRefused`). Every answer to `prepare-download` is taken to
exceed the connection's buffers; a shorter one is a visitor that takes it at
once.

**Transfer** adds the client to `UploadServer`: `phase` (where `SendFiles` is),
`next`, `session`, `results`, `err` as in the code, `given`, the length of the
slice (any number of the files of `Order`, at least one: `main.go:330`), and
`conn`, the connection of each request.

| `phase` | Code (`client.go`) |
|---|---|
| `start` → `prepare` | 155-190 |
| `prepare` → `files`, `returned` | 196-225 |
| `files` → `upload`, `cancel`, `returned`, or the next file | 239-265, 257 |
| `upload` → `files`, `cancel` | 284-302, 246-254 |
| `cancel` → `returned` | 228-234, 246-251 |

A request is delivered only once sent, but at any time after, also when its
connection has broken and the client has gone on. A connection breaks before
delivery, while the handler runs, or with the answer on its way; the client sees
the same error. The receiver keeps an answer to a broken connection to itself. An
upload announces the file's size (`ContentLength`), so its body ends there, or by
an error once the connection is broken. `trusted` is the outcome of
`verifyPeerFingerprint`, the same for every request as the peer is the same; it is
looked at before the status and before the session id is read. The receiver may
refuse by PIN, by strict TLS and by address as in `UploadServer`. Requests are
made to the address of `target`; redirects, proxies and marshalling are left out.

**MulticastListener** has one goroutine per socket (`step`, `held`) and the map
`lastReceived`. A packet may reach every socket once, at any time or never; the
`Load` with the `time.Since` that follows it, the reading of the clock, the `Store`
and the two callbacks are steps of their own. (What happens between the first two may
decide whether a packet of a key in the map passes; the properties hold
whichever of those pass.) `Receive` drops the process's own packets; those that do not decode
read nothing shared and are left out. The context ends and sockets are closed one
by one; a goroutine in a callback or at the filter finds out at its next read.

**LegacyScan** has the scanning goroutine (`scan`), one state per probe
(`todo` → `https` → `http` → `release` → `report` → `done`, an answer going to
`release` at once) and `slots`, the semaphore. The probes are the iterations of
the two loops, repetitions over several local addresses included; the second loop starts after the
first, and within a loop the order is free. The two halves of the deferred
function, `<-sem` and `wg.Done()`, are `Release` and `ReportDone`.

**DeviceSearch** composes it with the listener (any packet not the process's own,
at any time), the mDNS browser (what parses to a device), the clock and the
command: `found` is the keys of the `sync.Map`, `list` what is listed. `Range` is
not a snapshot: `RangeEnds` adds any of what was stored since `RangeBegins`.
`mode` is the discovery mode. Either listener or the advertiser may fail to start,
and the scan may find no local address. `Exited` ends the process and its
goroutines; a send that gets to `choose` lives on with them. `intime` records
what was found when the context expired, for the property.

**Startup** has, per process, `pc`, the `port` it tries, the certificate it has
read (`seen`) and the `pair` it uses; shared are `bound` (who listens where) and
the two files, each the pair it belongs to, `Empty` or `Missing`. `os.WriteFile`
is two steps, truncation and content. A process may be killed at any step and
started again; any start may fail to write the files (`WriteFails`) or to make the
save directory (`StartFails`). After that a receiver exits and a sender goes on
without a certificate (`GiveUp`). Loading succeeds exactly if both files hold
halves of one pair. Errors of `os.Stat` and of reading files that are there and
intact are left out: the code then generates a new pair (`crypto.go:104`) and
replaces the identity, so `IdentityStable` and `PairKept` hold as long as
what is there can be read. Other programs take and leave ports. `settled` records that a
complete pair was there, with nobody else still looking, when the process began
to look.

## 3. Runs

| Run | Question | Bounds |
|---|---|---|
| `session_manager` | does the table lose, double-cancel, bring back or wrongly expire a session under any handlers; does an abandoned session leave it? | 2 sessions, an empty file and one of a chunk, timeout 1, clock 0..2 |
| `uploads` | two uploads and two cancels racing on one session: disk, replies, release | an empty and a one-chunk file, up to 2 chunks sent, an existing file in the way, overlapping candidate names, no time |
| `requests` | does the server use the table only through the manager's operations; do canceled uploads end, deleted sessions get canceled, prepares get decided? | 2 prepares, an upload, a cancel, a session and a file of one chunk, strict TLS, clock 0..2 with the cleanup loop |
| `web_share` | is what a visitor sees always one share, whatever starts, stops and visits of earlier servers do; are ports released, does everybody get the mutex? | 2 starts, sharing one file and none, 2 stops, one of them with a deadline, 2 visits |
| `transfer` | whatever connections break, does what the sender is told agree with the receiver's disk; do its uploads keep out of each other's way; does the call return; what does it leave behind? | files of 1 and 2 chunks, one with a checksum, a file in the directory that may be a duplicate, 2 addresses, clock 0..2 |
| `listener` | does the duplicate filter lose a device; do the goroutines end? | 2 sockets or fewer, 2 packets of one device (the second asks for an answer) and an own one, window 1, clock 0..3 |
| `search` | does the list miss a device found in time; does the search end, its scan within its slots; what is left running beside a send? | 2 own probes and 1 subnet probe for 2 slots, 1 packet and an own one, 2 services, deadline 5, clock 0..6, the 3 modes |
| `startup` | does an identity last; does a start that is alone with torn files replace them; does every start come to serve or to send unless it is killed, refused a write, or finds the port it needs taken? | a receiver and a sender, 2 ports, 4 pairs, any number of kills and restarts |

Two goroutines of each kind are what a race needs: the properties relate at most
two of them (two deleters, two uploads of a path) and a session. A timeout of 1
and a clock to 2 reach *busy*, *idle for exactly the timeout* and *expired*, and
a tick before and after a use. Two chunks for a file of one reach short, exact
and long bodies. Four candidate names are more than two uploads and one existing
file can use up (three in `transfer`, where the uploads follow one another), so
`MaxTry` never blocks. In `transfer` a call may be given one file, which the
directory may hold already (the answer is then 204), or two: what it takes for a
failure after a success, a session left by the last upload, and a file never reached. Two
slots for three probes make a probe wait; a deadline of 5 half seconds is the
default of 2.5 s and leaves room for two rounds of two attempts each. Two processes are a reader
and a writer of the files, or two writers; each holds at most two of the pairs,
one on disk per file at most, so that four never run out. `CHECK_DEADLOCK FALSE` is set because
requests are finitely many: a server with none left stops. Symmetry is used in
runs without liveness only.

**Fairness.** `UploadServer!Fairness` says that goroutines that can run do: weak
fairness for the steps a handler takes by itself and for the cleanup loop (its
ticker ticks for ever). Nothing is assumed of the receiving user
(`PrepareAccept`/`PrepareReject`), of senders (`UploadReceives`: no read timeout
is set in the code), of arrivals, or of the clock. `WebShare!WebFairness` is the
same for the download server: the steps of a call or a handler that can run, the
`Serve` goroutine, and a context with a deadline that ends. No visitor is assumed
to read its answer (no write timeout is set), which is why `NobodyLockedOut` is
conditional: it promises the mutex to everybody provided no visit, and no stop
without a deadline, holds it for ever. `PoliteSpec`, where all visitors read, only serves `stop_hangs`,
to show that no visitor is to blame.

`TransferFairness` adds that the client's goroutine runs, that time passes, and
that the network delivers what an unbroken connection carries and tells the
receiver of a broken one. A connection need neither break nor an answer come
while the user decides, hence `SendReturns` starts at the grant.
`ListenerSpec` assumes that goroutines run, not that packets come or the context
ends. `SearchFairness` assumes the same of the search and that its timers fire:
`Tick` waits until no attempt is older than `http.Client.Timeout` allows, since
the runtime ends such an attempt by itself. `StartupSpec` assumes that a process
that can take a step does, unless it is killed; nobody need start one.

### Runs that refute a claim

Each checks one sentence of the documentation or of a comment that the code does
not keep; TLC's counterexample is the scenario.

| Run | Claim | What happens |
|---|---|---|
| `two_active` | 409 when another session is active (`protocol_spec.md:197`) | two prepares pass `IsBusy`, both are accepted |
| `stored_intact` | `getUniquePath` avoids conflicts (`server.go:340,456`) | two uploads find one name free, the second truncates what the first stored |
| `empty_file` | a session is released when all files are transferred (`server.go:425`) | an empty file counts as completed at once; its later upload is refused |
| `stop_hangs` | `StopDownloadServer` gracefully stops the server (`server.go:509`; `server_test.go:871` calls it without a deadline) | `Shutdown` waits, with `downloadMu` held, for a request that waits for `downloadMu` |

Two of the four are bounded by theorems (section 4). `stored_intact` takes two
senders, or two calls of `SendFiles`: within one call the uploads follow one another and
`StoredIntact` holds, in the run `transfer` and for any files
(`TransferStoresIntact`). `two_active` takes a session created, or used again, while
a prepare request is looking at the table: one that was there before and quiet since does
block (`QuietSessionBlocksAlways`).

Other sentences the code does not keep, met while modelling; no run checks them:

- 204 means the file is on the receiver (`protocol_spec.md:194`): the file
  `areAllFilesDuplicate` finds (`server.go:193`) may be another upload's, not yet
  verified, and be removed later.
- Cancellation deletes the partial file (`architecture.md:115`): an upload
  blocked in `body.Read` (`server.go:364`) ends by an error and leaves it.
- Sessions are cleaned up after 10 idle minutes (`architecture.md:102`): the loop
  deletes (`session.go:205`) on a last access it read before the session was used
  again. `SweepSparesRecentlyUsed` is what it keeps.
- An announcement with `announce: true` must be answered (`protocol_spec.md:97`):
  within 2 s of one of the same device it is dropped (`discovery.go:131`).
- Packets of a device are ignored for a short period after one of it
  (`discovery.go:127`): so it is with one socket (`SpacedWithOneSocket`); with two, both
  goroutines may pass the `Load` before either stores, and the same packet is
  reported twice.
- A packet whose fingerprint is the node's own is discarded (`architecture.md:84`): the
  code compares the key of fingerprint and port (`discovery.go:121-125`), so two
  processes of one user, which share a certificate but not a port, do find each
  other.
- 500 ms per host (`architecture.md:93`): 500 ms for each of two attempts
  (`discovery.go:239,328`).

## 4. Proofs

All theorems are about any constants that satisfy the modules' assumptions: any
number of sessions, files, requests, names, visits, sockets, packets, targets,
slots, processes, ports and pairs, and any timeout. The
assumptions are that the sets of requests are disjoint, that the files are finitely
many (as are a scan's targets), that a transfer sends each file once and knows an
upload request for each, and that the constant tables have their types; the bounds `MaxTime`,
`MaxBytes` and `MaxTry` (at least 1) are arbitrary naturals.

- `SessionManagerProofs` (`TypeCorrect`, `TrackedAlways`,
  `CompletedMatchesProgressAlways`, `SweepSparesRecentlyUsedAlways`). The
  inductive invariant is `IInv`: `TypeOK`, `SweepShape`, `Tracked`,
  `DueWasExpired`, `CompletedMatchesProgress`. `Tracked` (a session out of the
  table is canceled or one goroutine is about to) is not inductive alone: the
  loop's last step must know that what it has in hand is one session, and only
  between finding it expired and canceling it, which `SweepShape` says, along
  with the tick not lying in the future. `DueWasExpired` says that the session
  about to be deleted was expired at the tick or used since, from which the
  action property follows. `ImplementsSessionLifeAlways` is the refinement, step by
  step: most calls stutter, `LoadAndDelete` and `SweepDelete` end a session,
  and the two that cancel cancel one that is not canceled yet, which `Tracked`
  and `SweepShape` say of whatever is in `closing` or in the loop's hands.
  `NeverAheadAlways` (no session was last used after the present) gives
  `LastAccessGrowsAlways`: a `Touch` never moves the last use back.
- `UploadServerProofs`. `ServerTypeCorrect`. `UsesSessionManagerAlways`, the
  refinement: each step of a handler is a step of `SMNext` or leaves the table
  alone, so `IInv` holds of the server too (`ServerInvariant`).
  `ExistingFilesUntouchedAlways`, from `ExistingInv`: existing files are
  untouched, every other name leads to an inode made by an upload, an upload past
  its stat loop holds a name that is not an existing file's, and writes to an
  inode made by an upload. Needed because the name is only checked by `Stat`, a
  step before `Create`: other uploads may take the name meanwhile, but no
  existing file's name ever becomes free. The lemmas `PrepareMoves`,
  `UploadMoves`, `CancelMoves` and the `...Frame` lemmas say what a step of one
  request leaves alone in the others.
  `DiskMatchesReplyAlways`, from `DiskInv`: every new name leads to the inode of an
  upload that chose that very name (`NamesInv`), so an upload that shares its path
  with none is alone on its path and on its inode (`DiskFrame`) and holds there
  the bytes it has counted, until it removes them (`HoldInv`).
- `UploadReleaseProofs`. `OneDeleterAlways`, from `EachHasOneDeleter`, the same
  property as a relation between requests and sessions, and `Tracked`: a handler
  that takes a session out of the table finds it registered, hence not being
  deleted by another. `ReleaseEarnedAlways`: the flags an upload finds set may be
  cleared by others a step later, so the invariant is about what lasts.
  `ProgressEarned` says that every non-zero count of a session has been reached by
  an upload of that session; counts in the jobs only grow (`JobsGrow`). At
  `UploadFinish` the equal sizes of the two finite sets make them equal
  (`CompletedIsReceived`), and `AllEarned` carries that to the release.
  `ServerKeepsTable` carries the manager's theorems over to the server, by the
  refinement, and `ServerKeepsPromises` restates the server's own for `Init` and
  `Next` without fairness, so that a system that contains the server can use
  both. What checks made one step at a time are worth:
  `QuietSessionBlocksAlways` follows one prepare request and one session from before
  the `Range` to the question to the user (the request cannot pass it while it
  is unvisited, unused and in the table without finding it expired, and the
  clock does not go back); `DuplicatesWereThereAlways` does the same for the
  `Stat`s behind a 204; `CanceledTakesNoMoreAlways` for an upload from the
  cancel on (`CanceledStays`: the flag is never cleared; `Refused` and `OneMore` are
  what lasts).
  `NoHandlerStuckAlways`: the loops of a prepare request are entered with something
  to visit, and a handler about to cancel finds its session in `closing`.
- `WebShareProofs`. `WebTypeCorrect`, which includes who may hold the mutex and
  in which step; `SeenIsOneShareAlways`, from `ShareInv`: the two fields always
  belong to one start, a failed one included. `OneServingAlways`, from
  `ServerInv`: a server never made has no port, one with a port is the current
  one or shut down already (its goroutine is late), the current one is shut
  down only while its stop holds the mutex. `ArrivesAtCurrentAlways` and
  `ListIsCurrentAlways` follow. `OnlyDeadlinesCutOffAlways`: a stop that ends
  without its deadline has found no visit on the current server, so if none
  with a deadline has ended, every visit not done is on the current one.

- `TransferProofs`. `TransferTyped`; `TransferUsesServer`: a step of the transfer
  is a step of `UploadServer` or leaves its variables alone, so the theorems above
  hold of its receiver. `TransferImplements`, the refinement of `FileTransfer`,
  from `ReplyInv` (an answer is final, and a request that was never sent is idle)
  and `ReportInv`: files at or after `next` have no report yet, those after it no
  request either, and a report agrees with the answer it was made from. That is
  needed because *not accepted* must stay true: the file's request is not
  connected, so its handler never runs.
  `SuccessMeansStoredAlways` and `FailureEndsSessionAlways`, from `CallInvariant`:
  the uploads of a call follow one another (`LoopInv`), and the handler of one that
  failed, which may still be choosing a name when the call goes on to cancel, finds
  the names of the files already sent taken (`DistinctInv`), so those are on paths
  of their own and `DiskInv` says what is there. The files of a 204 stay, since
  nothing is uploaded after it (`DuplicateInv`). The handler of the cancel request
  leaves the session out of the table for good (`CancelInv`); `Tracked` and
  `EachHasOneDeleter` say who cancels it. From `LoopInv` and `DistinctInv` too:
  `OneUploadAtATimeAlways`, `UncontestedAlways` (no two uploads choose one path,
  whether answered or not) and with `DiskInv` `TransferStoresIntact`.
  `TransferKeepsServer` says of the receiver all that `ServerKeepsTable` and
  `ServerKeepsPromises` say of the server.
- `MulticastListenerProofs`. `ListenerTyped`, `FilterDelivers`: a key gets into
  the map by the `Store` of a goroutine that discovers its packet next, and
  leaves that step only by discovering it. `NothingLostAlways`, the safety half of
  `HeardIsDiscovered`: when a goroutine drops a packet as a duplicate, the
  goroutine that stored the key is at work or done. `SpacedWithOneSocket`, under
  the hypothesis that there is one socket: what passed the filter is still new
  when it is stored (`PassedIsNew`); TLC violates it with two, as it should.
  `AnswersAreAskedForAlways`: who is announced asked for it and was discovered first.
- `DeviceSearchProofs`. `SearchTyped`, `ScanHoldsItsSlots` (a launch adds one
  holder to the finite set of holders, a release takes one away), `ListIsComplete`
  from `ListInv`: a command past its search has seen the context expire, and
  `list` includes what was found then. From the count of the holders also
  `RequestsBoundedAlways` and `ScanGoesOnAlways`, what liveness needs of the scan:
  a slot is free or somebody holds one, and among the targets left one is next, as
  the two passes are launched in order (`OwnPortsFirstAlways`).
  `OnlyOthersFoundAlways`: what is found is another process, and by no means
  that the mode excludes, for a search by mDNS never starts the scan.
- `StartupProofs`. `StartupTyped`; `IdentityLasts` and `CompletePairKept` from
  `IdentityInv`: once a process is settled on a pair, both files hold it and no
  other process is writing, or looking without being settled on it.
  `NoPortLeakedAlways` and `ServesWithPairAlways` are inductive with the types.

Every invariant and action property of the passing runs is a theorem. Only
model-checked: the liveness properties (fairness and `ENABLED` are outside the
prover's reach), of which `NothingLostAlways`, `ScanGoesOnAlways` and
`NoHandlerStuckAlways` are the safety halves. The theorems that `PROJECT.json` lists
without a property state what no run checks, some because they compare a state
with one long past, which costs TLC a copy of the state space for each such state.

## 5. Not modelled

- `Server.Shutdown` (`server.go:117-125`): no command calls it. Its parts are
  modelled where they act: `SessionManager!Close` and the stop of `WebShare`; the
  unsynchronised read of `httpServer` is listed as a hazard.
- `writeInfo`, `handleInfo`, `handleRegister`, `Client.Register`, the reply of
  `onAnnounce` (`main.go:270-285`) and the choice between https and http for
  `--target` (`main.go:442-479`): one request each that reads and writes no state
  of the program.
- `SendAnnounce`: the set of packets of `MulticastListener` stands for what any
  process sends. How often an announcement goes out depends on the interfaces.
- The Windows listener (`sockopts_windows.go`): one socket, then the goroutine
  that is modelled.
- Key generation, hashing, TLS and the mDNS protocol (libraries); message lookup,
  aliases, protocol types, flag parsing and prompts (no state); socket options
  (system calls on one socket); the test script.
