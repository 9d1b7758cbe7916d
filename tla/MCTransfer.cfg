SPECIFICATION TransferSpec
CONSTANTS
  s1 = s1
  f1 = f1
  f2 = f2
  h1 = h1
  h2 = h2
  p1 = p1
  u1 = u1
  u2 = u2
  c1 = c1
  SessionId = {s1}
  FileId = {f1, f2}
  Host = {h1, h2}
  Size <- MCSize
  Timeout = 1
  MaxTime = 2
  MaxBytes = 2
  Path = {"a", "b", "c", "d"}
  Writer = {u1, u2}
  Existing = {"a"}
  OldLength <- MCOldLength
  Prepare = {p1}
  Upload = {u1, u2}
  CancelReq = {c1}
  MetaId <- MCMetaId
  HasSha = {f1}
  Candidate <- MCCandidate
  MaxTry = 3
  StrictTLS = FALSE
  PrepareCall = p1
  UploadCall <- MCUploadCall
  CancelCall = c1
  Sender = h1
  Order <- MCOrder
INVARIANTS
  TransferTypeOK
  SuccessMeansStored
  FailureEndsSession
  OneUploadAtATime
  StoredIntact
PROPERTIES
  ImplementsFileTransfer
  SendReturns
  ReceiverSettles
CHECK_DEADLOCK FALSE
