SPECIFICATION Spec
CONSTANTS
  s1 = s1
  s2 = s2
  f1 = f1
  f2 = f2
  h1 = h1
  h2 = h2
  p1 = p1
  p2 = p2
  u1 = u1
  u2 = u2
  c1 = c1
  c2 = c2
  SessionId = {s1}
  FileId = {f1}
  Host = {h1}
  Size <- MCSize
  Timeout = 1
  MaxTime = 2
  MaxBytes = 1
  Path = {"a", "b", "c", "d", "e"}
  Writer = {u1}
  Existing = {}
  OldLength <- MCOldLength
  Prepare = {p1, p2}
  Upload = {u1}
  CancelReq = {c1}
  MetaId <- MCMetaId
  HasSha = {f1}
  Candidate <- MCCandidate
  MaxTry = 4
  StrictTLS = TRUE
PROPERTIES
  CanceledUploadEnds
  DeletedIsCanceled
  PrepareDecided
  UsesSessionManager
CHECK_DEADLOCK FALSE
