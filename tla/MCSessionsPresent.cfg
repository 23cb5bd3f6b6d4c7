SPECIFICATION Spec
CONSTANTS
  ClientIds = {c1, c2}
  Socks = {s1, s2, s3}
  NoSock = NoSock
  NoId = NoId
  NoSession = NoSession
INVARIANT SessionPresentIsTold
