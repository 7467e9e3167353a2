SPECIFICATION DataSpec
CONSTANTS
  w1 = w1
  w2 = w2
  w3 = w3
  Watches = {w1, w2, w3}
  Transport <- MCTransport
  Dials = {"c", "d"}
  Purpose <- MCPurpose
  MaxPayload = 2
  Setups <- MCSetups
  Wirings <- MCWirings
  Keys = {"x1", "x2", "p1"}
  KeySuite <- MCKeySuite
  Digest <- MCDigest
  Grants <- MCGrants
  Others <- MCOthers
  Identities <- MCIdentities
  Lengths = {1, 2}
  MaxMessageSize = 2
  MaxStream = 7
  MaxContent = 4
  HalfRange = 8
  Counters <- MCCounters
  FileCalls = {"a", "b"}
  Ids = {"i", "j"}
  Paths = {"p", "q"}
  Contents = {"x", "y"}
  TURNCalls = {"t"}
  TURNOptions <- MCTURNOptions
  MaxTTL = 2
  Recordings <- MCRecordings
  TabStop = 2
INVARIANTS DataTypeOK NoSocketLeaked PayloadIntact ClosedIsReleased CredentialsStayHome  SessionKeysSound ChunksDoNotMatter ReceiptsAreEvidence NoBypass TranscriptFaithful
PROPERTY CloseIsLast
CHECK_DEADLOCK FALSE
