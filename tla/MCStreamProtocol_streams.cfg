\* Two writers racing on a stream, the life of a stream that expires, and a stream
\* that is removed and created again under its writers.
CONSTANTS
  None = None
  text = text
  json = json
  p1 = p1
  c1 = c1
  c2 = c2
  ProducerIds = {p1}
  ContentTypes = {text, json}
  Calls = {c1, c2}
  Requests <- AllRequests
  Workloads = {"race", "life", "reborn"}
  ReplanLimit = 2
  MaxCalls = 5
  MaxTime = 2
SYMMETRY Symmetry
SPECIFICATION MCSpec
INVARIANTS TypeOK ExactlyOnce DuplicateIsTruthful AcknowledgedIsStored
  RejectionMeansContention BatchesFit RemoteIsTold
PROPERTIES ClosedIsFinal ExpiresOnlyWhenDue ImplementsDurableStream
CHECK_DEADLOCK FALSE
