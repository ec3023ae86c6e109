SPECIFICATION BridgeFairSpec
CONSTANTS
  Other = Other
  FirstEnd = 1
  Durations = {1, 2}
  MaxSpans = 2
  MaxPipe = 2
  Kinds <- MCKinds
  Limit <- MCLimit
  MaxMessages = 1
  MaxParam = 1
  MaxFaults = 1
  MaxDrafts = 1
  MaxMempool = 2
CHECK_DEADLOCK FALSE
INVARIANTS SpansInOrder OneSpanAhead
PROPERTIES BorRunsOn
