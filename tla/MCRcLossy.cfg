SPECIFICATION Spec
CONSTANTS
  a = a
  b = b
  Endpoints = {a, b}
  PsnModulus = 16
  StartPsn <- MCStartPsn
  Connected = TRUE
  Ops = {"SendImm", "RdmaWrite"}
  Lengths = {0, 2}
  BufferSizes = {1, 2}
  MaxPosts <- OneWay
  MaxRecvs <- OneWayRecvs
  Targets = {}
  MemoryFaults = FALSE
  max_retries = 0
  rnr_retry_count = 0
  ack_timeout_us = 2
  Elapsed = {2}
  TimeModulus = 8
  Lossy = TRUE
INVARIANT RecvsUsedOnceInOrder
PROPERTIES ImplementsChannel
CHECK_DEADLOCK FALSE
