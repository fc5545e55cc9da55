SPECIFICATION FairSpec
CONSTANTS
  a = a
  b = b
  Endpoints = {a, b}
  PsnModulus = 16
  StartPsn <- MCStartPsn
  Connected = FALSE
  Ops = {"SendImm", "RdmaWriteImm", "RdmaRead"}
  Lengths = {2}
  BufferSizes = {2}
  MaxPosts <- TwoOne
  MaxRecvs <- BothWays
  Targets = {"Init", "Rtr", "Rts"}
  MemoryFaults = TRUE
  max_retries = 1
  rnr_retry_count = 0
  ack_timeout_us = 2
  Elapsed = {}
  TimeModulus = 8
  Lossy = FALSE
INVARIANTS TypeOK DeliveredWholeInOrder
 
CHECK_DEADLOCK FALSE
