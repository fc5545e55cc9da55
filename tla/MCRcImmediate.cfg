SPECIFICATION Spec
CONSTANTS
  a = a
  b = b
  Endpoints = {a, b}
  PsnModulus = 16
  StartPsn <- MCStartPsn
  Connected = TRUE
  Ops = {"RdmaWriteImm", "RdmaWrite"}
  Lengths = {1}
  BufferSizes = {2}
  MaxPosts <- OneWay
  MaxRecvs <- OneWayRecvs
  Targets = {}
  MemoryFaults = FALSE
  max_retries = 7
  rnr_retry_count = 7
  ack_timeout_us = 2
  Elapsed = {}
  TimeModulus = 8
  Lossy = FALSE
CHECK_DEADLOCK FALSE
INVARIANT ImmediateIsNotified
