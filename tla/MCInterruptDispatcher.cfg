SPECIFICATION FairDispatcherSpec
CONSTANTS
  CompletionQueues = {q1, q2}
  Vectors = {v1}
  Unbacked = Unbacked
  PacketThresholds = {1, 3}
  PacketThreshold = 2
  TimerThreshold = 2
  Elapsed = {1, 2}
  TimeModulus = 8
  AdaptiveConfigs <- MCAdaptiveConfigs
  None = None
INVARIANTS Conservation TimedOnlyIfPending BatchesBounded
PROPERTIES PendingIsDelivered
