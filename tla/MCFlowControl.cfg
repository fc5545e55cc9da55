SPECIFICATION FairSpec
CONSTANTS
  Priorities = {0, 1}
  Classic = 8
  Announces = {0, 1, 8}
  Honours = {0, 8}
  pause_threshold <- MCPauseThreshold
  default_pause_time <- MCPauseTime
  resume_threshold = 1
  Depths = {0, 1, 2}
  hol_timeout_quanta = 2
  idle_threshold_quanta = 2
  wake_time_quanta = 2
  sleep_time_quanta = 1
  Quanta = {1, 3}
  QuantaModulus = 4
  MaxFrames = 2
INVARIANTS TypeOK ResumedPeerSends HolMeansStalled SleepsOnlyWhenIdle
PROPERTY LinkComesBack
