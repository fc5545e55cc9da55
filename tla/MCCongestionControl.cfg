SPECIFICATION FairCongestionSpec
CONSTANTS
  Engines = {a, b}
  Numbers = {1}
  Dest <- MCDest
  initial_rate_mbps = 5
  min_rate_mbps = 1
  AlphaUnit = 2
  GainUnit = 4
  rate_increase_period_us = 1
  alpha_update_period_us = 2
  cnp_timer_us = 1
  Elapsed = {1}
INVARIANTS RatesBounded SlowedFlowsRecover
PROPERTIES CnpsDieOut RateComesBack
