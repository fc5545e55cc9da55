SPECIFICATION FairMailboxSpec
CONSTANTS
  VFs = {0, 1}
  kMaxQueueDepth = 2
  PfHandler = TRUE
  VfHandlers = {0, 1}
  Callers = {0, 1}
  MaxMessages = 4
  MaxSequence = 2
INVARIANTS DepthsBounded OneInFlight AnswersMatch
PROPERTY EveryMessageTaken
