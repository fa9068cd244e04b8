SPECIFICATION FairSpec
CONSTANTS
  Workers = {w1, w2}
  Background = {b1}
  StageWorkers <- MCStageWorkers
  Cap = 1
  Warmup = TRUE
  Bursts <- MCBursts
  Results <- MCResults
  Ticks = 1
INVARIANTS
  NothingLost
  NoSendOnClosed
  OneLateIteration
PROPERTIES
  StageOrder
  BackgroundSpansStages
  LateStageIsIdle
  ImplementsContract
