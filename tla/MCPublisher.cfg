SPECIFICATION FairSpec
CONSTANTS
  Threads = {t1, t2}
  Buffers = {b1, b2}
  BatchSize = 2
  HasUri = TRUE
  StatusMetrics = TRUE
  MaxUpdates = 5
  MaxStarts = 2
  None = None
INVARIANTS TypeOK BuffersNotShared BufferForEveryTask FrameOutlivesTasks EveryMeasurementAccounted HttpAliveWhilePosting FlushedAtStop
PROPERTY StopTerminates
CHECK_DEADLOCK FALSE
