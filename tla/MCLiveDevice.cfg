\* Waking: two callback threads; a queue of two is empty, partly full and full; the
\* worker's store to wake_pending may be delayed, and then stop may stop for good.
\* Data path: blocks of two frames; the device's whole buffer is one block, so the
\* burst is two blocks, the delay three and the queues eight; long enough for a
\* stall that fills both queues until they drop blocks, and for the recovery.
CONSTANTS
  Callbacks = {c1, c2}
  QueueBlocks = 2
  StoreBuffer = TRUE
  Block = 2
  NativeFrames = 2
  Rate = 1
  DeviceRate = 1
  Configured = 2
  MaxTicks = 12
CHECK_DEADLOCK FALSE
SPECIFICATION FairSideSpec
INVARIANTS
  WakeBalance NoLostWakeup OneCallbackReblocks
  FixedDelay BurstNeedsNoWorker
PROPERTIES SleeperWakes StopReturns InTimeIsPlayed DropNeedsStall
