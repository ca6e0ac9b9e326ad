\* One callback thread; the worker's store to wake_pending may be delayed.
CONSTANTS
  Callbacks = {c1}
  QueueBlocks = 2
  StoreBuffer = TRUE
CHECK_DEADLOCK FALSE
SPECIFICATION FairSpec
PROPERTY StopAlwaysReturns
