\* Queues of two blocks with two-bit indices, so the indices wrap every four blocks.
\* Under a session of either driver, with two device threads that keep device_begin
\* away from stop, two blocks are enough for one to be processed as a stop begins.
CONSTANTS
  Payloads = {"a", "b"}
  QueueBlocks = 2
  Width = 2
  MaxTick = 5
  Drivers = {"timer", "device"}
  DeviceThreads = {d1, d2}
  ConcurrentBegin = FALSE
  SessionTicks = 2
SPECIFICATION MCSpec
INVARIANTS TicksAccountedFor BlocksUndisturbed
PROPERTIES InputIsFifo OutputIsFifo
CHECK_DEADLOCK FALSE
