\* LV2 blocks: the atom buffer takes three events, with their padding, and its
\* declared size is not a multiple of 8.  LV2 ports: up to three, of which two may be
\* atom ports, and both only if they are small.  VST3: two slots that may name the
\* same parameter.  A plugin's ports are connected once, and then all is done.
CONSTANTS
  Block = 2
  MinSize = 81
  AtomBuf = 40
  Controls = {p1}
  Lv2Values = {v1}
  Default = v0
  MaxBlocks = 2
  MaxPorts = 3
  MaxAtomPorts = 2
  Channels = {1, 2}
  ArenaMax = 90
  Sizes = {0, 44}
  Params = {p1, p2}
  Values = {v1, v2}
  Slots = 2
  Latencies = {0, 1}
CHECK_DEADLOCK FALSE
SPECIFICATION HostSpec
INVARIANTS
  RunsAsAsked AtomBufferHolds PortsServed
  LeftInOrder LatencyIsCurrent AskedIsHeld
