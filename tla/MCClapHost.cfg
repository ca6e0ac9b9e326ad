\* Instances: the default one and up to two handles in all; tokens run out before
\* the calls do.  Parameters: two of them, two values and two slots, for chains that
\* repeat, clash with the slots and overflow the queue.  Latency compensation: two channels, blocks
\* of two samples, latencies below, at and above a block.
CONSTANTS
  Bundles = {b1, b2}
  Configs = {c1, c2}
  MaxHandles = 2
  MaxTokens = 3
  MaxAudio = 4
  Params = {p1, p2}
  Values = {v1, v2}
  Slots = 2
  Channels = {ch1, ch2}
  Block = 2
  Latencies = {0, 1, 2, 3}
  MaxBlocks = 4
SYMMETRY Symmetry
SPECIFICATION SideSpec
INVARIANTS
  Types ModulesShared TokensNameBlocks
  NothingLeaks OncePerBlockFits DeliveredUnlessBroken
  Aligned LagIsCeiling TailCompletes
