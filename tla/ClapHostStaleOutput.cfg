\* One bundle, one configuration, the default instance alone.
CONSTANTS
  Bundles = {b1}
  Configs = {c1}
  MaxHandles = 1
  MaxTokens = 3
  MaxAudio = 3
SPECIFICATION Spec
INVARIANT OutputTokenNamesBlock
