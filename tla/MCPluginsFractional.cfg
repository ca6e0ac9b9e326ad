\* One rounded VST3 parameter whose range has fractional ends, -1/2 to 3/2.  The other
\* parts stand still.
CONSTANTS
  Threads = {t1}
  Uris = {u1}
  Capacity = 1
  LiveParams = {p1}
  ReadOnly = {}
  MaxEvents = 1
  AtomBytes = 51
  Params = {p1}
  Stepped = {p1}
  Toggles = {}
  Block = 1
  MaxChanges = 1
  Played = 1
  NParams = 1
  Default = 1
  Rates = {1}
  Users = 1
  Frames = 1
  Asked = {1}
  Top = 2
  Low <- FractionLow
  High <- FractionHigh
  Preset <- FractionPreset
  Sent <- FractionSent
CHECK_DEADLOCK FALSE
SPECIFICATION PartSpec
PROPERTY ToldWhatTookEffect
