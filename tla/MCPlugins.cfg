\* URID map: three threads, more URIs than rows.  Events: blocks of two frames, as
\* many events as fit, which one parameter alone or two may take up.  Templates: a
\* parameter of two whole values, one of four and one that is not rounded, values that
\* are rounded and that are out of range; three frames cut into blocks of up to two.
\* Airwindows: two loaders, two parameters, two rates.  A live adapter that failed has
\* stopped.
CONSTANTS
  Threads = {t1, t2, t3}
  Uris = {u1, u2, u3}
  Capacity = 2
  LiveParams = {p1, p2, p3}
  ReadOnly = {p3}
  MaxEvents = 2
  AtomBytes = 51
  Params = {p1, p2, p4}
  Stepped = {p1, p2}
  Toggles = {p1}
  Block = 2
  MaxChanges = 2
  Played = 3
  NParams = 2
  Default = 2
  Rates = {1, 2}
  Users = 2
  Frames = 2
  Asked = {1, 5}
  Top = 4
  Low <- WholeLow
  High <- WholeHigh
  Preset <- WholePreset
  Sent <- WholeSent
CHECK_DEADLOCK FALSE
SPECIFICATION PartSpec
INVARIANTS AcceptedArrives SampleAccurate ViewsAgree EffectMirrorsValues DescriptorLives
PROPERTY ImplementsTable
