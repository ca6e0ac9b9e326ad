\* Both drivers, the integrator keeps device_begin away from stop.
CONSTANTS
  Drivers = {"timer", "device"}
  DeviceThreads = {d1, d2}
  ConcurrentBegin = FALSE
SPECIFICATION FairSpec
INVARIANTS PluginCallsLegal OneAudioThread InactiveIsQuiet
PROPERTIES FailureIsCollected CallbackServiced ControlReturns
