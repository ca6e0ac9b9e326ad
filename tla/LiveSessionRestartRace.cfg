\* The timer driver with nobody polling.
CONSTANTS
  Drivers = {"timer"}
  DeviceThreads = {}
  ConcurrentBegin = FALSE
SPECIFICATION UnpolledSpec
PROPERTY RestartStopsWorker
