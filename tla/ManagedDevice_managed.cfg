SPECIFICATION FairDeviceSpec
CONSTANTS
  Sockets = {1, 2}
  MaxEvents = 2
  MaxProjected = 1
INVARIANTS
  DeviceTypeOK
  StopIsKept
  AgreesWhenQuiet
PROPERTIES
  DeviceComesUp
  StopReachesDaemon
CHECK_DEADLOCK FALSE
