SPECIFICATION LauncherSpec
CONSTANTS
  Threads <- MCThreads
  Ui = "ui"
  MaxChannels = 2
  NoOne = NoOne
  Pages <- MCPages
  Servers <- MCServers
  FilterIds <- MCFilters
  Slots <- MCSlots
  Nothing = Nothing
  Everything = Everything
  PassthruDevices <- MCPassthru
  SocketCanDevices <- MCSocket
  SlcanDevices <- MCSlcan
INVARIANTS
  LauncherTypeOK
  ChannelsTracked
  SoleUserFiltersApplied
PROPERTIES
  CallsReturn
CHECK_DEADLOCK FALSE
