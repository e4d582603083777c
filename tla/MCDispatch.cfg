SPECIFICATION FairSpec
CONSTANTS
  Core = Core
  Generic = Generic
  render = render
  xfixes = xfixes
  Keys = {render, xfixes}
  Conns = {1, 2}
  Byte <- MCByte
  EventNums <- MCEventNums
  ErrorNums <- MCErrorNums
  Servers <- MCServers
INVARIANTS
  EventsDispatched
  ErrorsDispatched
  OneExtension
  DiesOnlyWhen
  IInv
PROPERTIES
  SetupCompletes
CHECK_DEADLOCK FALSE
