CONSTANTS
  conv = conv
  main = main
  http = http
  Caller <- MCCaller
  Conv = Conv
  Main = Main
  Free = Free
SPECIFICATION SharedSpec
INVARIANT SettledWhenUnlocked
INVARIANT PortIsKept
PROPERTY EmergencyReleasedOnlyByClear
PROPERTY Implements
PROPERTY LockIsGranted
