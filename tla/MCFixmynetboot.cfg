CONSTANTS
  eth0 = eth0
  eth1 = eth1
  NoIface = NoIface
  MaxChanges = 1
  Ifaces <- MCIfaces
  Arguments <- MCArguments
SPECIFICATION FixSpec
INVARIANT ExitCodeIsTrue
CHECK_DEADLOCK FALSE
