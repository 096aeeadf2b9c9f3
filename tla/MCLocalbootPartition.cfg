CONSTANTS
  sda = sda
  sda1 = sda1
  vmlinuz = vmlinuz
  initrd = initrd
  linuxGuid = linuxGuid
  NoFile = NoFile
  NoImage = NoImage
  NoName = NoName
  NoGuid = NoGuid
  MaxFds = 3
  MaxRuns = 2
  Devices <- MCDevices
  Names <- MCNames
  Content <- MCContent
  Table <- MCTable
  GrubConfigs <- MCGrubConfigs
  CommandLines <- MCCommandLines
SPECIFICATION Spec
INVARIANT MountsThePartition
CHECK_DEADLOCK FALSE
