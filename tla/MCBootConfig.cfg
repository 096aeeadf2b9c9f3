CONSTANTS
  vmlinuz = vmlinuz
  initrd = initrd
  xen = xen
  dir = dir
  NoFile = NoFile
  NoImage = NoImage
  MaxFds = 3
  Files <- MCFiles
  Dirs <- MCDirs
  Configs <- MCConfigs
SPECIFICATION Spec
INVARIANTS TypeOK ValidConfigBootsItself MeasuredUnlessLost LeaksOnlyAKernel
CHECK_DEADLOCK FALSE
