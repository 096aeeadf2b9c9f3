CONSTANTS
  vmlinuz = vmlinuz
  initrd = initrd
  xen = xen
  dir = dir
  NoFile = NoFile
  NoImage = NoImage
  MaxFds = 3
  Files <- MCFiles
  Dirs <- MCDirs
  Configs <- MCConfigs
SPECIFICATION Spec
INVARIANT AllThatRunsWasMeasured
CHECK_DEADLOCK FALSE
