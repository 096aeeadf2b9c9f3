CONSTANTS
  kernel = kernel
  boot = boot
  m1 = m1
  m2 = m2
  garbage = garbage
  keins = keins
  NoPassword = NoPassword
  NoPem = NoPem
  NotZip = NotZip
  NoSig = NoSig
  None = None
  Outside = Outside
  OddKey = OddKey
  MaxKeys = 2
  MaxCalls = 2
  MaxSigned = 2
  manifestName = "manifest.json"
  Names <- MCNames
  Bodies <- MCBodies
  Manifests <- MCManifests
  Archives <- MCArchives
  Passwords <- MCPasswords
SPECIFICATION Spec
INVARIANTS TypeOK FilesAreAPair UnpacksOnlyWhatWasSigned ReturnsTheArchive
CHECK_DEADLOCK FALSE
