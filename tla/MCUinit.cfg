CONSTANTS
  mac = mac
  url = url
  guid = guid
  vmlinuz = vmlinuz
  Absent = Absent
  Garbage = Garbage
  None = None
  NoImage = NoImage
  Images = {img1, img2}
  MaxBootEntry = 3
  Strings <- MCStrings
  InitialRW <- MCRW
  InitialRO <- MCRO
SPECIFICATION Spec
INVARIANTS
  TypeOK EntriesFaithful EveryEntryBeforeTheDefaults
PROPERTIES EveryEntryGetsItsTurn DefaultsForEver
CHECK_DEADLOCK FALSE
