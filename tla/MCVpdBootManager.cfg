CONSTANTS
  mac = mac
  url = url
  guid = guid
  vmlinuz = vmlinuz
  Absent = Absent
  Garbage = Garbage
  None = None
  MaxBootEntry = 4
  MaxAdds = 3
  Adders = {p1, p2}
  Strings <- MCStrings
  Args <- MCArgs
  InitialRW <- MCInitialRW
  InitialRO <- MCInitialRO
SPECIFICATION Spec
INVARIANTS
  TypeOK KeepsEarlierEntries NoGapBelow AddedIsBooted AddsBootInOrder
PROPERTY OnlyAddsChangeEntries
CHECK_DEADLOCK FALSE
