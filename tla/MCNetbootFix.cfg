CONSTANTS
  body1 = body1
  body2 = body2
  fileURL = fileURL
  otherURL = otherURL
  dirURL = dirURL
  ftpURL = ftpURL
  NoImage = NoImage
  NoFile = NoFile
  Torn = Torn
  NoURL = NoURL
  MaxInterfaces = 2
  maxHTTPAttempts = 3
  Bodies <- MCBodies
  FileURLs <- MCFileURLs
  DirURLs <- MCDirURLs
  OtherURLs <- MCOtherURLs
  CommandLines <- MCCommandLines
SPECIFICATION Spec
INVARIANT FixRunsOnFailure
CHECK_DEADLOCK FALSE
