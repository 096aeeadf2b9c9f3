CONSTANTS
  NoFile = NoFile
  NoConfig = NoConfig
  NoUuid = NoUuid
  MaxLines = 4
  Sys <- MCSys
  Uuids <- MCUuids
  Medias <- MCMedias
  Words <- MCWords
  HexWords <- MCHexWords
  Plain <- MCPlain
  Cfgs <- MCCfgs
  Names <- MCNames
  Stripped <- MCStripped
  SearchDirs <- MCSearchDirs
  Trees <- MCTrees
SPECIFICATION Spec
INVARIANTS TypeOK ReadsEntriesAsWritten FindsAllUpToAnError
CHECK_DEADLOCK FALSE
