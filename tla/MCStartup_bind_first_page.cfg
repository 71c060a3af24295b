SPECIFICATION StartupSpec
CONSTANTS
  Words <- MCWords
  SizeMax = 1023
  SizeText <- MCSizeText
  StoulText <- MCStoulText
  DoubleText <- MCDoubleText
  Spellings <- ThreeTierSetup
  OtherArgvs <- NoArgvs
  Bases <- MCBases
  HugePage = 4
  TableLimit = 8
INVARIANTS PagesBound
CHECK_DEADLOCK FALSE
