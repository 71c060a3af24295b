SPECIFICATION StartupSpec
CONSTANTS
  Words <- MCWords
  SizeMax = 1023
  SizeText <- MCSizeText
  StoulText <- MCStoulText
  DoubleText <- MCDoubleText
  Spellings <- TwoTierSetup
  OtherArgvs <- NoArgvs
  Bases <- MCBases
  HugePage = 4
  TableLimit = 8
INVARIANTS RefusalHasReason
CHECK_DEADLOCK FALSE
