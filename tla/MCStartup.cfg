SPECIFICATION StartupSpec
CONSTANTS
  Words <- MCWords
  SizeMax = 1023
  SizeText <- MCSizeText
  StoulText <- MCStoulText
  DoubleText <- MCDoubleText
  Spellings <- MCSpellings
  OtherArgvs <- MCOtherArgvs
  Bases <- MCBases
  HugePage = 4
  TableLimit = 8
INVARIANTS StartupTypeOK SpellingIrrelevant ServedFits RangesMatchTable OwnPagesOnly TableCoversMemory AdviceCoversTiers NothingLeftMapped
CHECK_DEADLOCK FALSE
