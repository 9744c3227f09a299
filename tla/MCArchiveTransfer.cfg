SPECIFICATION Spec
CONSTANTS
  Selections <- MCSelections
  FileOf <- MCFileOf
  Registry <- MCRegistry
  Copies <- MCCopies
  LimitChoices <- MCLimits
  MaxInt = 20
  MaxCopySlack = 1
  MaxTarballEntries = 3
  Malformed = Malformed
  None = None
INVARIANTS ShipsWhatItLists VerdictIsTrue OwnExportsPass CopyIsJudged
CHECK_DEADLOCK FALSE
