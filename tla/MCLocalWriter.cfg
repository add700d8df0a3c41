\* One delegated todo, at most two URLs that Things has not performed.
CONSTANTS
  None = None
  Acts = {"canceled"}
  MaxOpen = 2
SPECIFICATION LocalSpec
INVARIANTS LocalTypeOK SkipIsSafe TrueIsTrue SelfReportNeedsGivingUp
PROPERTIES MirrorCatchesUp WatchEntryEnds
CHECK_DEADLOCK FALSE
