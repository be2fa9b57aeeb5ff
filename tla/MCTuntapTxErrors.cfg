CONSTANTS
  Packets <- MCPackets
  Unknown <- MCUnknown
  SegCounts <- MCSegCounts
  MaxVec = 2
  ToTxCap <- MCToTxCap
  TokCap = 1
  WriteErrors <- MCErrorsAll

SPECIFICATION Spec

INVARIANT FreedOnceAfterWrite
