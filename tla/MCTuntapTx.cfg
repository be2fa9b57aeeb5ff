CONSTANTS
  Packets <- MCPackets
  Unknown <- MCUnknown
  SegCounts <- MCSegCounts
  MaxVec = 2
  ToTxCap <- MCToTxCap
  TokCap = 1
  WriteErrors <- MCErrors

SPECIFICATION Spec

INVARIANT TypeOK
INVARIANT FreedOnceAfterWrite
INVARIANT ActiveRefsAccount
PROPERTY TxDrains
