CONSTANTS
  cr4 = cr4
  sr4_40 = sr4_40
  sr4_100 = sr4_100
  none = none
  None = none
  NBits = 2
  Kinds <- MCKinds
  CopperKinds <- MCCopperKinds
  Optic40Kinds <- MCOptic40Kinds
  Temps <- MCTemps
  LowerPage <- MCLowerPage
  DeviceVer = 1
  MaxChanges = 2
  MaxI2cErrors = 1

SPECIFICATION Spec

INVARIANT TypeOK
INVARIANT ResetLinesFollowPresence
INVARIANT MaxTempPortMonitored
INVARIANT DecodeMatchesSff8636
PROPERTY QsfpSettles
