CONSTANTS
  NSlots <- MCNSlots
  Lens <- MCLens
  MultiSegment = TRUE

SPECIFICATION Spec

INVARIANT LenMatches
