SPECIFICATION UintSpec
CONSTANTS
  Modulus = 8
  kOverflow = 4
  NoDelta = NoDelta
  SetFirst = FALSE
  MaxUintSets = 4
INVARIANT UintNeverOverReports
