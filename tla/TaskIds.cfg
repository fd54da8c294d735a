SPECIFICATION MCSpec
CONSTANTS
  Cmd = {c1, c2}
  Nobody = Nobody
  Home = TRUE
  MaxNumber = 1
  MaxLetter = 2
  MayFail = TRUE
SYMMETRY Symmetric
INVARIANTS TypeOK AllocatedIsFree NothingSpentIsReissued
PROPERTIES MarksNeverFall UsesLocks
