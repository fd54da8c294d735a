SPECIFICATION Spec
CONSTANTS
  MaxNumber = 2
  MaxLetter = 2
  Status = {"Open", "Cancelled"}
  Batch <- Pairs
  None = None
  MaxMishaps = 2
INVARIANTS TypeOK AllOrNothing OthersUntouched MarksKept
PROPERTIES PlansAreSound
