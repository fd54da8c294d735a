SPECIFICATION Spec
CONSTANTS
  MaxNumber = 3
  MaxSlug = 2
  Title = {1}
  Given = {"accepted"}
  None = None
  MaxStops = 1
  MaxHands = 1
INVARIANTS SuccessionIsSound ReferencesAreBacked
PROPERTIES SupersessionIsFinished
CHECK_DEADLOCK FALSE
