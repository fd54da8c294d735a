SPECIFICATION Spec
CONSTANTS
  Cmd = {c1, c2}
  Nobody = Nobody
  Task = {t1, t2}
  Bucket = {"active", "completed"}
  Data = {d1, d2}
  None = None
  Git = TRUE
  MaxMishaps = 1
SYMMETRY Symmetric
CONSTRAINT Bound
INVARIANTS OneAtATime
PROPERTIES ContentSurvives RecordsSurvive FinishedMove RepeatIsAdmitted
