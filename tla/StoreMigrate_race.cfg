SPECIFICATION Spec
CONSTANTS
  Cmd = {c1, c2}
  Nobody = Nobody
  Task = {t1}
  Bucket = {"active"}
  Data = {d1}
  None = None
  Git = TRUE
  MaxMishaps = 0
SYMMETRY Symmetric
PROPERTIES ArrivesBeforeItLeaves
