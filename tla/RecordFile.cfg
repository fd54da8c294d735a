SPECIFICATION BothSpec
CONSTANTS
  Writer = {w1, w2}
  MaxFiles = 4
  Absent = Absent
  MaxMishaps = 3
  Heading <- Headings
  Note = {"n"}
  Reason = {"r"}
  None = None
  Entry <- Entries
  MaxLines = 4
SYMMETRY Symmetric
INVARIANTS AuditTrailStands
PROPERTIES ImplementsFile
CHECK_DEADLOCK FALSE
