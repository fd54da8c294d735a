SPECIFICATION Spec
CONSTANTS
  Cmd = {c1, c2}
  Nobody = Nobody
  Key = {k1, k2}
  Path = {p1}
  NoDir = NoDir
  None = None
  MaxMishaps = 1
SYMMETRY Symmetric
INVARIANTS EntryHasState RecordsStayInSight
PROPERTIES ImplementsMap
