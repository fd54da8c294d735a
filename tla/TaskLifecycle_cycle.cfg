SPECIFICATION Spec
CONSTANTS
  Task = {t1, t2}
  None = None
  Used = {"create", "dep", "complete", "reopen"}
  InitialStatus = {"Open"}
  MaxMishaps = 0
SYMMETRY Symmetric
INVARIANT NoActiveCycle
