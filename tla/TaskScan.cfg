SPECIFICATION ScanSpec
CONSTANTS
  Task = {t1, t2}
  None = None
  Used = {"create", "complete", "dep"}
  InitialStatus = {"Blocked"}
  MaxMishaps = 1
INVARIANT ScanIsTrue
PROPERTY IndexesHeal
