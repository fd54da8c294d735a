SPECIFICATION BothSpec
CONSTANTS
  Task = {t1, t2, t3}
  None = None
  Used = {"create", "dep", "complete", "block", "unblock", "reopen", "cancel", "edit"}
  InitialStatus = {"Open"}
  MaxMishaps = 1
  Node = {t1, t2, t3}
SYMMETRY Symmetric
INVARIANTS TypeOK UnblocksWhatItSatisfied IndexesFollowFiles VerbPlacesItsTask ReportsAreCircles ReportsCutEveryCircle
PROPERTIES OnlyReopenClosesACycle RecordsSurvive
