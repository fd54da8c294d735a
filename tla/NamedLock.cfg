SPECIFICATION FairSpec
CONSTANTS
  Proc = {p1, p2}
  Token = {t1, t2}
  Inode = {i1, i2}
  NoDir = NoDir
  NoToken = NoToken
  EmptyToken = EmptyToken
  NoInode = NoInode
  MaySuspend = TRUE
  MayFail = TRUE
INVARIANTS TypeOK MutualExclusion HolderKeepsLock
PROPERTIES ReleaseIsTruthful ImplementsMutex AcquireReturns OrphanIsReclaimed
