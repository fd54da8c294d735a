SPECIFICATION Spec
CONSTANTS
  Proc = {p1, p2}
  Token = {t1, t2, t3}
  Inode = {i1, i2}
  NoDir = NoDir
  NoToken = NoToken
  EmptyToken = EmptyToken
  NoInode = NoInode
  MaySuspend = FALSE
  MayFail = FALSE
PROPERTY ReplacementSurvives
