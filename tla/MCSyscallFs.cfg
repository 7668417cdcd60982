\* Two threads of one process make up to MaxCalls file-system calls each
\* on a shared resource table.
CONSTANTS
  t1 = t1
  t2 = t2
  D = D
  fa = fa
  fb = fb
  Threads = {t1, t2}
  Ids = {0, 1}
  AT_FDCWD = AT_FDCWD
  Dir = D
  Files = {fa, fb}
  PathNode <- MCPathNode
  InitFiles = {fa}
  MaxSize = 2
  MaxCalls = 2
  IOCanFail = TRUE
  OpenCalls <- MCOpenCalls
  Counts = {1, 2}
  SeekCalls <- MCSeekCalls
  StatCalls <- MCStatCalls
  None = None

SPECIFICATION Spec
SYMMETRY MCSymmetry
\* The threads stop making system calls after MaxCalls each.
CHECK_DEADLOCK FALSE
INVARIANT TypeOK
PROPERTIES FileChangesNeedWriteAccess
