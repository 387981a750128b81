\* Two threads, one directory, one file
\* that may exist with one or two links or not yet, two operations each;
\* the daemon may send an entry checkentry refuses and fuse_vget_i may fail.
CONSTANTS
  Thr = {t1, t2}
  Dirs = {d1}
  Files = {f1}
  MaxOps = 2
  WaitResults <- MCWaitResults
  CheckCanFail = TRUE
  VgetCanFail = TRUE
  SkipRevoke = TRUE
SPECIFICATION Spec
INVARIANT TypeOK
INVARIANT KernelRefsCovered
\* The bounded workload ends with every thread idle and queues drained.
CHECK_DEADLOCK FALSE
