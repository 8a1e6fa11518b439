CONSTANTS
  main = main
  a = a
  b = b
  idle = idle
  NULL = NULL
  Task = {main, a, b}
  Idle = idle
  Main = main
  BasePri <- MCBasePri
  MinPri = 1
  WaitObj = {}
  MaxTmo = 2
  MaxAct = 0
  NewPri = {0}
  Sleepers = {main, a, b}
  Releasable = {main}
SPECIFICATION Spec
INVARIANTS
  TypeOK
  TaskOnePlace
  BitmapExact
  TopRuns
  TimeoutQueueSorted
  NoOverdue
SYMMETRY Sym
