CONSTANTS
  main = main
  a = a
  b = b
  idle = idle
  NULL = NULL
  Task = {main, a, b}
  Idle = idle
  Main = main
  BasePri <- MCBasePri
  MinPri = 1
  WaitObj = {}
  MaxTmo = 1
  MaxAct = 0
  NewPri = {}
  Sleepers = {}
  Releasable = {a}
SPECIFICATION Spec
PROPERTIES
  ExtNeverReturns
