CONSTANTS
  main = main
  a = a
  idle = idle
  sem1 = sem1
  NULL = NULL
  Task = {main, a}
  Idle = idle
  Main = main
  BasePri <- MCBasePri
  MinPri = 1
  WaitObj = {sem1}
  Sem = {sem1}
  MaxSem = 1
  MaxTmo = 2
  MaxAct = 1
  NewPri = {0, 1}
SPECIFICATION FairSpec
INVARIANTS
  OnePlace
PROPERTIES
  TopRunsAgain
