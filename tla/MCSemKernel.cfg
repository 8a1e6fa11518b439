CONSTANTS
  main = main
  a = a
  b = b
  idle = idle
  sem1 = sem1
  NULL = NULL
  Task <- MCTask
  Idle = idle
  Main = main
  BasePri <- MCBasePri
  MinPri = 1
  WaitObj = {sem1}
  Sem = {sem1}
  MaxSem = 1
  MaxTmo = 1
  MaxAct = 0
  NewPri = {}
SYMMETRY Symmetric
SPECIFICATION Spec
INVARIANTS
  TypeOK
  OnePlace
  BitmapExact
  NoWaiterWhileAvailable
  InversionOnlyAfterDelete
PROPERTIES
  ReturnsWhatWasGranted
