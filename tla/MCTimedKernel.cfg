CONSTANTS
  main = main
  a = a
  idle = idle
  sem1 = sem1
  NULL = NULL
  Task = {main, a}
  Idle = idle
  Main = main
  BasePri <- MCBasePri
  MinPri = 1
  mbx1 = mbx1
  d1 = d1
  WaitObj = {sem1, mbx1}
  Mbx = {mbx1}
  Msg = {d1}
  NMsg = 1
  Sem = {sem1}
  MaxSem = 1
  MaxTmo = 2
  MbxTmo = 1
  MaxObj = 1
  MaxAct = 0
SPECIFICATION FairSpec
INVARIANTS
  TypeOK
  NoWaiterWhileAvailable
  NoWaiterWhileMessage
  
PROPERTIES
  LeavesTimeoutQueue
  TimeoutsFire
