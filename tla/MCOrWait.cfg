CONSTANTS
  main = main
  a = a
  b = b
  idle = idle
  NULL = NULL
  Task = {main, a, b}
  Idle = idle
  Main = main
  BasePri <- MCBasePri
  MinPri = 1
  flg1 = flg1
  mpf1 = mpf1
  mbx1 = mbx1
  d1 = d1
  d2 = d2
  WaitObj = {flg1}
  Mbx = {}
  Msg = {d1, d2}
  NMsg = 0
  Flg = {flg1}
  b1 = b1
  b2 = b2
  Bit = {b1, b2}
  Mpf = {}
  Shape <- MCShape
  MaxObj = 1
  MaxTmo = 1
  MaxAct = 0
SPECIFICATION Spec
INVARIANTS
  NoWaiterWhileSet
