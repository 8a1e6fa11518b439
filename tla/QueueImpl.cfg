CONSTANTS
  NULL = NULL
  Index = {0, 1}
  Node = {n1, n2, n3, n4}
SPECIFICATION Spec
INVARIANTS
  LinksAgree
PROPERTIES
  ImplementsFifo
