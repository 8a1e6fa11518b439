CONSTANTS
  Task = {a, b}
  MaxNest = 3
SPECIFICATION Spec
INVARIANTS
  SystemCallExecuted
