SPECIFICATION Spec
CONSTANTS
  Ops = {o1, o2}
  NPaths = 1
  Contents = {a, b}
  Absent = absent
  NCapsules = 2
  Free = free
  Left = left
  Racing = FALSE
PROPERTIES RefusesToOverwrite
SYMMETRY Symmetry
