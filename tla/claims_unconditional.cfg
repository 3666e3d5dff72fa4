SPECIFICATION Spec
CONSTANTS
  k = k
  t = t
  x = x
  p1 = p1
  p2 = p2
  value = value
  ValuePartitioned = value
  NoClaim = NoClaim
  ColumnNames = {k, t, x}
  Values = {0, 1}
  Partitions = {p1, p2}
  HashFns = {value}
  MaxRows = 3
  MaxColumns = 2
  Directions = {FALSE}
SYMMETRY Symmetry
INVARIANT FastPathExact
