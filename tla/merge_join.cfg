SPECIFICATION Spec
CONSTANTS
  Null = Null
  NoClaim = NoClaim
  Keys <- SignedKeys
  Modulus = 256
  ColumnNames = {key, other}
  HashFns = {hash, otherHash}
  Buckets = {1, 2}
  MaxRows = 3
INVARIANTS
  FindsEveryPair
PROPERTIES
  ImplementsInnerJoin
  Terminates
CHECK_DEADLOCK FALSE
