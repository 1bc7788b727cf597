SPECIFICATION Spec
CONSTANTS
  a = a
  b = b
  c = c
  index = index
  newindex = newindex
  x = x
  y = y
  Ints = {0, 1, 2, 3, 4, 5, 6, 7}
  Names = {a, b, c, index, newindex}
  Events = {index, newindex}
  INDEX = index
  NEWINDEX = newindex
  NumHash <- MCNumHash
  StrHash <- MCStrHash
  Values = {x, y}
  Nil = nil
  MaxBits = 2
  MaxInt = 7
  MaxLen = 3
  Programs <- MCPrograms
INVARIANTS WellFormed BorderFound FlagsSound
PROPERTIES MapPromise
