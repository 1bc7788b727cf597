SPECIFICATION FairSpec
CONSTANTS
  G = G
  t1 = t1
  mk = mk
  mv = mv
  mg = mg
  s1 = s1
  s2 = s2
  s3 = s3
  u1 = u1
  u2 = u2
  c1 = c1
  c2 = c2
  v1 = v1
  M = M
  co = co
  nil = nil
  Tables <- MCTables
  Strings <- MCStrings
  Udata <- MCUdata
  Closures <- MCClosures
  Upvals <- MCUpvals
  Threads <- MCThreads
  Main = M
  Registry = G
  Nothing = nil
  ModeOf <- MCModeOf
  HasGC <- MCHasGC
  HashOf <- MCHashOf
  Programs <- MCPrograms
  MaxStack = 2
  MaxEntries = 1
  MinStrTab = 1
INVARIANTS BooksInOrder NoDangling BlackToWhite
PROPERTIES HeapSpec CyclesEnd
