SPECIFICATION FreeListSpec
CONSTANTS
  Nodes = {n1, n2}
  Threads = {t1, t2, t3}
  NoNode = NoNode
INVARIANTS
  CallersNodeIsOffTheList
  QuietListIsComplete
SYMMETRY Alike
PROPERTY
  ImplementsPool
