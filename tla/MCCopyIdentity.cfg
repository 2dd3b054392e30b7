SPECIFICATION Spec
CONSTANTS
  a = a
  b = b
  c = c
  x = x
  y = y
  Nodes = {1, 2, 3}
  Names = {a, b, c}
  Ids = {x, y}
  NoNode = NoNode
  NoId = NoId
  Refusing = {2}
  MaxCreated = 3
  MaxRestarts = 1
INVARIANTS SharingWasMissed RelationsAreOwn
PROPERTY OriginalKeepsId
SYMMETRY Symmetry
CHECK_DEADLOCK FALSE
