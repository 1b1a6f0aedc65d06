SPECIFICATION Spec
CONSTANTS
  Ids = {m, f, g, h}
  Names = {"a", "b"}
  Main = m
  MainName = "a"
  MaxDepth = 2
  MaxTrash = 2
  MaxOrphans = 1
  m = m
  f = f
  g = g
  h = h
  NoId = NoId
  TrashNested = TRUE
  ReuseLocations = FALSE
INVARIANT FilesReadable
CHECK_DEADLOCK FALSE
