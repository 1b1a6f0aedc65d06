SPECIFICATION PartsSpec
CONSTANTS
  Calls = {c1, c2, c3}
  c1 = c1
  c2 = c2
  c3 = c3
  Keys = {f1, f2}
  f1 = f1
  f2 = f2
  NoCall = NoCall
  Users = {a, b, c}
  a = a
  b = b
  c = c
  FirstOwner = a
  Handlers = {h1, h2}
  h1 = h1
  h2 = h2
  MaxUses = 1
  PlanLimit = 2
  NoUser = NoUser
  Unsettled = FALSE
  Pages = {p1, p2}
  p1 = p1
  p2 = p2
  MaxTyped = 1
  MaxErased = 1
  MaxAutosaves = 1
  MaxStops = 1
  NoDoc = NoDoc
  AutosaveAnyTime = FALSE
  Ensures = {e1, e2}
  e1 = e1
  e2 = e2
  CallerKeys = {1, 3}
  OwnerOf <- OwnersOfKeys
  Entries = {"doc"}
  MaxPerOwner = 1
  MaxLive = 2
  MaxCreating = 2
  MaxSessions = 4
  Pids = {1, 2, 3}
  None = None
  Loads = {l1, l2}
  l1 = l1
  l2 = l2
  Writers = {w1}
  w1 = w1
  Kinds = {"text", "route", "upload"}
  MaxWrites = 2
  NoText = NoText
  Rough = FALSE
  TexUsers = {"u", "v"}
  MaxSync = 2
  Ttl = 2
  MaxTokens = 4
  MaxClock = 4
  MaxRequests = 4
  MaxStarts = 3
  Plain = {"a", "b"}
  High = {"H1", "H2"}
  Low = {"L1", "L2"}
  MaxLength = 4
  Runs = {r1, r2}
  r1 = r1
  r2 = r2
  FilePaths = {"main", "lib"}
  Texts = {1}
  Absent = 0
  MaxCompiles = 3
  Ids = {m, f, g, h}
  Names = {"a", "b"}
  MaxDepth = 2
  MaxTrash = 2
  MaxOrphans = 1
  Main = m
  MainName = "a"
  m = m
  f = f
  g = g
  h = h
  NoId = NoId
  TrashNested = FALSE
  ReuseLocations = FALSE
  Asks = {1, 2, 3}
  Sources = {1, 2}
  NoSource = NoSource
  Contents = {1, 2}
  NoContent = NoContent
  MaxRevisions = 2
  MaxSpawned = 2
  Lines = {1, 2, 3}
  MaxLines = 3
  MaxCells = 6
  Reach = 1
  AnyOrder = FALSE
  HiddenNames = {"b"}
INVARIANTS
  Exclusive FirstComeFirstServed NextInLineFree
   WithinPlan TextIntact
  LatestSessionKnown WithinLimits 
  FreshWhenQuiet  EveryRequestHeld NoPairSplit
  PagesOfOwnFiles FilesReadable ContentKept
  InStepWithServer 
PROPERTIES
  RecentlyUsedKept MirrorFollows
CHECK_DEADLOCK FALSE
