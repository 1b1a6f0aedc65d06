SPECIFICATION Spec
CONSTANTS
  Pages = {p1, p2}
  p1 = p1
  p2 = p2
  MaxTyped = 1
  MaxErased = 1
  MaxAutosaves = 1
  MaxStops = 1
  NoDoc = NoDoc
  NoText = NoText
  AutosaveAnyTime = TRUE
INVARIANT TextIntact
CHECK_DEADLOCK FALSE
