SPECIFICATION Spec
CONSTANTS
  Uris = {u1}
  Clients = {c1, c2}
  Requests = {r1, r2}
  Ptys = {p1, p2}
  None = None
  MaxChunks = 3
  Threshold = 2
  Retained = 2
INVARIANTS
  NoStrayTerminal
  ScreenComplete
  OutputThenExit
PROPERTIES
  OutputPublished
CHECK_DEADLOCK FALSE
