CONSTANTS
  c1 = c1
  c2 = c2
  None = None
  Callers = {c1, c2}
  Handlers <- AllHandlers
  Script <- Scripts
  Rows <- AllRows
  Calls = 2
  Faults = 1
SPECIFICATION Spec
SYMMETRY AnyCaller
INVARIANTS
  OneOfEach
  
  
  AnnouncementsFollow
CHECK_DEADLOCK FALSE
