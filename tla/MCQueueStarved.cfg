SPECIFICATION FairSpec
CONSTANTS
  Tasks = {1}
  Machines = {1, 2}
  Claiming = {1}
  Steady = {}
  Alarmed = {}
  Held = {}
  Pinned = {}
  Staffed = {1, 2}
  Room = 1
  Capacity <- MCCapacity
  Grace = 1
  Starvation = 2
  Lease = 1
  Stale = 1
  MaxMoves = 2
  Window = 8
PROPERTIES NoIndefiniteStarvation
