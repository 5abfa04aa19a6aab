SPECIFICATION FairSpec
CONSTANTS
  Tasks = {1, 2}
  Machines = {1, 2}
  Claiming = {1}
  Steady = {2}
  Alarmed = {}
  Held = {}
  Pinned = {}
  Staffed = {1, 2}
  Room = 2
  Capacity <- MCCapacity
  Grace = 1
  Starvation = 2
  Lease = 1
  Stale = 1
  MaxMoves = 2
  Window = 8
PROPERTIES RunningStaysPut SweepFillsNoMachine WorkLeavesDeadMachines AbandonedClaimsReturn MovesEnd
