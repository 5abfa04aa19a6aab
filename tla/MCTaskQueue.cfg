SPECIFICATION Spec
CONSTANTS
  t1 = t1
  t2 = t2
  m1 = m1
  m2 = m2
  w1 = w1
  w2 = w2
  Tasks = {t1, t2}
  Machines = {m1, m2}
  Workers = {w1, w2}
  MachineOf <- MCMachineOf
  Held = {}
  MaxAttempts = 2
  LeaseTicks = 2
  RetryBase = 1
  RetryCap = 2
  Offsets = {0, 1}
  MaxOffset = 1
  NoTask = NoTask
SYMMETRY MCSymmetry
INVARIANTS OneHolder ResultIsLatest
PROPERTIES StaleWorkerHarmless LeaseProtects TriggerSilent KeepsLedger
