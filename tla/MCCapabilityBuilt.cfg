SPECIFICATION FairSpec
CONSTANTS
  Requests = {r1}
  Guarded = {}
  Workers = {w1}
  Dispatchers = {d1}
  Nonces = {n1}
  SignedKeys <- MCSigned
  AddedKeys <- MCAdded
  Life = 1
  None = None
INVARIANTS GenuineNotRefused
