SPECIFICATION FairSpec
CONSTANTS
  Requests = {r1}
  Guarded = {r1}
  Workers = {w1, w2}
  Dispatchers = {d1, d2}
  Nonces = {n1, n2}
  SignedKeys <- MCSigned
  AddedKeys = {}
  Life = 1
  None = None
INVARIANTS HandlerAtMostOnce ApprovedBeforeRun 
PROPERTIES AnsweredIsAcknowledged
