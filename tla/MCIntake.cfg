SPECIFICATION FairSpec
CONSTANTS
  e1 = e1
  e2 = e2
  n1 = n1
  Messages = {1, 2}
  Broadcast = {}
  OverAPI = {2}
  Signed = {1, 2}
  Envelopes = {e1, e2}
  EnvelopeOf <- MCEnvelopeOf
  NonceOf <- MCNonceOf
  Genuine = {e1, e2}
  Workers = {w1, w2}
  Window = 2
  Life = 1
  Skew = 1
  Offsets <- MCOffsets
  Retention = 1
  None = None
INVARIANTS AcceptedOnce EvidenceKept AcknowledgedWasReceived
PROPERTIES EveryMessageAnswered
