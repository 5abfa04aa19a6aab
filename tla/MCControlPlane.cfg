SPECIFICATION FairSpec
CONSTANTS
  m1 = m1
  m2 = m2
  Tasks = {k1, k2}
  Machines = {m1, m2}
  Operator = {r1}
  Peer = {p1}
  To <- MCTo
  None = None
INVARIANTS OperatorTellsTruth OneTaskPerPeer 
PROPERTIES AnswersStand PeerFollowsTask OperatorFollowsTasks
