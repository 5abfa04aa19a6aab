SPECIFICATION Spec
CONSTANTS
  Submissions = {s, t}
  Incomplete = {t}
  Operations = {d, x}
  Typed = {d}
  Worded = {}
  Allowed = {d}
  Diagnostics = {d}
  Plain = {q}
  LowRisk = {q}
  c1 = c1
  Clients = {c1, c2}
  Reviewers = {v1, v2}
  Processors = {p}
  Brokers = {b1, b2}
  Evidence = {e1, e2}
  MaxDecisions = 3
  None = None
CONSTRAINT FewDecisions
SYMMETRY Interchangeable
INVARIANTS OneApprovalEach PassedWasReviewed RunsWereApproved CompletedWasDone
