SPECIFICATION Spec
CONSTANTS
  Proposals = {multi, library, mail}
  Twofold = {multi, mail}
  Messages = {mail}
  Guarded = {multi}
  Confirmers = {c1, c2}
  None = None
  MaxRaised = 1
CONSTRAINT FewErrors
SYMMETRY Interchangeable
INVARIANTS OneResult ErrorsBoundRows
PROPERTY ConfirmedStands
CHECK_DEADLOCK FALSE
