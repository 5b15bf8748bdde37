SPECIFICATION AgentSpec
CONSTANTS
  Proc = {p1, p2}
  RequestId = {a}
  Key = {a}
  CommandKey = {a}
  Payload = {mock, live}
  Paid = {live}
  Token = {t1, t2}
  MaxRun = 3
  MaxCommands = 3
  MaxCrashes = 1
  EngineMayRaise = TRUE
  None = None
SYMMETRY AgentSymmetry
INVARIANTS
  AgentTypeOK
  PaidOnlyApproved
  OneRunPerRequest
CHECK_DEADLOCK FALSE
