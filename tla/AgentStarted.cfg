SPECIFICATION AgentSpec
CONSTANTS
  Proc = {p1, p2}
  RequestId = {a}
  Key = {a}
  CommandKey = {a}
  Payload = {mock, live}
  Paid = {live}
  Token = {t1, t2}
  MaxRun = 3
  MaxCommands = 2
  MaxCrashes = 0
  EngineMayRaise = FALSE
  None = None
INVARIANTS
  ReportedIsInProgress
CHECK_DEADLOCK FALSE
