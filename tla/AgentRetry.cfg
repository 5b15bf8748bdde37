SPECIFICATION AgentSpec
CONSTANTS
  Proc = {p1, p2}
  RequestId = {a}
  Key = {a}
  CommandKey = {}
  Payload = {mock, live}
  Paid = {live}
  Token = {t1, t2}
  MaxRun = 3
  MaxCommands = 2
  MaxCrashes = 1
  EngineMayRaise = FALSE
  None = None
PROPERTIES
  RetriesReturnTheRun
CHECK_DEADLOCK FALSE
