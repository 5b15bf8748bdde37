SPECIFICATION PartsSpec
CONSTANTS
  Stage = {"proposal", "jury"}
  Provider = {1}
  Prompt = {q1, q2}
  NoPrompt = NoPrompt
  Response = {"good"}
  MaxAttempts = 4
  Juror = {"p1", "p2", "p3", "p4"}
  Candidate = {"p1", "p2", "p3"}
  Abstain = Abstain
  Invalid = Invalid
  NoWinner = NoWinner
  Status = {302, 401, 403, 404, 408, 409, 425, 429, 500, 503}
  AttemptsAllowed = 3
  MaxPosts = 2
INVARIANTS
  StoreTypeOK
  RetryAudit
  TallyDefensible
  NoBlindRepeat
PROPERTIES
  HistoryKept
CHECK_DEADLOCK FALSE
