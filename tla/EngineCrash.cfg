SPECIFICATION EngineSpec
CONSTANTS
  Stage = {"proposal", "jury", "jury_repair", "synthesis"}
  Provider = {1, 2}
  Prompt <- MCPrompt
  NoPrompt = NoPrompt
  Response = {"good", "bad", "broken"}
  MaxAttempts = 0
  Synth <- OneSynth
  MaxCalls = 7
  ProposalQuorum = 1
  JuryQuorum = 1
  Lineage <- OwnLineage
  MinLineages = 1
  AllowPartial = TRUE
  TruncationRetries = 0
  JuryRepair = FALSE
  Headroom = {}
  Oversized = {}
  MaxParallel = 2
  GateOn = FALSE
  GateMayDeny = FALSE
  Outcomes = {"good", "error", "ambiguous"}
  MaxResumes = 2
  MaxCrashes = 1
INVARIANTS
  EngineTypeOK
  CallBudget
  PromptStable
PROPERTIES
  NoBlindRedispatch
  ImplementsLedger
CHECK_DEADLOCK FALSE
