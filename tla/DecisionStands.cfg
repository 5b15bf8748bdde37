SPECIFICATION DecisionSpec
CONSTANTS
  Stage = {"proposal", "jury", "jury_repair", "synthesis"}
  Provider = {1}
  Prompt <- MCPrompt
  NoPrompt = NoPrompt
  Response = {"good", "bad", "broken"}
  MaxAttempts = 0
  Synth <- OneSynth
  MaxCalls = 4
  ProposalQuorum = 1
  JuryQuorum = 1
  Lineage <- OwnLineage
  MinLineages = 1
  AllowPartial = TRUE
  TruncationRetries = 0
  JuryRepair = FALSE
  Headroom = {}
  Oversized = {}
  MaxParallel = 2
  GateOn = FALSE
  GateMayDeny = FALSE
  Outcomes = {"good", "error"}
  MaxResumes = 3
  MaxCrashes = 1
  MaxDecisions = 2
INVARIANTS
  DecisionStands
CHECK_DEADLOCK FALSE
