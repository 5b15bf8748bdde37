SPECIFICATION EngineSpec
CONSTANTS
  Stage = {"proposal", "jury", "jury_repair", "synthesis"}
  Provider = {1, 2}
  Prompt <- MCPrompt
  NoPrompt = NoPrompt
  Response = {"good", "bad", "broken"}
  MaxAttempts = 0
  Synth <- OneSynth
  MaxCalls = 6
  ProposalQuorum = 1
  JuryQuorum = 1
  Lineage <- OwnLineage
  MinLineages = 1
  AllowPartial = TRUE
  TruncationRetries = 0
  JuryRepair = TRUE
  Headroom = {}
  Oversized = {}
  MaxParallel = 1
  GateOn = FALSE
  GateMayDeny = FALSE
  Outcomes = {"good", "bad", "broken"}
  MaxResumes = 2
  MaxCrashes = 1
INVARIANTS
  ResumeNeverWedged
  FrozenMembership
PROPERTIES
  StagesClose
CHECK_DEADLOCK FALSE
