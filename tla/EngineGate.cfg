SPECIFICATION FairEngineSpec
CONSTANTS
  Stage = {"proposal", "jury", "jury_repair", "synthesis"}
  Provider = {1, 2}
  Prompt <- MCPrompt
  NoPrompt = NoPrompt
  Response = {"good", "bad", "broken"}
  MaxAttempts = 0
  Synth <- OneSynth
  MaxCalls = 6
  ProposalQuorum = 1
  JuryQuorum = 1
  Lineage <- OwnLineage
  MinLineages = 1
  AllowPartial = TRUE
  TruncationRetries = 0
  JuryRepair = FALSE
  Headroom = {}
  Oversized = {}
  MaxParallel = 2
  GateOn = TRUE
  GateMayDeny = TRUE
  Outcomes = {"good", "error"}
  MaxResumes = 1
  MaxCrashes = 1
INVARIANTS
  ReservationFresh
  ChargedIfSent
PROPERTIES
  RunConcludes
  ImplementsLeases
CHECK_DEADLOCK FALSE
