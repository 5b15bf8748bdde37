SPECIFICATION FairEngineSpec
CONSTANTS
  Stage = {"proposal", "jury", "jury_repair", "synthesis"}
  Provider = {1, 2}
  Prompt <- MCPrompt
  NoPrompt = NoPrompt
  Response = {"good", "bad", "broken"}
  MaxAttempts = 0
  Synth <- TwoSynth
  MaxCalls = 8
  ProposalQuorum = 1
  JuryQuorum = 1
  Lineage <- OwnLineage
  MinLineages = 1
  AllowPartial = TRUE
  TruncationRetries = 1
  JuryRepair = FALSE
  Headroom <- FirstHeadroom
  Oversized = {"synthesis"}
  MaxParallel = 2
  GateOn = FALSE
  GateMayDeny = FALSE
  Outcomes = {"good", "length", "error"}
  MaxResumes = 1
  MaxCrashes = 1
INVARIANTS
  TruncationBounded
  CleanMeansClean
  SynthesisReserve
  ResumeNeverWedged
PROPERTIES
  RunConcludes
CHECK_DEADLOCK FALSE
