\* Every answer of surface of up to three items, five answers of capability,
\* six of binding and of evidence for every plan; two surfaces, plans and
\* candidates at most.
SPECIFICATION Spec
CONSTANTS
  NoAnswer = NoAnswer
  Provider = "p"
  ValidIds = {"a.x", "a.y", "a.z"}
  AllowedKinds = {"command", "option"}
  SkipNames = {"help"}
  Patterned = {"old"}
  SurfaceLimit = 2
  CandidateLimit = 2
  Lower <- MCLower
  SurfaceAnswers <- MCSurfaceAnswers
  CapabilityAnswers <- MCCapabilityAnswers
  BindingAnswers <- MCBindingAnswers
  EvidenceAnswers <- MCEvidenceAnswers
  ReplayFiles <- MCReplayFiles
  Observations <- MCObservations
CHECK_DEADLOCK FALSE
INVARIANTS
  SurfacesPoliced
  PlansGrounded
  SelectionFits
  LevelEarned
  RejectedOnlyUnchecked
