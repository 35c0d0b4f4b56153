\* The instance of MCScreening.cfg: a candidate that names its capability.
SPECIFICATION Spec
CONSTANTS
  NoAnswer = NoAnswer
  Provider = "p"
  ValidIds = {"a.x", "a.y", "a.z"}
  AllowedKinds = {"command", "option"}
  SkipNames = {"help"}
  Patterned = {"old"}
  SurfaceLimit = 2
  CandidateLimit = 2
  Lower <- MCLower
  SurfaceAnswers <- MCSurfaceAnswers
  CapabilityAnswers <- MCCapabilityAnswers
  BindingAnswers <- MCBindingAnswers
  EvidenceAnswers <- MCEvidenceAnswers
  ReplayFiles <- MCReplayFiles
  Observations <- MCObservations
CHECK_DEADLOCK FALSE
INVARIANT
  KeepsPlanId
