SPECIFICATION Spec
CONSTANTS
  Worlds <- TwoWorlds
  Diminishing <- MCDiminishing
CHECK_DEADLOCK FALSE
INVARIANTS
  RolesAreEarned
  SupportIsCounted
  OneGaugeOneVoice
  ExplanationAgrees
PROPERTIES
  OverrideKept
  CitizenSupportNeverLowers
