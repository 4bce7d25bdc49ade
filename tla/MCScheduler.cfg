\* The engine on every small input.  Generate returns, so the run may stop.
SPECIFICATION Spec
CONSTANTS
  Inputs <- SmallInputs
  AlternateCap = 1
INVARIANTS
  TypeOK
  KeepsContract
  EpisodesSound
  AiringSound
  PlanIsFull
  ProvidersSound
PROPERTIES
  Returns
CHECK_DEADLOCK FALSE
