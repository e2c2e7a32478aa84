SPECIFICATION Spec
CONSTANTS
  NoLimit = NoLimit
  SoftLimits <- MCSoftLimits
  HardLimits <- MCHardLimits
  PolicyIds <- MCPolicyIds
  Orgs <- MCOrgs
  MaxSteps = 2
INVARIANTS
  VerdictsAreMonotone
  WiderPresetsAllowMore
PROPERTY
  HardCapsPause
\* A run is not created twice and its steps are bounded.
CHECK_DEADLOCK FALSE
