SPECIFICATION Spec
CONSTANTS
  Parts = {linux, darwin}
  linux = linux
  darwin = darwin
  Jobs <- MCJobs
  Situations <- MCSituations
  MaxBuilds = 2
  MaxVersions = 2
  MaxStops = 1
SYMMETRY MCSymmetry
INVARIANTS
  TypeOK
  SignaturesMatchParts
  ReportTellsTheTruth
PROPERTY
  HalfwayStaysHalfway
