CONSTANTS
  p = p  q = q  major = major  any = any  bad = bad
  Package = {p, q}
  Version = {1, 2, 4}
  Lib <- Libs
  Wip = {2}
  Api <- Apis
  Selector = {major, any}
  Admits <- Admitted
  Malformed = bad
  Dependencies <- Deps
  Requests <- Bodies
  MaxDocs = 3
  MaxLapses = 1
  NoDoc = NoDoc
  NoSpec = NoSpec
  NotFound = NotFound
  Raised = Raised
SPECIFICATION FairSpec
INVARIANTS TypeOK DependenciesFirst Answered OutcomeAsExpected
PROPERTY RequestEnds
