SPECIFICATION Spec
CONSTANTS
  EvidenceTypes <- MCEvidenceTypes
  Predicates <- MCPredicates
  Policies <- MCPolicies
  Questions <- MCQuestions
  Requests = {r1}
  Audiences = {"rp"}
  Known <- RaceKnown
  Calls = {c1}
  Presentations <- MinorWithIdentity
  EvalTimes = {0}
  TTL = 1
  MaxTime = 2
  MaxRestarts = 1
  NoChallenge = NoChallenge
INVARIANT FalseClaimDenies
CHECK_DEADLOCK FALSE
