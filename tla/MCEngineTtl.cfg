SPECIFICATION Spec
CONSTANTS
  EvidenceTypes <- MCEvidenceTypes
  Predicates <- AgeOnly
  Policies <- NoPolicies
  Questions <- MCQuestions
  Requests = {r1}
  Audiences = {"rp"}
  Known <- RaceKnown
  Calls = {c1}
  Presentations <- RacePresentations
  EvalTimes = {0}
  TTL = 1
  MaxTime = 2
  MaxRestarts = 1
  NoChallenge = NoChallenge
INVARIANT TtlOnInjectedClock
CHECK_DEADLOCK FALSE
