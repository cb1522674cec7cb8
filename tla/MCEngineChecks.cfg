SPECIFICATION FairSpec
CONSTANTS
  EvidenceTypes <- MCEvidenceTypes
  Predicates <- AgeAndResidence
  Policies <- AdultResident
  Questions <- MCQuestions
  Requests = {r1, r2}
  Audiences = {"rp"}
  Known <- AllKnown
  Calls = {c1}
  Presentations <- AllPresentations
  EvalTimes = {0}
  TTL = 0
  MaxTime = 1
  MaxRestarts = 1
  NoChallenge = NoChallenge
INVARIANTS
  TypeOK
  AllowIsEarned
  PlanIsEnough
PROPERTIES
  SpentOnlyByVerified
  EveryCallEnds
CHECK_DEADLOCK FALSE
