SPECIFICATION Spec
CONSTANTS
  EvidenceTypes <- MCEvidenceTypes
  Predicates <- AgeOnly
  Policies <- NoPolicies
  Questions <- MCQuestions
  Requests = {r1}
  Audiences = {"rp"}
  Known <- RaceKnown
  Calls = {c1, c2, c3}
  Presentations <- RacePresentations
  EvalTimes = {}
  TTL = 1
  MaxTime = 2
  MaxRestarts = 1
  NoChallenge = NoChallenge
INVARIANTS
  AtMostOneWinner
  ReplayHasWinner
  AnswersAudited
  CopyStaysValid
PROPERTIES
  SpentStaysSpent
  SingleUseSpec
SYMMETRY RaceSymmetry
CHECK_DEADLOCK FALSE
