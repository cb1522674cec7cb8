SPECIFICATION Spec
CONSTANTS
  EvidenceTypes <- MCEvidenceTypes
  Predicates <- AllPredicates
  Policies <- AllPolicies
  Questions <- MCQuestions
  MaxEntries = 3
INVARIANTS
  FollowingThePlanAllows
  CitedEvidenceReproduces
  AuditExplainsDecision
PROPERTY AvailableNeverHurts
CHECK_DEADLOCK FALSE
