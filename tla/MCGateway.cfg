SPECIFICATION Spec
CONSTANTS
  EvidenceTypes <- MCEvidenceTypes
  Predicates <- MCPredicates
  Policies <- MCPolicies
  Questions <- MCQuestions
  Requests = {r1, r2}
  MadeUp = {}
  Calls = {c1, c2, c3}
  Texts <- BothTexts
  Proposals <- TwoProposals
  Verdicts <- OneVerdict
  MaxApiRestarts = 1
  MaxEngineRestarts = 1
INVARIANTS
  GuardrailHolds
  ProvenanceTold
  DecisionsBacked
SYMMETRY CallSymmetry
CONSTRAINT OneRestart
CHECK_DEADLOCK FALSE
