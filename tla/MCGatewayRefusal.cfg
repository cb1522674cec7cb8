SPECIFICATION Spec
CONSTANTS
  EvidenceTypes <- MCEvidenceTypes
  Predicates <- MCPredicates
  Policies <- MCPolicies
  Questions <- MCQuestions
  Requests = {r1}
  MadeUp = {forged}
  Calls = {c1}
  Texts <- BothTexts
  Proposals <- AnyProposal
  Verdicts <- OneVerdict
  MaxApiRestarts = 1
  MaxEngineRestarts = 1
INVARIANT RefusalsAudited
CHECK_DEADLOCK FALSE
