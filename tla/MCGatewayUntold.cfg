SPECIFICATION Spec
CONSTANTS
  EvidenceTypes <- MCEvidenceTypes
  Predicates <- MCPredicates
  Policies <- MCPolicies
  Questions <- MCQuestions
  Requests = {r1}
  MadeUp = {forged}
  Calls = {c1, c2}
  Texts <- BothTexts
  Proposals <- AnyProposal
  Verdicts <- OneVerdict
  MaxApiRestarts = 0
  MaxEngineRestarts = 1
INVARIANT PresentationAuditsTell
CHECK_DEADLOCK FALSE
