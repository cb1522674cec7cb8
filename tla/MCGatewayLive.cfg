SPECIFICATION FairSpec
CONSTANTS
  EvidenceTypes <- MCEvidenceTypes
  Predicates <- MCPredicates
  Policies <- MCPolicies
  Questions <- MoreQuestions
  Requests = {r1}
  MadeUp = {forged}
  Calls = {c1, c2}
  Texts <- MoreTexts
  Proposals <- AnyProposal
  Verdicts <- OneVerdict
  MaxApiRestarts = 1
  MaxEngineRestarts = 1
INVARIANTS
  GuardrailHolds
  ProvenanceTold
PROPERTY EveryCallAnswered
CHECK_DEADLOCK FALSE
