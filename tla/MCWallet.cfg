SPECIFICATION Spec
CONSTANTS
  EvidenceTypes <- MCEvidenceTypes
  Predicates <- MCPredicates
  Policies <- MCPolicies
  Questions <- MCQuestions
  Subjects <- DemoSubject
  InitialHeld <- DemoHeld
  Grantable <- DemoGrants
  Asked <- DemoQuestions
  Calls = {c1, c2, c3}
  CredentialTTL = 0
  MaxTime = 1
  MaxApiRestarts = 1
  MaxEngineRestarts = 1
INVARIANTS
  OneCredential
  HonestPresentationAllowed
  GrantsCount
SYMMETRY CallSymmetry
CHECK_DEADLOCK FALSE
