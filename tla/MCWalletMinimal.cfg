SPECIFICATION Spec
CONSTANTS
  EvidenceTypes <- MCEvidenceTypes
  Predicates <- MCPredicates
  Policies <- MCPolicies
  Questions <- MCQuestions
  Subjects <- DemoSubject
  InitialHeld <- DemoHeld
  Grantable <- DemoGrants
  Asked <- DemoQuestions
  Calls = {c1}
  CredentialTTL = 0
  MaxTime = 1
  MaxApiRestarts = 1
  MaxEngineRestarts = 1
INVARIANT DisclosureIsMinimal
CHECK_DEADLOCK FALSE
