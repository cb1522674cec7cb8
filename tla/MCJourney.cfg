SPECIFICATION JourneyFairSpec
CONSTANTS
  EvidenceTypes <- MCEvidenceTypes
  Predicates <- AgeAndResidence
  Policies <- AdultResident
  Questions <- MCQuestions
  f1 = f1
  other = other
  Others <- MCOthers
  Flows = {f1}
  Subject = "user-123"
  Subjects <- MCSubjects
  InitialHeld <- MCHeld
  Grantable = {}
  Asked <- MCAsked
  Calls <- MCCalls
  CredentialTTL = 0
  MaxTime = 1
  MaxApiRestarts = 1
  MaxEngineRestarts = 1
  Pids <- MCPids
  Alterations <- EveryWay
  Sendable <- MCSendable
  Days <- MCDays
  TicksPerDay = 1
  NonceTTL = 0
  NoChallenge = NoChallenge
  DateOf <- MCDateOf
  NotText = NotText
INVARIANTS
  OnlyTheTextPresented
  EvidenceAgrees
  AlteredIsNamed
  AnswerHasCause
  AuditToldBack
PROPERTIES
  OthersAreServed
  EveryFlowEnds
CHECK_DEADLOCK FALSE
