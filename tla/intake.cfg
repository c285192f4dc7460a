SPECIFICATION Spec
CONSTANTS
  Instances = {a, b}
  Targets = {t1}
  None = none
  Pushes <- TwoProducers
  Registrations <- TwoRegistrations
  MaxGen = 3
  MaxPolls = 2
  MaxCrashes = 2
INVARIANTS
  TypeOK ReceiptsSurvive AcceptedIsApplied EndpointAgrees
PROPERTIES
  ImplementsJournal
CHECK_DEADLOCK FALSE
