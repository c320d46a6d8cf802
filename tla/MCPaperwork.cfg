SPECIFICATION MCSpec
CONSTANTS
  Runs = {service, command}
  Service = service
  MaxCrashes = 1
  Plans <- SmallPlans
  AskPlan <- OneStep
  Budget = 4
  Limit = 1
  MaxRuns = 1
  Recorders = {r1, r2}
  MaxLines = 1
  MaxFaults = 3
  Callers = {c1, c2}
  Modes = {"auto"}
  MaxCalls = 1
  MaxSaid = 2
  Nobody = Nobody
  Reader = Reader
INVARIANTS ReceiptsSurvive WavesKeepTheirWord OKMeansCarriedOut IncidentsSurvive AnswersReachTheirRequest
PROPERTIES NobodyStaysBlocked
CHECK_DEADLOCK FALSE
