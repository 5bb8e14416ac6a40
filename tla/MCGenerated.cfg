\* A trip of a value of any of the eleven services, or a unary call of one of
\* the six RPC services in two attempts.
SPECIFICATION MCSpec
CONSTANTS
  Models <- MCModels
  Junk <- MCJunk
  Services <- MCServices
  MaxAttempts = 2
  JsonDepth = 4
  CborDepth = 4
  MinRepresentableMs <- MCMinMs
  MaxRepresentableMs <- MCMaxMs
INVARIANTS RoundTrip AcceptedIsSound  HandlerSeesTheCall CallerToldTheTruth
CHECK_DEADLOCK FALSE
