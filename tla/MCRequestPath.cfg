SPECIFICATION Spec
CONSTANTS
  Setups <- MCSetups
  HandlerOps <- MCHandlerOps
  Requests = {r1, r2}
  Inputs <- MCInputs
  Declarations <- MCDeclarations
  Streams <- MCStreams
  Origins <- MCOrigins
  MaxSeries = 1
  Buckets <- MCBuckets
  Durations = {2}
  MaxRejections = 1
INVARIANTS MetricsAddUp AnswersAreSound
PROPERTY ShutdownCompletes
CHECK_DEADLOCK FALSE
