\* Two redirects, a deadline of 3 between the timeouts of the operations and a
\* soft limit of 5, a body of up to 3 bytes in chunks of 1 and 2.
SPECIFICATION FairSpec
CONSTANTS
  NULL = NULL
  name = name
  localhost = localhost
  Unsplittable = Unsplittable
  Relative = Relative
  Names = {name, localhost}
  LoopbackNames = {localhost}
  StartUrls <- Starts
  Locations <- Redirects
  LookupAnswers <- Answers
  Codes = {200, 302, 404, 503, 999}
  ChunkSizes = {1, 2}
  max_redirects = 2
  max_response_bytes = 3
  total_timeout = 3
  OperationTimeout <- Timeouts
  SoftLimit = 5
CHECK_DEADLOCK FALSE
INVARIANTS TypeOK RequestsGoWhereValidated WorkIsBounded RetriedIffTransient RaisesOnlyForUrls
PROPERTIES OnlyLookupsRunLate ProbeAnswers
