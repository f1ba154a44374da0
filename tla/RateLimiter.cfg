\* Three handlers, two hits a window of three seconds; hits, expiries and failures
\* in any number and for any time.
SPECIFICATION FairSpec
CONSTANTS
  NULL = NULL
  Requests = {r1, r2, r3}
  limit = 2
  window_seconds = 3
INVARIANTS TypeOK AtMostTwiceTheLimit
PROPERTIES RetryAfterIsTrue RefusalEnds
