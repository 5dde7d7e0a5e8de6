CONSTANTS
  r1 = r1
  r2 = r2
  Requests <- MCRequests
  Streams <- MCStreams
  MaxTokens = 2
SPECIFICATION HttpFairSpec
INVARIANTS AcceptedAreAnswered NoRequestIsAbandoned
PROPERTIES DrainIsFinal StopIsObeyed
