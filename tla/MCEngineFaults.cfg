SPECIFICATION FairSpec
CONSTANTS
  r1 = r1  r2 = r2  r3 = r3  None = None
  Requests = {r1, r3}
  IdOf <- MCIdOf
  Prompt <- MCPrompt
  MaxTokens <- MCMaxTokens
  Namespace <- MCNamespace
  MaxActive = 2
  QueueCapacity = 2
  EventBuffer = 1
  CacheEntries = 1
  CacheTokens = 3
  BlockSize = 2
  Blocks = {0, 1, 2, 3, 4, 5}
  BatchTokens = 4
  PrefillChunk = 2
  Policy = "prefill_first"
  Cancellable = {r1}
  Timed = {r3}
  BackendMayFail = TRUE
INVARIANTS NoRequestIsLost CountersBalance SequencesAreAccounted
PROPERTIES IsRequestStream AcceptedEnds StopReturns
