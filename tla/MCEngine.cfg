SPECIFICATION Spec
CONSTANTS
  r1 = r1  r2 = r2  r3 = r3  None = None
  Requests = {r1, r2, r3}
  IdOf <- MCIdOf
  Prompt <- MCPrompt
  MaxTokens <- MCMaxTokens
  Namespace <- MCNamespace
  MaxActive = 2
  QueueCapacity = 2
  EventBuffer = 1
  CacheEntries = 1
  CacheTokens = 2
  BlockSize = 2
  Blocks = {0, 1, 2, 3, 4}
  BatchTokens = 3
  PrefillChunk = 3
  Policy = "mixed"
  Cancellable = {r1}
  Timed = {}
  BackendMayFail = FALSE
INVARIANTS RegistryIsExact BlocksAreAccounted KvHoldsItsRequest IdlePoolFits
PROPERTIES BatchesFitTheBudget
