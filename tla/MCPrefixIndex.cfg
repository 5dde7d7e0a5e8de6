CONSTANTS
  BlockSize = 2
  CacheSequences = {1, 2, 3}
  Namespaces = {"a", "b"}
  Lists <- MCLists
  Limits = {1, 3, 4}
  ClockMax = 4
SPECIFICATION TrieSpec
INVARIANT TrieIsExact
PROPERTY IsPrefixCache
