CONSTANTS
  s1 = s1
  s2 = s2
  c1 = c1
  p1 = p1
  p2 = p2
  p3 = p3
  p4 = p4
  t = t
  Junk = junk
  Slots <- MCSlots
  CacheSlots <- MCCacheSlots
  Pages <- MCPages
  Tokens <- MCTokens
  Blocks <- MCBlocks
  PageTokens = 2
  Context = 5
  BatchTokens = 3
SYMMETRY Symmetry
SPECIFICATION CreditedSpec
INVARIANTS NeverRefused
