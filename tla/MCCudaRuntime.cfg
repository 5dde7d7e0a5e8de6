CONSTANTS
  s1 = s1
  s2 = s2
  p1 = p1
  p2 = p2
  p3 = p3
  a = a
  b = b
  junk = junk
  none = none
  Slots <- MCSlots
  Pages <- MCPages
  Tokens <- MCTokens
  Junk = junk
  NoPage = none
  PageTokens = 2
  MaxLen = 3
  BatchTokens = 2
SYMMETRY Symmetry
SPECIFICATION Spec
INVARIANT PagesAreExact
PROPERTY IsKvStore
