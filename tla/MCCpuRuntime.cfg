CONSTANTS
  s1 = s1
  s2 = s2
  p1 = p1
  p2 = p2
  p3 = p3
  a = a
  b = b
  Junk = junk
  Slots <- MCSlots
  Pages <- MCPages
  Tokens <- MCTokens
  PageTokens = 2
  Context = 4
  BatchTokens = 3
SYMMETRY Symmetry
SPECIFICATION Spec
INVARIANTS RefsAreExact ForwardIsCovered
PROPERTY IsSharedStore
