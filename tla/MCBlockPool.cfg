SPECIFICATION Spec
CONSTANTS
  Blocks = {0, 1, 2}
  Holders = {h1, h2, h3}
  EpochLimit = 4
  BadTables <- MCBadTables
INVARIANTS ReferencesAreExact ValidationIsExact
PROPERTIES ImplementsCreditPool
