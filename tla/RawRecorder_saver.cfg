SPECIFICATION RawSpec
CONSTANTS
  LastId = 1
  MaxSavers = 1
INVARIANT NothingPanics
