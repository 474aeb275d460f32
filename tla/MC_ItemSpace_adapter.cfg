SPECIFICATION ItemSpec
CONSTANTS
  Base = 4
  MaxSize = 2
  MaxStored = 2
  WithAdapterField = TRUE
  Spaces <- MCSpaces
  CanonicalOf <- MCCanonicalOf
INVARIANTS
  SavedCanBeLoaded
