SPECIFICATION AllSpec
CONSTANTS
  Base = 4
  MaxSize = 2
  MaxStored = 2
  WithAdapterField = FALSE
  Spaces <- MCSpaces
  CanonicalOf <- MCCanonicalOf
  Key = {k1, k2, k3, k4}
  Value = {v1, v2}
  NoIndex = NoIndex
  Removable = TRUE
  MaxEntries = 4
  NoEntry = NoEntry
  NoLength = NoLength
  Item = {x, y, z}
  MaxLen = 4
  Top = 5
  End = End
  Missing = Missing
  Unknown = Unknown
INVARIANTS
  LengthsAreShortest
  Consistent
  Dense
  LoadsWhatItCounts
PROPERTIES
  ImplementsCells
  CompatibleUpgradeKeepsItems
  ImplementsMap
  ImplementsVector
  ImplementsDoubleEnded
