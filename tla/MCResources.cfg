CONSTANTS
  Paths <- AsciiPaths
  Sizes = {0, 1, 2}
  MaxAdded = 3
SPECIFICATION Spec
INVARIANTS TypeOK FindsWhatWasAdded ParsesBack PendingFits
PROPERTY NeverReplaced
CHECK_DEADLOCK FALSE
