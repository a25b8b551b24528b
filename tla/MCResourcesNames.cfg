CONSTANTS
  Paths <- AccentedPaths
  Sizes = {0, 1, 2}
  MaxAdded = 3
SPECIFICATION Spec
INVARIANT FindsAnyName
CHECK_DEADLOCK FALSE
