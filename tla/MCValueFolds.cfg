CONSTANTS
  e1 = e1
  e2 = e2
  v1 = v1
  Engines = {e1, e2}
  NoEngine = NoEngine
  Values = {v1}
  ZeroSized = {v1}
  f1 = f1
  f2 = f2
  f3 = f3
  Folds = {f1, f2, f3}
  nil = nil
  MaxFrames = 2
SYMMETRY Interchangeable
SPECIFICATION Spec
INVARIANTS
  TypeOK
  ListsHoldLiveFolds
  OwnedFoldIsFirst
  EngineKeptWhileNeeded
  ChangedReachesAll
  InitBeforeUse
PROPERTY InitOnce
CHECK_DEADLOCK FALSE
