CONSTANTS
  g1 = g1
  g2 = g2
  g3 = g3
  qml = qml
  Callers = {g1, g2, g3}
  Runner = g1
  Handlers = qml
  Scripts <- MCScripts
SPECIFICATION FairSpec
INVARIANTS
  TypeOK
  NoLostWakeup
PROPERTIES
  ImplementsCalls
  EveryCallReturns
CHECK_DEADLOCK FALSE
