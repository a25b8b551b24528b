\* Three signals on each watch are enough for one event held, one waiting
\* behind it and a broken message between them.
CONSTANTS
  Drives = {d1}
  Blocks <- MCBlocks
  JobPaths = {j1}
  None = None
  Undecodable <- MCUndecodable
  Messages <- MCMessages
  MaxSignals = 3
SPECIFICATION FairSpec
INVARIANT TypeOK
PROPERTIES DeliversStreams EveryEventDelivered
CHECK_DEADLOCK FALSE
