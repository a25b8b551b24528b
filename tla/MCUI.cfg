CONSTANTS
  d1 = d1
  mp1 = mp1
  mp2 = mp2
  Drives = {d1}
  Blocks <- TwoBlocks
  JobPaths = {j1, j2, j3}
  None = None
  Undecodable <- NoBlocks
  DriveOf <- MCDriveOf
  MountpointOf <- MCMountpointOf
  Removable = {d1}
  SystemBlocks <- NoBlocks
  Partitions <- Partition
  Partitionable <- UnpartitionedBlocks
  Subscribed <- UIChannels
  Sessions <- UISessions
SPECIFICATION Spec
INVARIANTS TypeOK RowsMatchList ListIsCurrent DialogsEnd
CHECK_DEADLOCK FALSE
