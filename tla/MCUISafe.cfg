CONSTANTS
  d1 = d1
  mp1 = mp1
  mp2 = mp2
  Drives = {d1}
  Blocks <- TwoBlocks
  JobPaths = {j1, j2}
  None = None
  Undecodable <- NoBlocks
  DriveOf <- MCDriveOf
  MountpointOf <- MCMountpointOf
  Removable = {d1}
  SystemBlocks <- NoBlocks
  Partitions <- NoBlocks
  Partitionable <- TwoBlocks
  Subscribed <- UIChannels
  Sessions <- TwoBlockSessions
SPECIFICATION Spec
INVARIANT SafeToRemove
CHECK_DEADLOCK FALSE
