CONSTANTS
  d1 = d1
  mp1 = mp1
  mp2 = mp2
  Drives = {d1}
  Blocks <- OneBlock
  JobPaths = {j1, j2, j3, j4}
  None = None
  Home = home
  Undecodable <- NoBlocks
  DriveOf <- MCDriveOf
  MountpointOf <- MCMountpointOf
  Removable = {d1}
  SystemBlocks <- NoBlocks
  Subscribed <- DaemonChannels
  Sessions <- FormatSessions
  MaxChecks = 0
SPECIFICATION Spec
INVARIANT FormattedCardsAreRemounted
CHECK_DEADLOCK FALSE
