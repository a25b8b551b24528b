CONSTANTS
  Drives = {d1}
  Blocks <- MCBlocks
  JobPaths = {j1}
  None = None
  Home = home
  Mountpoints = {m1, m2}
  MaxMounts = 2
  MaxWarnings = 2
SPECIFICATION Spec
INVARIANTS TypeOK WarnedOncePerEpisode MountedAreWatched RemovedStayOut
CHECK_DEADLOCK FALSE
