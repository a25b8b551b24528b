CONSTANTS
  Drives = {d1}
  Blocks <- MCBlocks
  JobPaths = {j1, j2}
  None = None
  Undecodable <- MCUndecodable
  Announced <- MCAnnounced
  OtherLosses <- EarlierInterface
  MaxDisturbed = 1
SPECIFICATION FairSpec
INVARIANTS
  TypeOK
  ReportsAreTrue
  ReportedOnceInOrder
  ForwardedJobIsKnown
  OngoingJobsMatchUDisks2
PROPERTY EndIsReported
CHECK_DEADLOCK FALSE
