----------------------------- MODULE JobManager -----------------------------
(***************************************************************************)
(* udisks2/jobs.go: one goroutine reads the dispatcher's Jobs channel,     *)
(* remembers the jobs UDisks2 is running, and forwards those it knows to   *)
(* the channel of their operation: when they start, and again, marked      *)
(* WasCompleted, when they end.  The channels are unbuffered, so while a   *)
(* job is being forwarded no other event is read.                          *)
(***************************************************************************)
EXTENDS Events

VARIABLES onGoingJobs,   \* job path -> job
          report         \* the job being forwarded: <<>> or <<job>>

jobManagerVars == <<onGoingJobs, report>>

(* The struct job; path stands for its Event, of which only the path is
   ever used. *)
Job == [path : JobPaths, operation : Operations, paths : Seq(Blocks),
        wasCompleted : BOOLEAN]

JobManagerInit ==
  /\ onGoingJobs = EmptyMap
  /\ report = <<>>

Idle == report = <<>>

Known(p) == p \in DOMAIN onGoingJobs

NewJob(e) ==
  [path |-> e.path, operation |-> e.props.op,
   paths |-> getFormattedPaths(e.props), wasCompleted |-> FALSE]

(* The copy of a known job, brought up to date for a format operation only. *)
UpdatedJob(e) ==
  LET j == onGoingJobs[e.path] IN
  CASE e.props.op = Erase -> [j EXCEPT !.operation = Erase]
    [] e.props.op = Mkfs  -> [j EXCEPT !.operation = Mkfs,
                                       !.paths = getFormattedPaths(e.props)]
    [] OTHER              -> j

(* Mutant of Starting: an else is missing, and a format is sent twice. *)
StartingTwice(j) ==
  IF j.operation = Mkfs THEN <<j, j>>
  ELSE IF j.operation \in {Erase, UnmountFs} THEN <<j>> ELSE <<>>

(* Mutant of Starting: the start of an erase is not sent. *)
StartingWithoutErase(j) == IF j.operation \in {Mkfs, UnmountFs} THEN <<j>> ELSE <<>>

(* A mount is not forwarded when it starts. *)
Starting(j) ==
  IF j.operation \in {Erase, Mkfs, UnmountFs} THEN <<j>> ELSE <<>>

(* processAdditionEvent.  A job seen for the first time is remembered; what
   is updated on a later event is a copy that is forwarded, not the map. *)
processAdditionEvent(e) ==
  /\ Idle
  /\ ~ isRemovalEvent(e)
  /\ \/ /\ ~ Known(e.path)
        /\ onGoingJobs' = Put(onGoingJobs, e.path, NewJob(e))
        /\ report' = Starting(NewJob(e))
     \/ /\ Known(e.path)
        /\ report' = Starting(UpdatedJob(e))
        /\ UNCHANGED onGoingJobs

(* Mutant of LostJobInterface: the result of the search is not looked at. *)
LostAnyInterface(e) == TRUE

(* Mutant of LostJobInterface: off by one, the insertion point after Job. *)
LostLaterInterface(e) == SearchFinds(e.ifaces, JobIface + 1)

(* The test the code makes for "we did loose the jobs interface". *)
LostJobInterface(e) == SearchFinds(e.ifaces, JobIface)

Completed(j) == [j EXCEPT !.wasCompleted = TRUE]

(* Mutant of processRemovalEvent: the job is forgotten before it is sent. *)
processRemovalForgetsFirst(e) ==
  /\ Idle
  /\ isRemovalEvent(e)
  /\ IF Known(e.path) /\ LostJobInterface(e)
     THEN /\ onGoingJobs' = Delete(onGoingJobs, e.path)
          /\ report' = IF onGoingJobs[e.path].operation = OtherOperation THEN <<>>
                       ELSE <<Completed(onGoingJobs[e.path])>>
     ELSE UNCHANGED <<onGoingJobs, report>>

(* processRemovalEvent.  A completed job leaves the map after it has been
   forwarded (Forward), at once when its operation has no channel. *)
processRemovalEvent(e) ==
  /\ Idle
  /\ isRemovalEvent(e)
  /\ \/ /\ ~ Known(e.path) \/ ~ LostJobInterface(e)
        /\ UNCHANGED <<onGoingJobs, report>>
     \/ /\ Known(e.path)
        /\ LostJobInterface(e)
        /\ IF onGoingJobs[e.path].operation = OtherOperation
           THEN /\ onGoingJobs' = Delete(onGoingJobs, e.path)
                /\ UNCHANGED report
           ELSE /\ report' = <<Completed(onGoingJobs[e.path])>>
                /\ UNCHANGED onGoingJobs

(* One turn of the goroutine's loop, on event e from the Jobs channel. *)
ReadJob(e) == processAdditionEvent(e) \/ processRemovalEvent(e)

JobChannel(j) ==
  CASE j.operation = Erase     -> "FormatEraseJobs"
    [] j.operation = Mkfs      -> "FormatMkfsJobs"
    [] j.operation = UnmountFs -> "UnmountJobs"
    [] j.operation = MountFs   -> "MountJobs"

(* Mutant of Forward: return before the delete. *)
ForwardRemembers(c, j) ==
  /\ report = <<j>>
  /\ c = JobChannel(j)
  /\ report' = <<>>
  /\ UNCHANGED onGoingJobs

(* The hand-off of j on channel c to the storage watcher's loop. *)
Forward(c, j) ==
  /\ report = <<j>>
  /\ c = JobChannel(j)
  /\ report' = <<>>
  /\ onGoingJobs' = IF j.wasCompleted THEN Delete(onGoingJobs, j.path)
                    ELSE onGoingJobs
=============================================================================
