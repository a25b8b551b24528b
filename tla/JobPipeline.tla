---------------------------- MODULE JobPipeline -----------------------------
(***************************************************************************)
(* The way of a UDisks2 job through the package: UDisks2 announces it, may *)
(* announce it again with another operation, and withdraws it; the two     *)
(* goroutines of the dispatcher carry the signals; the job manager reports *)
(* start and end.  The storage watcher that reads the reports may be away  *)
(* for as long as it likes, and so may the reader of the events that are   *)
(* not about jobs: the addition of a block device, in front of a job's     *)
(* addition in the same goroutine, holds that job back.                    *)
(***************************************************************************)
EXTENDS JobManager, Dispatcher, FiniteSets

CONSTANTS Announced,     \* the properties jobs are announced with
          OtherLosses,   \* sets of interfaces, without Job's, a job path loses
          MaxDisturbed   \* bound: jobs announced again, or that lose another interface

ASSUME AnnouncedAssumption == Announced \subseteq JobProps

ASSUME OtherLossesAssumption ==
  OtherLosses \subseteq (SUBSET (Ifaces \ {JobIface})) \ {{}}

VARIABLES started,     \* history: job path -> the properties first announced
          finished,    \* history: paths of the jobs UDisks2 has ended
          disturbed,   \* history: paths announced again or that lost another interface
          blockSeen,   \* has the block device been announced?
          overtaken,   \* history: jobs whose end was read before an announcement
          reports      \* history: what the storage watcher received

jobHistory == <<started, finished, disturbed, blockSeen, overtaken, reports>>
vars == <<jobManagerVars, dispatcherVars, jobHistory>>

Init ==
  /\ JobManagerInit
  /\ DispatcherInit
  /\ started = EmptyMap
  /\ finished = {}
  /\ disturbed = {}
  /\ blockSeen = FALSE
  /\ overtaken = {}
  /\ reports = <<>>

-----------------------------------------------------------------------------
(* UDisks2 *)

Running == DOMAIN started \ finished

StartJob(p, props) ==
  /\ p \notin DOMAIN started
  /\ Signal("additions", Added(p, props))
  /\ started' = Put(started, p, props)
  /\ UNCHANGED <<jobManagerVars, finished, disturbed, blockSeen, overtaken, reports>>

Disturb(p) ==
  /\ p \in Running \ disturbed
  /\ Cardinality(disturbed) < MaxDisturbed
  /\ disturbed' = disturbed \cup {p}
  /\ UNCHANGED <<jobManagerVars, started, finished, blockSeen, overtaken, reports>>

ReannounceJob(p, props) ==
  /\ Disturb(p)
  /\ Signal("additions", Added(p, props))

LoseInterfaces(p, ifaces) ==
  /\ Disturb(p)
  /\ Signal("removals", Removed(p, ifaces))

FinishJob(p) ==
  /\ p \in Running
  /\ Signal("removals", Removed(p, {JobIface}))
  /\ finished' = finished \cup {p}
  /\ UNCHANGED <<jobManagerVars, started, disturbed, blockSeen, overtaken, reports>>

AnnounceBlock(b, d) ==
  /\ ~ blockSeen
  /\ Signal("additions", Added(b, [block |-> TRUE, drive |-> d, fs |-> "vfat",
                                   mounted |-> FALSE, system |-> FALSE]))
  /\ blockSeen' = TRUE
  /\ UNCHANGED <<jobManagerVars, started, finished, disturbed, overtaken, reports>>

-----------------------------------------------------------------------------
(* The package *)

(* Does the additions goroutine still have an announcement of p to deliver? *)
Undelivered(p) ==
  LET pending == held["additions"] \o watch["additions"]
  IN  \E i \in DOMAIN pending : pending[i].path = p

HeldEvents(w) == {held[w][i] : i \in DOMAIN held[w]}

DispatchJob(w) ==
  \E e \in HeldEvents(w) :
    /\ Send(w, "Jobs", e)
    /\ ReadJob(e)
    /\ overtaken' = IF JobIface \in e.ifaces /\ Undelivered(e.path)
                    THEN overtaken \cup {e.path} ELSE overtaken
    /\ UNCHANGED <<started, finished, disturbed, blockSeen, reports>>

DispatchBlock ==
  \E e \in HeldEvents("additions") :
    /\ Send("additions", "Additions", e)
    /\ UNCHANGED <<jobManagerVars, jobHistory>>

ReadReport ==
  \E c \in {"FormatEraseJobs", "FormatMkfsJobs", "UnmountJobs", "MountJobs"} :
    /\ report # <<>>
    /\ Forward(c, report[1])
    /\ reports' = Append(reports, [channel |-> c, job |-> report[1]])
    /\ UNCHANGED <<dispatcherVars, started, finished, disturbed, blockSeen, overtaken>>

Fetch(w) == DispatcherStep(w) /\ UNCHANGED <<jobManagerVars, jobHistory>>

Next ==
  \/ \E p \in JobPaths, props \in Announced :
       StartJob(p, props) \/ ReannounceJob(p, props)
  \/ \E p \in JobPaths : FinishJob(p) \/ \E ifaces \in OtherLosses : LoseInterfaces(p, ifaces)
  \/ \E b \in Blocks, d \in Drives : AnnounceBlock(b, d)
  \/ \E w \in Watches : Fetch(w) \/ DispatchJob(w)
  \/ DispatchBlock
  \/ ReadReport

Spec == Init /\ [][Next]_vars

(* Every goroutine of the package runs, and the storage watcher comes back
   to its channels.  A send that stays possible is eventually chosen, also
   against another sender on the same channel: those are queued in order. *)
Fairness ==
  /\ \A w \in Watches : WF_vars(Fetch(w)) /\ SF_vars(DispatchJob(w))
  /\ WF_vars(DispatchBlock)
  /\ WF_vars(ReadReport)

FairSpec == Spec /\ Fairness

-----------------------------------------------------------------------------
TypeOK ==
  /\ onGoingJobs \in [DOMAIN onGoingJobs -> Job]
  /\ DOMAIN onGoingJobs \subseteq JobPaths
  /\ \/ report = <<>>
     \/ report = <<report[1]>> /\ report[1] \in Job
  /\ watch \in [Watches -> Seq(Event)]
  /\ held \in [Watches -> Seq(Event)]
  /\ started \in [DOMAIN started -> Announced]
  /\ DOMAIN started \subseteq JobPaths
  /\ finished \subseteq DOMAIN started

CompletionOf(i, p) == reports[i].job.wasCompleted /\ reports[i].job.path = p

(* A job is reported completed only after UDisks2 ended it, with the
   operation and the paths it was first announced with (jobs.go:76-82,
   126-130), however its signals were delayed by the two goroutines.  The
   losses of MCJobPipeline sort before Job: one that sorts behind it passes
   for the end of the job (jobs.go:78 takes an insertion point for one). *)
ReportsAreTrue ==
  \A i \in DOMAIN reports, p \in JobPaths :
    CompletionOf(i, p) =>
      /\ p \in finished
      /\ reports[i].job.operation = started[p].op
      /\ reports[i].job.paths = getFormattedPaths(started[p])

(* No job is reported completed twice, and only a mount is reported
   completed without having been reported started (jobs.go:104-106 forgets
   a job once it is reported, jobs.go:143-154 reports the start). *)
ReportedOnceInOrder ==
  \A i \in DOMAIN reports, p \in JobPaths :
    CompletionOf(i, p) =>
      /\ \A k \in DOMAIN reports : CompletionOf(k, p) => k = i
      /\ \/ reports[i].job.operation = MountFs
         \/ \E k \in 1..(i - 1) :
              ~ reports[k].job.wasCompleted /\ reports[k].job.path = p

(* While a job is being forwarded it is in the map of ongoing jobs, as the
   assertions of jobs_test.go:60, 88 and 119 ask, and what is forwarded as
   completed is the job the map holds. *)
ForwardedJobIsKnown ==
  report # <<>> =>
    /\ Known(report[1].path)
    /\ report[1].wasCompleted => report[1] = Completed(onGoingJobs[report[1].path])

(* Why that is so: the map holds each job under its own path and not
   completed, for it is a copy that is completed (jobs.go:76, 82). *)
JobInv ==
  /\ TypeOK
  /\ \A p \in DOMAIN onGoingJobs :
       onGoingJobs[p].path = p /\ ~ onGoingJobs[p].wasCompleted
  /\ ForwardedJobIsKnown

Quiet ==
  /\ \A w \in Watches : watch[w] = <<>> /\ held[w] = <<>>
  /\ report = <<>>

(* Once everything announced has been handled, the map holds the jobs
   UDisks2 runs and, for ever, those whose end overtook an announcement:
   nothing else is leaked and nothing is forgotten (jobs.go:37-39). *)
OngoingJobsMatchUDisks2 ==
  Quiet => DOMAIN onGoingJobs = Running \cup overtaken

(* The end of a job is reported unless it overtook an announcement between
   the two goroutines of the dispatcher (dispatcher.go:98-122). *)
EndIsReported ==
  \A p \in JobPaths :
    p \in finished ~>
      \/ p \in overtaken
      \/ p \in DOMAIN started /\ started[p].op = OtherOperation
      \/ \E i \in DOMAIN reports : CompletionOf(i, p)
=============================================================================
