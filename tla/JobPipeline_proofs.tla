------------------------- MODULE JobPipeline_proofs -------------------------
(***************************************************************************)
(* For any jobs, any losses of interfaces and any number of disturbances:  *)
(* the job manager forwards only jobs it knows, and completes only what it *)
(* holds.  However the two goroutines of the dispatcher delay their        *)
(* signals, a completion is reported at most once, after the start, and    *)
(* says what UDisks2 announced; and the map of ongoing jobs leaks only     *)
(* those whose end overtook an announcement.                               *)
(***************************************************************************)
EXTENDS JobPipeline, SequenceTheorems, TLAPS

-----------------------------------------------------------------------------
(* Events and jobs *)

LEMMA AddedJob ==
  ASSUME NEW p \in JobPaths, NEW props \in JobProps
  PROVE  Added(p, props) \in Event
  BY DEF Added, Event, Additions

LEMMA RemovedJob ==
  ASSUME NEW p \in JobPaths, NEW ifaces \in (SUBSET Ifaces) \ {{}}
  PROVE  Removed(p, ifaces) \in Event
  BY DEF Removed, Event, Removals, Paths

(* What the job manager reads of an addition. *)
LEMMA JobAddition ==
  ASSUME NEW e \in Event, e.path \in JobPaths, ~ isRemovalEvent(e)
  PROVE  e.props \in JobProps
<1>1. ASSUME e \in Removals PROVE FALSE
  <2>1. e.ifaces \in (SUBSET Ifaces) \ {{}}
    BY <1>1 DEF Removals
  <2> QED
    BY <2>1 DEF isRemovalEvent
<1>2. e \in Additions
  BY <1>1 DEF Event
<1> QED
  BY <1>2, PathsAssumption DEF Additions

LEMMA NewJobType ==
  ASSUME NEW e, e.path \in JobPaths, e.props \in JobProps
  PROVE  /\ NewJob(e) \in Job
         /\ NewJob(e).path = e.path
         /\ ~ NewJob(e).wasCompleted
<1>1. getFormattedPaths(e.props) \in Seq(Blocks)
  BY DEF getFormattedPaths, JobProps
<1>2. e.props.op \in Operations
  BY DEF JobProps
<1> QED
  BY <1>1, <1>2 DEF NewJob, Job

LEMMA UpdatedJobType ==
  ASSUME NEW e, e.props \in JobProps, onGoingJobs[e.path] \in Job
  PROVE  /\ UpdatedJob(e) \in Job
         /\ UpdatedJob(e).path = onGoingJobs[e.path].path
         /\ UpdatedJob(e).wasCompleted = onGoingJobs[e.path].wasCompleted
<1>1. getFormattedPaths(e.props) \in Seq(Blocks)
  BY DEF getFormattedPaths, JobProps
<1> QED
  BY <1>1 DEF UpdatedJob, Job, Operations, Erase, Mkfs

LEMMA CompletedType ==
  ASSUME NEW j \in Job
  PROVE  /\ Completed(j) \in Job
         /\ Completed(j).path = j.path
         /\ Completed(j).wasCompleted
  BY DEF Completed, Job

-----------------------------------------------------------------------------
(* The invariant *)

LEMMA InitInv == Init => JobInv
  BY DEF Init, JobManagerInit, DispatcherInit, JobInv, TypeOK,
         ForwardedJobIsKnown, EmptyMap

(* The channels of the dispatcher. *)
LEMMA SignalType ==
  ASSUME TypeOK, NEW w \in Watches, NEW e \in Event, Signal(w, e)
  PROVE  watch' \in [Watches -> Seq(Event)] /\ held' \in [Watches -> Seq(Event)]
<1>1. watch[w] \in Seq(Event)
  BY DEF TypeOK
<1>2. Append(watch[w], e) \in Seq(Event)
  BY <1>1
<1> QED
  BY <1>2 DEF Signal, TypeOK

LEMMA FetchType ==
  ASSUME TypeOK, NEW w \in Watches, DispatcherStep(w)
  PROVE  watch' \in [Watches -> Seq(Event)] /\ held' \in [Watches -> Seq(Event)]
<1>1. watch[w] \in Seq(Event) /\ watch[w] # <<>>
  BY DEF TypeOK, DispatcherStep, Skip, Take, Waiting
<1>2. Head(watch[w]) \in Event /\ Tail(watch[w]) \in Seq(Event)
  BY <1>1
<1>3. <<Head(watch[w])>> \in Seq(Event)
  BY <1>2
<1> QED
  BY <1>2, <1>3 DEF DispatcherStep, Skip, Take, TypeOK

LEMMA SendType ==
  ASSUME TypeOK, NEW w \in Watches, NEW c, NEW e, Send(w, c, e)
  PROVE  /\ watch' \in [Watches -> Seq(Event)] /\ held' \in [Watches -> Seq(Event)]
         /\ e \in Event
<1>1. held[w] = <<e>> /\ held[w] \in Seq(Event)
  BY DEF Send, TypeOK
<1>2. e \in Event
  BY <1>1
<1> QED
  BY <1>2 DEF Send, TypeOK
(* What a turn of the job manager's goroutine does to the invariant. *)
LEMMA ReadJobInv ==
  ASSUME JobInv, NEW e \in Event, e.path \in JobPaths, ReadJob(e)
  PROVE  /\ onGoingJobs' \in [DOMAIN onGoingJobs' -> Job]
         /\ DOMAIN onGoingJobs' \subseteq JobPaths
         /\ \/ report' = <<>>
            \/ report' = <<report'[1]>> /\ report'[1] \in Job
         /\ \A p \in DOMAIN onGoingJobs' :
              onGoingJobs'[p].path = p /\ ~ onGoingJobs'[p].wasCompleted
         /\ ForwardedJobIsKnown'
<1> USE DEF Idle
<1>0. /\ onGoingJobs \in [DOMAIN onGoingJobs -> Job]
      /\ DOMAIN onGoingJobs \subseteq JobPaths
      /\ \A p \in DOMAIN onGoingJobs :
           onGoingJobs[p].path = p /\ ~ onGoingJobs[p].wasCompleted
  BY DEF JobInv, TypeOK
<1>1. CASE processAdditionEvent(e)
  <2>1. e.props \in JobProps /\ report = <<>>
    BY <1>1, JobAddition DEF processAdditionEvent
  <2>2. ASSUME NEW j \in Job, ~ j.wasCompleted
        PROVE  \/ Starting(j) = <<>>
               \/ Starting(j) = <<j>> /\ Starting(j)[1] = j
    BY DEF Starting
  <2>3. CASE ~ Known(e.path)
    <3> DEFINE j == NewJob(e)
    <3>1. j \in Job /\ j.path = e.path /\ ~ j.wasCompleted
      BY <2>1, NewJobType
    <3>2. onGoingJobs' = Put(onGoingJobs, e.path, j) /\ report' = Starting(j)
      BY <1>1, <2>3 DEF processAdditionEvent
    <3> HIDE DEF j
    <3>3. /\ DOMAIN onGoingJobs' = DOMAIN onGoingJobs \cup {e.path}
          /\ onGoingJobs' \in [DOMAIN onGoingJobs \cup {e.path} -> Job]
          /\ onGoingJobs'[e.path] = j
          /\ \A x \in DOMAIN onGoingJobs \ {e.path} : onGoingJobs'[x] = onGoingJobs[x]
      BY <1>0, <3>1, <3>2 DEF Put
    <3>4. \A p \in DOMAIN onGoingJobs' :
            onGoingJobs'[p].path = p /\ ~ onGoingJobs'[p].wasCompleted
      BY <1>0, <3>1, <3>3
    <3>5. report' = <<>> \/ (report' = <<j>> /\ report'[1] = j)
      BY <2>2, <3>1, <3>2
    <3>6. ForwardedJobIsKnown'
      <4>1. CASE report' = <<>>
        BY <4>1 DEF ForwardedJobIsKnown
      <4>2. CASE report'[1] = j
        BY <3>1, <3>3, <4>2 DEF ForwardedJobIsKnown, Known
      <4> QED
        BY <3>5, <4>1, <4>2
    <3> QED
      BY <1>0, <3>1, <3>3, <3>4, <3>5, <3>6
  <2>4. CASE Known(e.path)
    <3> DEFINE j == UpdatedJob(e)
    <3>1. onGoingJobs[e.path] \in Job /\ onGoingJobs[e.path].path = e.path
          /\ ~ onGoingJobs[e.path].wasCompleted
      BY <1>0, <2>4 DEF Known
    <3>2. j \in Job /\ j.path = e.path /\ ~ j.wasCompleted
      BY <2>1, <3>1, UpdatedJobType
    <3>3. onGoingJobs' = onGoingJobs /\ report' = Starting(j)
      BY <1>1, <2>4 DEF processAdditionEvent
    <3> HIDE DEF j
    <3>4. report' = <<>> \/ (report' = <<j>> /\ report'[1] = j)
      BY <2>2, <3>2, <3>3
    <3>5. ForwardedJobIsKnown'
      BY <2>4, <3>2, <3>3, <3>4 DEF ForwardedJobIsKnown, Known
    <3> QED
      BY <1>0, <3>2, <3>3, <3>4, <3>5
  <2> QED
    BY <2>3, <2>4
<1>2. CASE processRemovalEvent(e)
  <2>1. report = <<>>
    BY <1>2 DEF processRemovalEvent
  <2>2. CASE UNCHANGED <<onGoingJobs, report>>
    BY <1>0, <2>1, <2>2 DEF ForwardedJobIsKnown, Known
  <2>3. CASE onGoingJobs' = Delete(onGoingJobs, e.path) /\ UNCHANGED report
    <3>1. /\ DOMAIN onGoingJobs' = DOMAIN onGoingJobs \ {e.path}
          /\ onGoingJobs' \in [DOMAIN onGoingJobs \ {e.path} -> Job]
          /\ \A x \in DOMAIN onGoingJobs \ {e.path} : onGoingJobs'[x] = onGoingJobs[x]
      BY <1>0, <2>3 DEF Delete
    <3>2. \A p \in DOMAIN onGoingJobs' :
            onGoingJobs'[p].path = p /\ ~ onGoingJobs'[p].wasCompleted
      BY <1>0, <3>1
    <3> QED
      BY <1>0, <2>1, <2>3, <3>1, <3>2 DEF ForwardedJobIsKnown
  <2>4. CASE /\ Known(e.path)
             /\ report' = <<Completed(onGoingJobs[e.path])>>
             /\ UNCHANGED onGoingJobs
    <3> DEFINE j == Completed(onGoingJobs[e.path])
    <3>1. onGoingJobs[e.path] \in Job /\ onGoingJobs[e.path].path = e.path
      BY <1>0, <2>4 DEF Known
    <3>2. j \in Job /\ j.path = e.path
      BY <3>1, CompletedType
    <3>3. report' = <<j>> /\ report'[1] = j
      BY <2>4
    <3>4. report'[1].path = e.path
      BY <3>2, <3>3
    <3>5. ForwardedJobIsKnown'
      <4>1. e.path \in DOMAIN onGoingJobs' /\ j = Completed(onGoingJobs'[report'[1].path])
        BY <2>4, <3>4 DEF Known
      <4> QED
        BY <3>3, <3>4, <4>1 DEF ForwardedJobIsKnown, Known
    <3> QED
      BY <1>0, <2>4, <3>2, <3>3, <3>5
  <2> QED
    BY <1>2, <2>2, <2>3, <2>4 DEF processRemovalEvent
<1> QED
  BY <1>1, <1>2 DEF ReadJob
(* The history of what UDisks2 did. *)
HistoryType ==
  /\ started \in [DOMAIN started -> Announced]
  /\ DOMAIN started \subseteq JobPaths
  /\ finished \subseteq DOMAIN started

LEMMA StepHistory == JobInv /\ [Next]_vars => HistoryType'
<1> SUFFICES ASSUME JobInv, [Next]_vars PROVE HistoryType'
  OBVIOUS
<1> USE DEF HistoryType
<1>0. HistoryType
  BY DEF JobInv, TypeOK
<1>1. ASSUME NEW p \in JobPaths, NEW props \in Announced, StartJob(p, props)
      PROVE  HistoryType'
  BY <1>0, <1>1 DEF StartJob, Put
<1>2. ASSUME NEW p \in JobPaths, FinishJob(p) PROVE HistoryType'
  BY <1>0, <1>2 DEF FinishJob, Running
<1>3. CASE UNCHANGED <<started, finished>>
  BY <1>0, <1>3
<1> QED
  BY <1>1, <1>2, <1>3
  DEF Next, ReannounceJob, LoseInterfaces, Disturb, AnnounceBlock, Fetch,
      DispatchJob, DispatchBlock, ReadReport, vars, jobHistory

LEMMA StepInv == JobInv /\ [Next]_vars => JobInv'
<1> SUFFICES ASSUME JobInv, [Next]_vars PROVE JobInv'
  OBVIOUS
<1> DEFINE Channels == /\ watch' \in [Watches -> Seq(Event)]
                       /\ held' \in [Watches -> Seq(Event)]
           Jobs == /\ onGoingJobs' \in [DOMAIN onGoingJobs' -> Job]
                   /\ DOMAIN onGoingJobs' \subseteq JobPaths
                   /\ \/ report' = <<>>
                      \/ report' = <<report'[1]>> /\ report'[1] \in Job
                   /\ \A p \in DOMAIN onGoingJobs' :
                        onGoingJobs'[p].path = p /\ ~ onGoingJobs'[p].wasCompleted
                   /\ ForwardedJobIsKnown'
<1>0. TypeOK
  BY DEF JobInv
<1>1. ASSUME Channels, Jobs PROVE JobInv'
  <2>1. HistoryType'
    BY StepHistory
  <2> QED
    BY <1>1, <2>1 DEF JobInv, TypeOK, HistoryType
<1>2. ASSUME UNCHANGED jobManagerVars PROVE Jobs
  BY <1>2 DEF jobManagerVars, JobInv, TypeOK, ForwardedJobIsKnown, Known
<1>3. ASSUME UNCHANGED dispatcherVars PROVE Channels
  BY <1>0, <1>3 DEF dispatcherVars, TypeOK
<1>4. ASSUME NEW p \in JobPaths, NEW props \in Announced,
             StartJob(p, props) \/ ReannounceJob(p, props)
      PROVE  Channels /\ Jobs
  <2>1. \E w \in Watches, e \in Event : Signal(w, e)
    BY <1>4, AddedJob, AnnouncedAssumption DEF StartJob, ReannounceJob, Watches
  <2>2. UNCHANGED jobManagerVars
    BY <1>4 DEF StartJob, ReannounceJob, Disturb
  <2> QED
    BY <1>0, <1>2, <2>1, <2>2, SignalType
<1>5. ASSUME NEW p \in JobPaths,
             FinishJob(p) \/ \E ifaces \in OtherLosses : LoseInterfaces(p, ifaces)
      PROVE  Channels /\ Jobs
  <2>1. CASE FinishJob(p)
    <3>1. {JobIface} \in (SUBSET Ifaces) \ {{}}
      BY DEF JobIface, Ifaces
    <3> QED
      BY <1>0, <1>2, <2>1, <3>1, RemovedJob, SignalType DEF FinishJob, Watches
  <2>2. ASSUME NEW ifaces \in OtherLosses, LoseInterfaces(p, ifaces)
        PROVE  Channels /\ Jobs
    <3>1. ifaces \in (SUBSET Ifaces) \ {{}}
      BY OtherLossesAssumption
    <3> QED
      BY <1>0, <1>2, <2>2, <3>1, RemovedJob, SignalType
      DEF LoseInterfaces, Disturb, Watches
  <2> QED
    BY <1>5, <2>1, <2>2
<1>6. ASSUME NEW b \in Blocks, NEW d \in Drives, AnnounceBlock(b, d)
      PROVE  Channels /\ Jobs
  <2> DEFINE props == [block |-> TRUE, drive |-> d, fs |-> "vfat",
                       mounted |-> FALSE, system |-> FALSE]
  <2>1. props \in BlockProps
    BY DEF BlockProps, FsTypes
  <2>2. Added(b, props) \in Event
    BY <2>1 DEF Added, Event, Additions
  <2>3. Signal("additions", Added(b, props)) /\ UNCHANGED jobManagerVars
    BY <1>6 DEF AnnounceBlock
  <2> QED
    BY <1>0, <1>2, <2>2, <2>3, SignalType DEF Watches
<1>7. ASSUME NEW w \in Watches, Fetch(w) PROVE Channels /\ Jobs
  BY <1>0, <1>2, <1>7, FetchType DEF Fetch
<1>8. ASSUME NEW w \in Watches, DispatchJob(w) PROVE Channels /\ Jobs
  <2>1. PICK e \in HeldEvents(w) : Send(w, "Jobs", e) /\ ReadJob(e)
    BY <1>8 DEF DispatchJob
  <2>2. e \in Event /\ Channels
    BY <1>0, <2>1, SendType
  <2>3. e.path \in JobPaths
    BY <2>1 DEF Send, Channel
  <2> QED
    BY <2>1, <2>2, <2>3, ReadJobInv
<1>9. CASE DispatchBlock
  <2>1. PICK e \in HeldEvents("additions") : Send("additions", "Additions", e)
    BY <1>9 DEF DispatchBlock
  <2>2. Channels
    BY <1>0, <2>1, SendType DEF Watches
  <2> QED
    BY <1>1, <1>2, <1>9, <2>2 DEF DispatchBlock
<1>10. CASE ReadReport
  <2>1. report # <<>> /\ report' = <<>> /\ UNCHANGED dispatcherVars
    BY <1>10 DEF ReadReport, Forward
  <2>2. onGoingJobs' = onGoingJobs \/ onGoingJobs' = Delete(onGoingJobs, report[1].path)
    BY <1>10 DEF ReadReport, Forward
  <2>3. Jobs
    <3>1. /\ onGoingJobs \in [DOMAIN onGoingJobs -> Job]
          /\ DOMAIN onGoingJobs \subseteq JobPaths
          /\ \A p \in DOMAIN onGoingJobs :
               onGoingJobs[p].path = p /\ ~ onGoingJobs[p].wasCompleted
      BY DEF JobInv, TypeOK
    <3>2. ForwardedJobIsKnown'
      BY <2>1 DEF ForwardedJobIsKnown
    <3>3. CASE onGoingJobs' = onGoingJobs
      BY <2>1, <3>1, <3>2, <3>3
    <3>4. CASE onGoingJobs' = Delete(onGoingJobs, report[1].path)
      BY <2>1, <3>1, <3>2, <3>4 DEF Delete
    <3> QED
      BY <2>2, <3>3, <3>4
  <2> QED
    BY <1>1, <1>3, <2>1, <2>3
<1>11. CASE UNCHANGED vars
  BY <1>1, <1>2, <1>3, <1>11 DEF vars
<1> QED
  BY <1>1, <1>4, <1>5, <1>6, <1>7, <1>8, <1>9, <1>10, <1>11 DEF Next

THEOREM Invariance == Spec => []JobInv
  BY InitInv, StepInv, PTL DEF Spec

(* The variables of the pipeline keep their types, however many jobs there
   are and whatever their paths lose. *)
THEOREM TypeCorrect == Spec => []TypeOK
<1>1. JobInv => TypeOK
  BY DEF JobInv
<1> QED
  BY <1>1, Invariance, PTL

(* The job being forwarded is one the manager still holds, and what is
   forwarded as completed differs from it in nothing else. *)
THEOREM ForwardsKnownJobs == Spec => []ForwardedJobIsKnown
<1>1. JobInv => ForwardedJobIsKnown
  BY DEF JobInv
<1> QED
  BY <1>1, Invariance, PTL

-----------------------------------------------------------------------------
(* What the theorems assume of the messages, each no more than it needs *)

(* What a job path loses besides the Job interface sorts before it. *)
OnlyEarlierLosses == \A ifaces \in OtherLosses : ~ SearchFinds(ifaces, JobIface)

(* The announcements of jobs can be decoded. *)
AnnouncementsDecode ==
  \A p \in JobPaths, props \in Announced : Added(p, props) \notin Undecodable

(* All that is said of jobs can be decoded. *)
JobsDecode == \A e \in Event : e.path \in JobPaths => e \notin Undecodable

-----------------------------------------------------------------------------
(* The invariant, job by job *)

(* What a goroutine of the dispatcher has yet to deliver, oldest first. *)
Pending(w) == held[w] \o watch[w]

HasPath(s, p) == \E i \in DOMAIN s : s[i].path = p

(* The event that ends the job, if the job manager knows it. *)
IsEnd(e, p) == e.path = p /\ LostJobInterface(e)
HasEnd(s, p) == \E i \in DOMAIN s : IsEnd(s[i], p)
OneEnd(s, p) == \A i, k \in DOMAIN s : IsEnd(s[i], p) /\ IsEnd(s[k], p) => i = k

(* The first event about p, if there is one, has the properties props. *)
FirstSays(s, p, props) ==
  \A i \in DOMAIN s :
    s[i].path = p /\ (\A k \in 1 .. i - 1 : s[k].path # p) => s[i].props = props

JobAdditions == {Added(p, props) : p \in JobPaths, props \in Announced}
JobRemovals ==
  {Removed(p, ifaces) : p \in JobPaths, ifaces \in OtherLosses \cup {{JobIface}}}
OtherEvents == {e \in Event : e.path \notin JobPaths}

(* The end of p has not been read by the job manager. *)
Unended(p) ==
  p \in DOMAIN started /\ (p \in finished => HasEnd(Pending("removals"), p))

(* A job is about jobs what UDisks2 said first. *)
AsAnnounced(j, p) ==
  j.operation = started[p].op /\ j.paths = getFormattedPaths(started[p])

Completing(p) == report # <<>> /\ report[1].wasCompleted /\ report[1].path = p
StartReported(p) ==
  \E k \in DOMAIN reports : ~ reports[k].job.wasCompleted /\ reports[k].job.path = p
CompletionReported(p) == \E k \in DOMAIN reports : CompletionOf(k, p)

(* What the goroutines carry: each job ends once, when UDisks2 has ended it,
   and is announced before it is known. *)
SignalsInv ==
  /\ Pending("removals") \in Seq(JobRemovals)
  /\ Pending("additions") \in Seq(JobAdditions \cup OtherEvents)
  /\ \A p \in JobPaths :
       /\ OneEnd(Pending("removals"), p)
       /\ HasEnd(Pending("removals"), p) => p \in finished
       /\ HasPath(Pending("additions"), p) => p \in DOMAIN started
  /\ DOMAIN onGoingJobs \subseteq DOMAIN started

ReportChannels == {"FormatEraseJobs", "FormatMkfsJobs", "UnmountJobs", "MountJobs"}

(* A job is completed at most once: when its end is read. *)
JobOnce(p) ==
  /\ Completing(p) \/ CompletionReported(p) => p \in DOMAIN started /\ ~ Unended(p)
  /\ Completing(p) => ~ CompletionReported(p)
  /\ Known(p) /\ onGoingJobs[p].operation \in {Erase, Mkfs, UnmountFs}
       => \/ StartReported(p)
          \/ report # <<>> /\ report[1].path = p /\ ~ report[1].wasCompleted

OnceInv ==
  /\ reports \in Seq([channel : ReportChannels, job : Job])
  /\ report # <<>> => report[1].operation # OtherOperation
  /\ \A p \in JobPaths : JobOnce(p)
  /\ ReportedOnceInOrder

(* Until its end is read, and in the report of its end, a job is the one
   UDisks2 announced first. *)
JobTruth(p) ==
  /\ Unended(p) =>
       /\ ~ Known(p) => /\ HasPath(Pending("additions"), p)
                        /\ FirstSays(Pending("additions"), p, started[p])
       /\ Known(p) => AsAnnounced(onGoingJobs[p], p)
  /\ Completing(p) => AsAnnounced(report[1], p)

TruthInv == (\A p \in JobPaths : JobTruth(p)) /\ ReportsAreTrue

(* Once the end of a job was read, it is known, or will be, only if an
   announcement was overtaken. *)
JobMapped(p) ==
  /\ Unended(p) => /\ p \notin overtaken
                   /\ Known(p) \/ HasPath(Pending("additions"), p)
  /\ p \in overtaken => /\ p \in DOMAIN started
                        /\ \/ Known(p) /\ ~ Completing(p)
                           \/ HasPath(Pending("additions"), p)
  /\ p \in DOMAIN started /\ ~ Unended(p) =>
       /\ HasPath(Pending("additions"), p) => p \in overtaken
       /\ Known(p) => p \in overtaken \/ Completing(p)

MapInv == overtaken \subseteq JobPaths /\ \A p \in JobPaths : JobMapped(p)

-----------------------------------------------------------------------------
(* Sequences of events that gain one at the end or lose the first *)

LEMMA AppendedEvent ==
  ASSUME NEW s \in Seq(Event), NEW e \in Event, NEW p
  PROVE  /\ HasPath(Append(s, e), p) <=> HasPath(s, p) \/ e.path = p
         /\ HasEnd(Append(s, e), p) <=> HasEnd(s, p) \/ IsEnd(e, p)
         /\ OneEnd(s, p) /\ ~ (HasEnd(s, p) /\ IsEnd(e, p)) => OneEnd(Append(s, e), p)
         /\ \A props :
              FirstSays(s, p, props) /\ (e.path = p => HasPath(s, p) \/ e.props = props)
                => FirstSays(Append(s, e), p, props)
<1> DEFINE t == Append(s, e)
           n == Len(s)
<1>1. /\ n \in Nat /\ DOMAIN s = 1 .. n
      /\ DOMAIN t = 1 .. n + 1
      /\ \A i \in 1 .. n : t[i] = s[i]
      /\ t[n + 1] = e
  BY AppendProperties
<1> HIDE DEF t, n
<1>2. HasPath(t, p) <=> HasPath(s, p) \/ e.path = p
  BY <1>1 DEF HasPath
<1>3. HasEnd(t, p) <=> HasEnd(s, p) \/ IsEnd(e, p)
  <2> HIDE DEF IsEnd
  <2> QED
    BY <1>1 DEF HasEnd
<1>4. ASSUME OneEnd(s, p), ~ (HasEnd(s, p) /\ IsEnd(e, p)) PROVE OneEnd(t, p)
  <2> SUFFICES ASSUME NEW i \in 1 .. n + 1, NEW k \in 1 .. n + 1,
                      IsEnd(t[i], p), IsEnd(t[k], p)
               PROVE  i = k
    BY <1>1 DEF OneEnd
  <2>1. CASE i \in 1 .. n /\ k \in 1 .. n
    BY <1>1, <1>4, <2>1 DEF OneEnd
  <2>2. CASE i = n + 1 /\ k = n + 1
    BY <2>2
  <2>3. CASE i = n + 1 /\ k \in 1 .. n
    BY <1>1, <1>4, <2>3 DEF HasEnd
  <2>4. CASE k = n + 1 /\ i \in 1 .. n
    BY <1>1, <1>4, <2>4 DEF HasEnd
  <2> QED
    BY <1>1, <2>1, <2>2, <2>3, <2>4
<1>5. ASSUME NEW props, FirstSays(s, p, props),
             e.path = p => HasPath(s, p) \/ e.props = props
      PROVE  FirstSays(t, p, props)
  <2> SUFFICES ASSUME NEW i \in 1 .. n + 1, t[i].path = p,
                      \A k \in 1 .. i - 1 : t[k].path # p
               PROVE  t[i].props = props
    BY <1>1 DEF FirstSays
  <2>1. CASE i \in 1 .. n
    BY <1>1, <1>5, <2>1 DEF FirstSays
  <2>2. CASE i = n + 1
    <3>1. ~ HasPath(s, p)
      BY <1>1, <2>2 DEF HasPath
    <3> QED
      BY <1>1, <1>5, <2>2, <3>1
  <2> QED
    BY <1>1, <2>1, <2>2
<1> QED
  BY <1>2, <1>3, <1>4, <1>5 DEF t

LEMMA DeliveredEvent ==
  ASSUME NEW s \in Seq(Event), s # <<>>, NEW p
  PROVE  /\ HasPath(s, p) <=> HasPath(Tail(s), p) \/ Head(s).path = p
         /\ HasEnd(s, p) <=> HasEnd(Tail(s), p) \/ IsEnd(Head(s), p)
         /\ OneEnd(s, p) =>
              OneEnd(Tail(s), p) /\ ~ (HasEnd(Tail(s), p) /\ IsEnd(Head(s), p))
         /\ \A props :
              FirstSays(s, p, props) =>
                IF Head(s).path = p THEN Head(s).props = props
                ELSE FirstSays(Tail(s), p, props)
<1> DEFINE t == Tail(s)
           n == Len(t)
           e == Head(s)
<1>1. /\ n \in Nat /\ DOMAIN t = 1 .. n
      /\ DOMAIN s = 1 .. n + 1
      /\ \A i \in 1 .. n : t[i] = s[i + 1]
      /\ s[1] = e
  BY HeadTailProperties
<1> HIDE DEF t, n, e
<1>2. HasPath(s, p) <=> HasPath(t, p) \/ e.path = p
  <2>1. ASSUME NEW i \in 1 .. n + 1, i # 1 PROVE i - 1 \in 1 .. n /\ s[i] = t[i - 1]
    BY <1>1, <2>1
  <2>2. ASSUME NEW i \in 1 .. n PROVE i + 1 \in 1 .. n + 1 /\ s[i + 1] = t[i]
    BY <1>1, <2>2
  <2>3. ASSUME NEW i \in 1 .. n + 1, i # 1, s[i].path = p PROVE HasPath(t, p)
    BY <1>1, <2>1, <2>3 DEF HasPath
  <2>4. ASSUME NEW i \in 1 .. n, t[i].path = p PROVE HasPath(s, p)
    BY <1>1, <2>2, <2>4 DEF HasPath
  <2>5. 1 \in 1 .. n + 1
    BY <1>1
  <2> QED
    BY <1>1, <2>3, <2>4, <2>5 DEF HasPath
<1>3. HasEnd(s, p) <=> HasEnd(t, p) \/ IsEnd(e, p)
  <2>1. ASSUME NEW i \in 1 .. n + 1, i # 1 PROVE i - 1 \in 1 .. n /\ s[i] = t[i - 1]
    BY <1>1, <2>1
  <2>2. ASSUME NEW i \in 1 .. n PROVE i + 1 \in 1 .. n + 1 /\ s[i + 1] = t[i]
    BY <1>1, <2>2
  <2>3. ASSUME NEW i \in 1 .. n + 1, i # 1, IsEnd(s[i], p) PROVE HasEnd(t, p)
    BY <1>1, <2>1, <2>3 DEF HasEnd
  <2>4. ASSUME NEW i \in 1 .. n, IsEnd(t[i], p) PROVE HasEnd(s, p)
    BY <1>1, <2>2, <2>4 DEF HasEnd
  <2>5. 1 \in 1 .. n + 1
    BY <1>1
  <2> QED
    BY <1>1, <2>3, <2>4, <2>5 DEF HasEnd
<1>4. ASSUME OneEnd(s, p) PROVE OneEnd(t, p) /\ ~ (HasEnd(t, p) /\ IsEnd(e, p))
  <2>1. ASSUME NEW i \in 1 .. n, NEW k \in 1 .. n, IsEnd(t[i], p), IsEnd(t[k], p)
        PROVE  i = k
    <3>1. i + 1 = k + 1
      BY <1>1, <1>4, <2>1 DEF OneEnd
    <3> QED
      BY <3>1
  <2>2. ASSUME NEW i \in 1 .. n, IsEnd(t[i], p), IsEnd(e, p) PROVE FALSE
    <3>1. i + 1 = 1
      BY <1>1, <1>4, <2>2 DEF OneEnd
    <3> QED
      BY <3>1
  <2> QED
    BY <1>1, <2>1, <2>2 DEF OneEnd, HasEnd
<1>5. ASSUME NEW props, FirstSays(s, p, props)
      PROVE  IF e.path = p THEN e.props = props ELSE FirstSays(t, p, props)
  <2>1. CASE e.path = p
    BY <1>1, <1>5, <2>1 DEF FirstSays
  <2>2. CASE e.path # p
    <3> SUFFICES ASSUME NEW i \in 1 .. n, t[i].path = p,
                        \A k \in 1 .. i - 1 : t[k].path # p
                 PROVE  t[i].props = props
      BY <1>1, <2>2 DEF FirstSays
    <3>1. ASSUME NEW k \in 1 .. (i + 1) - 1 PROVE s[k].path # p
      <4>1. CASE k = 1
        BY <1>1, <2>2, <4>1
      <4>2. CASE k # 1
        <5>1. k - 1 \in 1 .. i - 1 /\ s[k] = t[k - 1]
          BY <1>1, <4>2
        <5> QED
          BY <5>1
      <4> QED
        BY <4>1, <4>2
    <3>2. i + 1 \in DOMAIN s /\ s[i + 1] = t[i]
      BY <1>1
    <3> QED
      BY <1>5, <3>1, <3>2 DEF FirstSays
  <2> QED
    BY <2>1, <2>2
<1> QED
  BY <1>2, <1>3, <1>4, <1>5 DEF t, e

-----------------------------------------------------------------------------
(* What the steps do to what is pending *)

Gains(w, e) ==
  /\ Pending(w)' = Append(Pending(w), e)
  /\ \A v \in Watches \ {w} : Pending(v)' = Pending(v)

Yields(w, e) ==
  /\ Pending(w) # <<>>
  /\ e = Head(Pending(w))
  /\ Pending(w)' = Tail(Pending(w))
  /\ \A v \in Watches \ {w} : Pending(v)' = Pending(v)

PendingUnchanged == \A w \in Watches : Pending(w)' = Pending(w)

(* A sequence in front of another, with none, one or all of its elements. *)
LEMMA ConsFacts ==
  ASSUME NEW S, NEW e \in S, NEW q \in Seq(S)
  PROVE  /\ <<e>> \o q \in Seq(S)
         /\ <<e>> \o q # <<>>
         /\ Head(<<e>> \o q) = e
         /\ Tail(<<e>> \o q) = q
<1>1. <<e>> \in Seq(S) /\ Len(<<e>>) = 1 /\ <<e>>[1] = e
  OBVIOUS
<1>2. /\ Len(<<e>> \o q) = 1 + Len(q)
      /\ \A i \in 1..Len(q) : (<<e>> \o q)[i + 1] = q[i]
      /\ (<<e>> \o q)[1] = e
      /\ <<e>> \o q \in Seq(S)
  BY <1>1, Z3
<1>3. <<e>> \o q # <<>> /\ Head(<<e>> \o q) = e
  BY <1>2
<1>4. Tail(<<e>> \o q) = q
  BY <1>2, <1>3, Z3
<1> QED
  BY <1>2, <1>3, <1>4

LEMMA ConcatAppend ==
  ASSUME NEW S, NEW p \in Seq(S), NEW q \in Seq(S), NEW e \in S
  PROVE  p \o Append(q, e) = Append(p \o q, e)
  BY Z3

LEMMA PendingType ==
  ASSUME TypeOK, NEW w \in Watches
  PROVE  /\ held[w] \in Seq(Event) /\ watch[w] \in Seq(Event)
         /\ Pending(w) \in Seq(Event)
<1>1. held[w] \in Seq(Event) /\ watch[w] \in Seq(Event)
  BY DEF TypeOK
<1> QED
  BY <1>1, ConcatProperties DEF Pending

LEMMA PendingOf ==
  ASSUME NEW w, NEW h, NEW t, held[w] = h, watch[w] = t
  PROVE  Pending(w) = h \o t
  BY DEF Pending

LEMMA SamePending ==
  ASSUME NEW v, held'[v] = held[v], watch'[v] = watch[v]
  PROVE  Pending(v)' = Pending(v)
  BY DEF Pending

LEMMA SignalGains ==
  ASSUME TypeOK, NEW w \in Watches, NEW e \in Event, Signal(w, e)
  PROVE  Gains(w, e)
<1>1. /\ held' = held
      /\ watch'[w] = Append(watch[w], e)
      /\ \A v \in Watches \ {w} : watch'[v] = watch[v]
  BY DEF Signal, TypeOK
<1>2. Pending(w)' = held[w] \o Append(watch[w], e)
  BY <1>1 DEF Pending
<1>3. held[w] \o Append(watch[w], e) = Append(held[w] \o watch[w], e)
  <2> DEFINE h == held[w]
             t == watch[w]
  <2>1. h \in Seq(Event) /\ t \in Seq(Event)
    BY PendingType
  <2> HIDE DEF h, t
  <2>2. h \o Append(t, e) = Append(h \o t, e)
    BY <2>1, ConcatAppend
  <2> QED
    BY <2>2 DEF h, t
<1>4. \A v \in Watches \ {w} : Pending(v)' = Pending(v)
  BY <1>1, SamePending
<1> QED
  BY <1>2, <1>3, <1>4 DEF Gains, Pending

LEMMA SendYields ==
  ASSUME TypeOK, NEW w \in Watches, NEW c, NEW e, Send(w, c, e)
  PROVE  Yields(w, e) /\ e \in Event
<1>1. /\ held[w] = <<e>>
      /\ held'[w] = <<>> /\ watch' = watch
      /\ \A v \in Watches \ {w} : held'[v] = held[v]
  BY DEF Send, TypeOK
<1>2. e \in Event /\ watch[w] \in Seq(Event)
  BY SendType, PendingType
<1>3. Pending(w) = <<e>> \o watch[w]
  BY <1>1 DEF Pending
<1>4. Pending(w)' = watch[w]
  <2>1. Pending(w)' = <<>> \o watch[w]
    BY <1>1 DEF Pending
  <2> QED
    BY <1>2, <2>1, ConcatEmptySeq
<1>5. \A v \in Watches \ {w} : Pending(v)' = Pending(v)
  BY <1>1, SamePending
<1> QED
  BY <1>2, <1>3, <1>4, <1>5, ConsFacts DEF Yields

(* A message that is decoded is pending as before; one that is not is gone. *)
LEMMA FetchPending ==
  ASSUME TypeOK, NEW w \in Watches, DispatcherStep(w)
  PROVE  PendingUnchanged \/ \E e \in Event \cap Undecodable : Yields(w, e)
<1> DEFINE e == Head(watch[w])
<1>1. /\ held[w] = <<>> /\ watch[w] # <<>>
      /\ watch'[w] = Tail(watch[w])
      /\ \A v \in Watches \ {w} : watch'[v] = watch[v] /\ held'[v] = held[v]
  BY DEF DispatcherStep, Skip, Take, Waiting, TypeOK
<1>2. watch[w] \in Seq(Event)
  BY PendingType
<1>3. e \in Event /\ Tail(watch[w]) \in Seq(Event) /\ watch[w] = <<e>> \o Tail(watch[w])
  BY <1>1, <1>2, Z3
<1>4. Pending(w) = watch[w]
  <2>1. Pending(w) = <<>> \o watch[w]
    BY <1>1 DEF Pending
  <2> QED
    BY <1>2, <2>1, ConcatEmptySeq
<1>5. \A v \in Watches \ {w} : Pending(v)' = Pending(v)
  BY <1>1, SamePending
<1>6. CASE Skip(w)
  <2>1. held'[w] = <<>> /\ e \in Undecodable
    BY <1>1, <1>6 DEF Skip
  <2>2. Pending(w)' = <<>> \o Tail(watch[w])
    BY <1>1, <2>1 DEF Pending
  <2>3. Pending(w)' = Tail(watch[w])
    BY <1>3, <2>2, ConcatEmptySeq
  <2>4. Yields(w, e)
    BY <1>1, <1>4, <1>5, <2>3 DEF Yields
  <2> QED
    BY <1>3, <2>1, <2>4
<1>7. CASE Take(w)
  <2>1. held'[w] = <<e>>
    BY <1>7 DEF Take, TypeOK
  <2>2. Pending(w)' = <<e>> \o Tail(watch[w])
    BY <1>1, <2>1 DEF Pending
  <2> QED
    BY <1>3, <1>4, <1>5, <2>2 DEF PendingUnchanged
<1> QED
  BY <1>6, <1>7 DEF DispatcherStep

-----------------------------------------------------------------------------
(* The steps, as the invariant sees them *)

tracked == <<onGoingJobs, report, started, finished, overtaken, reports>>

AnnouncesJob(p, props) ==
  /\ StartJob(p, props) \/ ReannounceJob(p, props)
  /\ Gains("additions", Added(p, props))

EndsJob(p) == FinishJob(p) /\ Gains("removals", Removed(p, {JobIface}))

LosesOther(p, ifaces) ==
  LoseInterfaces(p, ifaces) /\ Gains("removals", Removed(p, ifaces))

GainsOther == \E e \in OtherEvents : Gains("additions", e) /\ UNCHANGED tracked

Drops ==
  \E w \in Watches, e \in Event :
    /\ e \in Undecodable \cup OtherEvents
    /\ Yields(w, e)
    /\ UNCHANGED tracked

ReadsAddition(p, props) ==
  /\ Yields("additions", Added(p, props))
  /\ processAdditionEvent(Added(p, props))
  /\ UNCHANGED <<started, finished, overtaken, reports>>

ReadsRemoval(p, ifaces) ==
  /\ Yields("removals", Removed(p, ifaces))
  /\ processRemovalEvent(Removed(p, ifaces))
  /\ overtaken' = IF ifaces = {JobIface} /\ HasPath(Pending("additions"), p)
                  THEN overtaken \cup {p} ELSE overtaken
  /\ UNCHANGED <<started, finished, reports>>

ReadsReport == ReadReport /\ PendingUnchanged

Rests == PendingUnchanged /\ UNCHANGED tracked

LEMMA JobRemovalFacts ==
  ASSUME NEW p \in JobPaths, NEW ifaces \in OtherLosses \cup {{JobIface}}
  PROVE  /\ Removed(p, ifaces) \in Event
         /\ isRemovalEvent(Removed(p, ifaces))
         /\ Removed(p, ifaces).path = p
         /\ JobIface \in ifaces <=> ifaces = {JobIface}
         /\ OnlyEarlierLosses => /\ SearchFinds(ifaces, JobIface) <=> ifaces = {JobIface}
                                 /\ LostJobInterface(Removed(p, ifaces)) <=> ifaces = {JobIface}
                                 /\ \A q : IsEnd(Removed(p, ifaces), q)
                                             <=> q = p /\ ifaces = {JobIface}
<1>1. ifaces \in (SUBSET Ifaces) \ {{}}
  BY OtherLossesAssumption DEF JobIface, Ifaces
<1>2. JobIface \in ifaces <=> ifaces = {JobIface}
  BY OtherLossesAssumption
<1>3. SearchFinds({JobIface}, JobIface)
  BY DEF SearchFinds, JobIface
<1>4. OnlyEarlierLosses => (SearchFinds(ifaces, JobIface) <=> ifaces = {JobIface})
  BY <1>2, <1>3 DEF OnlyEarlierLosses
<1>5. Removed(p, ifaces).path = p /\ Removed(p, ifaces).ifaces = ifaces
  BY DEF Removed
<1> QED
  BY <1>1, <1>2, <1>4, <1>5, RemovedJob DEF isRemovalEvent, IsEnd, LostJobInterface

LEMMA JobAdditionFacts ==
  ASSUME NEW p \in JobPaths, NEW props \in Announced
  PROVE  /\ Added(p, props) \in Event
         /\ ~ isRemovalEvent(Added(p, props))
         /\ Added(p, props).path = p
         /\ Added(p, props).props = props
  BY AddedJob, AnnouncedAssumption DEF Added, isRemovalEvent

LEMMA YieldedEvent ==
  ASSUME NEW w \in Watches, NEW e, Yields(w, e), NEW S, Pending(w) \in Seq(S)
  PROVE  e \in S /\ Pending(w)' \in Seq(S)
  BY DEF Yields

LEMMA PendingSteps ==
  ASSUME JobInv, SignalsInv, [Next]_vars
  PROVE  \/ \E p \in JobPaths, props \in Announced :
              AnnouncesJob(p, props) \/ ReadsAddition(p, props)
         \/ \E p \in JobPaths : EndsJob(p)
         \/ \E p \in JobPaths, ifaces \in OtherLosses : LosesOther(p, ifaces)
         \/ \E p \in JobPaths, ifaces \in OtherLosses \cup {{JobIface}} : ReadsRemoval(p, ifaces)
         \/ GainsOther
         \/ Drops
         \/ ReadsReport
         \/ Rests
<1>0. TypeOK /\ Watches = {"additions", "removals"}
  BY DEF JobInv, Watches
<1>1. ASSUME NEW p \in JobPaths, NEW props \in Announced,
             StartJob(p, props) \/ ReannounceJob(p, props)
      PROVE  AnnouncesJob(p, props)
  BY <1>0, <1>1, JobAdditionFacts, SignalGains DEF AnnouncesJob, StartJob, ReannounceJob
<1>2. ASSUME NEW p \in JobPaths, FinishJob(p) PROVE EndsJob(p)
  BY <1>0, <1>2, JobRemovalFacts, SignalGains DEF EndsJob, FinishJob
<1>3. ASSUME NEW p \in JobPaths, NEW ifaces \in OtherLosses, LoseInterfaces(p, ifaces)
      PROVE  LosesOther(p, ifaces)
  BY <1>0, <1>3, JobRemovalFacts, SignalGains DEF LosesOther, LoseInterfaces
<1>4. ASSUME NEW b \in Blocks, NEW d \in Drives, AnnounceBlock(b, d) PROVE GainsOther
  <2> DEFINE props == [block |-> TRUE, drive |-> d, fs |-> "vfat",
                       mounted |-> FALSE, system |-> FALSE]
  <2>1. props \in BlockProps
    BY DEF BlockProps, FsTypes
  <2>2. Added(b, props) \in OtherEvents
    BY <2>1, PathsAssumption DEF Added, Event, Additions, OtherEvents
  <2>3. Signal("additions", Added(b, props)) /\ UNCHANGED tracked
    BY <1>4 DEF AnnounceBlock, tracked, jobManagerVars
  <2> QED
    BY <1>0, <2>2, <2>3, SignalGains DEF GainsOther, OtherEvents
<1>5. ASSUME NEW w \in Watches, Fetch(w) PROVE Drops \/ Rests
  <2>1. UNCHANGED tracked
    BY <1>5 DEF Fetch, tracked, jobManagerVars, jobHistory
  <2> QED
    BY <1>0, <1>5, <2>1, FetchPending DEF Fetch, Drops, Rests
<1>6. CASE DispatchJob("additions")
  <2>1. PICK e : /\ Send("additions", "Jobs", e)
                 /\ ReadJob(e)
                 /\ overtaken' = IF JobIface \in e.ifaces /\ Undelivered(e.path)
                                 THEN overtaken \cup {e.path} ELSE overtaken
                 /\ UNCHANGED <<started, finished, disturbed, blockSeen, reports>>
    BY <1>6 DEF DispatchJob
  <2>2. Yields("additions", e) /\ e.path \in JobPaths
    BY <1>0, <2>1, SendYields DEF Send, Channel
  <2>3. e \in JobAdditions
    BY <1>0, <2>2, YieldedEvent DEF SignalsInv, OtherEvents
  <2>4. PICK p \in JobPaths, props \in Announced : e = Added(p, props)
    BY <2>3 DEF JobAdditions
  <2>5. ~ isRemovalEvent(e) /\ e.ifaces = {}
    BY <2>4 DEF Added, isRemovalEvent
  <2>6. processAdditionEvent(e) /\ UNCHANGED <<started, finished, overtaken, reports>>
    BY <2>1, <2>5 DEF ReadJob, processRemovalEvent
  <2> QED
    BY <2>2, <2>4, <2>6 DEF ReadsAddition
<1>7. CASE DispatchJob("removals")
  <2>1. PICK e : /\ Send("removals", "Jobs", e)
                 /\ ReadJob(e)
                 /\ overtaken' = IF JobIface \in e.ifaces /\ Undelivered(e.path)
                                 THEN overtaken \cup {e.path} ELSE overtaken
                 /\ UNCHANGED <<started, finished, disturbed, blockSeen, reports>>
    BY <1>7 DEF DispatchJob
  <2>2. Yields("removals", e)
    BY <1>0, <2>1, SendYields
  <2>3. e \in JobRemovals
    BY <1>0, <2>2, YieldedEvent DEF SignalsInv
  <2>4. PICK p \in JobPaths, ifaces \in OtherLosses \cup {{JobIface}} : e = Removed(p, ifaces)
    BY <2>3 DEF JobRemovals
  <2>5. /\ isRemovalEvent(e) /\ e.path = p /\ e.ifaces = ifaces
        /\ JobIface \in ifaces <=> ifaces = {JobIface}
    BY <2>4, JobRemovalFacts DEF Removed
  <2>6. processRemovalEvent(e)
    BY <2>1, <2>5 DEF ReadJob, processAdditionEvent
  <2>7. Undelivered(p) <=> HasPath(Pending("additions"), p)
    BY DEF Undelivered, HasPath, Pending
  <2> QED
    BY <2>1, <2>2, <2>4, <2>5, <2>6, <2>7 DEF ReadsRemoval
<1>8. CASE DispatchBlock
  <2>1. PICK e : Send("additions", "Additions", e)
    BY <1>8 DEF DispatchBlock
  <2>2. Yields("additions", e) /\ e \in Event /\ e.path \notin JobPaths
    BY <1>0, <2>1, SendYields DEF Send, Channel
  <2>3. UNCHANGED tracked
    BY <1>8 DEF DispatchBlock, tracked, jobManagerVars, jobHistory
  <2> QED
    BY <1>0, <2>2, <2>3 DEF Drops, OtherEvents
<1>9. CASE ReadReport
  BY <1>9, SamePending DEF ReadReport, ReadsReport, PendingUnchanged, dispatcherVars
<1>10. CASE UNCHANGED vars
  BY <1>10, SamePending
  DEF vars, dispatcherVars, jobManagerVars, jobHistory, tracked, Rests, PendingUnchanged
<1> QED
  BY <1>0, <1>1, <1>2, <1>3, <1>4, <1>5, <1>6, <1>7, <1>8, <1>9, <1>10 DEF Next

(* What is pending after a signal, and after a turn. *)
LEMMA AfterGain ==
  ASSUME TypeOK, NEW w \in Watches, NEW e \in Event, Gains(w, e), NEW p
  PROVE  /\ HasPath(Pending(w), p)' <=> HasPath(Pending(w), p) \/ e.path = p
         /\ HasEnd(Pending(w), p)' <=> HasEnd(Pending(w), p) \/ IsEnd(e, p)
         /\ OneEnd(Pending(w), p) /\ ~ (HasEnd(Pending(w), p) /\ IsEnd(e, p))
              => OneEnd(Pending(w), p)'
         /\ \A props :
              /\ FirstSays(Pending(w), p, props)
              /\ e.path = p => HasPath(Pending(w), p) \/ e.props = props
              => FirstSays(Pending(w)', p, props)
<1> DEFINE s == Pending(w)
<1>1. s' = Append(s, e) /\ s \in Seq(Event)
  BY PendingType DEF Gains
<1> HIDE DEF s
<1>2. /\ HasPath(s, p)' <=> HasPath(s, p) \/ e.path = p
      /\ HasEnd(s, p)' <=> HasEnd(s, p) \/ IsEnd(e, p)
      /\ OneEnd(s, p) /\ ~ (HasEnd(s, p) /\ IsEnd(e, p)) => OneEnd(s, p)'
  BY <1>1, AppendedEvent
<1>3. ASSUME NEW props, FirstSays(s, p, props), e.path = p => HasPath(s, p) \/ e.props = props
      PROVE  FirstSays(s', p, props)
  BY <1>1, <1>3, AppendedEvent
<1> QED
  BY <1>2, <1>3 DEF s

LEMMA AfterYield ==
  ASSUME TypeOK, NEW w \in Watches, NEW e, Yields(w, e), NEW p
  PROVE  /\ HasPath(Pending(w), p) <=> HasPath(Pending(w), p)' \/ e.path = p
         /\ HasEnd(Pending(w), p) <=> HasEnd(Pending(w), p)' \/ IsEnd(e, p)
         /\ OneEnd(Pending(w), p) =>
              OneEnd(Pending(w), p)' /\ ~ (HasEnd(Pending(w), p)' /\ IsEnd(e, p))
         /\ \A props :
              FirstSays(Pending(w), p, props) =>
                IF e.path = p THEN e.props = props ELSE FirstSays(Pending(w)', p, props)
<1> DEFINE s == Pending(w)
<1>1. s' = Tail(s) /\ e = Head(s) /\ s # <<>> /\ s \in Seq(Event)
  BY PendingType DEF Yields
<1> HIDE DEF s
<1>2. /\ HasPath(s, p) <=> HasPath(s, p)' \/ e.path = p
      /\ HasEnd(s, p) <=> HasEnd(s, p)' \/ IsEnd(e, p)
      /\ OneEnd(s, p) => OneEnd(s, p)' /\ ~ (HasEnd(s, p)' /\ IsEnd(e, p))
  BY <1>1, DeliveredEvent
<1>3. ASSUME NEW props, FirstSays(s, p, props)
      PROVE  IF e.path = p THEN e.props = props ELSE FirstSays(s', p, props)
  BY <1>1, <1>3, DeliveredEvent
<1> QED
  BY <1>2, <1>3 DEF s

-----------------------------------------------------------------------------
(* The goroutines carry one end of each job, after its announcement *)

LEMMA NothingPending ==
  ASSUME Init, NEW w \in Watches
  PROVE  Pending(w) = <<>>
<1>1. held[w] = <<>> /\ watch[w] = <<>>
  BY DEF Init, DispatcherInit
<1> QED
  BY <1>1, ConcatEmptySeq, EmptySeq DEF Pending

LEMMA SignalsInit == Init => SignalsInv
<1> SUFFICES ASSUME Init PROVE SignalsInv
  OBVIOUS
<1>1. Pending("removals") = <<>> /\ Pending("additions") = <<>>
  BY NothingPending DEF Watches
<1>2. DOMAIN onGoingJobs = {}
  BY DEF Init, JobManagerInit, EmptyMap
<1>3. \A S : <<>> \in Seq(S)
  BY EmptySeq
<1>4. \A p : ~ HasPath(<<>>, p) /\ ~ HasEnd(<<>>, p) /\ OneEnd(<<>>, p)
  BY DEF HasPath, HasEnd, OneEnd
<1> QED
  BY <1>1, <1>2, <1>3, <1>4 DEF SignalsInv

LEMMA SignalsStep ==
  ASSUME OnlyEarlierLosses, JobInv, SignalsInv, [Next]_vars
  PROVE  SignalsInv'
<1> DEFINE R == Pending("removals")
           A == Pending("additions")
           PathInv(p) == /\ OneEnd(R, p)
                         /\ HasEnd(R, p) => p \in finished
                         /\ HasPath(A, p) => p \in DOMAIN started
<1>0. /\ TypeOK
      /\ "additions" \in Watches \ {"removals"} /\ "removals" \in Watches \ {"additions"}
  BY DEF JobInv, Watches
<1>1. /\ R \in Seq(JobRemovals) /\ A \in Seq(JobAdditions \cup OtherEvents)
      /\ \A p \in JobPaths : PathInv(p)
      /\ DOMAIN onGoingJobs \subseteq DOMAIN started
  BY DEF SignalsInv
<1>2. SUFFICES /\ R' \in Seq(JobRemovals) /\ A' \in Seq(JobAdditions \cup OtherEvents)
               /\ \A p \in JobPaths : PathInv(p)'
               /\ DOMAIN onGoingJobs' \subseteq DOMAIN started'
  BY DEF SignalsInv
<1> HIDE DEF R, A
<1>3. ASSUME NEW q \in JobPaths, NEW props \in Announced, AnnouncesJob(q, props)
      PROVE  /\ R' \in Seq(JobRemovals) /\ A' \in Seq(JobAdditions \cup OtherEvents)
             /\ \A p \in JobPaths : PathInv(p)'
             /\ DOMAIN onGoingJobs' \subseteq DOMAIN started'
  <2>1. /\ R' = R /\ A' = Append(A, Added(q, props))
        /\ onGoingJobs' = onGoingJobs /\ finished' = finished
        /\ DOMAIN started \cup {q} = DOMAIN started'
    BY <1>0, <1>3 DEF AnnouncesJob, Gains, StartJob, ReannounceJob, Disturb, Running,
                      jobManagerVars, Put, R, A
  <2>2. Added(q, props) \in JobAdditions
    BY DEF JobAdditions
  <2>3. \A p : HasPath(A', p) <=> HasPath(A, p) \/ p = q
    BY <1>0, <1>3, AfterGain, JobAdditionFacts DEF AnnouncesJob, A
  <2> QED
    BY <1>1, <2>1, <2>2, <2>3
<1>4. ASSUME NEW q \in JobPaths, EndsJob(q)
      PROVE  /\ R' \in Seq(JobRemovals) /\ A' \in Seq(JobAdditions \cup OtherEvents)
             /\ \A p \in JobPaths : PathInv(p)'
             /\ DOMAIN onGoingJobs' \subseteq DOMAIN started'
  <2> DEFINE e == Removed(q, {JobIface})
  <2>1. /\ A' = A /\ R' = Append(R, e)
        /\ UNCHANGED <<onGoingJobs, started>> /\ finished' = finished \cup {q}
        /\ q \notin finished
    BY <1>0, <1>4 DEF EndsJob, Gains, FinishJob, Running, jobManagerVars, R, A
  <2>2. e \in JobRemovals
    BY DEF JobRemovals
  <2>3. e \in Event /\ \A p : IsEnd(e, p) <=> p = q
    BY JobRemovalFacts
  <2> HIDE DEF e
  <2>4. \A p : /\ HasEnd(R', p) <=> HasEnd(R, p) \/ IsEnd(e, p)
               /\ OneEnd(R, p) /\ ~ (HasEnd(R, p) /\ IsEnd(e, p)) => OneEnd(R', p)
    BY <1>0, <1>4, <2>3, AfterGain DEF EndsJob, R, e
  <2> QED
    BY <1>1, <2>1, <2>2, <2>3, <2>4
<1>5. ASSUME NEW q \in JobPaths, NEW ifaces \in OtherLosses, LosesOther(q, ifaces)
      PROVE  /\ R' \in Seq(JobRemovals) /\ A' \in Seq(JobAdditions \cup OtherEvents)
             /\ \A p \in JobPaths : PathInv(p)'
             /\ DOMAIN onGoingJobs' \subseteq DOMAIN started'
  <2> DEFINE e == Removed(q, ifaces)
  <2>1. A' = A /\ R' = Append(R, e) /\ UNCHANGED <<onGoingJobs, started, finished>>
    BY <1>0, <1>5 DEF LosesOther, Gains, LoseInterfaces, Disturb, jobManagerVars, R, A
  <2>2. e \in JobRemovals
    BY DEF JobRemovals
  <2>3. ifaces # {JobIface}
    BY OtherLossesAssumption
  <2>4. e \in Event /\ \A p : ~ IsEnd(e, p)
    BY <2>3, JobRemovalFacts
  <2> HIDE DEF e
  <2>5. \A p : /\ HasEnd(R', p) <=> HasEnd(R, p)
               /\ OneEnd(R, p) => OneEnd(R', p)
    BY <1>0, <1>5, <2>4, AfterGain DEF LosesOther, R, e
  <2> QED
    BY <1>1, <2>1, <2>2, <2>5
<1>6. ASSUME NEW e \in OtherEvents, Gains("additions", e), UNCHANGED tracked
      PROVE  /\ R' \in Seq(JobRemovals) /\ A' \in Seq(JobAdditions \cup OtherEvents)
             /\ \A p \in JobPaths : PathInv(p)'
             /\ DOMAIN onGoingJobs' \subseteq DOMAIN started'
  <2>1. /\ R' = R /\ A' = Append(A, e) /\ UNCHANGED <<onGoingJobs, started, finished>>
    BY <1>0, <1>6 DEF Gains, tracked, R, A
  <2>2. \A p \in JobPaths : HasPath(A', p) <=> HasPath(A, p)
    BY <1>0, <1>6, AfterGain DEF OtherEvents, A
  <2> QED
    BY <1>1, <2>1, <2>2
<1>7. ASSUME NEW w \in Watches, NEW e, Yields(w, e), UNCHANGED <<started, finished>>,
             DOMAIN onGoingJobs' \subseteq DOMAIN started
      PROVE  /\ R' \in Seq(JobRemovals) /\ A' \in Seq(JobAdditions \cup OtherEvents)
             /\ \A p \in JobPaths : PathInv(p)'
             /\ DOMAIN onGoingJobs' \subseteq DOMAIN started'
  <2>1. CASE w = "additions"
    <3>1. R' = R /\ A' \in Seq(JobAdditions \cup OtherEvents)
      BY <1>0, <1>1, <1>7, <2>1, YieldedEvent DEF Yields, R, A
    <3>2. \A p : HasPath(A', p) => HasPath(A, p)
      BY <1>0, <1>7, <2>1, AfterYield DEF A
    <3> QED
      BY <1>1, <1>7, <3>1, <3>2
  <2>2. CASE w = "removals"
    <3>1. A' = A /\ R' \in Seq(JobRemovals)
      BY <1>0, <1>1, <1>7, <2>2, YieldedEvent DEF Yields, R, A
    <3>2. \A p : /\ HasEnd(R', p) => HasEnd(R, p)
                 /\ OneEnd(R, p) => OneEnd(R', p)
      BY <1>0, <1>7, <2>2, AfterYield DEF R
    <3> QED
      BY <1>1, <1>7, <3>1, <3>2
  <2> QED
    BY <2>1, <2>2 DEF Watches
<1>8. ASSUME NEW q \in JobPaths, NEW props \in Announced, ReadsAddition(q, props)
      PROVE  DOMAIN onGoingJobs' \subseteq DOMAIN started
  <2>1. HasPath(A, q)
    BY <1>0, <1>8, AfterYield, JobAdditionFacts DEF ReadsAddition, A
  <2> QED
    BY <1>1, <1>8, <2>1, JobAdditionFacts DEF ReadsAddition, processAdditionEvent, Put
<1>9. ASSUME NEW q \in JobPaths, NEW ifaces \in OtherLosses \cup {{JobIface}},
             ReadsRemoval(q, ifaces)
      PROVE  DOMAIN onGoingJobs' \subseteq DOMAIN started
  BY <1>1, <1>9 DEF ReadsRemoval, processRemovalEvent, Delete
<1>10. CASE Drops
  BY <1>1, <1>7, <1>10 DEF Drops, tracked
<1>11. CASE ReadsReport
  <2>1. R' = R /\ A' = A /\ UNCHANGED <<started, finished>>
        /\ DOMAIN onGoingJobs' \subseteq DOMAIN onGoingJobs
    BY <1>0, <1>11 DEF ReadsReport, PendingUnchanged, ReadReport, Forward, Delete, R, A
  <2> QED
    BY <1>1, <2>1
<1>12. CASE Rests
  BY <1>0, <1>1, <1>12 DEF Rests, PendingUnchanged, tracked, R, A
<1> QED
  BY <1>0, <1>3, <1>4, <1>5, <1>6, <1>7, <1>8, <1>9, <1>10, <1>11, <1>12, PendingSteps
  DEF GainsOther, ReadsAddition, ReadsRemoval

-----------------------------------------------------------------------------
(* The turns of the job manager *)

LEMMA AdditionTurn ==
  ASSUME JobInv, NEW q \in JobPaths, NEW props \in Announced, ReadsAddition(q, props)
  PROVE  /\ report = <<>>
         /\ UNCHANGED <<started, finished, overtaken, reports>>
         /\ report' # <<>> => /\ report'[1].path = q
                              /\ ~ report'[1].wasCompleted
                              /\ report'[1].operation # OtherOperation
         /\ DOMAIN onGoingJobs' = DOMAIN onGoingJobs \cup {q}
         /\ \A p \in DOMAIN onGoingJobs : onGoingJobs'[p] = onGoingJobs[p]
         /\ q \notin DOMAIN onGoingJobs =>
              /\ onGoingJobs'[q].operation = props.op
              /\ onGoingJobs'[q].paths = getFormattedPaths(props)
              /\ props.op \in {Erase, Mkfs, UnmountFs} => report' # <<>>
<1> DEFINE e == Added(q, props)
<1>1. /\ e \in Event /\ e.path = q /\ e.props = props /\ props \in JobProps
  BY JobAdditionFacts, AnnouncedAssumption
<1>2. processAdditionEvent(e) /\ UNCHANGED <<started, finished, overtaken, reports>>
  BY DEF ReadsAddition
<1> HIDE DEF e
<1>3. report = <<>>
  BY <1>2 DEF processAdditionEvent, Idle
<1>4. ASSUME NEW j, j.path = q, ~ j.wasCompleted, report' = Starting(j)
      PROVE  /\ report' # <<>> => /\ report'[1].path = q
                                  /\ ~ report'[1].wasCompleted
                                  /\ report'[1].operation # OtherOperation
             /\ j.operation \in {Erase, Mkfs, UnmountFs} => report' # <<>>
  BY <1>4 DEF Starting, Erase, Mkfs, UnmountFs, OtherOperation
<1>5. CASE ~ Known(q)
  <2> DEFINE j == NewJob(e)
  <2>1. /\ j.path = q /\ ~ j.wasCompleted
        /\ j.operation = props.op /\ j.paths = getFormattedPaths(props)
    BY <1>1 DEF NewJob
  <2>2. onGoingJobs' = Put(onGoingJobs, q, j) /\ report' = Starting(j)
    BY <1>1, <1>2, <1>5 DEF processAdditionEvent
  <2> HIDE DEF j
  <2>3. /\ DOMAIN onGoingJobs' = DOMAIN onGoingJobs \cup {q}
        /\ onGoingJobs'[q] = j
        /\ \A p \in DOMAIN onGoingJobs : onGoingJobs'[p] = onGoingJobs[p]
    BY <1>5, <2>2 DEF Put, Known
  <2> QED
    BY <1>2, <1>3, <1>4, <2>1, <2>2, <2>3
<1>6. CASE Known(q)
  <2>1. onGoingJobs[q] \in Job /\ onGoingJobs[q].path = q /\ ~ onGoingJobs[q].wasCompleted
    BY <1>6 DEF Known, JobInv, TypeOK
  <2>2. UpdatedJob(e).path = q /\ ~ UpdatedJob(e).wasCompleted
    BY <1>1, <2>1, UpdatedJobType
  <2>3. report' = Starting(UpdatedJob(e)) /\ onGoingJobs' = onGoingJobs
    BY <1>1, <1>2, <1>6 DEF processAdditionEvent
  <2>4. DOMAIN onGoingJobs' = DOMAIN onGoingJobs \cup {q}
    BY <1>6, <2>3 DEF Known
  <2>5. q \in DOMAIN onGoingJobs
    BY <1>6 DEF Known
  <2> QED
    BY <1>2, <1>3, <1>4, <2>2, <2>3, <2>4, <2>5
<1> QED
  BY <1>5, <1>6

LEMMA RemovalTurn ==
  ASSUME OnlyEarlierLosses, JobInv, NEW q \in JobPaths,
         NEW ifaces \in OtherLosses \cup {{JobIface}}, ReadsRemoval(q, ifaces)
  PROVE  /\ report = <<>>
         /\ UNCHANGED <<started, finished, reports>>
         /\ \/ /\ ifaces # {JobIface} \/ ~ Known(q)
               /\ UNCHANGED <<onGoingJobs, report>>
            \/ /\ ifaces = {JobIface} /\ Known(q)
               /\ onGoingJobs' = Delete(onGoingJobs, q)
               /\ report' = <<>>
            \/ /\ ifaces = {JobIface} /\ Known(q)
               /\ onGoingJobs[q].operation # OtherOperation
               /\ onGoingJobs' = onGoingJobs
               /\ report' = <<Completed(onGoingJobs[q])>>
<1> DEFINE e == Removed(q, ifaces)
<1>1. e.path = q /\ (LostJobInterface(e) <=> ifaces = {JobIface})
  BY JobRemovalFacts
<1>2. processRemovalEvent(e) /\ UNCHANGED <<started, finished, reports>>
  BY DEF ReadsRemoval
<1> HIDE DEF e
<1> QED
  BY <1>1, <1>2 DEF processRemovalEvent, Idle

LEMMA CompletedJob ==
  ASSUME JobInv, NEW q, Known(q)
  PROVE  /\ Completed(onGoingJobs[q]).path = q
         /\ Completed(onGoingJobs[q]).wasCompleted
         /\ Completed(onGoingJobs[q]).operation = onGoingJobs[q].operation
         /\ Completed(onGoingJobs[q]).paths = onGoingJobs[q].paths
<1>1. onGoingJobs[q] \in Job /\ onGoingJobs[q].path = q
  BY DEF JobInv, TypeOK, Known
<1> QED
  BY <1>1 DEF Completed, Job

LEMMA ReportTurn ==
  ASSUME JobInv, reports \in Seq([channel : ReportChannels, job : Job]), ReadsReport
  PROVE  /\ report # <<>> /\ report' = <<>>
         /\ UNCHANGED <<started, finished, overtaken>>
         /\ reports' \in Seq([channel : ReportChannels, job : Job])
         /\ \E n \in Nat :
              /\ DOMAIN reports = 1 .. n /\ DOMAIN reports' = 1 .. n + 1
              /\ \A i \in 1 .. n : reports'[i] = reports[i]
              /\ reports'[n + 1].job = report[1]
         /\ onGoingJobs' = IF report[1].wasCompleted
                           THEN Delete(onGoingJobs, report[1].path) ELSE onGoingJobs
<1>1. PICK c \in ReportChannels :
        /\ report # <<>>
        /\ Forward(c, report[1])
        /\ reports' = Append(reports, [channel |-> c, job |-> report[1]])
        /\ UNCHANGED <<dispatcherVars, started, finished, disturbed, blockSeen, overtaken>>
  BY DEF ReadsReport, ReadReport, ReportChannels
<1> DEFINE r == [channel |-> c, job |-> report[1]]
<1>2. report[1] \in Job
  BY <1>1 DEF JobInv, TypeOK
<1>3. r \in [channel : ReportChannels, job : Job] /\ r.job = report[1]
  BY <1>2
<1>4. reports' = Append(reports, r)
  BY <1>1
<1> HIDE DEF r
<1>5. /\ reports' \in Seq([channel : ReportChannels, job : Job])
      /\ Len(reports) \in Nat
      /\ DOMAIN reports = 1 .. Len(reports) /\ DOMAIN reports' = 1 .. Len(reports) + 1
      /\ \A i \in 1 .. Len(reports) : reports'[i] = reports[i]
      /\ reports'[Len(reports) + 1] = r
  BY <1>3, <1>4, AppendProperties
<1> QED
  BY <1>1, <1>3, <1>5 DEF Forward

(* All other steps leave the job manager alone. *)
LEMMA OtherSteps ==
  ASSUME JobInv, SignalsInv, [Next]_vars
  PROVE  \/ UNCHANGED <<onGoingJobs, report, reports>>
         \/ \E p \in JobPaths, props \in Announced : ReadsAddition(p, props)
         \/ \E p \in JobPaths, ifaces \in OtherLosses \cup {{JobIface}} :
              ReadsRemoval(p, ifaces)
         \/ ReadsReport
<1>1. ASSUME NEW p \in JobPaths, NEW props \in Announced, AnnouncesJob(p, props)
      PROVE  UNCHANGED <<onGoingJobs, report, reports>>
  BY <1>1 DEF AnnouncesJob, StartJob, ReannounceJob, Disturb, jobManagerVars
<1>2. ASSUME NEW p \in JobPaths, EndsJob(p) PROVE UNCHANGED <<onGoingJobs, report, reports>>
  BY <1>2 DEF EndsJob, FinishJob, jobManagerVars
<1>3. ASSUME NEW p \in JobPaths, NEW ifaces \in OtherLosses, LosesOther(p, ifaces)
      PROVE  UNCHANGED <<onGoingJobs, report, reports>>
  BY <1>3 DEF LosesOther, LoseInterfaces, Disturb, jobManagerVars
<1>4. GainsOther \/ Drops \/ Rests => UNCHANGED <<onGoingJobs, report, reports>>
  BY DEF GainsOther, Drops, Rests, tracked
<1> QED
  BY <1>1, <1>2, <1>3, <1>4, PendingSteps

(* What has ended, and been read, does not begin again. *)
LEMMA EndedStays ==
  ASSUME OnlyEarlierLosses, JobInv, SignalsInv, [Next]_vars, NEW p \in JobPaths
  PROVE  /\ DOMAIN started \subseteq DOMAIN started'
         /\ finished \subseteq finished'
         /\ p \in DOMAIN started => started'[p] = started[p]
         /\ Unended(p)' => Unended(p) \/ p \notin DOMAIN started
<1> DEFINE R == Pending("removals")
           Goal == /\ DOMAIN started \subseteq DOMAIN started'
                   /\ finished \subseteq finished'
                   /\ p \in DOMAIN started => started'[p] = started[p]
                   /\ Unended(p)' => Unended(p) \/ p \notin DOMAIN started
<1>0. /\ TypeOK
      /\ "additions" \in Watches \ {"removals"} /\ "removals" \in Watches \ {"additions"}
  BY DEF JobInv, Watches
<1>1. ASSUME DOMAIN started \subseteq DOMAIN started', finished \subseteq finished',
             p \in DOMAIN started => started'[p] = started[p],
             HasEnd(R', p) => HasEnd(R, p) \/ p \notin finished
      PROVE  Goal
  <2>1. Unended(p)' <=> p \in DOMAIN started' /\ (p \in finished' => HasEnd(R', p))
    BY DEF Unended
  <2>2. Unended(p) <=> p \in DOMAIN started /\ (p \in finished => HasEnd(R, p))
    BY DEF Unended
  <2> QED
    BY <1>1, <2>1, <2>2
<1> HIDE DEF R
<1>2. ASSUME NEW q \in JobPaths, NEW props \in Announced, AnnouncesJob(q, props) PROVE Goal
  <2>1. R' = R
    BY <1>0, <1>2 DEF AnnouncesJob, Gains, R
  <2>2. /\ DOMAIN started \subseteq DOMAIN started' /\ finished' = finished
        /\ p \in DOMAIN started => started'[p] = started[p]
    BY <1>2 DEF AnnouncesJob, StartJob, ReannounceJob, Disturb, Put
  <2> QED
    BY <1>1, <2>1, <2>2
<1>3. ASSUME NEW q \in JobPaths, EndsJob(q) PROVE Goal
  <2> DEFINE e == Removed(q, {JobIface})
  <2>1. e \in Event /\ (IsEnd(e, p) <=> p = q)
    BY JobRemovalFacts
  <2> HIDE DEF e
  <2>2. HasEnd(R', p) <=> HasEnd(R, p) \/ p = q
    BY <1>0, <1>3, <2>1, AfterGain DEF EndsJob, R, e
  <2>3. q \notin finished /\ finished \subseteq finished' /\ started' = started
    BY <1>3 DEF EndsJob, FinishJob, Running
  <2> QED
    BY <1>1, <2>2, <2>3
<1>4. ASSUME NEW q \in JobPaths, NEW ifaces \in OtherLosses, LosesOther(q, ifaces)
      PROVE  Goal
  <2> DEFINE e == Removed(q, ifaces)
  <2>1. ifaces # {JobIface}
    BY OtherLossesAssumption
  <2>2. e \in Event /\ ~ IsEnd(e, p)
    BY <2>1, JobRemovalFacts
  <2> HIDE DEF e
  <2>3. HasEnd(R', p) <=> HasEnd(R, p)
    BY <1>0, <1>4, <2>2, AfterGain DEF LosesOther, R, e
  <2>4. finished' = finished /\ started' = started
    BY <1>4 DEF LosesOther, LoseInterfaces, Disturb
  <2> QED
    BY <1>1, <2>3, <2>4
<1>5. ASSUME NEW w \in Watches, NEW e, Yields(w, e), UNCHANGED <<started, finished>>
      PROVE  Goal
  <2>1. CASE w = "additions"
    <3>1. R' = R
      BY <1>0, <1>5, <2>1 DEF Yields, R
    <3> QED
      BY <1>1, <1>5, <3>1
  <2>2. CASE w = "removals"
    <3>1. HasEnd(R', p) => HasEnd(R, p)
      BY <1>0, <1>5, <2>2, AfterYield DEF R
    <3> QED
      BY <1>1, <1>5, <3>1
  <2> QED
    BY <2>1, <2>2 DEF Watches
<1>6. ASSUME R' = R, UNCHANGED <<started, finished>> PROVE Goal
  BY <1>1, <1>6
<1>7. CASE GainsOther
  BY <1>0, <1>6, <1>7 DEF GainsOther, Gains, tracked, R
<1>8. CASE Drops
  BY <1>5, <1>8 DEF Drops, tracked
<1>9. CASE ReadsReport \/ Rests
  BY <1>0, <1>6, <1>9 DEF ReadsReport, ReadReport, Rests, PendingUnchanged, tracked, R
<1> QED
  BY <1>0, <1>2, <1>3, <1>4, <1>5, <1>7, <1>8, <1>9, PendingSteps
  DEF ReadsAddition, ReadsRemoval

(* The end of a job is read once. *)
LEMMA EndRead ==
  ASSUME OnlyEarlierLosses, JobInv, SignalsInv, NEW q \in JobPaths,
         ReadsRemoval(q, {JobIface})
  PROVE  /\ q \in finished /\ q \in DOMAIN started
         /\ Unended(q) /\ ~ Unended(q)'
<1>0. TypeOK /\ "removals" \in Watches
  BY DEF JobInv, Watches
<1>1. IsEnd(Removed(q, {JobIface}), q)
  BY JobRemovalFacts
<1>2. /\ OneEnd(Pending("removals"), q)
      /\ HasEnd(Pending("removals"), q) => q \in finished
  BY DEF SignalsInv
<1>3. HasEnd(Pending("removals"), q) /\ ~ HasEnd(Pending("removals"), q)'
  BY <1>0, <1>1, <1>2, AfterYield DEF ReadsRemoval
<1>4. q \in finished /\ finished \subseteq DOMAIN started
  BY <1>2, <1>3 DEF JobInv, TypeOK
<1>5. UNCHANGED <<started, finished>>
  BY DEF ReadsRemoval
<1> QED
  BY <1>3, <1>4, <1>5 DEF Unended

-----------------------------------------------------------------------------
(* Completed once, and after the start *)

LEMMA OnceInit == Init => OnceInv
<1> SUFFICES ASSUME Init PROVE OnceInv
  OBVIOUS
<1>1. report = <<>> /\ reports = <<>> /\ DOMAIN onGoingJobs = {} /\ DOMAIN started = {}
  BY DEF Init, JobManagerInit, EmptyMap
<1>2. \A S : <<>> \in Seq(S)
  BY EmptySeq
<1> QED
  BY <1>1, <1>2
  DEF OnceInv, JobOnce, Completing, CompletionReported, Known, ReportedOnceInOrder

LEMMA OnceStep ==
  ASSUME OnlyEarlierLosses, JobInv, SignalsInv, OnceInv, [Next]_vars
  PROVE  OnceInv'
<1>1. \A p \in JobPaths : p \in DOMAIN started /\ ~ Unended(p)
                            => p \in DOMAIN started' /\ ~ Unended(p)'
  BY EndedStays
<1>2. CASE UNCHANGED <<onGoingJobs, report, reports>>
  <2>1. ASSUME NEW p \in JobPaths PROVE JobOnce(p)'
    <3>1. /\ Completing(p)' <=> Completing(p)
          /\ CompletionReported(p)' <=> CompletionReported(p)
          /\ StartReported(p)' <=> StartReported(p)
          /\ Known(p)' <=> Known(p)
      BY <1>2 DEF Completing, CompletionReported, CompletionOf, StartReported, Known
    <3> QED
      BY <1>1, <1>2, <3>1 DEF OnceInv, JobOnce
  <2> QED
    BY <1>2, <2>1 DEF OnceInv, ReportedOnceInOrder, CompletionOf
<1>3. ASSUME NEW q \in JobPaths, NEW props \in Announced, ReadsAddition(q, props)
      PROVE  OnceInv'
  <2>0. /\ report = <<>>
        /\ UNCHANGED <<started, finished, overtaken, reports>>
        /\ report' # <<>> => /\ report'[1].path = q
                             /\ ~ report'[1].wasCompleted
                             /\ report'[1].operation # OtherOperation
        /\ DOMAIN onGoingJobs' = DOMAIN onGoingJobs \cup {q}
        /\ \A p \in DOMAIN onGoingJobs : onGoingJobs'[p] = onGoingJobs[p]
        /\ q \notin DOMAIN onGoingJobs =>
             /\ onGoingJobs'[q].operation = props.op
             /\ props.op \in {Erase, Mkfs, UnmountFs} => report' # <<>>
    BY <1>3, AdditionTurn
  <2>1. ASSUME NEW p \in JobPaths PROVE JobOnce(p)'
    <3>1. /\ ~ Completing(p)'
          /\ CompletionReported(p)' <=> CompletionReported(p)
          /\ StartReported(p)' <=> StartReported(p)
      BY <2>0 DEF Completing, CompletionReported, CompletionOf, StartReported
    <3>2. CASE p \in DOMAIN onGoingJobs
      BY <1>1, <2>0, <3>1, <3>2 DEF OnceInv, JobOnce, Known
    <3>3. CASE p \notin DOMAIN onGoingJobs
      BY <1>1, <2>0, <3>1, <3>3 DEF OnceInv, JobOnce, Known
    <3> QED
      BY <3>2, <3>3
  <2> QED
    BY <2>0, <2>1 DEF OnceInv, ReportedOnceInOrder, CompletionOf
<1>4. ASSUME NEW q \in JobPaths, NEW ifaces \in OtherLosses \cup {{JobIface}},
             ReadsRemoval(q, ifaces)
      PROVE  OnceInv'
  <2>0. report = <<>> /\ UNCHANGED <<started, finished, reports>>
    BY <1>4, RemovalTurn
  <2>1. CASE UNCHANGED <<onGoingJobs, report>>
    BY <1>2, <2>0, <2>1
  <2>2. ASSUME ifaces = {JobIface}, Known(q),
               onGoingJobs' = Delete(onGoingJobs, q), report' = <<>>
        PROVE  OnceInv'
    <3>1. /\ DOMAIN onGoingJobs' \subseteq DOMAIN onGoingJobs
          /\ \A p \in DOMAIN onGoingJobs' : onGoingJobs'[p] = onGoingJobs[p]
      BY <2>2 DEF Delete
    <3>2. ASSUME NEW p \in JobPaths PROVE JobOnce(p)'
      <4>1. /\ ~ Completing(p)'
            /\ CompletionReported(p)' <=> CompletionReported(p)
            /\ StartReported(p)' <=> StartReported(p)
        BY <2>0, <2>2 DEF Completing, CompletionReported, CompletionOf, StartReported
      <4> QED
        BY <1>1, <2>0, <3>1, <4>1 DEF OnceInv, JobOnce, Known
    <3> QED
      BY <2>0, <2>2, <3>2 DEF OnceInv, ReportedOnceInOrder, CompletionOf
  <2>3. ASSUME ifaces = {JobIface}, Known(q), onGoingJobs[q].operation # OtherOperation,
               onGoingJobs' = onGoingJobs, report' = <<Completed(onGoingJobs[q])>>
        PROVE  OnceInv'
    <3>1. /\ report' # <<>> /\ report'[1].path = q /\ report'[1].wasCompleted
          /\ report'[1].operation # OtherOperation
      BY <2>3, CompletedJob
    <3>2. Unended(q) /\ ~ Unended(q)' /\ q \in DOMAIN started
      BY <1>4, <2>3, EndRead
    <3>3. ASSUME NEW p \in JobPaths PROVE JobOnce(p)'
      <4>1. /\ Completing(p)' <=> p = q
            /\ CompletionReported(p)' <=> CompletionReported(p)
            /\ StartReported(p)' <=> StartReported(p)
            /\ Known(p)' <=> Known(p)
        BY <2>0, <2>3, <3>1
        DEF Completing, CompletionReported, CompletionOf, StartReported, Known
      <4> QED
        BY <1>1, <2>0, <2>3, <3>2, <4>1 DEF OnceInv, JobOnce
    <3> QED
      BY <2>0, <3>1, <3>3 DEF OnceInv, ReportedOnceInOrder, CompletionOf
  <2> QED
    BY <1>4, <2>1, <2>2, <2>3, RemovalTurn
<1>5. CASE ReadsReport
  <2> DEFINE r == report[1]
  <2>0. reports \in Seq([channel : ReportChannels, job : Job])
    BY DEF OnceInv
  <2>1. /\ report # <<>> /\ report' = <<>>
        /\ reports' \in Seq([channel : ReportChannels, job : Job])
        /\ onGoingJobs' = IF r.wasCompleted THEN Delete(onGoingJobs, r.path)
                          ELSE onGoingJobs
    BY <1>5, <2>0, ReportTurn
  <2>2. PICK n \in Nat :
          /\ DOMAIN reports = 1 .. n /\ DOMAIN reports' = 1 .. n + 1
          /\ \A i \in 1 .. n : reports'[i] = reports[i]
          /\ reports'[n + 1].job = r
    BY <1>5, <2>0, ReportTurn
  <2>3. /\ \A p : \A i \in 1 .. n : CompletionOf(i, p)' <=> CompletionOf(i, p)
        /\ \A p : CompletionOf(n + 1, p)' <=> Completing(p)
    BY <2>1, <2>2 DEF CompletionOf, Completing
  <2>4. ASSUME NEW p
        PROVE  /\ CompletionReported(p)' <=> CompletionReported(p) \/ Completing(p)
               /\ StartReported(p)' <=> \/ StartReported(p)
                                        \/ ~ r.wasCompleted /\ r.path = p
               /\ ~ Completing(p)'
    <3>1. \A i : i \in 1 .. n + 1 <=> i \in 1 .. n \/ i = n + 1
      BY <2>2
    <3>2. CompletionReported(p)' <=> CompletionReported(p) \/ Completing(p)
      BY <2>2, <2>3, <3>1 DEF CompletionReported
    <3>3. StartReported(p)' <=> \/ StartReported(p)
                                \/ ~ r.wasCompleted /\ r.path = p
      BY <2>2, <3>1 DEF StartReported
    <3> QED
      BY <2>1, <3>2, <3>3 DEF Completing
  <2>5. /\ DOMAIN onGoingJobs' \subseteq DOMAIN onGoingJobs
        /\ \A p \in DOMAIN onGoingJobs' : onGoingJobs'[p] = onGoingJobs[p]
    BY <2>1 DEF Delete
  <2>6. ASSUME NEW p \in JobPaths PROVE JobOnce(p)'
    BY <1>1, <2>1, <2>4, <2>5 DEF OnceInv, JobOnce, Known
  <2>7. ASSUME NEW i \in 1 .. n + 1, NEW p \in JobPaths, CompletionOf(i, p)'
        PROVE  /\ \A k \in 1 .. n + 1 : CompletionOf(k, p)' => k = i
               /\ \/ reports'[i].job.operation = MountFs
                  \/ \E k \in 1 .. i - 1 :
                       ~ reports'[k].job.wasCompleted /\ reports'[k].job.path = p
    <3>1. CASE i \in 1 .. n
      <4>1. /\ \A k \in 1 .. n : CompletionOf(k, p) => k = i
            /\ \/ reports[i].job.operation = MountFs
               \/ \E k \in 1 .. i - 1 :
                    ~ reports[k].job.wasCompleted /\ reports[k].job.path = p
        BY <2>2, <2>3, <2>7, <3>1 DEF OnceInv, ReportedOnceInOrder
      <4>2. ~ Completing(p)
        BY <2>2, <2>3, <2>7, <3>1 DEF OnceInv, JobOnce, CompletionReported
      <4> QED
        BY <2>2, <2>3, <3>1, <4>1, <4>2
    <3>2. CASE i = n + 1
      <4>1. Completing(p) /\ ~ CompletionReported(p)
        BY <2>3, <2>7, <3>2 DEF OnceInv, JobOnce
      <4>2. \A k \in 1 .. n : ~ CompletionOf(k, p)'
        BY <2>2, <2>3, <4>1 DEF CompletionReported
      <4>3. Known(p) /\ r = Completed(onGoingJobs[p]) /\ r \in Job
        BY <2>1, <4>1 DEF Completing, JobInv, TypeOK, ForwardedJobIsKnown
      <4>4. r.operation = onGoingJobs[p].operation /\ r.operation # OtherOperation
        BY <2>1, <4>3, CompletedJob DEF OnceInv
      <4>5. r.operation = MountFs \/ r.operation \in {Erase, Mkfs, UnmountFs}
        BY <4>3, <4>4 DEF Job, Operations
      <4>6. r.operation \in {Erase, Mkfs, UnmountFs} => StartReported(p)
        BY <4>1, <4>3, <4>4 DEF OnceInv, JobOnce, Completing
      <4> QED
        BY <2>2, <3>2, <4>2, <4>5, <4>6 DEF StartReported
    <3> QED
      BY <2>2, <3>1, <3>2
  <2>8. ReportedOnceInOrder'
    BY <2>2, <2>7 DEF ReportedOnceInOrder
  <2> QED
    BY <2>1, <2>6, <2>8 DEF OnceInv
<1> QED
  BY <1>2, <1>3, <1>4, <1>5, OtherSteps

-----------------------------------------------------------------------------
(* What is reported completed is what was announced first *)

LEMMA TruthInit == Init => TruthInv
  BY DEF Init, JobManagerInit, EmptyMap, TruthInv, JobTruth, Unended, Completing,
         ReportsAreTrue, CompletionOf

(* Reports stay true whatever is announced later. *)
LEMMA ReportedStaysTrue ==
  ASSUME OnlyEarlierLosses, JobInv, SignalsInv, TruthInv, [Next]_vars,
         NEW i, NEW p \in JobPaths, i \in DOMAIN reports, CompletionOf(i, p)
  PROVE  /\ p \in finished'
         /\ reports[i].job.operation = started'[p].op
         /\ reports[i].job.paths = getFormattedPaths(started'[p])
<1>1. p \in finished /\ finished \subseteq DOMAIN started
  BY DEF TruthInv, ReportsAreTrue, JobInv, TypeOK
<1>2. p \in finished' /\ started'[p] = started[p]
  BY <1>1, EndedStays
<1> QED
  BY <1>2 DEF TruthInv, ReportsAreTrue

(* A job whose announcement is still on its way, and a job that is known. *)
LEMMA JobTruthKept ==
  ASSUME OnlyEarlierLosses, JobInv, SignalsInv, OnceInv, TruthInv, [Next]_vars,
         NEW p \in JobPaths,
         p \in DOMAIN started' => p \in DOMAIN started,
         HasPath(Pending("additions"), p) => HasPath(Pending("additions"), p)',
         HasPath(Pending("additions"), p) /\ FirstSays(Pending("additions"), p, started[p])
           => FirstSays(Pending("additions")', p, started[p]),
         Known(p)' <=> Known(p), Known(p) => onGoingJobs'[p] = onGoingJobs[p],
         Completing(p)' => report' = report
  PROVE  JobTruth(p)'
<1>1. JobTruth(p)
  BY DEF TruthInv
<1>2. Unended(p)' => Unended(p) /\ p \in DOMAIN started
  BY EndedStays DEF Unended
<1>3. Completing(p)' => Completing(p) /\ p \in DOMAIN started
  BY DEF Completing, OnceInv, JobOnce
<1>4. p \in DOMAIN started => started'[p] = started[p]
  BY EndedStays
<1>5. ASSUME Unended(p)', ~ Known(p)'
      PROVE  HasPath(Pending("additions"), p)'
             /\ FirstSays(Pending("additions")', p, started'[p])
  BY <1>1, <1>2, <1>4, <1>5 DEF JobTruth
<1>6. ASSUME Unended(p)', Known(p)' PROVE AsAnnounced(onGoingJobs[p], p)'
  <2>1. AsAnnounced(onGoingJobs[p], p) /\ onGoingJobs'[p] = onGoingJobs[p]
    BY <1>1, <1>2, <1>6 DEF JobTruth
  <2> QED
    BY <1>2, <1>4, <1>6, <2>1 DEF AsAnnounced
<1>7. ASSUME Completing(p)' PROVE AsAnnounced(report[1], p)'
  BY <1>1, <1>3, <1>4, <1>7 DEF JobTruth, AsAnnounced
<1> QED
  BY <1>5, <1>6, <1>7 DEF JobTruth

LEMMA TruthStep ==
  ASSUME OnlyEarlierLosses, AnnouncementsDecode,
         JobInv, SignalsInv, OnceInv, TruthInv, [Next]_vars
  PROVE  TruthInv'
<1> DEFINE A == Pending("additions")
<1>0. /\ TypeOK
      /\ "additions" \in Watches \ {"removals"} /\ "removals" \in Watches \ {"additions"}
  BY DEF JobInv, Watches
<1>1. ASSUME reports' = reports PROVE ReportsAreTrue'
  <2> SUFFICES ASSUME NEW i \in DOMAIN reports, NEW p \in JobPaths, CompletionOf(i, p)
               PROVE  /\ p \in finished'
                      /\ reports[i].job.operation = started'[p].op
                      /\ reports[i].job.paths = getFormattedPaths(started'[p])
    BY <1>1 DEF ReportsAreTrue, CompletionOf
  <2> QED
    BY ReportedStaysTrue
<1>2. ASSUME UNCHANGED <<onGoingJobs, report, reports>>,
             NEW p \in JobPaths,
             p \in DOMAIN started' => p \in DOMAIN started,
             HasPath(A, p) => HasPath(A', p),
             HasPath(A, p) /\ FirstSays(A, p, started[p]) => FirstSays(A', p, started[p])
      PROVE  JobTruth(p)'
  <2>1. Known(p)' <=> Known(p)
    BY <1>2 DEF Known
  <2> QED
    BY <1>2, <2>1, JobTruthKept
<1> HIDE DEF A
<1>3. ASSUME NEW q \in JobPaths, NEW props \in Announced, AnnouncesJob(q, props)
      PROVE  TruthInv'
  <2> DEFINE e == Added(q, props)
  <2>1. e \in Event /\ e.path = q /\ e.props = props
    BY JobAdditionFacts
  <2>2. Gains("additions", e) /\ UNCHANGED <<onGoingJobs, report, reports>>
    BY <1>3 DEF AnnouncesJob, StartJob, ReannounceJob, Disturb, jobManagerVars
  <2> HIDE DEF e
  <2>3. \A p : /\ HasPath(A', p) <=> HasPath(A, p) \/ q = p
               /\ \A pr : /\ FirstSays(A, p, pr)
                          /\ q = p => HasPath(A, p) \/ props = pr
                          => FirstSays(A', p, pr)
    BY <1>0, <2>1, <2>2, AfterGain DEF A
  <2>4. ASSUME StartJob(q, props) PROVE JobTruth(q)'
    <3>1. q \notin DOMAIN started /\ started'[q] = props
      BY <2>4 DEF StartJob, Put
    <3>2. ~ HasPath(A, q) /\ ~ Known(q) /\ ~ Completing(q)
      BY <3>1 DEF SignalsInv, Known, OnceInv, JobOnce, A
    <3>3. FirstSays(A, q, props)
      BY <3>2 DEF FirstSays, HasPath
    <3>4. HasPath(A', q) /\ FirstSays(A', q, started'[q])
      BY <2>3, <3>1, <3>3
    <3>5. ~ Known(q)' /\ ~ Completing(q)'
      BY <2>2, <3>2 DEF Known, Completing
    <3> QED
      BY <3>4, <3>5 DEF JobTruth, A
  <2>5. ASSUME NEW p \in JobPaths, p # q \/ ReannounceJob(q, props) PROVE JobTruth(p)'
    <3>1. p \in DOMAIN started' => p \in DOMAIN started
      BY <1>3, <2>5 DEF AnnouncesJob, StartJob, ReannounceJob, Disturb, Put
    <3> QED
      BY <1>2, <2>2, <2>3, <3>1
  <2> QED
    BY <1>1, <1>3, <2>2, <2>4, <2>5 DEF TruthInv, AnnouncesJob
<1>4. ASSUME A' = A, UNCHANGED <<started, onGoingJobs, report, reports>>
      PROVE  TruthInv'
  BY <1>1, <1>2, <1>4 DEF TruthInv
<1>5. ASSUME NEW q \in JobPaths, EndsJob(q) PROVE TruthInv'
  BY <1>0, <1>4, <1>5 DEF EndsJob, Gains, FinishJob, jobManagerVars, A
<1>6. ASSUME NEW q \in JobPaths, NEW ifaces \in OtherLosses, LosesOther(q, ifaces)
      PROVE  TruthInv'
  BY <1>0, <1>4, <1>6 DEF LosesOther, Gains, LoseInterfaces, Disturb, jobManagerVars, A
<1>7. ASSUME NEW e \in OtherEvents, Gains("additions", e), UNCHANGED tracked
      PROVE  TruthInv'
  <2>1. \A p \in JobPaths :
           /\ HasPath(A', p) <=> HasPath(A, p)
           /\ \A pr : FirstSays(A, p, pr) => FirstSays(A', p, pr)
    BY <1>0, <1>7, AfterGain DEF A, OtherEvents
  <2> QED
    BY <1>1, <1>2, <1>7, <2>1 DEF TruthInv, tracked
<1>8. ASSUME NEW e, Yields("additions", e), e \in Undecodable \cup OtherEvents,
             UNCHANGED tracked
      PROVE  TruthInv'
  <2>1. e \in JobAdditions \cup OtherEvents
    BY <1>0, <1>8, YieldedEvent DEF SignalsInv
  <2>2. e.path \notin JobPaths
    BY <1>8, <2>1 DEF AnnouncementsDecode, JobAdditions, OtherEvents
  <2>3. \A p \in JobPaths :
           /\ HasPath(A', p) <=> HasPath(A, p)
           /\ \A pr : FirstSays(A, p, pr) => FirstSays(A', p, pr)
    BY <1>0, <1>8, <2>2, AfterYield DEF A
  <2> QED
    BY <1>1, <1>2, <1>8, <2>3 DEF TruthInv, tracked
<1>9. CASE Drops
  <2>1. PICK w \in Watches, e \in Event :
          e \in Undecodable \cup OtherEvents /\ Yields(w, e) /\ UNCHANGED tracked
    BY <1>9 DEF Drops
  <2>2. CASE w = "removals"
    BY <1>0, <1>4, <2>1, <2>2 DEF Yields, tracked, A
  <2>3. CASE w = "additions"
    BY <1>8, <2>1, <2>3
  <2> QED
    BY <2>2, <2>3 DEF Watches
<1>10. CASE Rests
  BY <1>0, <1>4, <1>10 DEF Rests, PendingUnchanged, tracked, A
<1>11. ASSUME NEW q \in JobPaths, NEW props \in Announced, ReadsAddition(q, props)
       PROVE  TruthInv'
  <2>1. /\ UNCHANGED <<started, finished, reports>>
        /\ report' # <<>> => ~ report'[1].wasCompleted
        /\ DOMAIN onGoingJobs' = DOMAIN onGoingJobs \cup {q}
        /\ \A p \in DOMAIN onGoingJobs : onGoingJobs'[p] = onGoingJobs[p]
        /\ q \notin DOMAIN onGoingJobs =>
             /\ onGoingJobs'[q].operation = props.op
             /\ onGoingJobs'[q].paths = getFormattedPaths(props)
    BY <1>11, AdditionTurn
  <2>2. \A p : /\ HasPath(A, p) <=> HasPath(A', p) \/ q = p
               /\ \A pr : FirstSays(A, p, pr) =>
                            IF q = p THEN props = pr ELSE FirstSays(A', p, pr)
    BY <1>0, <1>11, AfterYield, JobAdditionFacts DEF ReadsAddition, A
  <2>3. \A p : ~ Completing(p)'
    BY <2>1 DEF Completing
  <2>4. ASSUME NEW p \in JobPaths, p # q PROVE JobTruth(p)'
    <3>1. (Known(p)' <=> Known(p)) /\ (Known(p) => onGoingJobs'[p] = onGoingJobs[p])
      BY <2>1, <2>4 DEF Known
    <3>2. /\ HasPath(A, p) => HasPath(A', p)
          /\ FirstSays(A, p, started[p]) => FirstSays(A', p, started[p])
      BY <2>2, <2>4
    <3> QED
      BY <2>1, <2>3, <2>4, <3>1, <3>2, JobTruthKept DEF A
  <2>5. JobTruth(q)'
    <3>1. Known(q)'
      BY <2>1 DEF Known
    <3>2. Unended(q)' => Unended(q)
      BY <2>1, EndedStays DEF Unended
    <3>3. ASSUME Unended(q)' PROVE AsAnnounced(onGoingJobs[q], q)'
      <4>1. CASE Known(q)
        BY <2>1, <3>2, <3>3, <4>1 DEF TruthInv, JobTruth, AsAnnounced, Known
      <4>2. CASE ~ Known(q)
        <5>1. FirstSays(A, q, started[q])
          BY <3>2, <3>3, <4>2 DEF TruthInv, JobTruth, A
        <5>2. props = started[q]
          BY <2>2, <5>1
        <5> QED
          BY <2>1, <4>2, <5>2 DEF AsAnnounced, Known
      <4> QED
        BY <4>1, <4>2
    <3> QED
      BY <2>3, <3>1, <3>3 DEF JobTruth
  <2> QED
    BY <1>1, <2>1, <2>4, <2>5 DEF TruthInv
<1>12. ASSUME NEW q \in JobPaths, NEW ifaces \in OtherLosses \cup {{JobIface}},
              ReadsRemoval(q, ifaces)
       PROVE  TruthInv'
  <2>1. A' = A /\ UNCHANGED <<started, finished, reports>>
    BY <1>0, <1>12 DEF ReadsRemoval, Yields, A
  <2>2. CASE UNCHANGED <<onGoingJobs, report>>
    BY <1>4, <2>1, <2>2
  <2>3. ASSUME ifaces = {JobIface}, Known(q),
               \/ onGoingJobs' = Delete(onGoingJobs, q) /\ report' = <<>>
               \/ /\ onGoingJobs' = onGoingJobs
                  /\ report' = <<Completed(onGoingJobs[q])>>
        PROVE  TruthInv'
    <3>1. Unended(q) /\ ~ Unended(q)'
      BY <1>12, <2>3, EndRead
    <3>2. report' # <<>> => /\ report'[1].path = q
                            /\ report'[1].operation = onGoingJobs[q].operation
                            /\ report'[1].paths = onGoingJobs[q].paths
      BY <2>3, CompletedJob
    <3>3. JobTruth(q)'
      BY <2>1, <2>3, <3>1, <3>2 DEF TruthInv, JobTruth, AsAnnounced, Completing
    <3>4. ASSUME NEW p \in JobPaths, p # q PROVE JobTruth(p)'
      <4>1. /\ Known(p)' <=> Known(p)
            /\ Known(p) => onGoingJobs'[p] = onGoingJobs[p]
        BY <2>3, <3>4 DEF Known, Delete
      <4>2. ~ Completing(p)'
        BY <3>2, <3>4 DEF Completing
      <4> QED
        BY <2>1, <4>1, <4>2, JobTruthKept DEF A
    <3> QED
      BY <1>1, <2>1, <3>3, <3>4 DEF TruthInv
  <2> QED
    BY <1>12, <2>2, <2>3, RemovalTurn
<1>13. CASE ReadsReport
  <2> DEFINE r == report[1]
  <2>0. reports \in Seq([channel : ReportChannels, job : Job])
    BY DEF OnceInv
  <2>1. /\ report # <<>> /\ report' = <<>> /\ UNCHANGED <<started, finished>>
        /\ onGoingJobs' = IF r.wasCompleted THEN Delete(onGoingJobs, r.path)
                          ELSE onGoingJobs
    BY <1>13, <2>0, ReportTurn
  <2>2. PICK n \in Nat :
          /\ DOMAIN reports = 1 .. n /\ DOMAIN reports' = 1 .. n + 1
          /\ \A i \in 1 .. n : reports'[i] = reports[i]
          /\ reports'[n + 1].job = r
    BY <1>13, <2>0, ReportTurn
  <2>3. A' = A
    BY <1>0, <1>13 DEF ReadsReport, PendingUnchanged, A
  <2>4. ASSUME NEW p \in JobPaths PROVE JobTruth(p)'
    <3>1. ~ Completing(p)'
      BY <2>1 DEF Completing
    <3>2. CASE Completing(p)
      <4>1. ~ Unended(p)'
        BY <2>1, <3>2, EndedStays DEF OnceInv, JobOnce
      <4> QED
        BY <3>1, <4>1 DEF JobTruth
    <3>3. CASE ~ Completing(p)
      <4>1. /\ Known(p)' <=> Known(p)
            /\ Known(p) => onGoingJobs'[p] = onGoingJobs[p]
        BY <2>1, <3>3 DEF Known, Delete, Completing
      <4> QED
        BY <2>1, <2>3, <3>1, <4>1, JobTruthKept DEF A
    <3> QED
      BY <3>2, <3>3
  <2>5. ASSUME NEW i \in 1 .. n + 1, NEW p \in JobPaths, CompletionOf(i, p)'
        PROVE  /\ p \in finished'
               /\ reports'[i].job.operation = started'[p].op
               /\ reports'[i].job.paths = getFormattedPaths(started'[p])
    <3>1. CASE i \in 1 .. n
      <4>1. i \in DOMAIN reports /\ CompletionOf(i, p) /\ reports'[i] = reports[i]
        BY <2>2, <2>5, <3>1 DEF CompletionOf
      <4> QED
        BY <4>1, ReportedStaysTrue
    <3>2. CASE i = n + 1
      <4>1. Completing(p)
        BY <2>1, <2>2, <2>5, <3>2 DEF CompletionOf, Completing
      <4>2. AsAnnounced(r, p) /\ p \in DOMAIN started /\ ~ Unended(p)
        BY <4>1 DEF TruthInv, JobTruth, OnceInv, JobOnce
      <4>3. p \in finished
        BY <4>2 DEF Unended
      <4> QED
        BY <2>1, <2>2, <3>2, <4>2, <4>3 DEF AsAnnounced
    <3> QED
      BY <2>2, <3>1, <3>2
  <2>6. ReportsAreTrue'
    BY <2>2, <2>5 DEF ReportsAreTrue
  <2> QED
    BY <2>4, <2>6 DEF TruthInv
<1> QED
  BY <1>3, <1>5, <1>6, <1>7, <1>9, <1>10, <1>11, <1>12, <1>13, PendingSteps
  DEF GainsOther

-----------------------------------------------------------------------------
(* Only an overtaken announcement leaves a job in the map *)

LEMMA MapInit == Init => MapInv
<1> SUFFICES ASSUME Init PROVE MapInv
  OBVIOUS
<1>1. DOMAIN started = {} /\ overtaken = {}
  BY DEF Init, EmptyMap
<1> QED
  BY <1>1 DEF MapInv, JobMapped, Unended

LEMMA JobMappedKept ==
  ASSUME MapInv, NEW p \in JobPaths,
         p \in DOMAIN started' <=> p \in DOMAIN started,
         p \in overtaken' <=> p \in overtaken,
         Unended(p)' <=> Unended(p),
         HasPath(Pending("additions"), p)' <=> HasPath(Pending("additions"), p),
         Known(p)' <=> Known(p),
         Completing(p)' <=> Completing(p)
  PROVE  JobMapped(p)'
  BY DEF MapInv, JobMapped

LEMMA MapStep ==
  ASSUME OnlyEarlierLosses, JobsDecode,
         JobInv, SignalsInv, OnceInv, MapInv, [Next]_vars
  PROVE  MapInv'
<1> DEFINE A == Pending("additions")
           R == Pending("removals")
<1>0. /\ TypeOK
      /\ "additions" \in Watches \ {"removals"} /\ "removals" \in Watches \ {"additions"}
  BY DEF JobInv, Watches
<1>1. finished \subseteq DOMAIN started /\ overtaken \subseteq JobPaths
  BY <1>0 DEF TypeOK, MapInv
<1>Overtaken. overtaken' \subseteq JobPaths
  BY <1>1, PendingSteps
  DEF AnnouncesJob, StartJob, ReannounceJob, Disturb, EndsJob, FinishJob, LosesOther,
      LoseInterfaces, GainsOther, Drops, ReadsAddition, ReadsRemoval, ReadsReport,
      ReadReport, Rests, tracked
<1> SUFFICES \A p \in JobPaths : JobMapped(p)'
  BY <1>Overtaken DEF MapInv
<1>2. ASSUME UNCHANGED <<onGoingJobs, report, overtaken>>, NEW p \in JobPaths,
             p \in DOMAIN started' <=> p \in DOMAIN started,
             Unended(p)' <=> Unended(p), HasPath(A', p) <=> HasPath(A, p)
      PROVE  JobMapped(p)'
  <2>1. (Known(p)' <=> Known(p)) /\ (Completing(p)' <=> Completing(p))
    BY <1>2 DEF Known, Completing
  <2> QED
    BY <1>2, <2>1, JobMappedKept
<1>3. ASSUME NEW p, R' = R \/ (HasEnd(R', p) <=> HasEnd(R, p)), finished' = finished,
             p \in DOMAIN started' <=> p \in DOMAIN started
      PROVE  Unended(p)' <=> Unended(p)
  BY <1>3 DEF Unended
<1> HIDE DEF A, R
<1>4. ASSUME NEW q \in JobPaths, NEW props \in Announced, AnnouncesJob(q, props)
      PROVE  \A p \in JobPaths : JobMapped(p)'
  <2> DEFINE e == Added(q, props)
  <2>1. e \in Event /\ e.path = q
    BY JobAdditionFacts
  <2>2. /\ Gains("additions", e) /\ R' = R
        /\ UNCHANGED <<onGoingJobs, report, overtaken, finished>>
    BY <1>0, <1>4
    DEF AnnouncesJob, StartJob, ReannounceJob, Disturb, jobManagerVars, Gains, R
  <2> HIDE DEF e
  <2>3. \A p : HasPath(A', p) <=> HasPath(A, p) \/ q = p
    BY <1>0, <2>1, <2>2, AfterGain DEF A
  <2>4. q \notin finished /\ DOMAIN started' = DOMAIN started \cup {q}
    BY <1>1, <1>4 DEF AnnouncesJob, StartJob, ReannounceJob, Disturb, Running, Put
  <2>5. JobMapped(q)'
    <3>1. Unended(q)'
      BY <2>2, <2>4 DEF Unended
    <3>2. q \notin overtaken
      BY <2>4 DEF MapInv, JobMapped, Unended
    <3> QED
      BY <2>2, <2>3, <3>1, <3>2 DEF JobMapped, A
  <2>6. ASSUME NEW p \in JobPaths, p # q PROVE JobMapped(p)'
    BY <1>2, <1>3, <2>2, <2>3, <2>4, <2>6
  <2> QED
    BY <2>5, <2>6 DEF MapInv
<1>5. ASSUME NEW q \in JobPaths, EndsJob(q) PROVE \A p \in JobPaths : JobMapped(p)'
  <2> DEFINE e == Removed(q, {JobIface})
  <2>1. e \in Event /\ \A p : IsEnd(e, p) <=> p = q
    BY JobRemovalFacts
  <2>2. /\ Gains("removals", e) /\ A' = A
        /\ UNCHANGED <<onGoingJobs, report, overtaken, started>>
        /\ q \in DOMAIN started \ finished /\ finished' = finished \cup {q}
    BY <1>0, <1>5 DEF EndsJob, FinishJob, Running, jobManagerVars, Gains, A
  <2> HIDE DEF e
  <2>3. \A p : HasEnd(R', p) <=> HasEnd(R, p) \/ p = q
    BY <1>0, <2>1, <2>2, AfterGain DEF R
  <2>4. \A p : Unended(p)' <=> Unended(p)
    BY <2>2, <2>3 DEF Unended, R
  <2> QED
    BY <1>2, <2>2, <2>4 DEF MapInv
<1>6. ASSUME NEW q \in JobPaths, NEW ifaces \in OtherLosses, LosesOther(q, ifaces)
      PROVE  \A p \in JobPaths : JobMapped(p)'
  <2> DEFINE e == Removed(q, ifaces)
  <2>1. ifaces # {JobIface}
    BY OtherLossesAssumption
  <2>2. e \in Event /\ \A p : ~ IsEnd(e, p)
    BY <2>1, JobRemovalFacts
  <2>3. /\ Gains("removals", e) /\ A' = A
        /\ UNCHANGED <<onGoingJobs, report, overtaken, started, finished>>
    BY <1>0, <1>6 DEF LosesOther, LoseInterfaces, Disturb, jobManagerVars, Gains, A
  <2> HIDE DEF e
  <2>4. \A p : HasEnd(R', p) <=> HasEnd(R, p)
    BY <1>0, <2>2, <2>3, AfterGain DEF R
  <2> QED
    BY <1>2, <1>3, <2>3, <2>4 DEF MapInv
<1>7. ASSUME R' = R, UNCHANGED tracked, \A p \in JobPaths : HasPath(A', p) <=> HasPath(A, p)
      PROVE  \A p \in JobPaths : JobMapped(p)'
  BY <1>2, <1>3, <1>7 DEF MapInv, tracked
<1>8. CASE GainsOther
  <2>1. PICK e \in OtherEvents : Gains("additions", e) /\ UNCHANGED tracked
    BY <1>8 DEF GainsOther
  <2>2. \A p \in JobPaths : HasPath(A', p) <=> HasPath(A, p)
    BY <1>0, <2>1, AfterGain DEF A, OtherEvents
  <2>3. R' = R
    BY <1>0, <2>1 DEF Gains, R
  <2> QED
    BY <1>7, <2>1, <2>2, <2>3
<1>9. CASE Drops
  <2>1. PICK w \in Watches, e \in Event :
          e \in Undecodable \cup OtherEvents /\ Yields(w, e) /\ UNCHANGED tracked
    BY <1>9 DEF Drops
  <2>2. e.path \notin JobPaths
    BY <2>1 DEF JobsDecode, OtherEvents
  <2>3. w = "additions"
    <3>1. ASSUME w = "removals" PROVE FALSE
      <4>1. e \in JobRemovals
        BY <1>0, <2>1, <3>1, YieldedEvent DEF SignalsInv
      <4> QED
        BY <2>2, <4>1 DEF JobRemovals, Removed
    <3> QED
      BY <3>1 DEF Watches
  <2>4. \A p \in JobPaths : HasPath(A', p) <=> HasPath(A, p)
    BY <1>0, <2>1, <2>2, <2>3, AfterYield DEF A
  <2>5. R' = R
    BY <1>0, <2>1, <2>3 DEF Yields, R
  <2> QED
    BY <1>7, <2>1, <2>4, <2>5
<1>10. CASE Rests
  BY <1>0, <1>7, <1>10 DEF Rests, PendingUnchanged, A, R
<1>11. ASSUME NEW q \in JobPaths, NEW props \in Announced, ReadsAddition(q, props)
       PROVE  \A p \in JobPaths : JobMapped(p)'
  <2>1. /\ report = <<>>
        /\ UNCHANGED <<started, finished, overtaken>>
        /\ report' # <<>> => ~ report'[1].wasCompleted
        /\ DOMAIN onGoingJobs' = DOMAIN onGoingJobs \cup {q}
    BY <1>11, AdditionTurn
  <2>2. \A p : HasPath(A, p) <=> HasPath(A', p) \/ q = p
    BY <1>0, <1>11, AfterYield, JobAdditionFacts DEF ReadsAddition, A
  <2>3. R' = R
    BY <1>0, <1>11 DEF ReadsAddition, Yields, R
  <2>4. ASSUME NEW p \in JobPaths PROVE JobMapped(p)'
    <3>1. /\ ~ Completing(p) /\ ~ Completing(p)'
          /\ Known(p)' <=> Known(p) \/ p = q
      BY <2>1 DEF Completing, Known
    <3>2. Unended(p)' <=> Unended(p)
      BY <1>3, <2>1, <2>3
    <3>3. JobMapped(p)
      BY DEF MapInv
    <3> QED
      BY <2>1, <2>2, <3>1, <3>2, <3>3 DEF JobMapped, A
  <2> QED
    BY <2>4 DEF MapInv
<1>12. ASSUME NEW q \in JobPaths, NEW ifaces \in OtherLosses \cup {{JobIface}},
              ReadsRemoval(q, ifaces)
       PROVE  \A p \in JobPaths : JobMapped(p)'
  <2>1. /\ report = <<>> /\ A' = A /\ UNCHANGED <<started, finished>>
        /\ overtaken' = IF ifaces = {JobIface} /\ HasPath(A, q)
                        THEN overtaken \cup {q} ELSE overtaken
    BY <1>0, <1>12, RemovalTurn DEF ReadsRemoval, Yields, A
  <2>2. \A p : HasEnd(R, p) <=> HasEnd(R', p) \/ (p = q /\ ifaces = {JobIface})
    BY <1>0, <1>12, AfterYield, JobRemovalFacts DEF ReadsRemoval, R
  <2>3. ASSUME NEW p, p # q \/ ifaces # {JobIface} PROVE Unended(p)' <=> Unended(p)
    BY <1>3, <2>1, <2>2, <2>3
  <2>4. ASSUME NEW p \in JobPaths, p # q \/ ifaces # {JobIface} PROVE JobMapped(p)'
    <3>1. /\ Known(p)' <=> Known(p)
          /\ ~ Completing(p) /\ ~ Completing(p)'
      <4>1. CASE UNCHANGED <<onGoingJobs, report>>
        BY <2>1, <4>1 DEF Known, Completing
      <4>2. CASE p # q /\ onGoingJobs' = Delete(onGoingJobs, q) /\ report' = <<>>
        BY <2>1, <4>2 DEF Known, Delete, Completing
      <4>3. CASE /\ p # q /\ Known(q) /\ onGoingJobs' = onGoingJobs
                 /\ report' = <<Completed(onGoingJobs[q])>>
        <5>1. report'[1].path = q
          BY <4>3, CompletedJob
        <5> QED
          BY <2>1, <4>3, <5>1 DEF Known, Completing
      <4> QED
        BY <1>12, <2>4, <4>1, <4>2, <4>3, RemovalTurn
    <3>2. p \in overtaken' <=> p \in overtaken
      BY <2>1, <2>4
    <3> QED
      BY <2>1, <2>3, <2>4, <3>1, <3>2, JobMappedKept DEF A
  <2>5. ASSUME ifaces = {JobIface} PROVE JobMapped(q)'
    <3>1. Unended(q) /\ ~ Unended(q)' /\ q \in DOMAIN started
      BY <1>12, <2>5, EndRead
    <3>2. q \notin overtaken /\ (Known(q) \/ HasPath(A, q))
      BY <3>1 DEF MapInv, JobMapped, A
    <3>3. Known(q)' => Completing(q)' \/ ~ Known(q)
      <4>1. CASE onGoingJobs' = Delete(onGoingJobs, q)
        BY <4>1 DEF Known, Delete
      <4>2. CASE report' = <<Completed(onGoingJobs[q])>> /\ Known(q)
        BY <4>2, CompletedJob DEF Completing
      <4>3. CASE ~ Known(q)
        BY <4>3
      <4> QED
        BY <1>12, <2>5, <4>1, <4>2, <4>3, RemovalTurn
    <3>4. q \in overtaken' <=> HasPath(A', q)
      BY <2>1, <2>5, <3>2
    <3>5. Known(q)' => q \in overtaken' \/ Completing(q)'
      BY <2>1, <3>2, <3>3, <3>4
    <3> QED
      BY <2>1, <3>1, <3>4, <3>5 DEF JobMapped, A
  <2> QED
    BY <2>4, <2>5 DEF MapInv
<1>13. CASE ReadsReport
  <2> DEFINE r == report[1]
  <2>1. /\ report # <<>> /\ report' = <<>> /\ UNCHANGED <<started, finished, overtaken>>
        /\ onGoingJobs' = IF r.wasCompleted THEN Delete(onGoingJobs, r.path)
                          ELSE onGoingJobs
    BY <1>13, ReportTurn DEF OnceInv
  <2>2. A' = A /\ R' = R
    BY <1>0, <1>13 DEF ReadsReport, PendingUnchanged, A, R
  <2>3. ASSUME NEW p \in JobPaths PROVE JobMapped(p)'
    <3>1. ~ Completing(p)' /\ (Unended(p)' <=> Unended(p))
      BY <1>3, <2>1, <2>2 DEF Completing
    <3>2. CASE Completing(p)
      <4>1. ~ Known(p)'
        BY <2>1, <3>2 DEF Completing, Known, Delete
      <4>2. ~ Unended(p)'
        BY <3>1, <3>2 DEF OnceInv, JobOnce
      <4>3. JobMapped(p)
        BY DEF MapInv
      <4> QED
        BY <2>1, <2>2, <3>1, <3>2, <4>1, <4>2, <4>3 DEF JobMapped, A
    <3>3. CASE ~ Completing(p)
      <4>1. Known(p)' <=> Known(p)
        BY <2>1, <3>3 DEF Known, Delete, Completing
      <4> QED
        BY <2>1, <2>2, <3>1, <3>3, <4>1, JobMappedKept DEF A
    <3> QED
      BY <3>2, <3>3
  <2> QED
    BY <2>3 DEF MapInv
<1> QED
  BY <1>4, <1>5, <1>6, <1>8, <1>9, <1>10, <1>11, <1>12, <1>13, PendingSteps

-----------------------------------------------------------------------------
(* When nothing is on its way, the map is what UDisks2 runs and what was
   overtaken. *)
LEMMA QuietMap == JobInv /\ SignalsInv /\ MapInv => OngoingJobsMatchUDisks2
<1> SUFFICES ASSUME JobInv, SignalsInv, MapInv, Quiet
             PROVE  DOMAIN onGoingJobs = Running \cup overtaken
  BY DEF OngoingJobsMatchUDisks2
<1>1. Pending("additions") = <<>> /\ Pending("removals") = <<>> /\ report = <<>>
  <2>1. ASSUME NEW w \in Watches PROVE Pending(w) = <<>>
    <3>1. held[w] = <<>> /\ watch[w] = <<>>
      BY DEF Quiet
    <3> QED
      BY <3>1, ConcatEmptySeq, EmptySeq DEF Pending
  <2> QED
    BY <2>1 DEF Watches, Quiet
<1>2. \A p : /\ ~ HasPath(Pending("additions"), p)
             /\ ~ HasEnd(Pending("removals"), p)
             /\ ~ Completing(p)
  BY <1>1 DEF HasPath, HasEnd, Completing
<1>3. \A p : Unended(p) <=> p \in Running
  BY <1>2 DEF Unended, Running
<1>4. DOMAIN onGoingJobs \subseteq JobPaths /\ DOMAIN started \subseteq JobPaths
  BY DEF JobInv, TypeOK
<1>5. DOMAIN onGoingJobs \subseteq DOMAIN started
  BY DEF SignalsInv
<1>6. overtaken \subseteq JobPaths
  BY DEF MapInv, JobMapped
<1>7. ASSUME NEW p \in JobPaths PROVE Known(p) <=> p \in Running \/ p \in overtaken
  BY <1>2, <1>3, <1>5 DEF MapInv, JobMapped, Known
<1> QED
  BY <1>4, <1>6, <1>7 DEF Known, Running

-----------------------------------------------------------------------------
LEMMA OnceInvariance ==
  ASSUME OnlyEarlierLosses
  PROVE  Spec => [](JobInv /\ SignalsInv /\ OnceInv)
<1> DEFINE I == JobInv /\ SignalsInv /\ OnceInv
<1>1. Init => I
  BY InitInv, SignalsInit, OnceInit
<1>2. I /\ [Next]_vars => I'
  BY StepInv, SignalsStep, OnceStep
<1> QED
  BY <1>1, <1>2, PTL DEF Spec

(* However many jobs UDisks2 runs, announces again and ends, and however the
   dispatcher's goroutines delay their signals, no job is reported completed
   twice and none but a mount before it was reported started
   (jobs.go:76-106, 143-154).  What a job path loses besides Job must sort
   before Job: the search of jobs.go:78 takes any later name for it. *)
THEOREM ReportedOnce ==
  ASSUME OnlyEarlierLosses
  PROVE  Spec => []ReportedOnceInOrder
<1>1. JobInv /\ SignalsInv /\ OnceInv => ReportedOnceInOrder
  BY DEF OnceInv
<1> QED
  BY <1>1, OnceInvariance, PTL

(* What is reported completed has ended, and carries the operation and the
   paths it was first announced with, not those of a later announcement
   (jobs.go:76-82, 126-130), if the announcements of jobs can be decoded:
   of one that is lost, the next would pass for the first. *)
THEOREM TrueReports ==
  ASSUME OnlyEarlierLosses, AnnouncementsDecode
  PROVE  Spec => []ReportsAreTrue
<1> DEFINE I == JobInv /\ SignalsInv /\ OnceInv
<1>1. Init => TruthInv
  BY TruthInit
<1>2. I /\ TruthInv /\ [Next]_vars => TruthInv'
  BY TruthStep
<1>3. TruthInv => ReportsAreTrue
  BY DEF TruthInv
<1>4. Spec => []I
  BY OnceInvariance
<1> HIDE DEF I
<1> QED
  BY <1>1, <1>2, <1>3, <1>4, PTL DEF Spec

(* The map of ongoing jobs leaks a job only when its end overtook an
   announcement on the way through the two goroutines (dispatcher.go:98-122,
   jobs.go:37-39), and forgets none, if all messages about jobs can be
   decoded: an end that is not leaves its job in the map too. *)
THEOREM MapMatches ==
  ASSUME OnlyEarlierLosses, JobsDecode
  PROVE  Spec => []OngoingJobsMatchUDisks2
<1> DEFINE I == JobInv /\ SignalsInv /\ OnceInv
<1>1. Init => MapInv
  BY MapInit
<1>2. I /\ MapInv /\ [Next]_vars => MapInv'
  BY MapStep
<1>3. I /\ MapInv => OngoingJobsMatchUDisks2
  BY QuietMap
<1>4. Spec => []I
  BY OnceInvariance
<1> HIDE DEF I
<1> QED
  BY <1>1, <1>2, <1>3, <1>4, PTL DEF Spec
=============================================================================
