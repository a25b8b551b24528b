--------------------------- MODULE StorageClient ---------------------------
(***************************************************************************)
(* The udisks2 package of one process, put together: the dispatcher, the   *)
(* job manager and the storage watcher, on top of UDisks2.  Who reads the  *)
(* channels of the storage watcher, the daemon or the user interface, the  *)
(* modules that extend this one say.                                       *)
(***************************************************************************)
EXTENDS UDisks2Service, JobManager, StorageWatcher, SequencesExt

CONSTANT MountpointOf   \* block device -> the mount point UDisks2 gives it

(* Mount points differ, and are not object paths. *)
ASSUME MountpointOfAssumption ==
  \A b \in Blocks :
    /\ MountpointOf[b] \notin Blocks \cup {None}
    /\ \A c \in Blocks : MountpointOf[c] = MountpointOf[b] => c = b

(* The answer to GetManagedObjects ends. *)
ASSUME FiniteAssumption == IsFiniteSet(Drives) /\ IsFiniteSet(Blocks)

VARIABLES overtaken,   \* history: block devices with a job whose end overtook its start
          forgotten,   \* history: block devices the drives map has lost, or did
                       \* not have yet when their new file system came
          formatted,   \* history: block devices reported formatted to the loop
          early        \* history: block devices whose new file system came before that

clientHistory == <<overtaken, forgotten, formatted, early>>
packageVars == <<dispatcherVars, jobManagerVars, watcherVars>>
clientVars == <<packageVars, clientHistory>>

ClientInit ==
  /\ DispatcherInit /\ JobManagerInit /\ WatcherInit
  /\ overtaken = {} /\ forgotten = {} /\ formatted = {} /\ early = {}

(* The package of the process that upstart starts after this one died. *)
ClientRestarts ==
  /\ watch' = [w \in Watches |-> <<>>] /\ held' = [w \in Watches |-> <<>>]
  /\ onGoingJobs' = EmptyMap /\ report' = <<>>
  /\ drives' = EmptyMap /\ mountpoints' = EmptyMap /\ pendingMounts' = {}
  /\ mapLock' = None /\ existing' = <<>> /\ arriving' = EmptyBag
  /\ at' = [g \in Goroutines |-> IF g = "loop" THEN Rest(g)
                                 ELSE [point |-> "getManagedObjects"]]
  /\ UNCHANGED clientHistory

Fetch(w) ==
  /\ DispatcherStep(w)
  /\ UNCHANGED <<jobManagerVars, watcherVars, clientHistory>>

(* The announcements of p that the additions goroutine still has to deliver. *)
Undelivered(p) == {a \in Range(held["additions"] \o watch["additions"]) : a.path = p}

DispatchJob(w) ==
  /\ held[w] # <<>>
  /\ LET e == held[w][1]
     IN  /\ Send(w, "Jobs", e)
         /\ ReadJob(e)
         /\ overtaken' = IF isRemovalEvent(e)
                         THEN overtaken \cup
                              UNION {Range(a.props.objects) : a \in Undelivered(e.path)}
                         ELSE overtaken
  /\ UNCHANGED <<watcherVars, forgotten, formatted, early>>

DispatchDevice(w) ==
  /\ held[w] # <<>>
  /\ \/ Send(w, "Additions", held[w][1]) /\ ReadAddition(held[w][1])
     \/ Send(w, "Removals", held[w][1]) /\ ReadRemoval(held[w][1])
  /\ UNCHANGED <<jobManagerVars, clientHistory>>

PassReport ==
  /\ report # <<>>
  /\ \E c \in {"FormatEraseJobs", "FormatMkfsJobs", "UnmountJobs", "MountJobs"} :
       Forward(c, report[1])
  /\ ReadReport(report[1])
  /\ formatted' = IF report[1].wasCompleted /\ report[1].operation = Mkfs
                  THEN formatted \cup Range(report[1].paths) ELSE formatted
  /\ UNCHANGED <<dispatcherVars, overtaken, forgotten, early>>

Held(dm) == UNION {DOMAIN dm[d].blockDevices : d \in DOMAIN dm}

(* The block device whose new file system g is about to add. *)
EnteredByFilesystem(g) ==
  IF at[g].point = "add" /\ at[g].event.path \in Blocks
       /\ ~ at[g].event.props.block
  THEN {at[g].event.path} ELSE {}

Watch(g) ==
  /\ WatcherStep(g)
  /\ forgotten' = forgotten \cup (Held(drives) \ Held(drives'))
                           \cup (EnteredByFilesystem(g) \ Held(drives))
  /\ early' = IF EnteredByFilesystem(g) \subseteq formatted THEN early
              ELSE early \cup EnteredByFilesystem(g)
  /\ UNCHANGED <<dispatcherVars, jobManagerVars, overtaken, formatted>>

(* The two D-Bus queries of the storage watcher. *)
AnswerManagedObjects ==
  /\ \E ds \in SetToSeqs(managedDrives), bs \in SetToSeqs(managedBlocks) :
       ListExisting(ds \o bs)
  /\ UNCHANGED <<dispatcherVars, jobManagerVars, clientHistory>>

AnswerMountpoints ==
  /\ at["loop"].point = "mountpointsForPath"
  /\ LET b == Head(at["loop"].paths)
     IN  MountFinished(IF b \in mounted THEN MountpointOf[b] ELSE None)
  /\ UNCHANGED <<dispatcherVars, jobManagerVars, clientHistory>>

(* The same queries when they fail, or their answer cannot be read: the
   storage watcher logs it and goes on as if there were no devices, or as
   if the block device were not mounted. *)
RefuseManagedObjects ==
  /\ left.failing
  /\ ListExisting(<<>>)
  /\ UNCHANGED <<dispatcherVars, jobManagerVars, clientHistory>>

RefuseMountpoints ==
  /\ left.failing
  /\ MountFinished(None)
  /\ UNCHANGED <<dispatcherVars, jobManagerVars, clientHistory>>

(* What the package does on its own: UDisks2 answers, but does not change. *)
ClientStep ==
  /\ \/ \E w \in Watches : Fetch(w) \/ DispatchJob(w) \/ DispatchDevice(w)
     \/ PassReport
     \/ \E g \in Goroutines : Watch(g)
     \/ AnswerManagedObjects
     \/ AnswerMountpoints
  /\ UNCHANGED serviceVars

(* The loop goes over the drives map without its lock while the goroutine
   of Init writes it, now that it can have the lock, or now that the reader
   of formatCompleted takes what it sends: the two overlap, a fatal error
   of the Go runtime. *)
MapAccessRaces(formatsRead) ==
  /\ at["loop"].point = "mountpointsForPath"
  /\ Head(at["loop"].paths) \in mounted
  /\ \/ at["init"].point = "add" /\ mapLock = None /\ ~ Remounts(at["init"].event)
     \/ at["init"].point = "formatCompleted" /\ formatsRead

-----------------------------------------------------------------------------
ClientTypeOK ==
  /\ DOMAIN drives \subseteq Drives \cup Blocks
  /\ \A d \in DOMAIN drives :
       /\ drives[d].mounted \in BOOLEAN
       /\ \A b \in DOMAIN drives[d].blockDevices : drives[d].blockDevices[b] \in BlockProps
  /\ DOMAIN mountpoints \subseteq Blocks
  /\ pendingMounts \subseteq Blocks
  /\ mapLock \in Goroutines \cup {None}
  /\ BagToSet(arriving) \subseteq
       [path : Drives, mountpoint : {MountpointOf[b] : b \in Blocks}]
  /\ \A w \in Watches : watch[w] \in Seq(Event) /\ held[w] \in Seq(Event)
  /\ \A p \in DOMAIN onGoingJobs : onGoingJobs[p] \in Job

(* Whoever holds mapLock is on its way to give it back: it is about to
   send, in processAddEvent, and to unlock after that. *)
LockedOnlyWhileSending ==
  \A g \in Goroutines :
    mapLock = g <=>
      \/ at[g].point \in {"formatCompleted", "blockAdded", "blockError"}
      \/ at[g].point = "blockDevice" /\ at[g].added

(* Nothing left to do for the package, nor for UDisks2 unless asked. *)
ClientQuiet ==
  /\ \A w \in Watches : watch[w] = <<>> /\ held[w] = <<>>
  /\ report = <<>>
  /\ at = [g \in Goroutines |-> Rest(g)] /\ existing = <<>> /\ arriving = EmptyBag
  /\ running = EmptyMap /\ unprobed = {}
=============================================================================
