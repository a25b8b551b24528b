----------------------------- MODULE CiboriumUI -----------------------------
(***************************************************************************)
(* The settings application: the three goroutines of driveControl.Watch,   *)
(* which read the channels of the storage watcher and make the GUI thread  *)
(* look again, with driveControl, the user's requests, the udisks2 package *)
(* and UDisks2.  The daemon, which mounts what it can, is another process. *)
(***************************************************************************)
EXTENDS DriveControl

VARIABLES listener,    \* what each goroutine of Watch is doing
          ours,        \* what of our side of the session is still to come
          stranded     \* is a goroutine waiting to send on a nil channel?

ourVars == <<requestVars, controlVars, listener, ours, stranded>>
vars == <<serviceVars, clientVars, ourVars>>

Listeners == {"devices", "formats", "mounts"}

(* The channels Watch subscribes to. *)
UIChannels ==
  {"blockDevice", "formatCompleted", "formatErrors",
   "umountCompleted", "unmountErrors", "mountCompleted", "mountErrors"}

ASSUME SubscribedAssumption == Subscribed = UIChannels

(* On our side a session says how many dialogs of each kind the user opens,
   whether the daemon is there, to mount what it can, whether the
   application has been up for a while, and which block devices may then have
   been the last of their drive to be added. *)
ASSUME SessionsAssumption ==
  \A s \in Sessions :
    /\ s.dialogs \in [Dialogs -> Nat] /\ s.daemon \in BOOLEAN /\ s.settled \in BOOLEAN
    /\ s.last \subseteq s.card

SessionInit(s) ==
  /\ ServiceInit(s)
  /\ ours = [dialogs |-> s.dialogs, daemon |-> s.daemon]

Fresh(s) ==
  /\ ~ s.settled
  /\ SessionInit(s)
  /\ ClientInit /\ RequestsInit /\ ControlInit
  /\ listener = [l \in Listeners |-> "starting"]
  /\ stranded = FALSE

(* An application that has been up for a while: every block device was
   added, the last one of its drive says whether the drive is mounted, the
   list is refreshed, and nothing else has happened yet. *)
UpdatedDrive(d, mnt) ==
  [blockDevices |-> [b \in {c \in Blocks \cap present : DriveOf[c] = d} |-> blockProps(b)],
   driveInfo |-> driveProps(d), mounted |-> mnt]

Settled(s) ==
  /\ s.settled
  /\ SessionInit(s)
  /\ present = Drives \cup s.card
  /\ DispatcherInit /\ JobManagerInit /\ RequestsInit
  /\ \E last \in [Drives -> s.last] :
       /\ \A d \in Drives : DriveOf[last[d]] = d
       /\ drives = [d \in Drives |-> UpdatedDrive(d, last[d] \in mounted)]
  /\ mountpoints = EmptyMap /\ pendingMounts = {} /\ mapLock = None
  /\ at = [g \in Goroutines |-> Rest(g)] /\ existing = <<>> /\ arriving = EmptyBag
  /\ overtaken = {} /\ forgotten = {} /\ formatted = {} /\ early = {}
  /\ ExternalDrives \in Listings
  /\ listLen = Len(ExternalDrives) /\ shown = listLen
  /\ Formatting = FALSE /\ FormatError = FALSE
  /\ Unmounting = FALSE /\ UnmountError = FALSE
  /\ refreshes = EmptyBag /\ answers = EmptyBag /\ gui = "idle" /\ dialog = None
  /\ stale = FALSE /\ stranded = FALSE
  /\ listener = [l \in Listeners |-> "select"]

Init == \E s \in Sessions : Fresh(s) \/ Settled(s)

Becomes(l, state) == listener' = [listener EXCEPT ![l] = state]
Listens(l) == listener[l] = "select"

Quietly == UNCHANGED <<serviceVars, dispatcherVars, jobManagerVars, clientHistory, ours, stranded>>

-----------------------------------------------------------------------------
(* A goroutine of Watch that starts: the one of block devices refreshes the
   list first, the other two subscribe to their channels now. *)
Start(l) ==
  /\ listener[l] = "starting"
  /\ Becomes(l, "select")
  /\ IF l = "devices" THEN StartRefresh ELSE UNCHANGED refreshes
  /\ UNCHANGED <<serviceVars, clientVars, requestVars, dialogVars,
                 ExternalDrives, listLen, answers, shown, stale, ours, stranded>>

(* Until then their channels are nil, and a send on nil never returns. *)
LateChannels ==
  [l \in {"formats", "mounts"} |->
     IF l = "formats" THEN {"formatCompleted"} ELSE {"umountCompleted"}]

Strand ==
  /\ \E l \in DOMAIN LateChannels :
       /\ listener[l] = "starting"
       /\ \/ \E g \in Goroutines :
               at[g].point \in LateChannels[l] /\ Continue(g, [point |-> "nil"])
             /\ UNCHANGED arriving
          \/ /\ l = "mounts"
             /\ \E e \in BagToSet(arriving) : arriving' = arriving (-) One(e)
             /\ UNCHANGED at
  /\ stranded' = TRUE
  /\ UNCHANGED <<serviceVars, dispatcherVars, jobManagerVars, clientHistory,
                 requestVars, controlVars, listener, ours,
                 drives, mountpoints, pendingMounts, mapLock, existing>>

(* Mutant of ListenBlockDevice: nothing is refreshed. *)
ListenBlockDeviceOnly(g) ==
  /\ at[g].point = "blockDevice"
  /\ Listens("devices")
  /\ SendBlockDevice(g, at[g].added)
  /\ UNCHANGED <<requestVars, controlVars, listener>>
  /\ Quietly

ListenBlockDevice(g) ==
  /\ at[g].point = "blockDevice"
  /\ Listens("devices")
  /\ SendBlockDevice(g, at[g].added)
  /\ StartRefresh
  /\ UNCHANGED <<requestVars, dialogVars, ExternalDrives, listLen, answers, shown, stale, listener>>
  /\ Quietly

(* Mutant of ListenMountCompleted: nothing is refreshed. *)
ListenMountOnly(e) ==
  /\ Listens("mounts")
  /\ SendMountCompleted(e)
  /\ UNCHANGED <<requestVars, controlVars, listener>>
  /\ Quietly

ListenMountCompleted(e) ==
  /\ Listens("mounts")
  /\ SendMountCompleted(e)
  /\ StartRefresh
  /\ UNCHANGED <<requestVars, dialogVars, ExternalDrives, listLen, answers, shown, stale, listener>>
  /\ Quietly

(* Formatting is over, which QML is told before FormatError is reset. *)
ListenFormatCompleted(g) ==
  /\ at[g].point = "formatCompleted"
  /\ Listens("formats")
  /\ SendFormatCompleted(g, at[g].event)
  /\ Formatting' = FALSE
  /\ Becomes("formats", "changedFormatting")
  /\ UNCHANGED <<requestVars, listVars, FormatError, Unmounting, UnmountError, gui, dialog>>
  /\ Quietly

ListenFormatError(f) ==
  /\ Listens("formats")
  /\ SendFormatError(f)
  /\ FormatError' = TRUE
  /\ Becomes("formats", "changedError")
  /\ UNCHANGED <<watcherVars, listVars, Formatting, Unmounting, UnmountError, gui, dialog>>
  /\ Quietly

(* Mutant of ListenUmountCompleted: QML is not told. *)
ListenUmountUnchanged ==
  /\ at["loop"].point = "umountCompleted"
  /\ Listens("mounts")
  /\ SendUmountCompleted(Head(at["loop"].paths))
  /\ Unmounting' = FALSE
  /\ UNCHANGED <<requestVars, listVars, Formatting, FormatError, UnmountError, gui, dialog,
                 listener>>
  /\ Quietly

ListenUmountCompleted ==
  /\ at["loop"].point = "umountCompleted"
  /\ Listens("mounts")
  /\ SendUmountCompleted(Head(at["loop"].paths))
  /\ Unmounting' = FALSE
  /\ Becomes("mounts", "changedUnmounting")
  /\ UNCHANGED <<requestVars, listVars, Formatting, FormatError, UnmountError, gui, dialog>>
  /\ Quietly

(* The error comes from a goroutine of umount, or from the GUI thread. *)
ListenUnmountError ==
  /\ Listens("mounts")
  /\ \/ \E u \in BagToSet(umounts) : SendUnmountError(u) /\ UNCHANGED <<gui, dialog>>
     \/ SendNotMounted /\ UNCHANGED requestVars
  /\ UnmountError' = TRUE
  /\ Becomes("mounts", "changedError")
  /\ UNCHANGED <<watcherVars, listVars, Formatting, FormatError, Unmounting>>
  /\ Quietly

(* qml.Changed, once the GUI thread has a moment. *)
Changed(l) ==
  /\ gui = "idle"
  /\ \/ /\ l = "formats" /\ listener[l] = "changedFormatting"
        /\ dialog' = Rebound("format", Formatting, FormatError)
        /\ FormatError' = FALSE
        /\ Becomes(l, "changedError")
     \/ /\ l = "formats" /\ listener[l] = "changedError"
        /\ dialog' = Rebound("format", Formatting, FormatError)
        /\ Becomes(l, "select")
        /\ UNCHANGED FormatError
     \/ /\ l = "mounts" /\ listener[l] \in {"changedUnmounting", "changedError"}
        /\ dialog' = Rebound("removal", Unmounting, UnmountError)
        /\ Becomes(l, "select")
        /\ UNCHANGED FormatError
  /\ UNCHANGED <<serviceVars, clientVars, requestVars, listVars, Formatting, Unmounting,
                 UnmountError, gui, ours, stranded>>

-----------------------------------------------------------------------------
(* The user, who is slower than goroutines are to start, and opens a dialog
   as often as the session says. *)
User ==
  /\ \A l \in Listeners : listener[l] # "starting"
  /\ \/ \E kind \in Dialogs : /\ ours.dialogs[kind] > 0
                              /\ ours' = [ours EXCEPT !.dialogs[kind] = @ - 1]
                              /\ OpenDialog(kind) /\ UNCHANGED requestVars
     \/ UNCHANGED ours /\ (DriveFormat \/ DriveUnmount)
     \/ UNCHANGED <<ours, requestVars>> /\ CloseDialog
  /\ UNCHANGED <<serviceVars, clientVars, listVars, listener, stranded>>

(* An index out of range, a GetManagedObjects that fails without a reply, or
   the Go runtime stopping a process in which a map is written and walked
   over at once, ends the application. *)
Writes(g) ==
  \/ mapLock = None /\ at[g].point = "add" /\ ~ Remounts(at[g].event)
  \/ mapLock = None /\ at[g].point = "remove" /\ at[g].path \in Drives
  \/ at[g].point = "formatCompleted" /\ Listens("formats")

WalksMaps(g) ==
  \/ g # "loop" /\ MapAccessRaces(Listens("formats"))
  \/ BagIn("query", refreshes) /\ StartLockFree
  \/ \E f \in BagToSet(formatters) : f.step = "next" /\ f.drive.blocks = None

Dies ==
  /\ \/ NoDrive
     \/ gui = "idle" /\ MissingRow /\ BagIn("changed", refreshes)
     \/ left.failing /\ at["init"].point = "getManagedObjects"
     \/ \E g \in Goroutines : Writes(g) /\ WalksMaps(g)
  /\ gui' = "dead"
  /\ UNCHANGED <<serviceVars, clientVars, requestVars, listVars, flags, dialog,
                 listener, ours, stranded>>

-----------------------------------------------------------------------------
(* The daemon mounts, but leaves alone what somebody has unmounted; and
   other processes unmount. *)
Unrequested == <<held, jobManagerVars, watcherVars, clientHistory, ourVars>>

DaemonMounts(b) == ours.daemon /\ asked[b] # "unmount" /\ StartMount(b)

ServiceStep ==
  /\ \/ \E d \in Drives : InsertDrive(d) \/ RemoveDrive(d)
     \/ \E b \in Blocks : \/ InsertBlock(b) \/ RemoveBlock(b)
                          \/ DaemonMounts(b) \/ StartUnmount(b)
  /\ UNCHANGED Unrequested

JobStep ==
  \/ \E p \in JobPaths : Wipe(p) /\ UNCHANGED Unrequested
  \/ \E b \in Blocks : AnnounceFilesystem(b) /\ UNCHANGED Unrequested
  \/ /\ \E p \in JobPaths : RequestedJobEnds(p)
     /\ UNCHANGED <<held, jobManagerVars, watcherVars, clientHistory, controlVars, listener, ours, stranded>>

RequestStep ==
  /\ \/ /\ \E u \in BagToSet(umounts) : UmountAccepted(u) \/ UmountRefused(u)
        /\ UNCHANGED drives
     \/ \E f \in BagToSet(formatters) :
          FormatContinues(f) \/ FormatQueried(f) \/ FormatAccepted(f)
          \/ PartitionDeleted(f) \/ PartitionForgotten(f) \/ FormatRefused(f)
  /\ UNCHANGED <<held, jobManagerVars, mountpoints, pendingMounts, mapLock, at, existing,
                 arriving, clientHistory, controlVars, listener, ours, stranded>>

(* A step of the package; the copies of a drive it drops keep its map. *)
PackageStep ==
  \/ \E g \in Goroutines :
       /\ Watch(g) /\ DetachRequests(Dropped(g)) /\ DetachControl(Dropped(g))
       /\ UNCHANGED <<serviceVars, dialogVars, listener, ours, stranded>>
  \/ /\ \/ \E w \in Watches : Fetch(w) \/ DispatchJob(w) \/ DispatchDevice(w)
        \/ PassReport
        \/ AnswerManagedObjects \/ RefuseManagedObjects
        \/ AnswerMountpoints \/ RefuseMountpoints
     /\ UNCHANGED <<serviceVars, ourVars>>

ListStep ==
  /\ RefreshStep
  /\ UNCHANGED <<serviceVars, clientVars, requestVars, dialogVars, listener, ours, stranded>>

Listen ==
  \/ \E g \in Goroutines : ListenBlockDevice(g) \/ ListenFormatCompleted(g)
  \/ \E e \in BagToSet(arriving) : ListenMountCompleted(e)
  \/ \E f \in BagToSet(formatters) : ListenFormatError(f)
  \/ ListenUmountCompleted \/ ListenUnmountError
  \/ \E l \in Listeners : Start(l) \/ Changed(l)

GuiStep ==
  /\ WatchReturns
  /\ UNCHANGED <<serviceVars, clientVars, requestVars, listener, ours, stranded>>

Next ==
  /\ gui # "dead"
  /\ \/ ServiceStep \/ JobStep \/ RequestStep \/ PackageStep
     \/ ListStep \/ Listen \/ Strand \/ GuiStep
     \/ User \/ Dies

Spec == Init /\ [][Next]_vars

-----------------------------------------------------------------------------
Copy == [path : Drives, mounted : BOOLEAN, blocks : {None} \cup SUBSET Blocks]

TypeOK ==
  /\ ClientTypeOK
  /\ ExternalDrives \in Seq(Copy) /\ listLen \in Nat /\ shown \in Nat
  /\ flags \in BOOLEAN \X BOOLEAN \X BOOLEAN \X BOOLEAN
  /\ gui \in {"watching", "idle", "unmountErrors", "dead"}
  /\ dialog \in [kind : Dialogs, state : {"confirm", "busy", "error", "finish"}] \cup {None}

(* Nothing left to do but for the user, and nobody waits for ever. *)
Quiet ==
  /\ ClientQuiet /\ ~ stranded
  /\ gui = "idle"
  /\ refreshes = EmptyBag /\ answers = EmptyBag /\ umounts = EmptyBag /\ formatters = EmptyBag
  /\ \A l \in Listeners : Listens(l)

(* The view has as many rows as there are drives in the list, however the
   refreshes overlapped (main.go:179-187). *)
RowsMatchList == Quiet => shown = Len(ExternalDrives) /\ listLen = shown

(* The drives of a list, but for those with a block device that was lost. *)
KeptIn(list) ==
  {list[i] : i \in {j \in DOMAIN list : \A b \in forgotten : DriveOf[b] # list[j].path}}

(* The list is what the storage watcher would answer now: every change to
   the drives map is followed by a refresh (main.go:118-177).  Two
   exceptions: a list that overwrote a newer one, and a drive whose second
   announcement emptied it without a word (udisks2.go:675-678, 483). *)
ListIsCurrent ==
  Quiet /\ ~ stale => \E list \in Listings : KeptIn(ExternalDrives) = KeptIn(list)

(* A dialog does not wait for ever: once nothing is under way it shows the
   end of what was asked for, or its failure.  The exceptions are the jobs
   whose end overtook their start, a file system that came before the end
   of its format (udisks2.go:459-463), and a card that is no longer there
   or that nothing on it could be formatted (udisks2.go:231-242). *)
DialogsEnd ==
  Quiet /\ dialog # None /\ dialog.state = "busy" =>
    \/ Blocks \cap (overtaken \cup early) # {}
    \/ dialog.kind = "format" /\ (Partitionable \cap present) \ forgotten = {}

(* "You can now safely remove the device" (SafeRemoval.qml:92). *)
SafeToRemove ==
  dialog = [kind |-> "removal", state |-> "finish"] => mounted = {}
=============================================================================
