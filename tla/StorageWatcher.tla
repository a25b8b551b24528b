--------------------------- MODULE StorageWatcher ---------------------------
(***************************************************************************)
(* udisks2/udisks2.go: the storage watcher.  One goroutine, the loop,      *)
(* reads the dispatcher's and the job manager's channels; the goroutine    *)
(* that called Init walks over the devices that exist already; and every   *)
(* finished mount gets a goroutine that waits for its mount point to       *)
(* appear.  What they find is sent on unbuffered channels to the           *)
(* application.  A goroutine runs here from one point where it may have to *)
(* wait (a lock, a channel, a D-Bus reply) to the next.                    *)
(***************************************************************************)
EXTENDS Events, Bags

CONSTANT Subscribed    \* the channels the application asked for before Init

VARIABLES drives,         \* path -> drive
          mountpoints,    \* block device -> where it is mounted
          pendingMounts,  \* the (sorted) paths to mount again
          mapLock,        \* the goroutine that holds it, or None
          at,             \* what each goroutine is waiting to do
          existing,       \* the devices emitExistingDevices has still to add
          arriving        \* the mounts being waited for, a bag of MountEvents

watcherVars ==
  <<drives, mountpoints, pendingMounts, mapLock, at, existing, arriving>>

Goroutines == {"loop", "init"}

ASSUME GoroutinesAssumption == None \notin Goroutines

(* Where a goroutine is between two events. *)
Rest(g) == [point |-> IF g = "loop" THEN "select" ELSE "existing"]

WatcherInit ==
  /\ drives = EmptyMap
  /\ mountpoints = EmptyMap
  /\ pendingMounts = {}
  /\ mapLock = None
  /\ at = [g \in Goroutines |->
             IF g = "loop" THEN Rest(g) ELSE [point |-> "getManagedObjects"]]
  /\ existing = <<>>
  /\ arriving = EmptyBag

Continue(g, where) == at' = [at EXCEPT ![g] = where]

-----------------------------------------------------------------------------
(* The drives map *)

newDrive(s) ==
  [blockDevices |-> EmptyMap, driveInfo |-> s.props,
   mounted |-> s.path \in Blocks /\ isMounted(s.props)]

hasDriveInterface(d) == "removable" \in DOMAIN d.driveInfo

(* A drive that is announced again replaces the old one and its blocks; a
   block whose drive is unknown becomes an entry of its own. *)
addInterface(s) ==
  CASE s.path \in Drives ->
         Put(drives, s.path, newDrive(s))
    [] s.path \in Blocks /\ s.props.block /\ s.props.drive \in DOMAIN drives ->
         [drives EXCEPT ![s.props.drive].blockDevices = Put(@, s.path, s.props),
                        ![s.props.drive].mounted = isMounted(s.props)]
    [] s.path \in Blocks /\ s.props.block /\ s.props.drive \notin DOMAIN drives ->
         Put(drives, s.path, newDrive(s))
    [] OTHER -> drives

(* Mutant of isBlockDevice: a device the drive knows already is not new. *)
isNewBlockDevice(s) ==
  /\ s.path \in Blocks /\ s.props.block
  /\ \A d \in DOMAIN drives : s.path \notin DOMAIN drives[d].blockDevices

(* addInterface's result: getDrive needs the Block interface. *)
isBlockDevice(s) == s.path \in Blocks /\ s.props.block

(* hasSystemBlockDevices answers with the hint of the first block device it
   comes across, in the order of a map iteration. *)
SystemHints(d) ==
  IF d.blockDevices = EmptyMap THEN {FALSE}
  ELSE {d.blockDevices[b].system : b \in DOMAIN d.blockDevices}

(* desiredMountableEvent: the channels on which the block device may be
   announced ("none": on neither).  dm is the map after addInterface. *)
MountableOn(s, dm) ==
  IF /\ isFilesystem(s.props) /\ ~ isMounted(s.props)
     /\ s.props.drive \in DOMAIN dm
     /\ hasDriveInterface(dm[s.props.drive])
     /\ dm[s.props.drive].driveInfo.removable
  THEN {IF hint THEN "none" ELSE IF s.props.fs = "vfat" THEN "blockAdded" ELSE "blockError" :
          hint \in SystemHints(dm[s.props.drive])}
  ELSE {"none"}

(* SetMounted on every drive. *)
HoldersOf(p) == {d \in DOMAIN drives : p \in DOMAIN drives[d].blockDevices}

(* Mutant of MountsOf: the block device instead of the drive. *)
MountsOfBlock(p, mountpoint) ==
  {[path |-> p, mountpoint |-> mountpoint] : d \in HoldersOf(p)}

MountsOf(p, mountpoint) ==
  {[path |-> d, mountpoint |-> mountpoint] : d \in HoldersOf(p)}

-----------------------------------------------------------------------------
(* processAddEvent *)

(* Mutant of Offer: one return without the unlock. *)
OfferKeepsLock(g, s, channel) ==
  /\ mapLock' = g
  /\ Continue(g, IF channel # "none" THEN [point |-> channel, event |-> s]
                 ELSE IF isBlockDevice(s) /\ "blockDevice" \in Subscribed
                      THEN [point |-> "blockDevice", added |-> TRUE]
                      ELSE Rest(g))

(* What is left to do with the lock held: announce the block device on the
   given channel, then its arrival, then the deferred unlock. *)
Offer(g, s, channel) ==
  \/ /\ channel # "none"
     /\ Continue(g, [point |-> channel, event |-> s])
     /\ mapLock' = g
  \/ /\ channel = "none"
     /\ isBlockDevice(s) /\ "blockDevice" \in Subscribed
     /\ Continue(g, [point |-> "blockDevice", added |-> TRUE])
     /\ mapLock' = g
  \/ /\ channel = "none"
     /\ ~ (isBlockDevice(s) /\ "blockDevice" \in Subscribed)
     /\ Continue(g, Rest(g))
     /\ mapLock' = None

AddDevice(g, s) ==
  /\ drives' = addInterface(s)
  /\ IF isBlockDevice(s) /\ {"blockAdded", "blockError"} \subseteq Subscribed
     THEN \E channel \in MountableOn(s, addInterface(s)) : Offer(g, s, channel)
     ELSE Offer(g, s, "none")

(* Mutant of Remounts: the path itself does not count. *)
RemountsLater(s) ==
  s.path \in Blocks /\ SearchFinds(pendingMounts, s.path + 1) /\ isFilesystem(s.props)

(* "must be remounted": the insertion point of the path in pendingMounts
   is not its end.  (A drive's path sorts behind every block device's.) *)
Remounts(s) ==
  s.path \in Blocks /\ SearchFinds(pendingMounts, s.path) /\ isFilesystem(s.props)

EnterAdd(g) ==
  /\ at[g].point = "add"
  /\ mapLock = None
  /\ LET s == at[g].event
     IN  \/ /\ Remounts(s)
            /\ mapLock' = g
            /\ Continue(g, [point |-> "formatCompleted", event |-> s])
            /\ UNCHANGED drives
         \/ /\ ~ Remounts(s)
            /\ AddDevice(g, s)
  /\ UNCHANGED <<mountpoints, pendingMounts, existing, arriving>>

(* The reader of formatCompleted has s: the device is added after that. *)
SendFormatCompleted(g, s) ==
  /\ at[g].point = "formatCompleted" /\ s = at[g].event
  /\ AddDevice(g, s)
  /\ UNCHANGED <<mountpoints, pendingMounts, existing, arriving>>

(* The reader of blockAdded, or of blockError, has s. *)
SendBlock(g, channel, s) ==
  /\ channel \in {"blockAdded", "blockError"}
  /\ at[g].point = channel /\ s = at[g].event
  /\ Offer(g, s, "none")
  /\ UNCHANGED <<drives, mountpoints, pendingMounts, existing, arriving>>

(* The reader of blockDevice knows that a block device came or went; only
   processAddEvent sends it with the lock held. *)
SendBlockDevice(g, added) ==
  /\ at[g].point = "blockDevice" /\ added = at[g].added
  /\ Continue(g, Rest(g))
  /\ mapLock' = IF added THEN None ELSE mapLock
  /\ UNCHANGED <<drives, mountpoints, pendingMounts, existing, arriving>>

-----------------------------------------------------------------------------
(* The loop: additions and removals *)

Selecting == at["loop"].point = "select"

ReadAddition(e) ==
  /\ Selecting
  /\ Continue("loop", [point |-> "add", event |-> e])
  /\ UNCHANGED <<drives, mountpoints, pendingMounts, mapLock, existing, arriving>>

(* Mutant of ReadRemoval: the mount point is not forgotten. *)
ReadRemovalRemembers(e) ==
  /\ Selecting
  /\ Continue("loop",
       IF e.path \in DOMAIN mountpoints /\ FilesystemIface \in e.ifaces
       THEN [point |-> "mountRemoved", path |-> e.path, mountpoint |-> mountpoints[e.path]]
       ELSE [point |-> "remove", path |-> e.path])
  /\ UNCHANGED <<drives, mountpoints, pendingMounts, mapLock, existing, arriving>>

(* processRemoveEvent, up to its first wait.  A mounted device that keeps
   its file system interface makes it return early. *)
ReadRemoval(e) ==
  /\ Selecting
  /\ \/ /\ e.path \in DOMAIN mountpoints
        /\ mountpoints' = Delete(mountpoints, e.path)
        /\ Continue("loop",
             IF "mountRemoved" \in Subscribed /\ FilesystemIface \in e.ifaces
             THEN [point |-> "mountRemoved", path |-> e.path,
                   mountpoint |-> mountpoints[e.path]]
             ELSE Rest("loop"))
     \/ /\ e.path \notin DOMAIN mountpoints
        /\ Continue("loop", [point |-> "remove", path |-> e.path])
        /\ UNCHANGED mountpoints
  /\ UNCHANGED <<drives, pendingMounts, mapLock, existing, arriving>>

SendMountRemoved(mountpoint) ==
  /\ at["loop"].point = "mountRemoved" /\ mountpoint = at["loop"].mountpoint
  /\ Continue("loop", [point |-> "remove", path |-> at["loop"].path])
  /\ UNCHANGED <<drives, mountpoints, pendingMounts, mapLock, existing, arriving>>

(* Mutant of RemoveDevice: the lock is not given back. *)
RemoveDeviceLocks ==
  /\ at["loop"].point = "remove"
  /\ mapLock = None
  /\ mapLock' = "loop"
  /\ drives' = IF at["loop"].path \in Drives THEN Delete(drives, at["loop"].path)
               ELSE drives
  /\ Continue("loop", Rest("loop"))
  /\ UNCHANGED <<mountpoints, pendingMounts, existing, arriving>>

(* The rest of processRemoveEvent: block devices stay in their drive. *)
RemoveDevice ==
  /\ at["loop"].point = "remove"
  /\ mapLock = None
  /\ drives' = IF at["loop"].path \in Drives THEN Delete(drives, at["loop"].path)
               ELSE drives
  /\ Continue("loop", IF "blockDevice" \in Subscribed
                      THEN [point |-> "blockDevice", added |-> FALSE]
                      ELSE Rest("loop"))
  /\ UNCHANGED <<mountpoints, pendingMounts, mapLock, existing, arriving>>

-----------------------------------------------------------------------------
(* The loop: jobs *)

(* What a report from the job manager makes the loop do.  Only a completed
   job has an effect; an erase never has. *)
ReadReport(j) ==
  /\ Selecting
  /\ pendingMounts' = IF j.wasCompleted /\ j.operation = Mkfs
                      THEN pendingMounts \cup {j.paths[i] : i \in DOMAIN j.paths}
                      ELSE pendingMounts
  /\ Continue("loop",
       IF j.wasCompleted /\ j.operation \in {UnmountFs, MountFs} /\ j.paths # <<>>
       THEN [point |-> IF j.operation = MountFs THEN "mountpointsForPath"
                      ELSE "umountCompleted",
             paths |-> j.paths]
       ELSE Rest("loop"))
  /\ UNCHANGED <<drives, mountpoints, mapLock, existing, arriving>>

(* On to the next path of a job. *)
NextPath ==
  Continue("loop", IF Tail(at["loop"].paths) = <<>> THEN Rest("loop")
                   ELSE [at["loop"] EXCEPT !.paths = Tail(@)])

(* The reader of umountCompleted has the path, which is the object path of
   the block device; the mount point is forgotten after that. *)
SendUmountCompleted(path) ==
  /\ at["loop"].point = "umountCompleted" /\ path = Head(at["loop"].paths)
  /\ mountpoints' = Delete(mountpoints, path)
  /\ NextPath
  /\ UNCHANGED <<drives, pendingMounts, mapLock, existing, arriving>>

(* UDisks2 answers where the block device of a finished mount is mounted,
   None if it is not.  The drives map is walked without its lock. *)
MountFinished(mountpoint) ==
  /\ at["loop"].point = "mountpointsForPath"
  /\ LET p == Head(at["loop"].paths)
     IN  \/ /\ mountpoint = None
            /\ UNCHANGED <<mountpoints, drives, arriving>>
         \/ /\ mountpoint # None
            /\ mountpoints' = Put(mountpoints, p, mountpoint)
            /\ drives' = [d \in DOMAIN drives |->
                            IF d \in HoldersOf(p)
                            THEN [drives[d] EXCEPT !.mounted = TRUE] ELSE drives[d]]
            /\ arriving' = arriving (+)
                 SetToBag(MountsOf(p, mountpoint))
  /\ NextPath
  /\ UNCHANGED <<pendingMounts, mapLock, existing>>

(* A mount goroutine sends its event once it sees the mount point, or after
   25 seconds whether it sees it or not. *)
SendMountCompleted(e) ==
  /\ BagIn(e, arriving)
  /\ arriving' = arriving (-) SetToBag({e})
  /\ UNCHANGED <<drives, mountpoints, pendingMounts, mapLock, at, existing>>

-----------------------------------------------------------------------------
(* emitExistingDevices *)

(* GetManagedObjects answers; drives are added before block devices. *)
ListExisting(answer) ==
  /\ at["init"].point = "getManagedObjects"
  /\ existing' = answer
  /\ Continue("init", Rest("init"))
  /\ UNCHANGED <<drives, mountpoints, pendingMounts, mapLock, arriving>>

AddExisting ==
  /\ at["init"].point = "existing"
  /\ existing # <<>>
  /\ existing' = Tail(existing)
  /\ Continue("init", [point |-> "add", event |-> Head(existing)])
  /\ UNCHANGED <<drives, mountpoints, pendingMounts, mapLock, arriving>>

(* The steps in which neither the application nor another component takes
   part. *)
WatcherStep(g) ==
  \/ EnterAdd(g)
  \/ g = "loop" /\ RemoveDevice
  \/ g = "init" /\ AddExisting
=============================================================================
