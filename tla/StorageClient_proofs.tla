------------------------ MODULE StorageClient_proofs ------------------------
(***************************************************************************)
(* The udisks2 package on top of UDisks2, for any drives and block devices *)
(* and whatever happens to them, in the daemon and in the settings: what   *)
(* each of its parts holds has its type and says of a device what UDisks2  *)
(* said, and the lock of the drives map is held by the goroutine that      *)
(* sends, or that waits for ever on a channel nobody made.                 *)
(***************************************************************************)
EXTENDS StorageClient, FiniteSetTheorems, SequenceTheorems, TLAPS

-----------------------------------------------------------------------------
(* What passes between UDisks2 and the daemon *)

JobOperations == {Mkfs, UnmountFs, MountFs}

(* UDisks2 says the same of a drive whenever it comes, and of a block device
   which drive it belongs to and, with its Block interface, whether it is a
   device of the system. *)
DriveAdditions == {Added(d, driveProps(d)) : d \in Drives}
BlockAdditions ==
  {e \in [path : Blocks, props : BlockProps, ifaces : {{}}] :
     /\ e.props.drive = DriveOf[e.path]
     /\ e.props.block => e.props.system = (e.path \in SystemBlocks)}
DeviceAdditions == DriveAdditions \cup BlockAdditions
JobAddition(p, op, b) == Added(p, [op |-> op, objects |-> <<b>>])
JobAdditions == {JobAddition(p, op, b) : p \in JobPaths, op \in JobOperations, b \in Blocks}

DeviceRemovals ==
  [path : Drives \cup Blocks, props : {None}, ifaces : (SUBSET Ifaces) \ {{}}]
JobRemovals == {Removed(p, {JobIface}) : p \in JobPaths}

Signals(w) ==
  IF w = "additions" THEN DeviceAdditions \cup JobAdditions
  ELSE DeviceRemovals \cup JobRemovals

OnePath == {<<b>> : b \in Blocks}

Jobs == [path : JobPaths, operation : JobOperations, paths : OnePath, wasCompleted : BOOLEAN]

(* The struct Drive; a block device that has an entry of its own among the
   drives has no block devices. *)
IsDrive(r) ==
  /\ r \in [blockDevices : {r.blockDevices}, driveInfo : DriveProps \cup BlockProps,
            mounted : BOOLEAN]
  /\ DOMAIN r.blockDevices \subseteq Blocks
  /\ \A b \in DOMAIN r.blockDevices : r.blockDevices[b] \in BlockProps

Mountpoints == {MountpointOf[b] : b \in Blocks}

Sending == {"formatCompleted", "blockAdded", "blockError"}

(* On a channel that is still nil: the daemon makes all of its channels in
   time, the settings, which alone asks for blockDevice, does not. *)
Stranded == IF "blockDevice" \in Subscribed THEN {"nil"} ELSE {}

(* What a goroutine of the storage watcher may be waiting to do. *)
Where ==
       [point : {"select", "existing", "getManagedObjects"} \cup Stranded]
  \cup [point : {"add"}, event : DeviceAdditions]
  \cup [point : Sending, event : BlockAdditions]
  \cup [point : {"blockDevice"}, added : BOOLEAN]
  \cup [point : {"remove"}, path : Drives \cup Blocks]
  \cup [point : {"mountRemoved"}, path : Blocks, mountpoint : Mountpoints]
  \cup [point : {"mountpointsForPath", "umountCompleted"}, paths : OnePath]

-----------------------------------------------------------------------------
(* The types *)

ServiceTyped ==
  /\ present \subseteq Drives \cup Blocks
  /\ fs \in [Blocks -> FsTypes]
  /\ mounted \subseteq Blocks
  /\ unprobed \subseteq Blocks
  /\ DOMAIN running \subseteq JobPaths
  /\ \A p \in DOMAIN running : running[p] \in [op : JobOperations, block : Blocks]

DispatcherTyped ==
  /\ watch = [w \in Watches |-> watch[w]]
  /\ held = [w \in Watches |-> held[w]]
  /\ \A w \in Watches :
       /\ watch[w] \in Seq(Signals(w))
       /\ held[w] \in {<<>>} \cup {<<e>> : e \in Signals(w)}

JobsTyped ==
  /\ DOMAIN onGoingJobs \subseteq JobPaths
  /\ \A p \in DOMAIN onGoingJobs : onGoingJobs[p] \in Jobs
  /\ report \in {<<>>} \cup {<<j>> : j \in Jobs}

DrivesTyped ==
  /\ DOMAIN drives \subseteq Drives \cup Blocks
  /\ \A d \in DOMAIN drives : IsDrive(drives[d])
  /\ \A b \in DOMAIN drives \cap Blocks : DOMAIN drives[b].blockDevices = {}
  /\ \A d \in DOMAIN drives \cap Drives : drives[d].driveInfo = driveProps(d)
  /\ \A d \in DOMAIN drives : \A b \in DOMAIN drives[d].blockDevices :
       /\ DriveOf[b] = d
       /\ drives[d].blockDevices[b].system = (b \in SystemBlocks)

MountpointsTyped ==
  /\ DOMAIN mountpoints \subseteq Blocks
  /\ \A b \in DOMAIN mountpoints : mountpoints[b] \in Mountpoints

WatcherTyped ==
  /\ DrivesTyped
  /\ MountpointsTyped
  /\ pendingMounts \subseteq Blocks
  /\ at \in [Goroutines -> Where]
  /\ existing \in Seq(DeviceAdditions)
  /\ BagToSet(arriving) \subseteq [path : Drives, mountpoint : Mountpoints]

HoldsLock(g) == at[g].point \in Sending \/ (at[g].point = "blockDevice" /\ at[g].added)

LockInv ==
  /\ mapLock \in Goroutines \cup {None}
  /\ \A g \in Goroutines :
       /\ HoldsLock(g) => mapLock = g
       /\ mapLock = g => HoldsLock(g) \/ at[g].point = "nil"

WatcherInv == WatcherTyped /\ LockInv

ClientTyped == ServiceTyped /\ DispatcherTyped /\ JobsTyped /\ WatcherInv

-----------------------------------------------------------------------------
(* Where a goroutine of the storage watcher waits *)

LEMMA StrandedFacts == Stranded \subseteq {"nil"}
  BY DEF Stranded

(* What a waiting goroutine has in hand. *)
LEMMA WhereFacts ==
  ASSUME NEW w \in Where
  PROVE  /\ w.point = "add" => w.event \in DeviceAdditions
         /\ w.point \in Sending => w.event \in BlockAdditions
         /\ w.point = "blockDevice" => w.added \in BOOLEAN
         /\ w.point = "remove" => w.path \in Drives \cup Blocks
         /\ w.point = "mountRemoved" => w.path \in Blocks /\ w.mountpoint \in Mountpoints
         /\ w.point \in {"mountpointsForPath", "umountCompleted"} => w.paths \in OnePath
  BY StrandedFacts DEF Where, Sending

(* The same, the other way around: what it may come to wait with. *)
LEMMA MayWait ==
  /\ \A p \in {"select", "existing", "getManagedObjects"} : [point |-> p] \in Where
  /\ \A e \in DeviceAdditions : [point |-> "add", event |-> e] \in Where
  /\ \A p \in Sending, e \in BlockAdditions : [point |-> p, event |-> e] \in Where
  /\ \A a \in BOOLEAN : [point |-> "blockDevice", added |-> a] \in Where
  /\ \A p \in Drives \cup Blocks : [point |-> "remove", path |-> p] \in Where
  /\ \A p \in Blocks, m \in Mountpoints :
       [point |-> "mountRemoved", path |-> p, mountpoint |-> m] \in Where
  /\ \A p \in {"mountpointsForPath", "umountCompleted"}, ps \in OnePath :
       [point |-> p, paths |-> ps] \in Where
  BY DEF Where

(* A goroutine that is done waits at its select or for the next object. *)
LEMMA RestFacts ==
  ASSUME NEW g \in Goroutines
  PROVE  Rest(g) \in Where /\ Rest(g).point \in {"select", "existing"}
  BY MayWait DEF Rest

(* A goroutine that goes on leaves the others where they are. *)
LEMMA Continues ==
  ASSUME at \in [Goroutines -> Where], NEW g \in Goroutines, NEW w \in Where, Continue(g, w)
  PROVE  /\ at' \in [Goroutines -> Where]
         /\ at'[g] = w
         /\ \A h \in Goroutines \ {g} : at'[h] = at[h]
  BY DEF Continue

(* A goroutine that has the lock, or takes it, and keeps it if it sends. *)
LEMMA LockKept ==
  ASSUME LockInv, NEW g \in Goroutines, mapLock \in {g, None}, mapLock' \in {g, None},
         mapLock' = g <=> HoldsLock(g)',
         \A h \in Goroutines \ {g} : at'[h] = at[h]
  PROVE  LockInv'
<1>1. ASSUME NEW h \in Goroutines \ {g} PROVE ~ HoldsLock(h) /\ ~ HoldsLock(h)'
  <2>1. mapLock # h
    BY GoroutinesAssumption
  <2>2. ~ HoldsLock(h)
    BY <2>1 DEF LockInv
  <2>3. HoldsLock(h)' <=> HoldsLock(h)
    BY DEF HoldsLock
  <2> QED
    BY <2>2, <2>3
<1>2. \A h \in Goroutines \ {g} : mapLock' # h
  BY GoroutinesAssumption
<1> QED
  BY <1>1, <1>2, GoroutinesAssumption DEF LockInv

(* A step of a goroutine that neither sends with the lock nor starts to. *)
LEMMA LockUntouched ==
  ASSUME LockInv, NEW g \in Goroutines, ~ HoldsLock(g), at[g].point # "nil",
         ~ HoldsLock(g)', UNCHANGED mapLock,
         \A h \in Goroutines \ {g} : at'[h] = at[h]
  PROVE  LockInv'
<1>1. \A h \in Goroutines \ {g} :
        (HoldsLock(h)' <=> HoldsLock(h)) /\ at'[h].point = at[h].point
  BY DEF HoldsLock
<1> QED
  BY <1>1, GoroutinesAssumption DEF LockInv

-----------------------------------------------------------------------------
(* The drives map *)

(* What UDisks2 says of a device. *)
LEMMA DriveAdded ==
  ASSUME NEW s \in DeviceAdditions, s.path \in Drives
  PROVE  s \in DriveAdditions /\ s.props = driveProps(s.path) /\ s.props \in DriveProps
<1>1. s \notin BlockAdditions
  BY PathsAssumption DEF BlockAdditions
<1>2. PICK d \in Drives : s = Added(d, driveProps(d))
  BY <1>1 DEF DeviceAdditions, DriveAdditions
<1>3. driveProps(d) \in DriveProps
  BY DEF driveProps, DriveProps
<1> QED
  BY <1>2, <1>3 DEF Added, DriveAdditions

LEMMA BlockAdded ==
  ASSUME NEW s \in DeviceAdditions, s.path \notin Drives \/ s.path \in Blocks
  PROVE  /\ s \in BlockAdditions /\ s.path \in Blocks
         /\ s.props \in BlockProps /\ s.props.drive = DriveOf[s.path]
         /\ s.props.block => s.props.system = (s.path \in SystemBlocks)
<1>1. s \notin DriveAdditions
  <2>1. ASSUME NEW d \in Drives, s = Added(d, driveProps(d)) PROVE FALSE
    BY <2>1, PathsAssumption DEF Added
  <2> QED
    BY <2>1 DEF DriveAdditions
<1> QED
  BY <1>1 DEF DeviceAdditions, BlockAdditions

LEMMA DevicePaths ==
  ASSUME NEW s \in DeviceAdditions
  PROVE  s.path \in Drives \cup Blocks /\ s.path \notin JobPaths
  BY BlockAdded, PathsAssumption

(* An announcement makes a drive with no block devices. *)
LEMMA NewDrive ==
  ASSUME NEW s \in DeviceAdditions
  PROVE  /\ IsDrive(newDrive(s)) /\ DOMAIN newDrive(s).blockDevices = {}
         /\ newDrive(s).driveInfo = s.props
<1>1. DOMAIN EmptyMap = {}
  BY DEF EmptyMap
<1>2. s.props \in DriveProps \cup BlockProps
  BY DriveAdded, BlockAdded
<1>3. (s.path \in Blocks /\ isMounted(s.props)) \in BOOLEAN
  OBVIOUS
<1> HIDE DEF EmptyMap
<1> QED
  BY <1>1, <1>2, <1>3 DEF newDrive, IsDrive

(* addInterface keeps the types of the drives map. *)
LEMMA DrivesGain ==
  ASSUME DrivesTyped, NEW s \in DeviceAdditions, drives' = addInterface(s)
  PROVE  DrivesTyped'
<1>1. CASE drives' = Put(drives, s.path, newDrive(s))
  <2> DEFINE r == newDrive(s)
  <2>1. s.path \in Drives \cup Blocks
    BY BlockAdded
  <2>2. s.path \in Drives => r.driveInfo = driveProps(s.path)
    BY DriveAdded, NewDrive
  <2>3. IsDrive(r) /\ DOMAIN r.blockDevices = {}
    BY NewDrive
  <2>4. /\ DOMAIN drives' = DOMAIN drives \cup {s.path} /\ drives'[s.path] = r
        /\ \A x \in DOMAIN drives \ {s.path} : drives'[x] = drives[x]
    BY <1>1 DEF Put
  <2> HIDE DEF r
  <2>5. DOMAIN drives' \subseteq Drives \cup Blocks /\ \A d \in DOMAIN drives' : IsDrive(drives'[d])
    BY <2>1, <2>3, <2>4 DEF DrivesTyped
  <2>6. \A b \in DOMAIN drives' \cap Blocks : DOMAIN drives'[b].blockDevices = {}
    BY <2>3, <2>4 DEF DrivesTyped
  <2>7. \A d \in DOMAIN drives' \cap Drives : drives'[d].driveInfo = driveProps(d)
    BY <2>2, <2>4 DEF DrivesTyped
  <2>8. \A d \in DOMAIN drives' : \A b \in DOMAIN drives'[d].blockDevices :
          /\ DriveOf[b] = d
          /\ drives'[d].blockDevices[b].system = (b \in SystemBlocks)
    BY <2>3, <2>4 DEF DrivesTyped
  <2>9. \A d \in Drives : driveProps(d)' = driveProps(d)
    BY DEF driveProps
  <2> QED
    BY <2>5, <2>6, <2>7, <2>8 DEF DrivesTyped, driveProps
<1>2. CASE drives' = drives
  BY <1>2 DEF DrivesTyped, IsDrive, driveProps
<1>3. CASE /\ s.path \in Blocks /\ s.props.block /\ s.props.drive \in DOMAIN drives
           /\ drives' = [drives EXCEPT ![s.props.drive].blockDevices = Put(@, s.path, s.props),
                                       ![s.props.drive].mounted = isMounted(s.props)]
  <2>1. /\ s.props \in BlockProps /\ s.props.drive = DriveOf[s.path]
        /\ s.props.system = (s.path \in SystemBlocks)
    BY <1>3, BlockAdded
  <2> DEFINE d == s.props.drive
             r == [drives[d] EXCEPT !.blockDevices = Put(@, s.path, s.props),
                                    !.mounted = isMounted(s.props)]
  <2>2. d \in Drives
    BY <2>1 DEF BlockProps
  <2>3. IsDrive(drives[d])
    BY <1>3 DEF DrivesTyped
  <2>4. /\ r \in [blockDevices : {r.blockDevices}, driveInfo : DriveProps \cup BlockProps,
                  mounted : BOOLEAN]
        /\ r.blockDevices = Put(drives[d].blockDevices, s.path, s.props)
    BY <2>3 DEF IsDrive, isMounted
  <2>5. IsDrive(r)
    BY <1>3, <2>1, <2>3, <2>4 DEF IsDrive, Put
  <2>6. DOMAIN drives' = DOMAIN drives /\ drives'[d] = r
        /\ \A x \in DOMAIN drives \ {d} : drives'[x] = drives[x]
    BY <1>3
  <2>7. \A b \in DOMAIN r.blockDevices : DriveOf[b] = d /\ r.blockDevices[b].system = (b \in SystemBlocks)
    BY <1>3, <2>1, <2>4 DEF Put, DrivesTyped
  <2>8. r.driveInfo = drives[d].driveInfo
    BY <2>3 DEF IsDrive
  <2> HIDE DEF r, d
  <2>9. d \notin Blocks
    BY <2>2, PathsAssumption
  <2> QED
    BY <2>2, <2>5, <2>6, <2>7, <2>8, <2>9 DEF DrivesTyped, driveProps
<1>4. CASE s.path \in Drives
  <2>1. s.path \notin Blocks
    BY <1>4, PathsAssumption
  <2> QED
    BY <1>1, <1>4, <2>1 DEF addInterface
<1>5. CASE s.path \notin Drives /\ s.path \in Blocks /\ s.props.block
  BY <1>1, <1>3, <1>5 DEF addInterface
<1>6. CASE s.path \notin Drives /\ ~ (s.path \in Blocks /\ s.props.block)
  BY <1>2, <1>6 DEF addInterface
<1> QED
  BY <1>4, <1>5, <1>6

(* So does a deletion. *)
LEMMA DrivesLose ==
  ASSUME DrivesTyped, NEW d, drives' = Delete(drives, d)
  PROVE  DrivesTyped'
  BY DEF DrivesTyped, Delete, driveProps

-----------------------------------------------------------------------------
(* processAddEvent *)

Channels == {"none", "blockAdded", "blockError"}

(* Announcing a block device: the lock is kept only to send. *)
LEMMA OfferStep ==
  ASSUME WatcherInv, NEW g \in Goroutines, NEW s \in DeviceAdditions, NEW channel \in Channels,
         channel # "none" => s \in BlockAdditions,
         mapLock \in {g, None}, Offer(g, s, channel)
  PROVE  at' \in [Goroutines -> Where] /\ LockInv'
<1>1. at \in [Goroutines -> Where] /\ LockInv
  BY DEF WatcherInv, WatcherTyped
<1>2. CASE channel # "none" /\ Continue(g, [point |-> channel, event |-> s]) /\ mapLock' = g
  <2>1. [point |-> channel, event |-> s] \in Where /\ channel \in Sending
    BY <1>2, MayWait DEF Channels, Sending
  <2>2. /\ at' \in [Goroutines -> Where]
        /\ at'[g] = [point |-> channel, event |-> s]
        /\ \A h \in Goroutines \ {g} : at'[h] = at[h]
    BY <1>1, <1>2, <2>1, Continues
  <2> QED
    BY <1>1, <1>2, <2>1, <2>2, LockKept DEF HoldsLock
<1>3. CASE Continue(g, [point |-> "blockDevice", added |-> TRUE]) /\ mapLock' = g
  <2>1. [point |-> "blockDevice", added |-> TRUE] \in Where
    BY MayWait
  <2>2. /\ at' \in [Goroutines -> Where]
        /\ at'[g] = [point |-> "blockDevice", added |-> TRUE]
        /\ \A h \in Goroutines \ {g} : at'[h] = at[h]
    BY <1>1, <1>3, <2>1, Continues
  <2> QED
    BY <1>1, <1>3, <2>2, LockKept DEF HoldsLock
<1>4. CASE Continue(g, Rest(g)) /\ mapLock' = None
  <2>1. /\ at' \in [Goroutines -> Where]
        /\ at'[g] = Rest(g)
        /\ \A h \in Goroutines \ {g} : at'[h] = at[h]
    BY <1>1, <1>4, RestFacts, Continues
  <2>2. ~ HoldsLock(g)'
    BY <2>1, RestFacts DEF HoldsLock, Sending
  <2> QED
    BY <1>1, <1>4, <2>1, <2>2, LockKept, GoroutinesAssumption
<1> QED
  BY <1>2, <1>3, <1>4 DEF Offer

(* processAddEvent from the lock to the first channel it sends on. *)
LEMMA AddDeviceStep ==
  ASSUME WatcherInv, NEW g \in Goroutines, NEW s \in DeviceAdditions,
         mapLock \in {g, None}, AddDevice(g, s),
         UNCHANGED <<mountpoints, pendingMounts, existing, arriving>>
  PROVE  WatcherInv'
<1>1. DrivesTyped'
  BY DrivesGain DEF AddDevice, WatcherInv, WatcherTyped
<1>2. \E channel \in Channels :
        Offer(g, s, channel) /\ (channel # "none" => s \in BlockAdditions)
  <2>1. isBlockDevice(s) => s \in BlockAdditions
    BY BlockAdded DEF isBlockDevice
  <2>2. \A dm : MountableOn(s, dm) \subseteq Channels
    BY DEF MountableOn, Channels
  <2> QED
    BY <2>1, <2>2 DEF AddDevice, Channels
<1>3. at' \in [Goroutines -> Where] /\ LockInv'
  BY <1>2, OfferStep
<1> QED
  BY <1>1, <1>3 DEF WatcherInv, WatcherTyped, MountpointsTyped

(* processAddEvent waits for the lock. *)
LEMMA EnterAddStep ==
  ASSUME WatcherInv, NEW g \in Goroutines, EnterAdd(g)
  PROVE  WatcherInv'
<1>1. at \in [Goroutines -> Where] /\ LockInv
  BY DEF WatcherInv, WatcherTyped
<1> DEFINE s == at[g].event
<1>2. s \in DeviceAdditions /\ mapLock = None
  BY <1>1, WhereFacts DEF EnterAdd
<1>3. UNCHANGED <<mountpoints, pendingMounts, existing, arriving>>
  BY DEF EnterAdd
<1>4. CASE AddDevice(g, s)
  BY <1>2, <1>3, <1>4, AddDeviceStep
<1>5. CASE /\ Remounts(s) /\ mapLock' = g /\ UNCHANGED drives
           /\ Continue(g, [point |-> "formatCompleted", event |-> s])
  <2>1. s \in BlockAdditions
    BY <1>2, <1>5, BlockAdded DEF Remounts
  <2> HIDE DEF s
  <2>2. [point |-> "formatCompleted", event |-> s] \in Where
    BY <2>1, MayWait DEF Sending
  <2>3. /\ at' \in [Goroutines -> Where]
        /\ at'[g] = [point |-> "formatCompleted", event |-> s]
        /\ \A h \in Goroutines \ {g} : at'[h] = at[h]
    BY <1>1, <1>5, <2>2, Continues
  <2>4. LockInv'
    BY <1>1, <1>2, <1>5, <2>3, LockKept DEF HoldsLock, Sending
  <2> QED
    BY <1>3, <1>5, <2>3, <2>4 DEF WatcherInv, WatcherTyped, DrivesTyped, MountpointsTyped, IsDrive, driveProps
<1> QED
  BY <1>4, <1>5 DEF EnterAdd

(* Who sends has the lock. *)
LEMMA HolderHasLock ==
  ASSUME WatcherInv, NEW g \in Goroutines, at[g].point \in Sending
  PROVE  mapLock = g /\ at[g].event \in BlockAdditions /\ at[g].event.path \in Blocks
<1>1. at[g].event \in BlockAdditions
  BY WhereFacts DEF WatcherInv, WatcherTyped
<1>2. mapLock = g
  BY DEF WatcherInv, LockInv, HoldsLock
<1> QED
  BY <1>1, <1>2 DEF BlockAdditions

(* formatCompleted is read, and processAddEvent goes on. *)
LEMMA SendFormatCompletedStep ==
  ASSUME WatcherInv, NEW g \in Goroutines, SendFormatCompleted(g, at[g].event)
  PROVE  WatcherInv'
<1>1. at[g].event \in DeviceAdditions /\ mapLock = g
  BY HolderHasLock DEF SendFormatCompleted, Sending, DeviceAdditions
<1> QED
  BY <1>1, AddDeviceStep DEF SendFormatCompleted

(* blockAdded or blockError is read. *)
LEMMA SendBlockStep ==
  ASSUME WatcherInv, NEW g \in Goroutines, NEW channel, SendBlock(g, channel, at[g].event)
  PROVE  WatcherInv'
<1>1. at[g].event \in DeviceAdditions /\ mapLock = g
  BY HolderHasLock DEF SendBlock, Sending, DeviceAdditions
<1>2. at' \in [Goroutines -> Where] /\ LockInv'
  BY <1>1, OfferStep DEF SendBlock, Channels
<1> QED
  BY <1>2 DEF SendBlock, WatcherInv, WatcherTyped, DrivesTyped, MountpointsTyped, IsDrive, driveProps

(* blockDevice is read: a block device that came was announced with the lock. *)
LEMMA SendBlockDeviceStep ==
  ASSUME WatcherInv, NEW g \in Goroutines, SendBlockDevice(g, at[g].added)
  PROVE  WatcherInv'
<1>1. at \in [Goroutines -> Where] /\ LockInv
  BY DEF WatcherInv, WatcherTyped
<1>2. at[g].added \in BOOLEAN /\ (HoldsLock(g) <=> at[g].added) /\ at[g].point # "nil"
  BY <1>1, WhereFacts DEF SendBlockDevice, HoldsLock, Sending
<1>3. /\ at' \in [Goroutines -> Where]
      /\ at'[g] = Rest(g)
      /\ \A h \in Goroutines \ {g} : at'[h] = at[h]
  BY <1>1, RestFacts, Continues DEF SendBlockDevice
<1>4. ~ HoldsLock(g)'
  BY <1>3, RestFacts DEF HoldsLock, Sending
<1>5. LockInv'
  <2>1. CASE at[g].added
    <3>1. mapLock = g /\ mapLock' = None
      BY <1>1, <1>2, <2>1 DEF LockInv, SendBlockDevice
    <3> QED
      BY <1>1, <1>3, <1>4, <3>1, LockKept, GoroutinesAssumption
  <2>2. CASE ~ at[g].added
    BY <1>1, <1>2, <1>3, <1>4, <2>2, LockUntouched DEF SendBlockDevice
  <2> QED
    BY <2>1, <2>2
<1> QED
  BY <1>3, <1>5 DEF SendBlockDevice, WatcherInv, WatcherTyped, DrivesTyped, MountpointsTyped,
                    IsDrive, driveProps

-----------------------------------------------------------------------------
(* The loop and the goroutine of Init *)

(* A goroutine goes on, without the lock before or after. *)
LEMMA WatcherMoves ==
  ASSUME WatcherInv, NEW g \in Goroutines, NEW w \in Where, Continue(g, w),
         ~ HoldsLock(g), at[g].point # "nil", w.point \notin Sending, w.point = "blockDevice" => ~ w.added,
         UNCHANGED mapLock,
         DrivesTyped', MountpointsTyped', pendingMounts' \subseteq Blocks,
         existing' \in Seq(DeviceAdditions),
         BagToSet(arriving') \subseteq [path : Drives, mountpoint : Mountpoints]
  PROVE  WatcherInv'
<1>1. /\ at' \in [Goroutines -> Where]
      /\ at'[g] = w
      /\ \A h \in Goroutines \ {g} : at'[h] = at[h]
  BY Continues DEF WatcherInv, WatcherTyped
<1>2. ~ HoldsLock(g)'
  BY <1>1 DEF HoldsLock
<1>3. LockInv'
  BY <1>1, <1>2, LockUntouched DEF WatcherInv
<1> QED
  BY <1>1, <1>3 DEF WatcherInv, WatcherTyped

(* What a step leaves alone keeps its type. *)
LEMMA SameDrives == ASSUME DrivesTyped, UNCHANGED drives PROVE DrivesTyped'
  BY DEF DrivesTyped, IsDrive, driveProps

LEMMA SameMountpoints ==
  ASSUME MountpointsTyped, UNCHANGED mountpoints PROVE MountpointsTyped'
  BY DEF MountpointsTyped

(* A deletion keeps the type of the map of mount points. *)
LEMMA DeletedMountpoint ==
  ASSUME MountpointsTyped, NEW b, mountpoints' = Delete(mountpoints, b)
  PROVE  MountpointsTyped'
  BY DEF MountpointsTyped, Delete

LEMMA IsGoroutine == "loop" \in Goroutines /\ "init" \in Goroutines
  BY DEF Goroutines

(* The loop reads an addition. *)
LEMMA ReadAdditionStep ==
  ASSUME WatcherInv, NEW e \in DeviceAdditions, ReadAddition(e)
  PROVE  WatcherInv'
<1>1. [point |-> "add", event |-> e] \in Where
  BY MayWait
<1>2. DrivesTyped' /\ MountpointsTyped'
  BY SameDrives, SameMountpoints DEF ReadAddition, WatcherInv, WatcherTyped
<1>3. ~ HoldsLock("loop") /\ at["loop"].point # "nil"
  BY DEF ReadAddition, Selecting, HoldsLock, Sending
<1> QED
  BY <1>1, <1>2, <1>3, IsGoroutine, WatcherMoves
    DEF ReadAddition, WatcherInv, WatcherTyped, Sending

(* The loop reads a removal. *)
LEMMA ReadRemovalStep ==
  ASSUME WatcherInv, NEW e \in DeviceRemovals, ReadRemoval(e)
  PROVE  WatcherInv'
<1>1. ~ HoldsLock("loop") /\ at["loop"].point # "nil"
  BY DEF ReadRemoval, Selecting, HoldsLock, Sending
<1>2. /\ DrivesTyped'
      /\ MountpointsTyped /\ pendingMounts' \subseteq Blocks /\ existing' \in Seq(DeviceAdditions)
      /\ BagToSet(arriving') \subseteq [path : Drives, mountpoint : Mountpoints]
      /\ UNCHANGED mapLock
  BY SameDrives DEF ReadRemoval, WatcherInv, WatcherTyped
<1>3. CASE /\ e.path \in DOMAIN mountpoints
           /\ mountpoints' = Delete(mountpoints, e.path)
           /\ Continue("loop",
                [point |-> "mountRemoved", path |-> e.path, mountpoint |-> mountpoints[e.path]])
  <2>1. [point |-> "mountRemoved", path |-> e.path, mountpoint |-> mountpoints[e.path]]
          \in Where
    BY <1>2, <1>3, MayWait DEF MountpointsTyped
  <2>2. MountpointsTyped'
    BY <1>2, <1>3, DeletedMountpoint
  <2> QED
    BY <1>1, <1>2, <1>3, <2>1, <2>2, IsGoroutine, WatcherMoves DEF Sending
<1>4. CASE mountpoints' = Delete(mountpoints, e.path) /\ Continue("loop", Rest("loop"))
  <2>1. MountpointsTyped'
    BY <1>2, <1>4, DeletedMountpoint
  <2> QED
    BY <1>1, <1>2, <1>4, <2>1, IsGoroutine, RestFacts, WatcherMoves DEF Sending
<1>5. CASE UNCHANGED mountpoints /\ Continue("loop", [point |-> "remove", path |-> e.path])
  <2>1. [point |-> "remove", path |-> e.path] \in Where
    BY MayWait DEF DeviceRemovals
  <2>2. MountpointsTyped'
    BY <1>2, <1>5, SameMountpoints
  <2> QED
    BY <1>1, <1>2, <1>5, <2>1, <2>2, IsGoroutine, WatcherMoves DEF Sending
<1> QED
  BY <1>3, <1>4, <1>5 DEF ReadRemoval

(* mountRemoved is read. *)
LEMMA SendMountRemovedStep ==
  ASSUME WatcherInv, SendMountRemoved(at["loop"].mountpoint)
  PROVE  WatcherInv'
<1>1. at["loop"].path \in Blocks
  BY WhereFacts, IsGoroutine DEF SendMountRemoved, WatcherInv, WatcherTyped
<1>2. [point |-> "remove", path |-> at["loop"].path] \in Where
  BY <1>1, MayWait
<1>3. DrivesTyped' /\ MountpointsTyped'
  BY SameDrives, SameMountpoints DEF SendMountRemoved, WatcherInv, WatcherTyped
<1>4. ~ HoldsLock("loop") /\ at["loop"].point # "nil"
  BY DEF SendMountRemoved, HoldsLock, Sending
<1> QED
  BY <1>2, <1>3, <1>4, IsGoroutine, WatcherMoves
    DEF SendMountRemoved, WatcherInv, WatcherTyped, Sending

(* processRemoveEvent, after the mount point. *)
LEMMA RemoveDeviceStep ==
  ASSUME WatcherInv, RemoveDevice
  PROVE  WatcherInv'
<1>1. DrivesTyped' /\ MountpointsTyped'
  BY SameDrives, DrivesLose, SameMountpoints DEF RemoveDevice, WatcherInv, WatcherTyped
<1>2. ~ HoldsLock("loop") /\ at["loop"].point # "nil"
  BY DEF RemoveDevice, HoldsLock, Sending
<1>3. /\ pendingMounts' \subseteq Blocks /\ existing' \in Seq(DeviceAdditions)
      /\ BagToSet(arriving') \subseteq [path : Drives, mountpoint : Mountpoints]
      /\ UNCHANGED mapLock
  BY DEF RemoveDevice, WatcherInv, WatcherTyped
<1>4. CASE Continue("loop", Rest("loop"))
  BY <1>1, <1>2, <1>3, <1>4, IsGoroutine, RestFacts, WatcherMoves DEF Sending
<1>5. CASE Continue("loop", [point |-> "blockDevice", added |-> FALSE])
  <2>1. [point |-> "blockDevice", added |-> FALSE] \in Where
    BY MayWait
  <2> QED
    BY <1>1, <1>2, <1>3, <1>5, <2>1, IsGoroutine, WatcherMoves DEF Sending
<1> QED
  BY <1>4, <1>5 DEF RemoveDevice

(* The loop reads a report on a job. *)
LEMMA ReadReportStep ==
  ASSUME WatcherInv, NEW j \in Jobs, ReadReport(j)
  PROVE  WatcherInv'
<1>1. DrivesTyped' /\ MountpointsTyped'
  BY SameDrives, SameMountpoints DEF ReadReport, WatcherInv, WatcherTyped
<1>2. ~ HoldsLock("loop") /\ at["loop"].point # "nil"
  BY DEF ReadReport, Selecting, HoldsLock, Sending
<1>3. PICK b \in Blocks : j.paths = <<b>>
  BY DEF Jobs, OnePath
<1>4. pendingMounts' \subseteq Blocks
  BY <1>3 DEF ReadReport, WatcherInv, WatcherTyped
<1>5. j.paths \in OnePath
  BY <1>3 DEF OnePath
<1>6. \A p \in {"mountpointsForPath", "umountCompleted"} : [point |-> p, paths |-> j.paths] \in Where
  BY <1>5, MayWait
<1>7. \/ Continue("loop", Rest("loop"))
      \/ Continue("loop", [point |-> "mountpointsForPath", paths |-> j.paths])
      \/ Continue("loop", [point |-> "umountCompleted", paths |-> j.paths])
  BY DEF ReadReport
<1>8. /\ existing' \in Seq(DeviceAdditions) /\ UNCHANGED mapLock
      /\ BagToSet(arriving') \subseteq [path : Drives, mountpoint : Mountpoints]
  BY DEF ReadReport, WatcherInv, WatcherTyped
<1>9. CASE Continue("loop", Rest("loop"))
  BY <1>1, <1>2, <1>4, <1>8, <1>9, IsGoroutine, RestFacts, WatcherMoves DEF Sending
<1>10. ASSUME NEW p \in {"mountpointsForPath", "umountCompleted"},
              Continue("loop", [point |-> p, paths |-> j.paths])
       PROVE  WatcherInv'
  BY <1>1, <1>2, <1>4, <1>6, <1>8, <1>10, IsGoroutine, WatcherMoves DEF Sending
<1> QED
  BY <1>7, <1>9, <1>10

(* A job is about one block device: there is no next path. *)
LEMMA NextPathRests ==
  ASSUME WatcherInv, at["loop"].point \in {"mountpointsForPath", "umountCompleted"}, NextPath
  PROVE  /\ Continue("loop", Rest("loop")) /\ ~ HoldsLock("loop") /\ at["loop"].point # "nil"
         /\ Head(at["loop"].paths) \in Blocks /\ at["loop"].paths = <<Head(at["loop"].paths)>>
<1>1. at["loop"].paths \in OnePath
  BY WhereFacts, IsGoroutine DEF WatcherInv, WatcherTyped
<1>2. PICK b \in Blocks : at["loop"].paths = <<b>>
  BY <1>1 DEF OnePath
<1> QED
  BY <1>2 DEF NextPath, HoldsLock, Sending

(* umountCompleted is read. *)
LEMMA SendUmountCompletedStep ==
  ASSUME WatcherInv, NEW b, SendUmountCompleted(b)
  PROVE  WatcherInv'
<1>1. DrivesTyped' /\ MountpointsTyped'
  BY SameDrives, DeletedMountpoint DEF SendUmountCompleted, WatcherInv, WatcherTyped
<1>2. Continue("loop", Rest("loop")) /\ ~ HoldsLock("loop") /\ at["loop"].point # "nil"
  BY NextPathRests DEF SendUmountCompleted
<1> QED
  BY <1>1, <1>2, IsGoroutine, RestFacts, WatcherMoves
    DEF SendUmountCompleted, WatcherInv, WatcherTyped, Sending

(* Marking the drives of a block device as mounted keeps their types. *)
LEMMA MountedDrives ==
  ASSUME DrivesTyped, NEW p,
         drives' = [d \in DOMAIN drives |->
                      IF d \in HoldersOf(p)
                      THEN [drives[d] EXCEPT !.mounted = TRUE] ELSE drives[d]]
  PROVE  DrivesTyped'
<1>1. ASSUME NEW d \in DOMAIN drives
      PROVE  IsDrive(drives'[d]) /\ drives'[d].blockDevices = drives[d].blockDevices
  <2>1. IsDrive(drives[d])
    BY DEF DrivesTyped
  <2> DEFINE r == [drives[d] EXCEPT !.mounted = TRUE]
  <2>2. /\ r \in [blockDevices : {r.blockDevices}, driveInfo : DriveProps \cup BlockProps,
                  mounted : BOOLEAN]
        /\ r.blockDevices = drives[d].blockDevices
    BY <2>1 DEF IsDrive
  <2>3. IsDrive(r)
    BY <2>1, <2>2 DEF IsDrive
  <2>4. drives'[d] = r \/ drives'[d] = drives[d]
    OBVIOUS
  <2> HIDE DEF r
  <2> QED
    BY <2>1, <2>2, <2>3, <2>4
<1> QED
  BY <1>1 DEF DrivesTyped

(* The end of a mount job: the mount point is asked for and kept. *)
LEMMA MountFinishedStep ==
  ASSUME WatcherInv, NEW b \in Blocks, Head(at["loop"].paths) = b,
         NEW m \in Mountpoints \cup {None}, MountFinished(m)
  PROVE  WatcherInv'
<1>1. Continue("loop", Rest("loop")) /\ ~ HoldsLock("loop") /\ at["loop"].point # "nil"
  BY NextPathRests DEF MountFinished
<1>2. m # None => m \in Mountpoints
  OBVIOUS
<1>3. DrivesTyped'
  BY SameDrives, MountedDrives DEF MountFinished, WatcherInv, WatcherTyped
<1>4. MountpointsTyped'
  BY <1>2, SameMountpoints
    DEF MountFinished, WatcherInv, WatcherTyped, MountpointsTyped, Put
<1>5. BagToSet(arriving') \subseteq [path : Drives, mountpoint : Mountpoints]
  <2>1. CASE UNCHANGED arriving
    BY <2>1 DEF WatcherInv, WatcherTyped
  <2>2. CASE m # None /\ arriving' = arriving (+) SetToBag(MountsOf(b, m))
    <3>1. HoldersOf(b) \subseteq Drives
      BY DEF HoldersOf, WatcherInv, WatcherTyped, DrivesTyped
    <3>2. MountsOf(b, m) \subseteq [path : Drives, mountpoint : Mountpoints]
      BY <1>2, <2>2, <3>1 DEF MountsOf
    <3> QED
      BY <2>2, <3>2 DEF BagToSet, (+), SetToBag, WatcherInv, WatcherTyped
  <2> QED
    BY <2>1, <2>2 DEF MountFinished
<1> QED
  BY <1>1, <1>3, <1>4, <1>5, IsGoroutine, RestFacts, WatcherMoves
    DEF MountFinished, WatcherInv, WatcherTyped, Sending

(* mountCompleted is read. *)
LEMMA SendMountCompletedStep ==
  ASSUME WatcherInv, NEW e, SendMountCompleted(e)
  PROVE  WatcherInv'
<1>1. BagToSet(arriving') \subseteq BagToSet(arriving)
  BY DEF SendMountCompleted, BagToSet, (-), SetToBag
<1>2. DrivesTyped' /\ MountpointsTyped'
  BY SameDrives, SameMountpoints DEF SendMountCompleted, WatcherInv, WatcherTyped
<1> QED
  BY <1>1, <1>2 DEF SendMountCompleted, WatcherInv, WatcherTyped, LockInv, HoldsLock

(* The next object that was there before the daemon. *)
LEMMA AddExistingStep ==
  ASSUME WatcherInv, AddExisting
  PROVE  WatcherInv'
<1>1. Head(existing) \in DeviceAdditions /\ existing' \in Seq(DeviceAdditions)
  BY DEF AddExisting, WatcherInv, WatcherTyped
<1>2. [point |-> "add", event |-> Head(existing)] \in Where
  BY <1>1, MayWait
<1>3. DrivesTyped' /\ MountpointsTyped'
  BY SameDrives, SameMountpoints DEF AddExisting, WatcherInv, WatcherTyped
<1>4. ~ HoldsLock("init") /\ at["init"].point # "nil"
  BY DEF AddExisting, HoldsLock, Sending
<1> QED
  BY <1>1, <1>2, <1>3, <1>4, IsGoroutine, WatcherMoves
    DEF AddExisting, WatcherInv, WatcherTyped, Sending

(* The objects of an answer, in some order. *)
LEMMA OrdersFacts ==
  ASSUME NEW S, IsFiniteSet(S), NEW s \in SetToSeqs(S)
  PROVE  s \in Seq(S)
<1>1. Cardinality(S) \in Nat
  BY FS_CardinalityType
<1> QED
  BY <1>1 DEF SetToSeqs

(* None is missing. *)
LEMMA OrdersAll ==
  ASSUME NEW S, IsFiniteSet(S), NEW s \in SetToSeqs(S), NEW e \in S
  PROVE  \E i \in 1 .. Len(s) : s[i] = e
<1> DEFINE n == Cardinality(S)
           T == S \ {e}
<1>1. n \in Nat /\ IsFiniteSet(T) /\ Cardinality(T) = n - 1
  BY FS_CardinalityType, FS_RemoveElement
<1>2. IsFiniteSet(1 .. n) /\ Cardinality(1 .. n) = n
  BY <1>1, FS_Interval
<1>3. /\ s \in [1 .. n -> S] /\ Len(s) = n
      /\ \A i, j \in 1 .. n : i # j => s[i] # s[j]
  BY <1>1 DEF SetToSeqs
<1> HIDE DEF n, T
<1>4. CASE s \in [1 .. n -> T]
  <2>1. Cardinality(T) < Cardinality(1 .. n)
    BY <1>1, <1>2
  <2>2. \E i, j \in 1 .. n : i # j /\ s[i] = s[j]
    BY <1>1, <1>2, <1>4, <2>1, FS_PigeonHole
  <2> QED
    BY <1>3, <2>2
<1>5. CASE s \notin [1 .. n -> T]
  <2>1. \E i \in 1 .. n : s[i] = e
    BY <1>3, <1>5 DEF T
  <2> QED
    BY <1>3, <2>1
<1> QED
  BY <1>4, <1>5

(* What GetManagedObjects answers is finite. *)
LEMMA ManagedFinite == IsFiniteSet(managedDrives) /\ IsFiniteSet(managedBlocks)
<1>1. IsFiniteSet(Drives \cap present) /\ IsFiniteSet(Blocks \cap present)
  BY FiniteAssumption, FS_Subset
<1> DEFINE f == [d \in Drives \cap present |-> Added(d, driveProps(d))]
           h == [b \in Blocks \cap present |-> Added(b, blockProps(b))]
<1>2. f \in Surjection(Drives \cap present, managedDrives)
  BY DEF Surjection, managedDrives
<1>3. h \in Surjection(Blocks \cap present, managedBlocks)
  BY DEF Surjection, managedBlocks
<1> HIDE DEF f, h
<1> QED
  BY <1>1, <1>2, <1>3, FS_Surjection

(* The answer to GetManagedObjects. *)
LEMMA ListExistingStep ==
  ASSUME WatcherInv, NEW answer \in Seq(DeviceAdditions), ListExisting(answer)
  PROVE  WatcherInv'
<1>1. DrivesTyped' /\ MountpointsTyped'
  BY SameDrives, SameMountpoints DEF ListExisting, WatcherInv, WatcherTyped
<1>2. ~ HoldsLock("init") /\ at["init"].point # "nil"
  BY DEF ListExisting, HoldsLock, Sending
<1> QED
  BY <1>1, <1>2, IsGoroutine, RestFacts, WatcherMoves
    DEF ListExisting, WatcherInv, WatcherTyped, Sending

-----------------------------------------------------------------------------
(* UDisks2 and the dispatcher *)

(* UDisks2 sends a signal. *)
LEMMA SignalStep ==
  ASSUME DispatcherTyped, NEW w \in Watches, NEW e \in Signals(w), Signal(w, e)
  PROVE  DispatcherTyped'
<1>1. watch[w] \in Seq(Signals(w))
  BY DEF DispatcherTyped
<1>2. Append(watch[w], e) \in Seq(Signals(w))
  BY <1>1
<1>3. /\ watch' = [v \in Watches |-> IF v = w THEN Append(watch[w], e) ELSE watch[v]]
      /\ held' = held
  BY DEF Signal, DispatcherTyped
<1> QED
  BY <1>2, <1>3 DEF DispatcherTyped

(* The goroutine of a watch takes a signal or skips it. *)
LEMMA FetchStep ==
  ASSUME DispatcherTyped, NEW w \in Watches, DispatcherStep(w)
  PROVE  DispatcherTyped'
<1>1. watch[w] \in Seq(Signals(w)) /\ watch[w] # <<>>
  BY DEF DispatcherTyped, DispatcherStep, Skip, Take, Waiting
<1>2. Head(watch[w]) \in Signals(w) /\ Tail(watch[w]) \in Seq(Signals(w))
  BY <1>1
<1>3. watch' = [v \in Watches |-> IF v = w THEN Tail(watch[w]) ELSE watch[v]]
  BY DEF DispatcherTyped, DispatcherStep, Skip, Take
<1>4. held' = held \/ held' = [v \in Watches |-> IF v = w THEN <<Head(watch[w])>> ELSE held[v]]
  BY DEF DispatcherTyped, DispatcherStep, Skip, Take
<1> QED
  BY <1>2, <1>3, <1>4 DEF DispatcherTyped

(* The goroutine of a watch hands over its signal. *)
LEMMA SendStep ==
  ASSUME DispatcherTyped, NEW w \in Watches, NEW c, held[w] # <<>>, Send(w, c, held[w][1])
  PROVE  /\ DispatcherTyped'
         /\ held[w][1] \in Signals(w) /\ held[w] = <<held[w][1]>>
         /\ c = Channel(w, held[w][1])
<1>1. PICK e \in Signals(w) : held[w] = <<e>>
  BY DEF DispatcherTyped
<1>2. held' = [v \in Watches |-> IF v = w THEN <<>> ELSE held[v]] /\ watch' = watch
  BY DEF Send, DispatcherTyped
<1>3. DispatcherTyped'
  BY <1>2 DEF DispatcherTyped
<1> QED
  BY <1>1, <1>3 DEF Send

(* The signals about devices have their types. *)
LEMMA AnnouncedDevices ==
  ASSUME ServiceTyped
  PROVE  /\ \A d \in Drives : Added(d, driveProps(d)) \in DriveAdditions
         /\ \A b \in Blocks : Added(b, blockProps(b)) \in BlockAdditions
         /\ \A b \in Blocks : Added(b, filesystemProps(b, "vfat")) \in BlockAdditions
         /\ \A b \in Blocks : Removed(b, BlockIfaces(b)) \in DeviceRemovals
         /\ \A b \in Blocks : Removed(b, {FilesystemIface}) \in DeviceRemovals
         /\ \A d \in Drives : Removed(d, {DriveIface}) \in DeviceRemovals
<1>1. ASSUME NEW d \in Drives PROVE Added(d, driveProps(d)) \in DriveAdditions
  BY DEF Added, driveProps, DriveAdditions, DriveProps
<1>2. ASSUME NEW b \in Blocks PROVE blockProps(b) \in BlockProps
  <2>1. DriveOf[b] \in Drives /\ fs[b] \in FsTypes
    BY ServiceAssumption DEF ServiceTyped
  <2> QED
    BY <2>1 DEF blockProps, BlockProps
<1>3. ASSUME NEW b \in Blocks PROVE filesystemProps(b, "vfat") \in BlockProps
  <2>1. DriveOf[b] \in Drives /\ "vfat" \in FsTypes
    BY ServiceAssumption DEF FsTypes
  <2> QED
    BY <2>1 DEF filesystemProps, BlockProps
<1>4. ASSUME NEW b \in Blocks
      PROVE  BlockIfaces(b) \in (SUBSET Ifaces) \ {{}}
  BY DEF BlockIfaces, BlockIface, FilesystemIface, Ifaces
<1>5. /\ {FilesystemIface} \in (SUBSET Ifaces) \ {{}}
      /\ {DriveIface} \in (SUBSET Ifaces) \ {{}}
  BY DEF DriveIface, FilesystemIface, Ifaces
<1> QED
  BY <1>1, <1>2, <1>3, <1>4, <1>5 DEF Added, Removed, BlockAdditions, DeviceRemovals, blockProps,
                                      filesystemProps

(* What travels on which watch. *)
LEMMA ServiceSignals ==
  ASSUME NEW e
  PROVE  /\ e \in DriveAdditions \cup BlockAdditions \cup JobAdditions => e \in Signals("additions")
         /\ e \in DeviceRemovals \cup JobRemovals => e \in Signals("removals")
         /\ "additions" \in Watches /\ "removals" \in Watches
  BY DEF Signals, DeviceAdditions, Watches

LEMMA SignalAddition ==
  ASSUME DispatcherTyped, NEW e \in DriveAdditions \cup BlockAdditions \cup JobAdditions,
         Signal("additions", e)
  PROVE  DispatcherTyped'
  BY ServiceSignals, SignalStep

LEMMA SignalRemoval ==
  ASSUME DispatcherTyped, NEW e \in DeviceRemovals \cup JobRemovals, Signal("removals", e)
  PROVE  DispatcherTyped'
  BY ServiceSignals, SignalStep

(* A device is put in or taken out. *)
LEMMA DevicesStep ==
  ASSUME ServiceTyped, DispatcherTyped,
         \/ \E d \in Drives : InsertDrive(d) \/ RemoveDrive(d)
         \/ \E b \in Blocks : InsertBlock(b) \/ RemoveBlock(b)
  PROVE  ServiceTyped' /\ DispatcherTyped'
<1>1. ASSUME NEW d \in Drives, InsertDrive(d) PROVE ServiceTyped' /\ DispatcherTyped'
  BY <1>1, AnnouncedDevices, SignalAddition DEF InsertDrive, Insert, ServiceTyped
<1>2. ASSUME NEW d \in Drives, RemoveDrive(d) PROVE ServiceTyped' /\ DispatcherTyped'
  BY <1>2, AnnouncedDevices, SignalRemoval DEF RemoveDrive, ServiceTyped
<1>3. ASSUME NEW b \in Blocks, InsertBlock(b) PROVE ServiceTyped' /\ DispatcherTyped'
  BY <1>3, AnnouncedDevices, SignalAddition DEF InsertBlock, Insert, ServiceTyped
<1>4. ASSUME NEW b \in Blocks, RemoveBlock(b) PROVE ServiceTyped' /\ DispatcherTyped'
  BY <1>4, AnnouncedDevices, SignalRemoval DEF RemoveBlock, ServiceTyped
<1> QED
  BY <1>1, <1>2, <1>3, <1>4

(* UDisks2 starts a job. *)
LEMMA StartJobStep ==
  ASSUME ServiceTyped, DispatcherTyped, NEW op \in JobOperations, NEW b \in Blocks, StartJob(op, b)
  PROVE  ServiceTyped' /\ DispatcherTyped'
<1>1. PICK p \in JobPaths :
        /\ running' = Put(running, p, [op |-> op, block |-> b])
        /\ Signal("additions", Added(p, [op |-> op, objects |-> <<b>>]))
  BY DEF StartJob
<1>2. Added(p, [op |-> op, objects |-> <<b>>]) \in JobAdditions
  BY DEF JobAdditions, JobAddition
<1>3. DispatcherTyped'
  BY <1>1, <1>2, SignalAddition
<1>4. ServiceTyped'
  BY <1>1 DEF StartJob, ServiceTyped, Put
<1> QED
  BY <1>3, <1>4

(* A format job erases the file system. *)
LEMMA WipeStep ==
  ASSUME ServiceTyped, DispatcherTyped, NEW p, Wipe(p)
  PROVE  ServiceTyped' /\ DispatcherTyped'
<1>1. running[p].block \in Blocks
  BY DEF Wipe, JobOn, ServiceTyped
<1>2. DispatcherTyped'
  BY <1>1, AnnouncedDevices, SignalRemoval DEF Wipe
<1>3. ServiceTyped'
  BY <1>1 DEF Wipe, ServiceTyped, FsTypes
<1> QED
  BY <1>2, <1>3

(* A job ends. *)
LEMMA FinishJobStep ==
  ASSUME ServiceTyped, DispatcherTyped, NEW p, FinishJob(p)
  PROVE  ServiceTyped' /\ DispatcherTyped'
<1>1. running[p] \in [op : JobOperations, block : Blocks] /\ p \in JobPaths
  BY DEF FinishJob, ServiceTyped
<1>2. Removed(p, {JobIface}) \in JobRemovals
  BY <1>1 DEF JobRemovals
<1>3. DispatcherTyped'
  BY <1>2, SignalRemoval DEF FinishJob
<1>4. mounted' \subseteq Blocks /\ unprobed' \subseteq Blocks
  <2> DEFINE b == running[p].block
             op == running[p].op
  <2>1. mounted' \subseteq mounted \cup {b} /\ unprobed' \subseteq unprobed \cup {b}
    BY DEF FinishJob
  <2> QED
    BY <1>1, <2>1 DEF ServiceTyped
<1>5. ServiceTyped'
  BY <1>4 DEF FinishJob, ServiceTyped, Delete
<1> QED
  BY <1>3, <1>5

(* A new file system is announced. *)
LEMMA AnnounceStep ==
  ASSUME ServiceTyped, DispatcherTyped, NEW b \in Blocks, AnnounceFilesystem(b)
  PROVE  ServiceTyped' /\ DispatcherTyped'
<1>1. DispatcherTyped'
  BY AnnouncedDevices, SignalAddition DEF AnnounceFilesystem
<1>2. ServiceTyped'
  BY DEF AnnounceFilesystem, ServiceTyped, FsTypes
<1> QED
  BY <1>1, <1>2

-----------------------------------------------------------------------------
(* The job manager *)

LEMMA CompletedJob ==
  ASSUME NEW j \in Jobs
  PROVE  /\ Completed(j) \in Jobs /\ Completed(j).wasCompleted
         /\ Completed(j).path = j.path /\ Completed(j).operation = j.operation
         /\ Completed(j).paths = j.paths
  BY DEF Jobs, Completed

(* The job manager reads a signal about a job. *)
LEMMA ReadJobStep ==
  ASSUME JobsTyped, NEW w \in Watches, NEW e \in Signals(w), e.path \in JobPaths, ReadJob(e)
  PROVE  JobsTyped'
<1>1. CASE e \in JobAdditions
  <2>1. PICK p \in JobPaths, op \in JobOperations, b \in Blocks : e = JobAddition(p, op, b)
    BY <1>1 DEF JobAdditions
  <2>2. e.path = p /\ e.props = [op |-> op, objects |-> <<b>>] /\ e.ifaces = {}
    BY <2>1 DEF JobAddition, Added
  <2>3. getFormattedPaths(e.props) = <<b>> /\ e.props.op = op
    BY <2>2 DEF getFormattedPaths, JobOperations
  <2>4. NewJob(e) \in Jobs
    <3>1. <<b>> \in OnePath
      BY DEF OnePath
    <3> QED
      BY <2>2, <2>3, <3>1 DEF NewJob, Jobs
  <2>5. ASSUME Known(e.path) PROVE UpdatedJob(e) \in Jobs
    <3> DEFINE j == onGoingJobs[e.path]
    <3>1. j \in Jobs
      BY <2>5 DEF Known, JobsTyped
    <3> HIDE DEF j
    <3>2. CASE op = Mkfs
      <4>1. UpdatedJob(e) = [j EXCEPT !.operation = Mkfs, !.paths = <<b>>]
        BY <2>3, <3>2 DEF UpdatedJob, Mkfs, Erase, j
      <4>2. <<b>> \in OnePath /\ Mkfs \in JobOperations
        BY DEF OnePath, JobOperations
      <4> QED
        BY <3>1, <4>1, <4>2 DEF Jobs
    <3>3. CASE op # Mkfs
      <4>1. UpdatedJob(e) = j
        BY <2>3, <3>3 DEF UpdatedJob, Mkfs, Erase, JobOperations, UnmountFs, MountFs, j
      <4> QED
        BY <3>1, <4>1
    <3> QED
      BY <3>2, <3>3
  <2>6. \A j \in Jobs : Starting(j) \in {<<>>} \cup {<<k>> : k \in Jobs}
    BY DEF Starting
  <2>7. processAdditionEvent(e)
    BY <2>2 DEF ReadJob, processRemovalEvent, isRemovalEvent
  <2> QED
    BY <2>2, <2>4, <2>5, <2>6, <2>7 DEF processAdditionEvent, JobsTyped, Put
<1>2. CASE e \notin JobAdditions
  <2>1. e \in DeviceRemovals \cup JobRemovals
    <3>1. e \notin DeviceAdditions
      BY BlockAdded, PathsAssumption
    <3> QED
      BY <1>2, <3>1 DEF Signals
  <2>2. processRemovalEvent(e)
    BY <2>1 DEF ReadJob, processAdditionEvent, isRemovalEvent, DeviceRemovals, JobRemovals, Removed
  <2>3. CASE UNCHANGED <<onGoingJobs, report>>
    BY <2>3 DEF JobsTyped
  <2>4. CASE onGoingJobs' = Delete(onGoingJobs, e.path) /\ UNCHANGED report
    BY <2>4 DEF JobsTyped, Delete
  <2>5. CASE Known(e.path) /\ report' = <<Completed(onGoingJobs[e.path])>> /\ UNCHANGED onGoingJobs
    <3>1. Completed(onGoingJobs[e.path]) \in Jobs
      BY <2>5, CompletedJob DEF Known, JobsTyped
    <3> QED
      BY <2>5, <3>1 DEF JobsTyped
  <2> QED
    BY <2>2, <2>3, <2>4, <2>5 DEF processRemovalEvent
<1> QED
  BY <1>1, <1>2

(* The job manager hands over its report. *)
LEMMA ForwardStep ==
  ASSUME JobsTyped, NEW c, report # <<>>, Forward(c, report[1])
  PROVE  JobsTyped' /\ report[1] \in Jobs
  BY DEF JobsTyped, Forward, Delete

-----------------------------------------------------------------------------
(* What a step leaves alone *)

LEMMA SameService == ASSUME ServiceTyped, UNCHANGED serviceVars PROVE ServiceTyped'
  BY DEF ServiceTyped, serviceVars

LEMMA SameDispatcher == ASSUME DispatcherTyped, UNCHANGED dispatcherVars PROVE DispatcherTyped'
  BY DEF DispatcherTyped, dispatcherVars

LEMMA SameJobs == ASSUME JobsTyped, UNCHANGED jobManagerVars PROVE JobsTyped'
  BY DEF JobsTyped, jobManagerVars

LEMMA SameWatcher == ASSUME WatcherInv, UNCHANGED watcherVars PROVE WatcherInv'
  BY SameDrives, SameMountpoints
    DEF WatcherInv, WatcherTyped, LockInv, HoldsLock, watcherVars

(* A signal's path is a job's exactly if it is about a job. *)
LEMMA SignalPaths ==
  ASSUME NEW w \in Watches, NEW e \in Signals(w), e.path \notin JobPaths
  PROVE  /\ w = "additions" => e \in DeviceAdditions
         /\ w = "removals" => e \in DeviceRemovals
  BY DEF Signals, JobAdditions, JobAddition, Added, JobRemovals, Removed, Watches

(* A signal about a device reaches the storage watcher. *)
LEMMA DispatchDeviceTyped ==
  ASSUME ClientTyped, NEW w \in Watches, DispatchDevice(w)
  PROVE  DispatcherTyped' /\ WatcherInv'
<1> DEFINE e == held[w][1]
<1>1. /\ DispatcherTyped /\ WatcherInv /\ held[w] # <<>>
      /\ \/ Send(w, "Additions", e) /\ ReadAddition(e)
         \/ Send(w, "Removals", e) /\ ReadRemoval(e)
  BY DEF DispatchDevice, ClientTyped
<1>2. CASE Send(w, "Additions", e) /\ ReadAddition(e)
  <2>1. DispatcherTyped' /\ e \in Signals(w) /\ Channel(w, e) = "Additions"
    BY <1>1, <1>2, SendStep
  <2>2. w = "additions" /\ e.path \notin JobPaths
    BY <2>1 DEF Channel, Watches
  <2>3. e \in DeviceAdditions
    BY <2>1, <2>2, SignalPaths
  <2> QED
    BY <1>1, <1>2, <2>1, <2>3, ReadAdditionStep
<1>3. CASE Send(w, "Removals", e) /\ ReadRemoval(e)
  <2>1. DispatcherTyped' /\ e \in Signals(w) /\ Channel(w, e) = "Removals"
    BY <1>1, <1>3, SendStep
  <2>2. w = "removals" /\ e.path \notin JobPaths
    BY <2>1 DEF Channel, Watches
  <2>3. e \in DeviceRemovals
    BY <2>1, <2>2, SignalPaths
  <2> QED
    BY <1>1, <1>3, <2>1, <2>3, ReadRemovalStep
<1> QED
  BY <1>1, <1>2, <1>3

(* A signal about a job reaches the job manager. *)
LEMMA DispatchJobTyped ==
  ASSUME ClientTyped, NEW w \in Watches, DispatchJob(w)
  PROVE  DispatcherTyped' /\ JobsTyped'
<1> DEFINE e == held[w][1]
<1>1. DispatcherTyped /\ JobsTyped /\ held[w] # <<>> /\ Send(w, "Jobs", e) /\ ReadJob(e)
  BY DEF DispatchJob, ClientTyped
<1>2. DispatcherTyped' /\ e \in Signals(w) /\ Channel(w, e) = "Jobs"
  BY <1>1, SendStep
<1>3. e.path \in JobPaths
  BY <1>2 DEF Channel
<1> QED
  BY <1>1, <1>2, <1>3, ReadJobStep

(* UDisks2 lists what it has. *)
LEMMA AnswerManagedObjectsTyped ==
  ASSUME ClientTyped, AnswerManagedObjects
  PROVE  WatcherInv'
<1>1. PICK ds \in SetToSeqs(managedDrives), bs \in SetToSeqs(managedBlocks) :
        ListExisting(ds \o bs)
  BY DEF AnswerManagedObjects
<1>2. managedDrives \subseteq DeviceAdditions /\ managedBlocks \subseteq DeviceAdditions
  BY AnnouncedDevices DEF managedDrives, managedBlocks, DeviceAdditions, ClientTyped
<1>3. IsFiniteSet(managedDrives) /\ IsFiniteSet(managedBlocks)
  BY ManagedFinite
<1>4. ds \in Seq(DeviceAdditions) /\ bs \in Seq(DeviceAdditions)
  BY <1>2, <1>3, OrdersFacts
<1>5. ds \o bs \in Seq(DeviceAdditions)
  BY <1>4
<1> QED
  BY <1>1, <1>5, ListExistingStep DEF ClientTyped

(* A report reaches the loop. *)
LEMMA PassReportTyped ==
  ASSUME ClientTyped, PassReport
  PROVE  DispatcherTyped' /\ JobsTyped' /\ WatcherInv'
<1>1. PICK c : Forward(c, report[1])
  BY DEF PassReport
<1>2. report # <<>> /\ ReadReport(report[1]) /\ UNCHANGED dispatcherVars
  BY DEF PassReport
<1>3. JobsTyped' /\ report[1] \in Jobs
  BY <1>1, <1>2, ForwardStep DEF ClientTyped
<1> QED
  BY <1>2, <1>3, ReadReportStep, SameDispatcher DEF ClientTyped

(* A goroutine of the storage watcher goes on by itself. *)
LEMMA WatchTyped ==
  ASSUME ClientTyped, NEW g \in Goroutines, Watch(g)
  PROVE  DispatcherTyped' /\ JobsTyped' /\ WatcherInv'
  BY EnterAddStep, RemoveDeviceStep, AddExistingStep, SameDispatcher, SameJobs
    DEF Watch, WatcherStep, ClientTyped

(* UDisks2 says where a block device is mounted. *)
LEMMA AnswerMountpointsTyped ==
  ASSUME ClientTyped, AnswerMountpoints
  PROVE  WatcherInv'
<1> DEFINE b == Head(at["loop"].paths)
<1>1. b \in Blocks
  BY NextPathRests DEF AnswerMountpoints, MountFinished, ClientTyped
<1> DEFINE m == IF b \in mounted THEN MountpointOf[b] ELSE None
<1>2. MountFinished(m) /\ m \in Mountpoints \cup {None}
  BY <1>1 DEF AnswerMountpoints, Mountpoints
<1> HIDE DEF m
<1> QED
  BY <1>1, <1>2, MountFinishedStep DEF ClientTyped

(* The same queries when they fail. *)
LEMMA RefusalsTyped ==
  ASSUME ClientTyped, RefuseManagedObjects \/ RefuseMountpoints
  PROVE  DispatcherTyped' /\ JobsTyped' /\ WatcherInv'
<1>1. DispatcherTyped' /\ JobsTyped'
  BY SameDispatcher, SameJobs DEF RefuseManagedObjects, RefuseMountpoints, ClientTyped
<1>2. CASE RefuseManagedObjects
  <2>1. <<>> \in Seq(DeviceAdditions)
    OBVIOUS
  <2> QED
    BY <1>1, <1>2, <2>1, ListExistingStep DEF RefuseManagedObjects, ClientTyped
<1>3. CASE RefuseMountpoints
  <2>1. Head(at["loop"].paths) \in Blocks
    BY <1>3, NextPathRests DEF RefuseMountpoints, MountFinished, ClientTyped
  <2>2. None \in Mountpoints \cup {None}
    OBVIOUS
  <2> QED
    BY <1>1, <1>3, <2>1, <2>2, MountFinishedStep DEF RefuseMountpoints, ClientTyped
<1> QED
  BY <1>2, <1>3

(* A step inside the package keeps the types. *)
LEMMA ClientStepTyped ==
  ASSUME ClientTyped, ClientStep
  PROVE  ClientTyped'
<1>1. ServiceTyped'
  BY SameService DEF ClientStep, ClientTyped
<1>2. ASSUME NEW w \in Watches, Fetch(w) PROVE DispatcherTyped' /\ JobsTyped' /\ WatcherInv'
  BY <1>2, FetchStep, SameJobs, SameWatcher DEF Fetch, ClientTyped
<1>3. ASSUME NEW w \in Watches, DispatchJob(w)
      PROVE  DispatcherTyped' /\ JobsTyped' /\ WatcherInv'
  BY <1>3, DispatchJobTyped, SameWatcher DEF DispatchJob, ClientTyped
<1>4. ASSUME NEW w \in Watches, DispatchDevice(w)
      PROVE  DispatcherTyped' /\ JobsTyped' /\ WatcherInv'
  BY <1>4, DispatchDeviceTyped, SameJobs DEF DispatchDevice, ClientTyped
<1>5. ASSUME PassReport PROVE DispatcherTyped' /\ JobsTyped' /\ WatcherInv'
  BY <1>5, PassReportTyped
<1>6. ASSUME NEW g \in Goroutines, Watch(g) PROVE DispatcherTyped' /\ JobsTyped' /\ WatcherInv'
  BY <1>6, WatchTyped
<1>7. ASSUME AnswerManagedObjects PROVE DispatcherTyped' /\ JobsTyped' /\ WatcherInv'
  BY <1>7, AnswerManagedObjectsTyped, SameDispatcher, SameJobs
    DEF AnswerManagedObjects, ClientTyped
<1>8. ASSUME AnswerMountpoints PROVE DispatcherTyped' /\ JobsTyped' /\ WatcherInv'
  BY <1>8, AnswerMountpointsTyped, SameDispatcher, SameJobs DEF AnswerMountpoints, ClientTyped
<1> QED
  BY <1>1, <1>2, <1>3, <1>4, <1>5, <1>6, <1>7, <1>8 DEF ClientStep, ClientTyped

(* UDisks2 as a client may find it. *)
LEMMA ServiceInitTyped ==
  ASSUME NEW s \in Sessions, ServiceInit(s)
  PROVE  ServiceTyped
<1>1. s.fs \in [Blocks -> FsTypes] /\ s.card \subseteq Blocks /\ s.before \subseteq Blocks
  BY ServiceAssumption DEF IsSession
<1> QED
  BY <1>1 DEF ServiceInit, ServiceTyped, EmptyMap

(* The package starts with the types it needs, and starts again with them. *)
LEMMA ClientInitTyped ==
  ASSUME ServiceTyped, ClientInit
  PROVE  ClientTyped
<1>1. DispatcherTyped
  BY DEF ClientInit, DispatcherInit, DispatcherTyped
<1>2. JobsTyped
  BY DEF ClientInit, JobManagerInit, JobsTyped, EmptyMap
<1>3. DOMAIN drives = {} /\ DOMAIN mountpoints = {} /\ DOMAIN arriving = {}
      /\ pendingMounts = {} /\ existing = <<>> /\ mapLock = None
  BY DEF ClientInit, WatcherInit, EmptyMap, EmptyBag, SetToBag
<1>4. at \in [Goroutines -> Where] /\ \A g \in Goroutines : ~ HoldsLock(g)
  <2>1. \A g \in Goroutines : Rest(g) \in Where /\ Rest(g).point \in {"select", "existing"}
    BY RestFacts
  <2>2. [point |-> "getManagedObjects"] \in Where
    BY MayWait
  <2> QED
    BY <2>1, <2>2 DEF ClientInit, WatcherInit, HoldsLock, Sending
<1>5. WatcherInv
  BY <1>3, <1>4, GoroutinesAssumption
    DEF WatcherInv, WatcherTyped, DrivesTyped, MountpointsTyped, LockInv, BagToSet
<1> QED
  BY <1>1, <1>2, <1>5 DEF ClientTyped

LEMMA ClientRestartsTyped ==
  ASSUME ClientTyped, ClientRestarts, UNCHANGED serviceVars
  PROVE  ClientTyped'
<1>1. ServiceTyped'
  BY SameService DEF ClientTyped
<1>2. DispatcherTyped'
  BY DEF ClientRestarts, DispatcherTyped
<1>3. JobsTyped'
  BY DEF ClientRestarts, JobsTyped, EmptyMap
<1>4. DOMAIN drives' = {} /\ DOMAIN mountpoints' = {} /\ DOMAIN arriving' = {}
      /\ pendingMounts' = {} /\ existing' = <<>> /\ mapLock' = None
  BY DEF ClientRestarts, EmptyMap, EmptyBag, SetToBag
<1>5. at' \in [Goroutines -> Where] /\ \A g \in Goroutines : ~ HoldsLock(g)'
  <2>1. \A g \in Goroutines : Rest(g) \in Where /\ Rest(g).point \in {"select", "existing"}
    BY RestFacts
  <2>2. [point |-> "getManagedObjects"] \in Where
    BY MayWait
  <2> QED
    BY <2>1, <2>2 DEF ClientRestarts, HoldsLock, Sending
<1>6. WatcherInv'
  BY <1>4, <1>5, GoroutinesAssumption
    DEF WatcherInv, WatcherTyped, DrivesTyped, MountpointsTyped, LockInv, BagToSet
<1> QED
  BY <1>1, <1>2, <1>3, <1>6 DEF ClientTyped

-----------------------------------------------------------------------------
(* Bags: some more, one less *)

LEMMA EmptyBagFacts == IsABag(EmptyBag) /\ BagToSet(EmptyBag) = {}
  BY DEF IsABag, EmptyBag, BagToSet, SetToBag

LEMMA SomeMore ==
  ASSUME NEW B, NEW S
  PROVE  /\ BagToSet(B (+) SetToBag(S)) = BagToSet(B) \cup S
         /\ IsABag(B) => IsABag(B (+) SetToBag(S))
<1> DEFINE C == B (+) SetToBag(S)
<1>1. /\ DOMAIN C = DOMAIN B \cup S
      /\ C = [e \in DOMAIN C |-> C[e]]
      /\ \A e \in DOMAIN C :
           C[e] = (IF e \in DOMAIN B THEN B[e] ELSE 0) + (IF e \in S THEN 1 ELSE 0)
  BY DEF (+), SetToBag
<1> HIDE DEF C
<1>2. ASSUME IsABag(B), NEW e \in DOMAIN C PROVE C[e] \in {n \in Nat : n > 0}
  <2>1. \A d \in DOMAIN B : B[d] \in Nat /\ B[d] > 0
    BY <1>2 DEF IsABag
  <2> QED
    BY <1>1, <2>1
<1>3. IsABag(B) => IsABag(C)
  BY <1>1, <1>2 DEF IsABag
<1> QED
  BY <1>1, <1>3 DEF BagToSet, C

LEMMA OneMore ==
  ASSUME NEW B, NEW x
  PROVE  /\ BagToSet(B (+) SetToBag({x})) = BagToSet(B) \cup {x}
         /\ IsABag(B) => IsABag(B (+) SetToBag({x}))
  BY SomeMore

LEMMA OneLess ==
  ASSUME NEW B, NEW x
  PROVE  /\ BagToSet(B (-) SetToBag({x})) \subseteq BagToSet(B)
         /\ IsABag(B) => IsABag(B (-) SetToBag({x}))
         /\ IsABag(B) =>
              \A e \in BagToSet(B) : e # x => e \in BagToSet(B (-) SetToBag({x}))
<1> DEFINE D == [e \in DOMAIN B |-> IF e \in {x} THEN B[e] - 1 ELSE B[e]]
           C == [e \in {d \in DOMAIN D : D[d] > 0} |-> D[e]]
<1>1. B (-) SetToBag({x}) = C
  <2>1. DOMAIN SetToBag({x}) = {x} /\ \A e \in {x} : SetToBag({x})[e] = 1
    BY DEF SetToBag
  <2>2. D = [e \in DOMAIN B |-> IF e \in DOMAIN SetToBag({x}) THEN B[e] - SetToBag({x})[e] ELSE B[e]]
    BY <2>1
  <2> QED
    BY <2>2 DEF (-)
<1>2. DOMAIN C \subseteq DOMAIN B /\ C = [e \in DOMAIN C |-> C[e]]
  OBVIOUS
<1>3. ASSUME IsABag(B)
      PROVE  /\ \A e \in DOMAIN C : C[e] \in {n \in Nat : n > 0}
             /\ \A e \in DOMAIN B : e # x => e \in DOMAIN C
  <2>1. \A e \in DOMAIN B : B[e] \in Nat /\ B[e] > 0
    BY <1>3 DEF IsABag
  <2> QED
    BY <2>1
<1> HIDE DEF C, D
<1>4. IsABag(B) => IsABag(C)
  BY <1>2, <1>3 DEF IsABag
<1> QED
  BY <1>1, <1>2, <1>3, <1>4 DEF BagToSet

-----------------------------------------------------------------------------
(* The type invariant of the package *)

(* Every signal is an event. *)
LEMMA SignalEvents ==
  ASSUME NEW w \in Watches PROVE Signals(w) \subseteq Event
<1>1. DeviceAdditions \cup DeviceRemovals \cup JobRemovals \subseteq Event
  <2>1. DriveAdditions \subseteq Event
    <3>1. ASSUME NEW d \in Drives PROVE Added(d, driveProps(d)) \in Event
      BY DEF Added, driveProps, DriveProps, Event, Additions
    <3> QED
      BY <3>1 DEF DriveAdditions
  <2>2. BlockAdditions \subseteq Event
    BY DEF BlockAdditions, Event, Additions
  <2>3. DeviceRemovals \cup JobRemovals \subseteq Event
    BY DEF DeviceRemovals, JobRemovals, Removed, Event, Removals, Paths, Ifaces, JobIface
  <2> QED
    BY <2>1, <2>2, <2>3 DEF DeviceAdditions
<1>2. ASSUME NEW p \in JobPaths, NEW op \in JobOperations, NEW b \in Blocks
      PROVE  JobAddition(p, op, b) \in Event
  <2>1. <<b>> \in Seq(Blocks) /\ op \in Operations
    BY DEF JobOperations, Operations
  <2>2. [op |-> op, objects |-> <<b>>] \in JobProps
    BY <2>1 DEF JobProps
  <2> QED
    BY <2>2 DEF JobAddition, Added, Event, Additions
<1> QED
  BY <1>1, <1>2 DEF Signals, JobAdditions

(* Every job is a job of the job manager. *)
LEMMA JobsAreJobs == Jobs \subseteq Job
<1>1. OnePath \subseteq Seq(Blocks)
  <2>1. \A b \in Blocks : <<b>> \in Seq(Blocks)
    OBVIOUS
  <2> QED
    BY <2>1 DEF OnePath
<1>2. JobOperations \subseteq Operations
  BY DEF JobOperations, Operations
<1> QED
  BY <1>1, <1>2 DEF Jobs, Job

(* The variables of the package have their types. *)
LEMMA ClientTypes ==
  ASSUME ClientTyped
  PROVE  ClientTypeOK
<1>1. ASSUME NEW w \in Watches
      PROVE  watch[w] \in Seq(Event) /\ held[w] \in Seq(Event)
  <2>1. watch[w] \in Seq(Signals(w)) /\ held[w] \in {<<>>} \cup {<<e>> : e \in Signals(w)}
    BY DEF ClientTyped, DispatcherTyped
  <2>2. \A e \in Signals(w) : e \in Event
    BY SignalEvents
  <2>3. watch[w] \in Seq(Event)
    BY <2>1, <2>2, SignalEvents
  <2>4. \A e \in Event : <<e>> \in Seq(Event)
    OBVIOUS
  <2>5. CASE held[w] = <<>>
    BY <2>3, <2>5
  <2>6. CASE held[w] \in {<<e>> : e \in Signals(w)}
    BY <2>2, <2>3, <2>4, <2>6
  <2> QED
    BY <2>1, <2>5, <2>6
<1>2. /\ DOMAIN drives \subseteq Drives \cup Blocks
      /\ \A d \in DOMAIN drives :
           /\ drives[d].mounted \in BOOLEAN
           /\ \A b \in DOMAIN drives[d].blockDevices : drives[d].blockDevices[b] \in BlockProps
  BY DEF ClientTyped, WatcherInv, WatcherTyped, DrivesTyped, IsDrive
<1> QED
  BY <1>1, <1>2, JobsAreJobs
    DEF ClientTyped, ClientTypeOK, JobsTyped, WatcherInv, WatcherTyped, MountpointsTyped,
        LockInv, Mountpoints

(* Without a nil channel, the lock is held exactly while sending. *)
LEMMA HeldWhileSending ==
  ASSUME ClientTyped, Stranded = {}
  PROVE  LockedOnlyWhileSending
<1>1. ASSUME NEW g \in Goroutines PROVE at[g].point # "nil"
  <2>1. at[g] \in Where
    BY DEF ClientTyped, WatcherInv, WatcherTyped
  <2> QED
    BY <2>1 DEF Where, Sending
<1>2. \A g \in Goroutines : mapLock = g <=> HoldsLock(g)
  BY <1>1 DEF ClientTyped, WatcherInv, LockInv
<1> QED
  BY <1>2 DEF HoldsLock, Sending, LockedOnlyWhileSending
=============================================================================
