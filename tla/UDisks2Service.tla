--------------------------- MODULE UDisks2Service ---------------------------
(***************************************************************************)
(* The UDisks2 system service and the hardware behind it, as far as        *)
(* Ciborium can tell: cards come and go, file systems are mounted,         *)
(* unmounted and made, and all of it is announced with InterfacesAdded and *)
(* InterfacesRemoved.  This module is external to the repository; it is    *)
(* written from what the code asks of the service.                         *)
(***************************************************************************)
EXTENDS Dispatcher

CONSTANTS DriveOf,        \* block device -> its drive
          Removable,      \* the drives with MediaRemovable set
          SystemBlocks,   \* the block devices with HintSystem set
          Sessions        \* bound: what may come from outside, see IsSession

(* A session: the block devices of the card, which of them may be mounted
   before the client starts, the file systems they first come with, how often
   each object appears, how many unmounts and formats other processes ask
   for, and whether queries may fail. *)
IsSession(s) ==
  /\ s.card \subseteq Blocks /\ s.before \subseteq s.card
  /\ s.fs \in [Blocks -> FsTypes]
  /\ s.insertions \in [Drives \cup Blocks -> Nat]
  /\ s.unmounts \in Nat /\ s.formats \in Nat /\ s.failing \in BOOLEAN

ASSUME ServiceAssumption ==
  /\ DriveOf \in [Blocks -> Drives]
  /\ \A s \in Sessions : IsSession(s)
  /\ Removable \subseteq Drives
  /\ SystemBlocks \subseteq Blocks

VARIABLES present,     \* the drives and block devices that exist
          fs,          \* block device -> the file system it holds
          mounted,     \* the block devices that are mounted
          running,     \* path of a running job -> what it does
          unprobed,    \* block devices whose new file system is not announced yet
          usedJobs,    \* job paths taken so far
          asked,       \* block device -> what another process last asked for
          left         \* what of the session is still to come, or may happen

serviceVars ==
  <<present, fs, mounted, running, unprobed, usedJobs, asked, left>>

(* When a client starts there may be nothing, a reader without a card, or a
   card with some of its block devices mounted before. *)
ServiceInit(s) ==
  /\ present \in {{}, Drives, Drives \cup s.card}
  /\ fs = s.fs
  /\ mounted \in SUBSET {b \in s.before \cap present : fs[b] # "none"}
  /\ running = EmptyMap
  /\ unprobed = {}
  /\ usedJobs = {}
  /\ asked = [b \in Blocks |-> "none"]
  /\ left = [insertions |-> [o \in Drives \cup Blocks |->
                              s.insertions[o] - (IF o \in present THEN 1 ELSE 0)],
             unmounts |-> s.unmounts, formats |-> s.formats, failing |-> s.failing]

-----------------------------------------------------------------------------
driveProps(d) == [removable |-> d \in Removable]

blockProps(b) ==
  [block |-> TRUE, drive |-> DriveOf[b], fs |-> fs[b],
   mounted |-> b \in mounted, system |-> b \in SystemBlocks]

filesystemProps(b, type) ==
  [block |-> FALSE, drive |-> DriveOf[b], fs |-> type,
   mounted |-> FALSE, system |-> FALSE]

BlockIfaces(b) ==
  {BlockIface} \cup IF fs[b] # "none" THEN {FilesystemIface} ELSE {}

Busy(b) == \E p \in DOMAIN running : running[p].block = b

(* A drive appears before its block devices and disappears after them. *)
Insert(o) ==
  /\ o \notin present
  /\ left.insertions[o] > 0
  /\ left' = [left EXCEPT !.insertions[o] = @ - 1]
  /\ present' = present \cup {o}
  /\ UNCHANGED <<mounted, running, unprobed, usedJobs>>

InsertDrive(d) ==
  /\ Insert(d)
  /\ Signal("additions", Added(d, driveProps(d)))
  /\ UNCHANGED <<fs, asked>>

(* A card put back has nothing asked of it, unless a request of before is
   still under way: that one will be carried out on it. *)
InsertBlock(b) ==
  /\ DriveOf[b] \in present
  /\ Insert(b)
  /\ Signal("additions", Added(b, blockProps(b)))
  /\ asked' = [asked EXCEPT ![b] = IF Busy(b) THEN @ ELSE "none"]
  /\ UNCHANGED fs

(* Pulling the card out takes the mount with it. *)
RemoveBlock(b) ==
  /\ b \in present
  /\ present' = present \ {b}
  /\ mounted' = mounted \ {b}
  /\ unprobed' = unprobed \ {b}
  /\ Signal("removals", Removed(b, BlockIfaces(b)))
  /\ UNCHANGED <<fs, running, usedJobs, asked, left>>

RemoveDrive(d) ==
  /\ d \in present
  /\ \A b \in Blocks : DriveOf[b] = d => b \notin present
  /\ present' = present \ {d}
  /\ Signal("removals", Removed(d, {DriveIface}))
  /\ UNCHANGED <<fs, mounted, running, unprobed, usedJobs, asked, left>>

-----------------------------------------------------------------------------
(* Jobs.  Every job gets a path of its own and ends with its path removed. *)

StartJob(operation, b) ==
  /\ ~ Busy(b)
  /\ \E p \in JobPaths \ usedJobs :
       /\ p = CHOOSE q \in JobPaths \ usedJobs : TRUE
       /\ usedJobs' = usedJobs \cup {p}
       /\ running' = Put(running, p, [op |-> operation, block |-> b])
       /\ Signal("additions", Added(p, [op |-> operation, objects |-> <<b>>]))
  /\ UNCHANGED <<present, fs, mounted, unprobed>>

(* The Mount method, when it is not refused. *)
Mountable(b) == b \in present /\ fs[b] # "none" /\ b \notin mounted /\ ~ Busy(b)

StartMount(b) ==
  /\ Mountable(b)
  /\ StartJob(MountFs, b)
  /\ UNCHANGED <<asked, left>>

(* The Unmount and Format methods, when they are not refused. *)
AcceptUnmount(b) ==
  /\ b \in mounted
  /\ StartJob(UnmountFs, b)
  /\ asked' = [asked EXCEPT ![b] = "unmount"]

AcceptFormat(b) ==
  /\ b \in present \ mounted
  /\ b \notin unprobed
  /\ StartJob(Mkfs, b)
  /\ asked' = [asked EXCEPT ![b] = "format"]

(* The same, called by another process: the settings. *)
StartUnmount(b) ==
  /\ left.unmounts > 0
  /\ left' = [left EXCEPT !.unmounts = @ - 1]
  /\ AcceptUnmount(b)

StartFormat(b) ==
  /\ left.formats > 0
  /\ left' = [left EXCEPT !.formats = @ - 1]
  /\ AcceptFormat(b)

JobOn(p, operation) == p \in DOMAIN running /\ running[p].op = operation

(* Formatting takes the old file system away first. *)
Wipe(p) ==
  /\ JobOn(p, Mkfs)
  /\ running[p].block \in present
  /\ fs[running[p].block] # "none"
  /\ fs' = [fs EXCEPT ![running[p].block] = "none"]
  /\ Signal("removals", Removed(running[p].block, {FilesystemIface}))
  /\ UNCHANGED <<present, mounted, running, unprobed, usedJobs, asked, left>>

FinishJob(p) ==
  /\ p \in DOMAIN running
  /\ LET b == running[p].block
         op == running[p].op
     IN  /\ (op = Mkfs /\ b \in present) => fs[b] = "none"
         /\ mounted' = CASE op = MountFs -> mounted \cup ({b} \cap present)
                         [] op = UnmountFs -> mounted \ {b}
                         [] OTHER -> mounted
         /\ unprobed' = IF op = Mkfs THEN unprobed \cup ({b} \cap present) ELSE unprobed
  /\ running' = Delete(running, p)
  /\ Signal("removals", Removed(p, {JobIface}))
  /\ UNCHANGED <<present, fs, usedJobs, asked, left>>

(* The new file system is announced only after the job that made it. *)
AnnounceFilesystem(b) ==
  /\ b \in unprobed
  /\ unprobed' = unprobed \ {b}
  /\ fs' = [fs EXCEPT ![b] = "vfat"]
  /\ Signal("additions", Added(b, filesystemProps(b, "vfat")))
  /\ UNCHANGED <<present, mounted, running, usedJobs, asked, left>>

(* What GetManagedObjects answers: the objects in no particular order. *)
managedDrives == {Added(d, driveProps(d)) : d \in Drives \cap present}
managedBlocks == {Added(b, blockProps(b)) : b \in Blocks \cap present}
=============================================================================
