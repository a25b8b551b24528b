--------------------------- MODULE DriveRequests ---------------------------
(***************************************************************************)
(* What the user asks of a drive, udisks2/udisks2.go: Unmount starts one   *)
(* goroutine per block device and does not wait for them; Format starts    *)
(* one that unmounts what is mounted, deletes the partitions and formats   *)
(* what can be partitioned, one D-Bus call at a time.  Only errors are     *)
(* reported here: success comes, like anybody's, from the jobs of UDisks2. *)
(***************************************************************************)
EXTENDS StorageClient

CONSTANTS Partitions,      \* block devices with a Partition interface
          Partitionable    \* block devices with HintPartitionable set

ASSUME PartitionsAssumption ==
  Partitions \subseteq Blocks /\ Partitionable \subseteq Blocks

(* A copy of a drive that has no block devices is told from one that shares
   its map. *)
ASSUME SharedAssumption == \A s \in SUBSET Blocks : s # None

VARIABLES umounts,      \* the goroutines of umount, a bag
          formatters    \* the goroutines of Format, a bag

requestVars == <<umounts, formatters>>

RequestsInit == umounts = EmptyBag /\ formatters = EmptyBag

(* A copy of a Drive shares the map of block devices with the storage
   watcher (blocks = None), until that drops the drive or replaces it. *)
CopyOf(d) == [path |-> d, mounted |-> drives[d].mounted, blocks |-> None]

BlocksOf(drive) ==
  IF drive.blocks = None THEN DOMAIN drives[drive.path].blockDevices ELSE drive.blocks

(* The drive that g is about to drop or replace. *)
Dropped(g) ==
  CASE at[g].point = "add"    -> {at[g].event.path} \cap Drives
    [] at[g].point = "remove" -> {at[g].path} \cap Drives
    [] OTHER -> {}

Detach(drive, dropped) ==
  IF drive.path \in dropped THEN [drive EXCEPT !.blocks = BlocksOf(drive)] ELSE drive

DetachRequests(dropped) ==
  /\ formatters' =
       BagOfAll(LAMBDA f : [f EXCEPT !.drive = Detach(@, dropped)], formatters)
  /\ UNCHANGED umounts

One(x) == SetToBag({x})
Move(bag, old, new) == (bag (-) One(old)) (+) One(new)

-----------------------------------------------------------------------------
(* Unmount.  A drive that is not known to be mounted is an error, which the
   caller itself sends. *)

Unmount(drive) ==
  umounts' = umounts (+) SetToBag({[path |-> b, step |-> "calling"] : b \in BlocksOf(drive)})

UmountAccepted(u) ==
  /\ u.step = "calling"
  /\ AcceptUnmount(u.path)
  /\ umounts' = Move(umounts, u, [u EXCEPT !.step = "unmounting"])
  /\ UNCHANGED <<formatters, left>>

(* Not mounted, gone, or busy. *)
UmountRefused(u) ==
  /\ u.step = "calling"
  /\ umounts' = Move(umounts, u, [u EXCEPT !.step = "failed"])
  /\ UNCHANGED <<formatters, serviceVars, watch>>

(* The reader of unmountErrors has the error. *)
SendUnmountError(u) ==
  /\ u.step = "failed"
  /\ umounts' = umounts (-) One(u)
  /\ UNCHANGED formatters

-----------------------------------------------------------------------------
(* Format: three loops over the block devices, in the order of a map
   iteration: todo are those of them that were there when the loop began and
   have yet to be visited, done those it has visited.  A block device that
   joins the drive meanwhile may be visited or not. *)

Visits(loop, drive) ==
  BlocksOf(drive) \cap
    CASE loop = "unmount" -> Blocks [] loop = "delete" -> Partitions [] loop = "format" -> Partitionable

Looping(drive, loop) ==
  [drive |-> drive, loop |-> loop, todo |-> Visits(loop, drive), done |-> {},
   step |-> "next", block |-> None]

Format(drive) == formatters' = formatters (+) One(Looping(drive, "unmount"))

Goes(f, new) == formatters' = Move(formatters, f, new) /\ UNCHANGED umounts
Ends(f) == formatters' = formatters (-) One(f) /\ UNCHANGED umounts

AtNext(f) == [f EXCEPT !.step = "next", !.block = None]

FirstStep == [unmount |-> "query", delete |-> "delete", format |-> "format"]

FormatContinues(f) ==
  /\ f.step = "next"
  /\ LET here == Visits(f.loop, f.drive)
         todo == f.todo \cap here
     IN  \/ \E b \in here \ f.done :
              Goes(f, [f EXCEPT !.todo = todo \ {b}, !.done = @ \cup {b},
                                !.block = b, !.step = FirstStep[f.loop]])
         \/ todo = {} /\ f.loop = "unmount" /\ Goes(f, Looping(f.drive, "delete"))
         \/ todo = {} /\ f.loop = "delete" /\ Goes(f, Looping(f.drive, "format"))
         \/ todo = {} /\ f.loop = "format" /\ Ends(f)
  /\ UNCHANGED <<serviceVars, watch, drives>>

(* mountpointsForPath: a query that fails, here in any session, passes for
   "not mounted". *)
FormatQueried(f) ==
  /\ f.step = "query"
  /\ \/ f.block \in mounted /\ Goes(f, [f EXCEPT !.step = "unmount"])
     \/ Goes(f, AtNext(f))
  /\ UNCHANGED <<serviceVars, watch, drives>>

(* UDisks2 starts the job that was asked for; its end is the answer. *)
FormatAccepted(f) ==
  /\ \/ /\ f.step = "unmount" /\ AcceptUnmount(f.block)
        /\ Goes(f, [f EXCEPT !.step = "unmounting"])
     \/ /\ f.step = "format" /\ AcceptFormat(f.block)
        /\ Goes(f, [f EXCEPT !.step = "formatting"])
  /\ UNCHANGED <<left, drives>>

(* UDisks2 has deleted the partition ... *)
PartitionDeleted(f) ==
  /\ f.step = "delete"
  /\ f.block \notin mounted
  /\ RemoveBlock(f.block)
  /\ Goes(f, [f EXCEPT !.step = "deleted"])
  /\ UNCHANGED drives

(* ... and the map of the drive loses it too. *)
PartitionForgotten(f) ==
  /\ f.step = "deleted"
  /\ IF f.drive.blocks = None
     THEN /\ drives' = [drives EXCEPT ![f.drive.path].blockDevices = Delete(@, f.block)]
          /\ Goes(f, AtNext(f))
     ELSE /\ Goes(f, [AtNext(f) EXCEPT !.drive.blocks = @ \ {f.block}])
          /\ UNCHANGED drives
  /\ UNCHANGED <<serviceVars, watch>>

(* Unmounting may be refused at any time, the device being busy; the other
   calls when the device is not there, mounted or has a job. *)
FormatRefused(f) ==
  /\ \/ f.step = "unmount"
     \/ f.step = "delete" /\ f.block \notin present \ mounted
     \/ f.step = "format" /\ (f.block \notin present \ mounted \/ Busy(f.block))
  /\ Goes(f, [f EXCEPT !.step = "failed"])
  /\ UNCHANGED <<serviceVars, watch, drives>>

(* The reader of formatErrors has the error: Format goes on only if it was
   the format of a block device that failed. *)
SendFormatError(f) ==
  /\ f.step = "failed"
  /\ IF f.loop = "format" THEN Goes(f, AtNext(f)) ELSE Ends(f)

-----------------------------------------------------------------------------
(* The end of a job is also the answer to the call that started it. *)
RequestedJobEnds(p) ==
  /\ FinishJob(p)
  /\ LET b == running[p].block
         op == running[p].op
         callers == {u \in BagToSet(umounts) :
                       op = UnmountFs /\ u = [path |-> b, step |-> "unmounting"]}
         formatting == {f \in BagToSet(formatters) :
                          f.block = b /\ \/ op = UnmountFs /\ f.step = "unmounting"
                                         \/ op = Mkfs /\ f.step = "formatting"}
     IN  \/ \E u \in callers : umounts' = umounts (-) One(u) /\ UNCHANGED formatters
         \/ /\ callers = {}
            /\ \E f \in formatting :
                 Goes(f, IF op = Mkfs /\ b \notin present THEN [f EXCEPT !.step = "failed"]
                         ELSE AtNext(f))
         \/ callers \cup formatting = {} /\ UNCHANGED requestVars
=============================================================================
