-------------------------- MODULE CiboriumUI_proofs --------------------------
(***************************************************************************)
(* The settings application, for any drives, block devices and partitions, *)
(* whatever the user, the daemon and other processes do: every part holds  *)
(* only what the others give it, a copy of a drive that shares its map of  *)
(* block devices is one of a drive the storage watcher still has, and the  *)
(* view has as many rows as the list has drives once the refreshes, which  *)
(* may overlap, are over.                                                  *)
(***************************************************************************)
EXTENDS CiboriumUI, StorageClient_proofs

-----------------------------------------------------------------------------
(* The types *)

(* A copy that shares its map of block devices is one of a drive that is
   still in the drives map. *)
AttachedIn(copy, dm) == copy.blocks = None => copy.path \in DOMAIN dm
Attached(copy) == AttachedIn(copy, drives)

Lists == Seq(Copy)
AttachedList(list) == \A i \in DOMAIN list : Attached(list[i])

Umount == [path : Blocks, step : {"calling", "unmounting", "failed"}]

Calling == {"query", "unmount", "delete", "deleted", "format", "unmounting", "formatting"}

Formatter ==
  {f \in [drive : Copy, loop : {"unmount", "delete", "format"},
          todo : SUBSET Blocks, done : SUBSET Blocks,
          step : {"next", "failed"} \cup Calling, block : Blocks \cup {None}] :
     f.step \in Calling => f.block \in Blocks}

RequestsTyped ==
  /\ BagToSet(umounts) \subseteq Umount
  /\ BagToSet(formatters) \subseteq Formatter
  /\ \A f \in BagToSet(formatters) : Attached(f.drive)

ListTyped ==
  /\ ExternalDrives \in Lists /\ AttachedList(ExternalDrives)
  /\ BagToSet(answers) \subseteq [list : Lists, old : BOOLEAN]
  /\ \A a \in BagToSet(answers) : AttachedList(a.list)
  /\ listLen \in Nat /\ shown \in Nat

Dialog == [kind : Dialogs, state : {"confirm", "busy", "error", "finish"}]

DialogTyped ==
  /\ Formatting \in BOOLEAN /\ FormatError \in BOOLEAN
  /\ Unmounting \in BOOLEAN /\ UnmountError \in BOOLEAN
  /\ gui \in {"watching", "idle", "unmountErrors", "dead"}
  /\ dialog \in Dialog \cup {None}
  /\ gui = "unmountErrors" => dialog \in Dialog

TypedInv == ClientTyped /\ RequestsTyped /\ ListTyped /\ DialogTyped

-----------------------------------------------------------------------------
(* What a step leaves alone *)

(* The drives map may gain drives, but loses none of those it has. *)
KeepsDrives == DOMAIN drives \subseteq DOMAIN drives'

LEMMA SameRequests ==
  ASSUME RequestsTyped, KeepsDrives, UNCHANGED requestVars
  PROVE  RequestsTyped'
  BY DEF RequestsTyped, requestVars, KeepsDrives, Attached, AttachedIn

LEMMA SameLists ==
  ASSUME ListTyped, KeepsDrives,
         UNCHANGED <<ExternalDrives, answers, listLen, shown>>
  PROVE  ListTyped'
  BY DEF ListTyped, KeepsDrives, Attached, AttachedIn, AttachedList

LEMMA SameDialog == ASSUME DialogTyped, UNCHANGED dialogVars PROVE DialogTyped'
  BY DEF DialogTyped, dialogVars, flags

-----------------------------------------------------------------------------
(* Copies of drives *)

LEMMA BlocksOfTyped ==
  ASSUME WatcherInv, NEW c \in Copy, Attached(c)
  PROVE  BlocksOf(c) \subseteq Blocks
  BY DEF BlocksOf, Copy, Attached, AttachedIn, WatcherInv, WatcherTyped, DrivesTyped, IsDrive

(* A copy that is detached when its drive is dropped. *)
LEMMA DetachTyped ==
  ASSUME WatcherInv, NEW c \in Copy, Attached(c), NEW dropped,
         DOMAIN drives \subseteq DOMAIN drives' \cup dropped
  PROVE  Detach(c, dropped) \in Copy /\ AttachedIn(Detach(c, dropped), drives')
<1>1. CASE c.path \in dropped
  <2>1. Detach(c, dropped) = [c EXCEPT !.blocks = BlocksOf(c)]
    BY <1>1 DEF Detach
  <2>2. BlocksOf(c) \in SUBSET Blocks
    BY BlocksOfTyped
  <2>3. Detach(c, dropped) \in Copy /\ Detach(c, dropped).blocks = BlocksOf(c)
    BY <2>1, <2>2 DEF Copy
  <2> QED
    BY <2>2, <2>3, SharedAssumption DEF AttachedIn
<1>2. CASE c.path \notin dropped
  BY <1>2 DEF Detach, Attached, AttachedIn
<1> QED
  BY <1>1, <1>2

LEMMA DetachListTyped ==
  ASSUME WatcherInv, NEW list \in Lists, AttachedList(list), NEW dropped,
         DOMAIN drives \subseteq DOMAIN drives' \cup dropped
  PROVE  /\ DetachList(list, dropped) \in Lists
         /\ Len(DetachList(list, dropped)) = Len(list)
         /\ \A i \in DOMAIN DetachList(list, dropped) :
              AttachedIn(DetachList(list, dropped)[i], drives')
<1> DEFINE l == DetachList(list, dropped)
<1>1. Len(list) \in Nat /\ DOMAIN list = 1 .. Len(list)
  BY DEF Lists
<1>2. \A i \in DOMAIN list : Detach(list[i], dropped) \in Copy /\ AttachedIn(Detach(list[i], dropped), drives')
  BY <1>1, DetachTyped DEF Lists, AttachedList
<1>3. l = [i \in 1 .. Len(list) |-> Detach(list[i], dropped)]
  BY <1>1 DEF DetachList
<1>4. l \in Seq(Copy) /\ Len(l) = Len(list) /\ DOMAIN l = 1 .. Len(list)
  BY <1>1, <1>2, <1>3
<1> HIDE DEF l
<1> QED
  BY <1>1, <1>2, <1>3, <1>4 DEF Lists, l

(* What the storage watcher drops is detached first. *)
LEMMA DroppedFacts ==
  ASSUME ClientTyped, NEW g \in Goroutines, Watch(g)
  PROVE  DOMAIN drives \subseteq DOMAIN drives' \cup Dropped(g)
<1>1. CASE EnterAdd(g)
  <2> DEFINE s == at[g].event
  <2>1. UNCHANGED drives \/ drives' = addInterface(s)
    BY <1>1 DEF EnterAdd, AddDevice
  <2>2. \A k, v : DOMAIN drives \subseteq DOMAIN Put(drives, k, v)
    BY DEF Put
  <2>3. DOMAIN drives \subseteq DOMAIN addInterface(s)
    BY <2>2 DEF addInterface
  <2> QED
    BY <2>1, <2>3
<1>2. CASE g = "loop" /\ RemoveDevice
  BY <1>2 DEF RemoveDevice, Dropped, Delete
<1>3. CASE AddExisting
  BY <1>3 DEF AddExisting
<1> QED
  BY <1>1, <1>2, <1>3 DEF Watch, WatcherStep

LEMMA RequestsDetached ==
  ASSUME WatcherInv, RequestsTyped, NEW dropped,
         DOMAIN drives \subseteq DOMAIN drives' \cup dropped, DetachRequests(dropped)
  PROVE  RequestsTyped'
<1> DEFINE new(f) == [f EXCEPT !.drive = Detach(@, dropped)]
<1>1. ASSUME NEW f \in BagToSet(formatters)
      PROVE  new(f) \in Formatter /\ AttachedIn(new(f).drive, drives')
  <2>1. f \in Formatter /\ Attached(f.drive) /\ f.drive \in Copy
    BY DEF RequestsTyped, Formatter
  <2>2. Detach(f.drive, dropped) \in Copy /\ AttachedIn(Detach(f.drive, dropped), drives')
    BY <2>1, DetachTyped
  <2>3. new(f).drive = Detach(f.drive, dropped)
    BY <2>1 DEF Formatter
  <2> QED
    BY <2>1, <2>2, <2>3 DEF Formatter
<1>2. BagToSet(formatters') = {new(f) : f \in BagToSet(formatters)}
  BY DEF DetachRequests, BagOfAll, BagToSet
<1> HIDE DEF new
<1> QED
  BY <1>1, <1>2 DEF RequestsTyped, DetachRequests, Attached

LEMMA ListDetached ==
  ASSUME WatcherInv, ListTyped, NEW dropped,
         DOMAIN drives \subseteq DOMAIN drives' \cup dropped, DetachControl(dropped)
  PROVE  ListTyped' /\ Len(ExternalDrives') = Len(ExternalDrives)
<1> DEFINE new(a) == [a EXCEPT !.list = DetachList(@, dropped)]
<1>1. ASSUME NEW a \in BagToSet(answers)
      PROVE  /\ new(a) \in [list : Lists, old : BOOLEAN]
             /\ \A i \in DOMAIN new(a).list : AttachedIn(new(a).list[i], drives')
  <2>1. a \in [list : Lists, old : BOOLEAN] /\ AttachedList(a.list)
    BY DEF ListTyped
  <2>2. /\ DetachList(a.list, dropped) \in Lists
        /\ \A i \in DOMAIN DetachList(a.list, dropped) :
             AttachedIn(DetachList(a.list, dropped)[i], drives')
    BY <2>1, DetachListTyped
  <2>3. new(a).list = DetachList(a.list, dropped)
    BY <2>1
  <2> QED
    BY <2>1, <2>2, <2>3
<1>2. BagToSet(answers') = {new(a) : a \in BagToSet(answers)}
  BY DEF DetachControl, BagOfAll, BagToSet
<1>3. /\ ExternalDrives' \in Lists /\ Len(ExternalDrives') = Len(ExternalDrives)
      /\ \A i \in DOMAIN ExternalDrives' : AttachedIn(ExternalDrives'[i], drives')
  BY DetachListTyped DEF DetachControl, ListTyped
<1> HIDE DEF new
<1> QED
  BY <1>1, <1>2, <1>3 DEF ListTyped, DetachControl, Attached, AttachedList

-----------------------------------------------------------------------------
(* The requests of the user *)

LEMMA MovedTo ==
  ASSUME NEW bag, NEW old, NEW new
  PROVE  BagToSet(Move(bag, old, new)) \subseteq BagToSet(bag) \cup {new}
<1> DEFINE less == bag (-) One(old)
<1>1. BagToSet(less) \subseteq BagToSet(bag)
  BY OneLess DEF One
<1>2. Move(bag, old, new) = less (+) One(new)
  BY DEF Move
<1> HIDE DEF less
<1>3. BagToSet(less (+) One(new)) = BagToSet(less) \cup {new}
  BY OneMore DEF One
<1> QED
  BY <1>1, <1>2, <1>3

LEMMA AddedTo ==
  ASSUME NEW bag, NEW S
  PROVE  BagToSet(bag (+) SetToBag(S)) = BagToSet(bag) \cup S
<1>1. DOMAIN SetToBag(S) = S
  BY DEF SetToBag
<1>2. \A C : DOMAIN (bag (+) C) = DOMAIN bag \cup DOMAIN C
  BY DEF (+)
<1> QED
  BY <1>1, <1>2 DEF BagToSet

(* A goroutine of Format goes on, or ends. *)
LEMMA FormatterGoes ==
  ASSUME RequestsTyped, KeepsDrives, NEW f \in BagToSet(formatters), NEW new \in Formatter,
         new.drive = f.drive \/ new.drive.blocks # None, Goes(f, new)
  PROVE  RequestsTyped'
<1>1. BagToSet(formatters') \subseteq BagToSet(formatters) \cup {new}
  BY MovedTo DEF Goes
<1>2. AttachedIn(new.drive, drives')
  BY DEF RequestsTyped, KeepsDrives, Attached, AttachedIn
<1>3. \A x \in BagToSet(formatters) : AttachedIn(x.drive, drives')
  BY DEF RequestsTyped, KeepsDrives, Attached, AttachedIn
<1>4. BagToSet(umounts') \subseteq Umount
  BY DEF Goes, RequestsTyped
<1>5. /\ BagToSet(formatters') \subseteq Formatter
      /\ \A x \in BagToSet(formatters') : AttachedIn(x.drive, drives')
  BY <1>1, <1>2, <1>3 DEF RequestsTyped
<1> QED
  BY <1>4, <1>5 DEF RequestsTyped, Attached

LEMMA FormatterEnds ==
  ASSUME RequestsTyped, KeepsDrives, NEW f, Ends(f)
  PROVE  RequestsTyped'
<1>1. BagToSet(formatters') \subseteq BagToSet(formatters)
  BY OneLess DEF Ends, One
<1> QED
  BY <1>1 DEF RequestsTyped, Ends, KeepsDrives, Attached, AttachedIn

LEMMA UmountGoes ==
  ASSUME RequestsTyped, KeepsDrives, NEW u \in BagToSet(umounts),
         NEW step \in {"calling", "unmounting", "failed"},
         \/ umounts' = Move(umounts, u, [u EXCEPT !.step = step])
         \/ umounts' = umounts (-) One(u),
         UNCHANGED formatters
  PROVE  RequestsTyped'
<1>1. [u EXCEPT !.step = step] \in Umount
  BY DEF RequestsTyped, Umount
<1>2. BagToSet(umounts') \subseteq Umount
  <2> DEFINE v == [u EXCEPT !.step = step]
  <2>1. BagToSet(umounts') \subseteq BagToSet(umounts) \cup {v}
    <3>1. BagToSet(Move(umounts, u, v)) \subseteq BagToSet(umounts) \cup {v}
      BY MovedTo
    <3>2. BagToSet(umounts (-) One(u)) \subseteq BagToSet(umounts)
      BY OneLess DEF One
    <3> QED
      BY <3>1, <3>2
  <2> QED
    BY <1>1, <2>1 DEF RequestsTyped
<1> QED
  BY <1>2 DEF RequestsTyped, KeepsDrives, Attached, AttachedIn

(* The steps of a goroutine of Format, but for its calls to UDisks2. *)
LEMMA FormatterSteps ==
  ASSUME NEW f \in Formatter
  PROVE  /\ AtNext(f) \in Formatter /\ AtNext(f).drive = f.drive
         /\ [f EXCEPT !.step = "failed"] \in Formatter
         /\ [f EXCEPT !.step = "failed"].drive = f.drive
         /\ f.block \in Blocks =>
              \A step \in Calling : /\ [f EXCEPT !.step = step] \in Formatter
                                    /\ [f EXCEPT !.step = step].drive = f.drive
<1>1. "next" \notin Calling /\ "failed" \notin Calling
  BY DEF Calling
<1> QED
  BY <1>1 DEF Formatter, AtNext

(* One of the loops of Format starts. *)
LEMMA LoopingTyped ==
  ASSUME WatcherInv, NEW c \in Copy, Attached(c), NEW loop \in {"unmount", "delete", "format"}
  PROVE  /\ Visits(loop, c) \in SUBSET Blocks
         /\ Looping(c, loop) \in Formatter /\ Looping(c, loop).drive = c
<1>1. Visits(loop, c) \in SUBSET Blocks
  BY BlocksOfTyped DEF Visits
<1>2. "next" \notin Calling
  BY DEF Calling
<1> QED
  BY <1>1, <1>2 DEF Looping, Formatter

LEMMA FormatContinuesTyped ==
  ASSUME ClientTyped, RequestsTyped, NEW f \in BagToSet(formatters), FormatContinues(f)
  PROVE  RequestsTyped'
<1> DEFINE here == Visits(f.loop, f.drive)
           todo == f.todo \cap here
<1>1. /\ f \in Formatter /\ f.drive \in Copy /\ Attached(f.drive) /\ WatcherInv
      /\ f.done \in SUBSET Blocks /\ f.loop \in {"unmount", "delete", "format"}
  BY DEF RequestsTyped, Formatter, ClientTyped
<1>2. here \in SUBSET Blocks
  BY <1>1, LoopingTyped
<1>3. KeepsDrives
  BY DEF FormatContinues, KeepsDrives
<1>4. ASSUME NEW b \in here,
             Goes(f, [f EXCEPT !.todo = todo \ {b}, !.done = @ \cup {b},
                               !.block = b, !.step = FirstStep[f.loop]])
      PROVE  RequestsTyped'
  <2> DEFINE new == [f EXCEPT !.todo = todo \ {b}, !.done = @ \cup {b},
                              !.block = b, !.step = FirstStep[f.loop]]
  <2>1. FirstStep[f.loop] \in Calling
    BY <1>1 DEF FirstStep, Calling
  <2>2. b \in Blocks /\ todo \ {b} \in SUBSET Blocks /\ f.done \cup {b} \in SUBSET Blocks
    BY <1>1, <1>2
  <2>3. new \in Formatter /\ new.drive = f.drive
    BY <1>1, <2>1, <2>2 DEF Formatter
  <2> QED
    BY <1>3, <1>4, <2>3, FormatterGoes
<1>5. ASSUME NEW loop \in {"delete", "format"}, Goes(f, Looping(f.drive, loop))
      PROVE  RequestsTyped'
  BY <1>1, <1>3, <1>5, LoopingTyped, FormatterGoes
<1> HIDE DEF here
<1> QED
  BY <1>3, <1>4, <1>5, FormatterEnds DEF FormatContinues, here

LEMMA PartitionDeletedTyped ==
  ASSUME ClientTyped, RequestsTyped, NEW f \in BagToSet(formatters), PartitionDeleted(f)
  PROVE  ServiceTyped' /\ DispatcherTyped' /\ RequestsTyped'
<1>1. f \in Formatter /\ f.block \in Blocks /\ "deleted" \in Calling
  BY DEF RequestsTyped, Formatter, PartitionDeleted, Calling
<1>2. ServiceTyped' /\ DispatcherTyped'
  BY <1>1, DevicesStep DEF PartitionDeleted, ClientTyped
<1>3. KeepsDrives
  BY DEF PartitionDeleted, KeepsDrives
<1> QED
  BY <1>1, <1>2, <1>3, FormatterSteps, FormatterGoes DEF PartitionDeleted

(* The partition leaves the map of its drive, or the copy that was detached. *)
LEMMA PartitionForgottenTyped ==
  ASSUME ClientTyped, RequestsTyped, NEW f \in BagToSet(formatters), PartitionForgotten(f)
  PROVE  DrivesTyped' /\ KeepsDrives /\ RequestsTyped'
<1>1. /\ f \in Formatter /\ f.drive \in Copy /\ Attached(f.drive) /\ f.block \in Blocks
      /\ DrivesTyped
  BY DEF RequestsTyped, Formatter, PartitionForgotten, Calling, ClientTyped, WatcherInv, WatcherTyped
<1>2. CASE f.drive.blocks = None
  <2> DEFINE d == f.drive.path
             r == [drives[d] EXCEPT !.blockDevices = Delete(@, f.block)]
  <2>1. d \in DOMAIN drives /\ d \in Drives
    BY <1>1, <1>2 DEF Attached, AttachedIn, Copy
  <2>2. /\ DOMAIN drives' = DOMAIN drives /\ drives'[d] = r
        /\ \A x \in DOMAIN drives \ {d} : drives'[x] = drives[x]
    BY <1>2, <2>1 DEF PartitionForgotten
  <2>3. IsDrive(drives[d]) /\ d \notin Blocks
    BY <1>1, <2>1, PathsAssumption DEF DrivesTyped
  <2>4. /\ r \in [blockDevices : {r.blockDevices}, driveInfo : DriveProps \cup BlockProps,
                  mounted : BOOLEAN]
        /\ r.driveInfo = drives[d].driveInfo
        /\ r.blockDevices = Delete(drives[d].blockDevices, f.block)
    BY <2>3 DEF IsDrive
  <2>5. /\ DOMAIN r.blockDevices \subseteq DOMAIN drives[d].blockDevices
        /\ \A b \in DOMAIN r.blockDevices : r.blockDevices[b] = drives[d].blockDevices[b]
    BY <2>4 DEF Delete
  <2>6. IsDrive(r)
    BY <2>3, <2>4, <2>5 DEF IsDrive
  <2> HIDE DEF r, d
  <2>7. DrivesTyped'
    BY <1>1, <2>1, <2>2, <2>3, <2>4, <2>5, <2>6 DEF DrivesTyped, driveProps
  <2>8. RequestsTyped'
    BY <1>1, <1>2, <2>2, FormatterSteps, FormatterGoes DEF PartitionForgotten, KeepsDrives
  <2> QED
    BY <2>2, <2>7, <2>8 DEF KeepsDrives
<1>3. CASE f.drive.blocks # None
  <2> DEFINE new == [AtNext(f) EXCEPT !.drive.blocks = @ \ {f.block}]
  <2>1. UNCHANGED drives /\ Goes(f, new)
    BY <1>3 DEF PartitionForgotten
  <2>2. AtNext(f) \in Formatter /\ AtNext(f).drive = f.drive
    BY <1>1, FormatterSteps
  <2>3. f.drive.blocks \ {f.block} \in SUBSET Blocks
    BY <1>1, <1>3 DEF Copy
  <2>4. new.drive = [f.drive EXCEPT !.blocks = @ \ {f.block}] /\ new \in Formatter
    BY <1>1, <2>2, <2>3 DEF Formatter, Copy
  <2>5. new.drive.blocks # None
    BY <1>1, <2>3, <2>4, SharedAssumption DEF Copy
  <2> HIDE DEF new
  <2>6. RequestsTyped'
    BY <2>1, <2>4, <2>5, FormatterGoes DEF KeepsDrives
  <2> QED
    BY <1>1, <2>1, <2>6, SameDrives DEF KeepsDrives
<1> QED
  BY <1>2, <1>3

LEMMA RequestStepTyped ==
  ASSUME TypedInv, RequestStep
  PROVE  TypedInv'
<1> DEFINE OnlyRequests ==
      UNCHANGED <<held, jobManagerVars, mountpoints, pendingMounts, mapLock, at, existing,
                  arriving, controlVars>>
<1>1. OnlyRequests
  BY DEF RequestStep
<1>2. ASSUME ServiceTyped', DispatcherTyped', DrivesTyped', KeepsDrives, RequestsTyped'
      PROVE  TypedInv'
  <2>1. JobsTyped'
    BY <1>1, SameJobs DEF TypedInv, ClientTyped
  <2>2. WatcherInv'
    BY <1>1, <1>2, SameMountpoints
      DEF TypedInv, ClientTyped, WatcherInv, WatcherTyped, LockInv, HoldsLock
  <2>3. ListTyped' /\ DialogTyped'
    BY <1>1, <1>2, SameLists, SameDialog DEF TypedInv, controlVars, listVars
  <2> QED
    BY <1>2, <2>1, <2>2, <2>3 DEF TypedInv, ClientTyped
<1>3. ServiceTyped /\ DispatcherTyped /\ DrivesTyped /\ RequestsTyped
  BY DEF TypedInv, ClientTyped, WatcherInv, WatcherTyped
<1>4. ASSUME UNCHANGED drives PROVE DrivesTyped' /\ KeepsDrives
  BY <1>3, <1>4, SameDrives DEF KeepsDrives
<1>5. ASSUME UNCHANGED <<serviceVars, watch>> PROVE ServiceTyped' /\ DispatcherTyped'
  BY <1>1, <1>3, <1>5, SameService, SameDispatcher DEF dispatcherVars
<1>6. ASSUME NEW u \in BagToSet(umounts), UmountAccepted(u), UNCHANGED drives
      PROVE  TypedInv'
  <2>1. u.path \in Blocks
    BY <1>3 DEF RequestsTyped, Umount
  <2>2. ServiceTyped' /\ DispatcherTyped'
    BY <1>3, <1>6, <2>1, StartJobStep DEF UmountAccepted, AcceptUnmount, JobOperations
  <2>3. RequestsTyped'
    BY <1>3, <1>4, <1>6, UmountGoes DEF UmountAccepted
  <2> QED
    BY <1>2, <1>4, <1>6, <2>2, <2>3
<1>7. ASSUME NEW u \in BagToSet(umounts), UmountRefused(u), UNCHANGED drives
      PROVE  TypedInv'
  <2>1. RequestsTyped'
    BY <1>3, <1>4, <1>7, UmountGoes DEF UmountRefused
  <2> QED
    BY <1>2, <1>4, <1>5, <1>7, <2>1 DEF UmountRefused
<1>8. ASSUME NEW f \in BagToSet(formatters) PROVE f \in Formatter
  BY <1>3 DEF RequestsTyped
<1>9. ASSUME NEW f \in BagToSet(formatters), FormatContinues(f) PROVE TypedInv'
  BY <1>2, <1>3, <1>4, <1>5, <1>9, FormatContinuesTyped DEF FormatContinues, TypedInv
<1>10. ASSUME NEW f \in BagToSet(formatters), FormatQueried(f) PROVE TypedInv'
  <2>1. f.block \in Blocks /\ "unmount" \in Calling
    BY <1>8, <1>10 DEF FormatQueried, Formatter, Calling
  <2>2. RequestsTyped'
    BY <1>3, <1>4, <1>8, <1>10, <2>1, FormatterSteps, FormatterGoes DEF FormatQueried
  <2> QED
    BY <1>2, <1>4, <1>5, <1>10, <2>2 DEF FormatQueried
<1>11. ASSUME NEW f \in BagToSet(formatters), FormatAccepted(f) PROVE TypedInv'
  <2>1. f.block \in Blocks /\ "unmounting" \in Calling /\ "formatting" \in Calling
    BY <1>8, <1>11 DEF FormatAccepted, Formatter, Calling
  <2>2. ServiceTyped' /\ DispatcherTyped'
    BY <1>3, <1>11, <2>1, StartJobStep
      DEF FormatAccepted, AcceptUnmount, AcceptFormat, JobOperations
  <2>3. RequestsTyped'
    BY <1>3, <1>4, <1>8, <1>11, <2>1, FormatterSteps, FormatterGoes DEF FormatAccepted
  <2> QED
    BY <1>2, <1>4, <1>11, <2>2, <2>3 DEF FormatAccepted
<1>12. ASSUME NEW f \in BagToSet(formatters), PartitionDeleted(f) PROVE TypedInv'
  BY <1>2, <1>4, <1>12, PartitionDeletedTyped DEF PartitionDeleted, TypedInv
<1>13. ASSUME NEW f \in BagToSet(formatters), FormatRefused(f) PROVE TypedInv'
  <2>1. RequestsTyped'
    BY <1>3, <1>4, <1>8, <1>13, FormatterSteps, FormatterGoes DEF FormatRefused
  <2> QED
    BY <1>2, <1>4, <1>5, <1>13, <2>1 DEF FormatRefused
<1>14. ASSUME NEW f \in BagToSet(formatters), PartitionForgotten(f) PROVE TypedInv'
  BY <1>2, <1>5, <1>14, PartitionForgottenTyped DEF PartitionForgotten, TypedInv
<1> QED
  BY <1>6, <1>7, <1>9, <1>10, <1>11, <1>12, <1>13, <1>14 DEF RequestStep

-----------------------------------------------------------------------------
(* The list of drives *)

(* What a step keeps, but for what the storage watcher holds. *)
LEMMA Steps ==
  ASSUME TypedInv, UNCHANGED <<serviceVars, dispatcherVars, jobManagerVars>>, WatcherInv',
         RequestsTyped', ListTyped', DialogTyped'
  PROVE  TypedInv'
  BY SameService, SameDispatcher, SameJobs DEF TypedInv, ClientTyped

(* What the storage watcher answers is a list of its drives. *)
LEMMA ListingsTyped ==
  ASSUME WatcherInv, NEW list \in Listings
  PROVE  list \in Lists /\ AttachedList(list)
<1>1. PICK ds \in SUBSET DOMAIN drives :
        (\A d \in ds : Listed(d)) /\ list \in SetToSeqs({CopyOf(d) : d \in ds})
  BY DEF Listings
<1> DEFINE S == {CopyOf(d) : d \in ds}
<1>2. ASSUME NEW d \in ds
      PROVE  d \in Drives /\ CopyOf(d) \in Copy /\ Attached(CopyOf(d))
  <2>1. d \in DOMAIN drives /\ Listed(d) /\ IsDrive(drives[d]) /\ d \in Drives \cup Blocks
    BY <1>1 DEF WatcherInv, WatcherTyped, DrivesTyped
  <2>2. DOMAIN drives[d].blockDevices # {}
    BY <2>1 DEF Listed, SystemHints
  <2>3. d \in Drives
    BY <2>1, <2>2 DEF WatcherInv, WatcherTyped, DrivesTyped
  <2>4. drives[d].mounted \in BOOLEAN
    BY <2>1 DEF IsDrive
  <2> QED
    BY <2>1, <2>3, <2>4 DEF CopyOf, Copy, Attached, AttachedIn
<1>3. IsFiniteSet(S)
  <2>1. IsFiniteSet(ds)
    BY <1>2, FiniteAssumption, FS_Subset
  <2> DEFINE f == [d \in ds |-> CopyOf(d)]
  <2>2. f \in Surjection(ds, S)
    BY DEF Surjection
  <2> HIDE DEF f, S
  <2> QED
    BY <2>1, <2>2, FS_Surjection
<1>4. list \in Seq(S)
  BY <1>1, <1>3, OrdersFacts
<1>5. \A i \in DOMAIN list : list[i] \in S
  BY <1>4
<1>6. S \subseteq Copy /\ \A c \in S : Attached(c)
  BY <1>2
<1> HIDE DEF S
<1>7. list \in Seq(Copy)
  BY <1>4, <1>6
<1> QED
  BY <1>5, <1>6, <1>7 DEF Lists, AttachedList

LEMMA ListStepTyped ==
  ASSUME TypedInv, ListStep
  PROVE  TypedInv'
<1>1. /\ UNCHANGED <<serviceVars, clientVars, requestVars, dialogVars>>
      /\ WatcherInv /\ ListTyped /\ RequestsTyped /\ DialogTyped
  BY DEF ListStep, TypedInv, ClientTyped
<1>2. WatcherInv' /\ KeepsDrives /\ UNCHANGED <<dispatcherVars, jobManagerVars, drives>>
  BY <1>1, SameWatcher DEF clientVars, packageVars, watcherVars, KeepsDrives
<1>3. RequestsTyped' /\ DialogTyped'
  BY <1>1, <1>2, SameRequests, SameDialog
<1>4. ListTyped'
  <2>1. ASSUME QueryDrives PROVE ListTyped'
    <3> DEFINE older(a) == [a EXCEPT !.old = TRUE]
    <3>1. PICK list \in Listings :
            answers' = BagOfAll(older, answers) (+) One([list |-> list, old |-> FALSE])
      BY <2>1 DEF QueryDrives
    <3>2. list \in Lists /\ AttachedList(list)
      BY <1>1, <3>1, ListingsTyped
    <3> DEFINE new == [list |-> list, old |-> FALSE]
    <3>3. BagToSet(BagOfAll(older, answers)) = {older(a) : a \in BagToSet(answers)}
      BY DEF BagOfAll, BagToSet
    <3>4. BagToSet(answers') = {older(a) : a \in BagToSet(answers)} \cup {new}
      BY <3>1, <3>3, OneMore DEF One
    <3>5. new \in [list : Lists, old : BOOLEAN] /\ AttachedList(new.list)
      BY <3>2
    <3>6. ASSUME NEW a \in BagToSet(answers)
          PROVE  older(a) \in [list : Lists, old : BOOLEAN] /\ AttachedList(older(a).list)
      <4>1. a \in [list : Lists, old : BOOLEAN] /\ AttachedList(a.list)
        BY <1>1 DEF ListTyped
      <4>2. older(a).list = a.list
        BY <4>1
      <4> QED
        BY <4>1, <4>2
    <3> HIDE DEF older, new
    <3>7. /\ BagToSet(answers') \subseteq [list : Lists, old : BOOLEAN]
          /\ \A a \in BagToSet(answers') : AttachedList(a.list)
      BY <3>4, <3>5, <3>6
    <3> QED
      BY <1>1, <1>2, <2>1, <3>7
        DEF QueryDrives, ListTyped, AttachedList, Attached, AttachedIn
  <2>2. ASSUME NEW a \in BagToSet(answers), AssignDrives(a) PROVE ListTyped'
    <3>1. BagToSet(answers') \subseteq BagToSet(answers)
      BY <2>2, OneLess DEF AssignDrives, One
    <3> QED
      BY <1>1, <1>2, <2>2, <3>1
        DEF AssignDrives, ListTyped, AttachedList, Attached, AttachedIn
  <2>3. ASSUME AssignLen PROVE ListTyped'
    <3>1. Len(ExternalDrives) \in Nat
      BY <1>1 DEF ListTyped, Lists
    <3> QED
      BY <1>1, <1>2, <2>3, <3>1 DEF AssignLen, ListTyped, AttachedList, Attached, AttachedIn
  <2>4. ASSUME LenChanged PROVE ListTyped'
    BY <1>1, <1>2, <2>4 DEF LenChanged, ListTyped, AttachedList, Attached, AttachedIn
  <2> QED
    BY <2>1, <2>2, <2>3, <2>4 DEF ListStep, RefreshStep
<1> QED
  BY <1>1, <1>2, <1>3, <1>4, Steps

-----------------------------------------------------------------------------
(* The package and UDisks2 *)

LEMMA ServiceStepTyped ==
  ASSUME TypedInv, ServiceStep
  PROVE  TypedInv'
<1>1. ServiceTyped' /\ DispatcherTyped'
  <2>1. ASSUME NEW b \in Blocks, DaemonMounts(b) \/ StartUnmount(b)
        PROVE  ServiceTyped' /\ DispatcherTyped'
    BY <2>1, StartJobStep
      DEF DaemonMounts, StartMount, StartUnmount, AcceptUnmount, JobOperations, TypedInv,
          ClientTyped
  <2> QED
    BY <2>1, DevicesStep DEF ServiceStep, TypedInv, ClientTyped
<1>2. UNCHANGED <<jobManagerVars, watcherVars, requestVars, controlVars>> /\ KeepsDrives
  BY DEF ServiceStep, Unrequested, ourVars, watcherVars, KeepsDrives
<1>3. JobsTyped' /\ WatcherInv'
  BY <1>2, SameJobs, SameWatcher DEF TypedInv, ClientTyped
<1>4. RequestsTyped' /\ ListTyped' /\ DialogTyped'
  BY <1>2, SameRequests, SameLists, SameDialog DEF TypedInv, controlVars, listVars
<1> QED
  BY <1>1, <1>3, <1>4 DEF TypedInv, ClientTyped

(* The end of a job is the answer to the call that started it. *)
LEMMA RequestedJobEndsTyped ==
  ASSUME TypedInv, NEW p, RequestedJobEnds(p), KeepsDrives
  PROVE  RequestsTyped'
<1> DEFINE b == running[p].block
           op == running[p].op
<1>1. RequestsTyped
  BY DEF TypedInv
<1>2. ASSUME NEW u \in BagToSet(umounts), umounts' = umounts (-) One(u), UNCHANGED formatters
      PROVE  RequestsTyped'
  BY <1>1, <1>2, UmountGoes
<1>3. ASSUME NEW f \in BagToSet(formatters),
             f.step \in {"unmounting", "formatting"},
             Goes(f, [f EXCEPT !.step = "failed"]) \/ Goes(f, AtNext(f))
      PROVE  RequestsTyped'
  <2>1. f \in Formatter
    BY <1>1 DEF RequestsTyped
  <2> QED
    BY <1>1, <1>3, <2>1, FormatterSteps, FormatterGoes
<1>4. ASSUME UNCHANGED requestVars PROVE RequestsTyped'
  BY <1>1, <1>4, SameRequests
<1> QED
  BY <1>2, <1>3, <1>4 DEF RequestedJobEnds

LEMMA JobStepTyped ==
  ASSUME TypedInv, JobStep
  PROVE  TypedInv'
<1>1. /\ UNCHANGED <<held, jobManagerVars, watcherVars, controlVars>> /\ KeepsDrives
      /\ ServiceTyped /\ DispatcherTyped
  BY DEF JobStep, Unrequested, ourVars, watcherVars, KeepsDrives, TypedInv, ClientTyped
<1>2. JobsTyped' /\ WatcherInv' /\ ListTyped' /\ DialogTyped'
  BY <1>1, SameJobs, SameWatcher, SameLists, SameDialog DEF TypedInv, ClientTyped, controlVars, listVars
<1>3. ServiceTyped' /\ DispatcherTyped'
  BY <1>1, WipeStep, AnnounceStep, FinishJobStep DEF JobStep, RequestedJobEnds
<1>4. RequestsTyped'
  BY <1>1, SameRequests, RequestedJobEndsTyped DEF JobStep, Unrequested, ourVars, TypedInv
<1> QED
  BY <1>2, <1>3, <1>4 DEF TypedInv, ClientTyped

LEMMA PackageStepTyped ==
  ASSUME TypedInv, PackageStep
  PROVE  TypedInv'
<1>1. ASSUME NEW g \in Goroutines, Watch(g), DetachRequests(Dropped(g)),
             DetachControl(Dropped(g)), UNCHANGED <<serviceVars, dialogVars>>
      PROVE  TypedInv'
  <2>1. ClientTyped'
    BY <1>1, ClientStepTyped DEF ClientStep, TypedInv
  <2>2. DOMAIN drives \subseteq DOMAIN drives' \cup Dropped(g)
    BY <1>1, DroppedFacts DEF TypedInv
  <2>3. RequestsTyped' /\ ListTyped'
    BY <1>1, <2>2, RequestsDetached, ListDetached DEF TypedInv, ClientTyped
  <2> QED
    BY <1>1, <2>1, <2>3, SameDialog DEF TypedInv
<1>2. ASSUME \/ \E w \in Watches : Fetch(w) \/ DispatchJob(w) \/ DispatchDevice(w)
             \/ PassReport \/ AnswerManagedObjects \/ AnswerMountpoints
             \/ RefuseManagedObjects \/ RefuseMountpoints,
             UNCHANGED <<serviceVars, ourVars>>
      PROVE  TypedInv'
  <2>1. ClientTyped'
    <3>1. ServiceTyped'
      BY <1>2, SameService DEF TypedInv, ClientTyped
    <3>2. CASE RefuseManagedObjects \/ RefuseMountpoints
      BY <3>1, <3>2, RefusalsTyped DEF TypedInv, ClientTyped
    <3> QED
      BY <1>2, <3>2, ClientStepTyped DEF ClientStep, TypedInv
  <2>2. KeepsDrives
    BY <1>2 DEF Fetch, DispatchJob, DispatchDevice, ReadAddition, ReadRemoval, PassReport,
                ReadReport, AnswerManagedObjects, RefuseManagedObjects, ListExisting,
                AnswerMountpoints, RefuseMountpoints, MountFinished, watcherVars, KeepsDrives
  <2> QED
    BY <1>2, <2>1, <2>2, SameRequests, SameLists, SameDialog
      DEF TypedInv, ourVars, controlVars, listVars
<1> QED
  BY <1>1, <1>2 DEF PackageStep

(* A goroutine waits for ever, the lock in hand or not. *)
LEMMA StrandTyped ==
  ASSUME TypedInv, Strand
  PROVE  TypedInv'
<1>1. /\ WatcherInv /\ ListTyped /\ RequestsTyped /\ DialogTyped /\ KeepsDrives
      /\ UNCHANGED <<serviceVars, dispatcherVars, jobManagerVars, requestVars, controlVars,
                     drives, mountpoints, pendingMounts, mapLock, existing>>
  BY DEF Strand, TypedInv, ClientTyped, KeepsDrives
<1>2. [point |-> "nil"] \in Where
  BY SubscribedAssumption DEF Where, Stranded, UIChannels
<1>3. ASSUME NEW g \in Goroutines, Continue(g, [point |-> "nil"]), UNCHANGED arriving
      PROVE  WatcherInv'
  <2>1. /\ at' \in [Goroutines -> Where] /\ at'[g] = [point |-> "nil"]
        /\ \A h \in Goroutines \ {g} : at'[h] = at[h]
    BY <1>1, <1>2, <1>3, Continues DEF WatcherInv, WatcherTyped
  <2>2. ~ HoldsLock(g)' /\ at'[g].point = "nil"
    BY <2>1 DEF HoldsLock, Sending
  <2>3. \A h \in Goroutines \ {g} : (HoldsLock(h)' <=> HoldsLock(h)) /\ at'[h].point = at[h].point
    BY <2>1 DEF HoldsLock
  <2>4. LockInv'
    BY <1>1, <2>2, <2>3 DEF WatcherInv, LockInv
  <2>5. DrivesTyped' /\ MountpointsTyped'
    BY <1>1, SameDrives, SameMountpoints DEF WatcherInv, WatcherTyped
  <2> QED
    BY <1>1, <1>3, <2>1, <2>4, <2>5 DEF WatcherInv, WatcherTyped
<1>4. ASSUME NEW e, arriving' = arriving (-) One(e), UNCHANGED at
      PROVE  WatcherInv'
  <2>1. BagToSet(arriving') \subseteq BagToSet(arriving)
    BY <1>4, OneLess DEF One
  <2>2. DrivesTyped' /\ MountpointsTyped'
    BY <1>1, SameDrives, SameMountpoints DEF WatcherInv, WatcherTyped
  <2> QED
    BY <1>1, <1>4, <2>1, <2>2 DEF WatcherInv, WatcherTyped, LockInv, HoldsLock
<1>5. WatcherInv'
  BY <1>3, <1>4 DEF Strand
<1>6. RequestsTyped' /\ ListTyped' /\ DialogTyped'
  BY <1>1, SameRequests, SameLists, SameDialog DEF controlVars, listVars
<1> QED
  BY <1>1, <1>5, <1>6, Steps

-----------------------------------------------------------------------------
(* The goroutines of Watch, the GUI thread and the user *)

LEMMA ListenTyped ==
  ASSUME TypedInv, Listen
  PROVE  TypedInv'
<1>1. WatcherInv /\ ListTyped /\ RequestsTyped /\ DialogTyped
  BY DEF TypedInv, ClientTyped
<1>2. ASSUME NEW g \in Goroutines, ListenBlockDevice(g) PROVE TypedInv'
  <2>1. WatcherInv' /\ KeepsDrives
    BY <1>1, <1>2, SendBlockDeviceStep DEF ListenBlockDevice, SendBlockDevice, KeepsDrives
  <2> QED
    BY <1>1, <1>2, <2>1, Steps, SameRequests, SameLists, SameDialog DEF ListenBlockDevice, Quietly
<1>3. ASSUME NEW e, ListenMountCompleted(e) PROVE TypedInv'
  <2>1. WatcherInv' /\ KeepsDrives
    BY <1>1, <1>3, SendMountCompletedStep DEF ListenMountCompleted, SendMountCompleted, KeepsDrives
  <2> QED
    BY <1>1, <1>3, <2>1, Steps, SameRequests, SameLists, SameDialog
      DEF ListenMountCompleted, Quietly
<1>4. ASSUME NEW g \in Goroutines, ListenFormatCompleted(g) PROVE TypedInv'
  <2>1. WatcherInv'
    BY <1>1, <1>4, SendFormatCompletedStep DEF ListenFormatCompleted
  <2>2. KeepsDrives
    BY <1>4 DEF ListenFormatCompleted, SendFormatCompleted, AddDevice, addInterface, Put,
                KeepsDrives
  <2>3. DialogTyped'
    BY <1>1, <1>4 DEF ListenFormatCompleted, DialogTyped
  <2> QED
    BY <1>1, <1>4, <2>1, <2>2, <2>3, Steps, SameRequests, SameLists
      DEF ListenFormatCompleted, Quietly, listVars
<1>5. ASSUME NEW f \in BagToSet(formatters), ListenFormatError(f) PROVE TypedInv'
  <2>1. UNCHANGED <<watcherVars, listVars>> /\ SendFormatError(f) /\ KeepsDrives
    BY <1>5 DEF ListenFormatError, watcherVars, KeepsDrives
  <2>2. f \in Formatter
    BY <1>1 DEF RequestsTyped
  <2>3. RequestsTyped'
    BY <1>1, <2>1, <2>2, FormatterSteps, FormatterGoes, FormatterEnds DEF SendFormatError
  <2>4. DialogTyped'
    BY <1>1, <1>5 DEF ListenFormatError, DialogTyped
  <2> QED
    BY <1>1, <1>5, <2>1, <2>3, <2>4, Steps, SameWatcher, SameLists
      DEF ListenFormatError, Quietly, listVars
<1>6. ASSUME ListenUmountCompleted PROVE TypedInv'
  <2>1. WatcherInv' /\ KeepsDrives
    BY <1>1, <1>6, SendUmountCompletedStep
      DEF ListenUmountCompleted, SendUmountCompleted, KeepsDrives
  <2>2. DialogTyped'
    BY <1>1, <1>6 DEF ListenUmountCompleted, DialogTyped
  <2> QED
    BY <1>1, <1>6, <2>1, <2>2, Steps, SameRequests, SameLists
      DEF ListenUmountCompleted, Quietly, listVars
<1>7. ASSUME ListenUnmountError PROVE TypedInv'
  <2>1. UNCHANGED <<watcherVars, listVars>> /\ KeepsDrives
    BY <1>7 DEF ListenUnmountError, watcherVars, KeepsDrives
  <2>2. ASSUME NEW u \in BagToSet(umounts), SendUnmountError(u), UNCHANGED <<gui, dialog>>
        PROVE  RequestsTyped' /\ DialogTyped'
    BY <1>1, <1>7, <2>1, <2>2, UmountGoes DEF SendUnmountError, ListenUnmountError, DialogTyped
  <2>3. ASSUME SendNotMounted, UNCHANGED requestVars PROVE RequestsTyped' /\ DialogTyped'
    <3>1. dialog \in Dialog
      BY <1>1, <2>3 DEF SendNotMounted, DialogTyped
    <3>2. \A busy, error : Shows(busy, error) \in {"confirm", "busy", "error", "finish"}
      BY DEF Shows
    <3>3. dialog' \in Dialog
      BY <2>3, <3>1, <3>2 DEF SendNotMounted, Dialog
    <3> QED
      BY <1>1, <1>7, <2>1, <2>3, <3>3, SameRequests
        DEF SendNotMounted, ListenUnmountError, DialogTyped
  <2> QED
    BY <1>1, <1>7, <2>1, <2>2, <2>3, Steps, SameWatcher, SameLists
      DEF ListenUnmountError, Quietly, listVars
<1>8. ASSUME NEW l, Start(l) PROVE TypedInv'
  <2>1. UNCHANGED <<serviceVars, dispatcherVars, jobManagerVars, watcherVars>> /\ KeepsDrives
    BY <1>8 DEF Start, clientVars, packageVars, watcherVars, KeepsDrives
  <2> QED
    BY <1>1, <1>8, <2>1, Steps, SameWatcher, SameRequests, SameLists, SameDialog DEF Start
<1>9. ASSUME NEW l, Changed(l) PROVE TypedInv'
  <2>1. UNCHANGED <<serviceVars, dispatcherVars, jobManagerVars, watcherVars>> /\ KeepsDrives
    BY <1>9 DEF Changed, clientVars, packageVars, watcherVars, KeepsDrives
  <2>2. \A kind, busy, error : Rebound(kind, busy, error) \in Dialog \cup {None}
    BY <1>1 DEF Rebound, Shows, DialogTyped, Dialog
  <2>3. DialogTyped'
    BY <1>1, <1>9, <2>2 DEF Changed, DialogTyped
  <2> QED
    BY <1>1, <1>9, <2>1, <2>3, Steps, SameWatcher, SameRequests, SameLists DEF Changed, listVars
<1> QED
  BY <1>2, <1>3, <1>4, <1>5, <1>6, <1>7, <1>8, <1>9 DEF Listen

(* A confirmed dialog is about the first drive of the list. *)
LEMMA FirstDrive ==
  ASSUME WatcherInv, ListTyped, ExternalDrives # <<>>
  PROVE  /\ ExternalDrives[1] \in Copy /\ Attached(ExternalDrives[1])
         /\ BlocksOf(ExternalDrives[1]) \in SUBSET Blocks
<1>1. Len(ExternalDrives) \in Nat \ {0} /\ DOMAIN ExternalDrives = 1 .. Len(ExternalDrives)
  BY DEF ListTyped, Lists
<1>2. ExternalDrives[1] \in Copy /\ Attached(ExternalDrives[1])
  BY <1>1 DEF ListTyped, Lists, AttachedList
<1> QED
  BY <1>2, BlocksOfTyped

LEMMA UserTyped ==
  ASSUME TypedInv, User
  PROVE  TypedInv'
<1>1. WatcherInv /\ ListTyped /\ RequestsTyped /\ DialogTyped
  BY DEF TypedInv, ClientTyped
<1>2. UNCHANGED <<serviceVars, dispatcherVars, jobManagerVars, watcherVars, listVars>> /\ KeepsDrives
  BY DEF User, clientVars, packageVars, watcherVars, KeepsDrives
<1>3. \A busy, error : Shows(busy, error) \in {"confirm", "busy", "error", "finish"}
  BY DEF Shows
<1>4. ASSUME NEW kind \in Dialogs, OpenDialog(kind), UNCHANGED requestVars
      PROVE  RequestsTyped' /\ DialogTyped'
  BY <1>1, <1>2, <1>4, SameRequests DEF OpenDialog, DialogTyped, Dialog, flags
<1>5. ASSUME CloseDialog, UNCHANGED requestVars PROVE RequestsTyped' /\ DialogTyped'
  BY <1>1, <1>2, <1>5, SameRequests DEF CloseDialog, DialogTyped, flags
<1>6. ASSUME NEW kind \in Dialogs, Confirming(kind) PROVE dialog \in Dialog /\ gui = "idle"
  BY <1>6 DEF Confirming, Dialog
<1>7. ASSUME DriveFormat PROVE RequestsTyped' /\ DialogTyped'
  <2> DEFINE drive == ExternalDrives[1]
             f == Looping(drive, "unmount")
  <2>1. drive \in Copy /\ Attached(drive)
    BY <1>1, <1>7, FirstDrive DEF DriveFormat
  <2>2. f \in Formatter /\ f.drive = drive
    BY <1>1, <2>1, LoopingTyped
  <2>3. formatters' = formatters (+) One(f) /\ UNCHANGED umounts
    BY <1>7 DEF DriveFormat, Format
  <2> HIDE DEF f, drive
  <2>4. BagToSet(formatters') = BagToSet(formatters) \cup {f}
    BY <2>3, OneMore DEF One
  <2>5. RequestsTyped'
    <3>1. BagToSet(formatters') \subseteq Formatter
      BY <1>1, <2>2, <2>4 DEF RequestsTyped
    <3>2. \A x \in BagToSet(formatters') : Attached(x.drive)
      BY <1>1, <2>1, <2>2, <2>4 DEF RequestsTyped
    <3> QED
      BY <1>1, <1>2, <2>3, <3>1, <3>2
        DEF RequestsTyped, Attached, AttachedIn, watcherVars
  <2>6. dialog' \in Dialog
    <3>1. dialog \in Dialog
      BY <1>6, <1>7 DEF DriveFormat, Dialogs
    <3> QED
      BY <1>3, <1>7, <3>1 DEF DriveFormat, Dialog
  <2> QED
    BY <1>1, <1>7, <2>5, <2>6 DEF DriveFormat, DialogTyped
<1>8. ASSUME DriveUnmount PROVE RequestsTyped' /\ DialogTyped'
  <2>1. dialog \in Dialog /\ gui = "idle"
    BY <1>6, <1>8 DEF DriveUnmount, Dialogs
  <2>2. CASE ExternalDrives[1].mounted
    <3> DEFINE S == {[path |-> b, step |-> "calling"] : b \in BlocksOf(ExternalDrives[1])}
    <3>1. BlocksOf(ExternalDrives[1]) \in SUBSET Blocks
      BY <1>1, <1>8, FirstDrive DEF DriveUnmount
    <3>2. S \subseteq Umount
      BY <3>1 DEF Umount
    <3>3. umounts' = umounts (+) SetToBag(S) /\ UNCHANGED formatters
      BY <1>8, <2>2 DEF DriveUnmount, Unmount
    <3> HIDE DEF S
    <3>4. BagToSet(umounts') \subseteq Umount
      BY <1>1, <3>2, <3>3, AddedTo DEF RequestsTyped
    <3>5. RequestsTyped'
      BY <1>1, <1>2, <3>3, <3>4 DEF RequestsTyped, Attached, AttachedIn, watcherVars
    <3>6. dialog' \in Dialog
      BY <1>3, <1>8, <2>1, <2>2 DEF DriveUnmount, Dialog
    <3> QED
      BY <1>1, <1>8, <2>2, <3>5, <3>6 DEF DriveUnmount, DialogTyped
  <2>3. CASE ~ ExternalDrives[1].mounted
    <3>1. RequestsTyped'
      BY <1>1, <1>2, <1>8, <2>3, SameRequests DEF DriveUnmount, requestVars
    <3> QED
      BY <1>1, <1>8, <2>1, <2>3, <3>1 DEF DriveUnmount, DialogTyped
  <2> QED
    BY <2>2, <2>3
<1>9. RequestsTyped' /\ DialogTyped'
  BY <1>4, <1>5, <1>7, <1>8 DEF User
<1> QED
  BY <1>1, <1>2, <1>9, Steps, SameWatcher, SameLists DEF listVars

(* A step of the GUI thread, or the end of the application. *)
LEMMA GuiTyped ==
  ASSUME TypedInv, GuiStep \/ Dies
  PROVE  TypedInv'
<1>1. /\ WatcherInv /\ ListTyped /\ RequestsTyped /\ DialogTyped
      /\ UNCHANGED <<serviceVars, clientVars, requestVars, listVars, flags, dialog>>
  BY DEF TypedInv, ClientTyped, GuiStep, WatchReturns, Dies
<1>2. UNCHANGED <<dispatcherVars, jobManagerVars, watcherVars>> /\ KeepsDrives
  BY <1>1 DEF clientVars, packageVars, watcherVars, KeepsDrives
<1>3. DialogTyped'
  BY <1>1 DEF GuiStep, WatchReturns, Dies, DialogTyped, flags
<1> QED
  BY <1>1, <1>2, <1>3, Steps, SameWatcher, SameRequests, SameLists DEF listVars

-----------------------------------------------------------------------------
(* The initial states *)

LEMMA NoAnswers ==
  ASSUME answers = EmptyBag, umounts = EmptyBag, formatters = EmptyBag
  PROVE  /\ BagToSet(answers) = {} /\ BagToSet(umounts) = {} /\ BagToSet(formatters) = {}
         /\ RequestsTyped
  BY EmptyBagFacts DEF RequestsTyped

LEMMA SessionTyped ==
  ASSUME NEW s \in Sessions, SessionInit(s)
  PROVE  ServiceTyped /\ s.card \subseteq Blocks /\ s.fs \in [Blocks -> FsTypes]
<1>1. s.fs \in [Blocks -> FsTypes] /\ s.card \subseteq Blocks
  BY ServiceAssumption DEF IsSession
<1> QED
  BY <1>1, ServiceInitTyped DEF SessionInit

LEMMA FreshTyped ==
  ASSUME NEW s \in Sessions, Fresh(s)
  PROVE  TypedInv
<1>1. ClientTyped
  BY SessionTyped, ClientInitTyped DEF Fresh
<1>2. RequestsTyped /\ BagToSet(answers) = {}
  BY NoAnswers DEF Fresh, RequestsInit, ControlInit
<1>3. <<>> \in Lists /\ DOMAIN <<>> = {}
  BY DEF Lists
<1>4. ListTyped
  BY <1>2, <1>3 DEF Fresh, ControlInit, ListTyped, AttachedList
<1>5. DialogTyped
  BY DEF Fresh, ControlInit, DialogTyped
<1> QED
  BY <1>1, <1>2, <1>4, <1>5 DEF TypedInv

LEMMA SettledTyped ==
  ASSUME NEW s \in Sessions, Settled(s)
  PROVE  TypedInv
<1>1. ServiceTyped
  BY SessionTyped DEF Settled
<1>2. DispatcherTyped
  BY DEF Settled, DispatcherInit, DispatcherTyped
<1>3. JobsTyped
  BY DEF Settled, JobManagerInit, JobsTyped, EmptyMap
<1>4. DOMAIN mountpoints = {} /\ BagToSet(arriving) = {} /\ pendingMounts = {}
      /\ existing = <<>> /\ mapLock = None
  BY EmptyBagFacts DEF Settled, EmptyMap
<1>5. at \in [Goroutines -> Where] /\ \A g \in Goroutines : ~ HoldsLock(g)
  <2>1. \A g \in Goroutines : Rest(g) \in Where /\ Rest(g).point \in {"select", "existing"}
    BY RestFacts
  <2> QED
    BY <2>1 DEF Settled, HoldsLock, Sending
<1>6. DrivesTyped
  <2>1. PICK last \in [Drives -> s.last] : drives = [d \in Drives |-> UpdatedDrive(d, last[d] \in mounted)]
    BY DEF Settled
  <2>2. ASSUME NEW d \in Drives
        PROVE  /\ IsDrive(drives[d]) /\ drives[d].driveInfo = driveProps(d)
               /\ \A b \in DOMAIN drives[d].blockDevices :
                    /\ DriveOf[b] = d
                    /\ drives[d].blockDevices[b].system = (b \in SystemBlocks)
    <3>1. drives[d] = UpdatedDrive(d, last[d] \in mounted)
      BY <2>1
    <3>2. /\ drives[d].driveInfo = driveProps(d) /\ drives[d].mounted \in BOOLEAN
          /\ drives[d].blockDevices = [b \in {c \in Blocks \cap present : DriveOf[c] = d} |-> blockProps(b)]
          /\ drives[d] \in [blockDevices : {drives[d].blockDevices}, driveInfo : {driveProps(d)},
                            mounted : BOOLEAN]
      BY <3>1 DEF UpdatedDrive
    <3>3. \A b \in Blocks : blockProps(b) \in BlockProps /\ blockProps(b).system = (b \in SystemBlocks)
      BY <1>1, ServiceAssumption DEF blockProps, BlockProps, ServiceTyped
    <3>4. driveProps(d) \in DriveProps
      BY DEF driveProps, DriveProps
    <3> QED
      BY <3>2, <3>3, <3>4 DEF IsDrive
  <2>3. DOMAIN drives = Drives
    BY <2>1
  <2> QED
    BY <2>2, <2>3, PathsAssumption DEF DrivesTyped
<1>7. WatcherInv
  BY <1>4, <1>5, <1>6, GoroutinesAssumption DEF WatcherInv, WatcherTyped, MountpointsTyped, LockInv
<1>8. RequestsTyped /\ BagToSet(answers) = {}
  BY NoAnswers DEF Settled, RequestsInit
<1>9. ExternalDrives \in Lists /\ AttachedList(ExternalDrives)
  BY <1>7, ListingsTyped DEF Settled
<1>10. Len(ExternalDrives) \in Nat
  BY <1>9 DEF Lists
<1>11. ListTyped
  BY <1>8, <1>9, <1>10 DEF Settled, ListTyped
<1>12. DialogTyped
  BY DEF Settled, DialogTyped
<1> QED
  BY <1>1, <1>2, <1>3, <1>7, <1>8, <1>11, <1>12 DEF TypedInv, ClientTyped

(* A step of nobody. *)
LEMMA StutterTyped ==
  ASSUME TypedInv, UNCHANGED vars
  PROVE  TypedInv'
<1>1. UNCHANGED <<serviceVars, dispatcherVars, jobManagerVars, watcherVars, requestVars, listVars, dialogVars>>
      /\ KeepsDrives
  BY DEF vars, clientVars, packageVars, ourVars, controlVars, watcherVars, KeepsDrives
<1> QED
  BY <1>1, Steps, SameWatcher, SameRequests, SameLists, SameDialog
    DEF TypedInv, ClientTyped, listVars

LEMMA NextTyped ==
  ASSUME TypedInv, [Next]_vars
  PROVE  TypedInv'
  BY ServiceStepTyped, JobStepTyped, RequestStepTyped, PackageStepTyped, ListStepTyped,
     ListenTyped, StrandTyped, GuiTyped, UserTyped, StutterTyped DEF Next

(* The inductive invariant of the settings: what the storage watcher, the
   requests, the list and the dialog hold has its type, a copy of a drive
   that shares its map of block devices belongs to a drive the storage
   watcher still has, and the GUI thread reports that a drive is not mounted
   only for an open dialog (udisks2.go:156-184, main.go:179-241). *)
THEOREM TypedAlways == Spec => []TypedInv
<1>1. Init => TypedInv
  BY FreshTyped, SettledTyped DEF Init
<1> QED
  BY <1>1, NextTyped, PTL DEF Spec

(* What the components hold has its type whatever the user, the daemon and
   other processes do. *)
THEOREM TypesAlways == Spec => []TypeOK
<1>1. TypedInv => TypeOK
  BY ClientTypes DEF TypedInv, TypeOK, ListTyped, DialogTyped, Lists, Dialog, flags
<1> QED
  BY <1>1, TypedAlways, PTL

-----------------------------------------------------------------------------
(* The rows of the view *)

(* A length that is not that of the list has a refresh that will still read
   it, and rows that are not those of the length one that will still tell. *)
RowsInv ==
  /\ IsABag(refreshes)
  /\ listLen # Len(ExternalDrives) => "len" \in BagToSet(refreshes)
  /\ shown # listLen => {"len", "changed"} \cap BagToSet(refreshes) # {}

LEMMA SameRows ==
  ASSUME RowsInv, UNCHANGED <<listLen, shown, refreshes>>, Len(ExternalDrives') = Len(ExternalDrives)
  PROVE  RowsInv'
  BY DEF RowsInv

(* One more refresh. *)
LEMMA RowsStart ==
  ASSUME RowsInv, StartRefresh, UNCHANGED <<ExternalDrives, listLen, shown>>
  PROVE  RowsInv'
<1>1. BagToSet(refreshes') = BagToSet(refreshes) \cup {"query"} /\ IsABag(refreshes')
  BY OneMore DEF RowsInv, StartRefresh, One
<1> QED
  BY <1>1 DEF RowsInv

(* The steps of the goroutines of Drives, however they overlap. *)
LEMMA RowsRefresh ==
  ASSUME RowsInv, RefreshStep
  PROVE  RowsInv'
<1>1. ASSUME QueryDrives PROVE RowsInv'
  <2>1. /\ IsABag(refreshes')
        /\ \A e \in BagToSet(refreshes) : e # "query" => e \in BagToSet(refreshes')
    BY <1>1, OneLess DEF QueryDrives, RowsInv, One
  <2> QED
    BY <1>1, <2>1 DEF QueryDrives, RowsInv
<1>2. ASSUME NEW a, AssignDrives(a) PROVE RowsInv'
  <2>1. BagToSet(refreshes') = BagToSet(refreshes) \cup {"len"} /\ IsABag(refreshes')
    BY <1>2, OneMore DEF RowsInv, AssignDrives, One
  <2> QED
    BY <1>2, <2>1 DEF AssignDrives, RowsInv
<1>3. ASSUME AssignLen PROVE RowsInv'
  <2> DEFINE less == refreshes (-) One("len")
  <2>1. IsABag(less)
    BY OneLess DEF RowsInv, One
  <2>2. refreshes' = less (+) One("changed")
    BY <1>3 DEF AssignLen, Move
  <2> HIDE DEF less
  <2>3. "changed" \in BagToSet(refreshes') /\ IsABag(refreshes')
    BY <2>1, <2>2, OneMore DEF One
  <2> QED
    BY <1>3, <2>3 DEF AssignLen, RowsInv
<1>4. ASSUME LenChanged PROVE RowsInv'
  <2>1. /\ IsABag(refreshes')
        /\ \A e \in BagToSet(refreshes) : e # "changed" => e \in BagToSet(refreshes')
    BY <1>4, OneLess DEF LenChanged, RowsInv, One
  <2> QED
    BY <1>4, <2>1 DEF LenChanged, RowsInv
<1> QED
  BY <1>1, <1>2, <1>3, <1>4 DEF RefreshStep

(* The copies of a drive that is dropped stay in the list. *)
LEMMA PackageKeepsLength ==
  ASSUME TypedInv, PackageStep
  PROVE  UNCHANGED <<listLen, shown, refreshes>> /\ Len(ExternalDrives') = Len(ExternalDrives)
<1>1. ASSUME NEW g \in Goroutines, Watch(g), DetachControl(Dropped(g))
      PROVE  UNCHANGED <<listLen, shown, refreshes>> /\ Len(ExternalDrives') = Len(ExternalDrives)
  <2>1. DOMAIN drives \subseteq DOMAIN drives' \cup Dropped(g)
    BY <1>1, DroppedFacts DEF TypedInv
  <2> QED
    BY <1>1, <2>1, ListDetached DEF TypedInv, ClientTyped, DetachControl
<1> QED
  BY <1>1 DEF PackageStep, ourVars, controlVars, listVars

LEMMA NextRows ==
  ASSUME TypedInv, RowsInv, [Next]_vars
  PROVE  RowsInv'
<1>1. ASSUME UNCHANGED listVars PROVE RowsInv'
  BY <1>1, SameRows DEF listVars
<1>2. ASSUME ServiceStep \/ JobStep \/ RequestStep \/ Strand \/ User \/ Dies \/ GuiStep
      PROVE  UNCHANGED listVars
  BY <1>2 DEF ServiceStep, JobStep, RequestStep, Strand, User, Dies, GuiStep, WatchReturns,
              Unrequested, ourVars, controlVars
<1>3. ASSUME PackageStep PROVE RowsInv'
  BY <1>3, PackageKeepsLength, SameRows
<1>4. ASSUME ListStep PROVE RowsInv'
  BY <1>4, RowsRefresh DEF ListStep
<1>5. ASSUME Listen PROVE RowsInv'
  <2>1. ASSUME \/ \E g \in Goroutines : ListenBlockDevice(g)
               \/ \E e \in BagToSet(arriving) : ListenMountCompleted(e)
        PROVE  RowsInv'
    BY <2>1, RowsStart DEF ListenBlockDevice, ListenMountCompleted
  <2>2. ASSUME NEW l, Start(l) PROVE RowsInv'
    BY <2>2, RowsStart, SameRows DEF Start
  <2>3. ASSUME \/ \E g \in Goroutines : ListenFormatCompleted(g)
               \/ \E f \in BagToSet(formatters) : ListenFormatError(f)
               \/ ListenUmountCompleted \/ ListenUnmountError
               \/ \E l \in Listeners : Changed(l)
        PROVE  UNCHANGED listVars
    BY <2>3 DEF ListenFormatCompleted, ListenFormatError, ListenUmountCompleted,
                ListenUnmountError, Changed
  <2> QED
    BY <1>1, <1>5, <2>1, <2>2, <2>3 DEF Listen
<1>6. ASSUME UNCHANGED vars PROVE UNCHANGED listVars
  BY <1>6 DEF vars, ourVars, controlVars
<1> QED
  BY <1>1, <1>2, <1>3, <1>4, <1>5, <1>6 DEF Next

(* The view ends with as many rows as the list has drives, however many
   refreshes overlapped and in whichever order their goroutines wrote the
   list, wrote its length and told QML (main.go:179-187). *)
THEOREM RowsAlwaysMatch == Spec => []RowsMatchList
<1>1. Init => RowsInv
  BY EmptyBagFacts DEF Init, Fresh, Settled, ControlInit, RowsInv
<1>2. TypedInv /\ RowsInv /\ [Next]_vars => RowsInv'
  BY NextRows
<1>3. RowsInv => RowsMatchList
  BY EmptyBagFacts DEF RowsInv, RowsMatchList, Quiet
<1> QED
  BY <1>1, <1>2, <1>3, TypedAlways, PTL DEF Spec

=============================================================================
