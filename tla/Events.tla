------------------------------- MODULE Events -------------------------------
(***************************************************************************)
(* The vocabulary of the udisks2 package: the object paths, the D-Bus      *)
(* interfaces, the events that udisks2/dispatcher.go makes of the signals  *)
(* of UDisks2, and the predicates of udisks2/properties.go.                *)
(*                                                                         *)
(* Paths are abstract.  Drive and job paths are only ever compared for     *)
(* equality; block device paths are also sorted and searched               *)
(* (UDisks2.pendingMounts), so they are natural numbers in their           *)
(* lexicographic order.  So are interface names, which the dispatcher      *)
(* sorts and the job manager searches.                                     *)
(***************************************************************************)
EXTENDS Naturals, Sequences

CONSTANTS Drives,      \* object paths under /org/freedesktop/UDisks2/drives
          Blocks,      \* object paths under .../block_devices
          JobPaths,    \* object paths under .../jobs/
          None         \* a value that is none of the others

ASSUME BlocksAssumption == Blocks \subseteq Nat

ASSUME PathsAssumption ==
  /\ Drives \cap Blocks = {}
  /\ Drives \cap JobPaths = {}
  /\ Blocks \cap JobPaths = {}
  /\ None \notin Drives \cup Blocks \cup JobPaths

Paths == Drives \cup Blocks \cup JobPaths

-----------------------------------------------------------------------------
(* Interface names, numbered in the order in which strings sort.  *)

BlockIface == 1
DriveIface == 2
FilesystemIface == 3
JobIface == 4
PartitionIface == 5
PartitionTableIface == 6

Ifaces == 1..6

(* sort.SearchStrings(a, x) is the position at which x would be inserted in
   the sorted a: it differs from len(a) as soon as a holds an element that
   is not smaller than x, whether or not that element is x. *)
SearchFinds(a, x) == \E y \in a : x <= y

-----------------------------------------------------------------------------
(* Job operations (properties.go).  *)

Erase == "format-erase"
Mkfs == "format-mkfs"
UnmountFs == "filesystem-unmount"
MountFs == "filesystem-mount"
OtherOperation == "other"

Operations == {Erase, Mkfs, UnmountFs, MountFs, OtherOperation}

-----------------------------------------------------------------------------
(* Properties carried by an InterfacesAdded signal, one kind per kind of
   object.  An event about a block device lists only the interfaces that
   appeared, so the Block interface (and with it the drive) may be missing;
   mounted is whether MountPoints is non-empty, fs is the type of the file
   system: supported, not supported, or no file system interface. *)

FsTypes == {"vfat", "unhandled", "none"}

DriveProps == [removable : BOOLEAN]
BlockProps == [block : BOOLEAN, drive : Drives, fs : FsTypes,
               mounted : BOOLEAN, system : BOOLEAN]
JobProps == [op : Operations, objects : Seq(Blocks)]

(* An addition has no Interfaces, a removal has no Props. *)
Additions ==
       [path : Drives,   props : DriveProps, ifaces : {{}}]
  \cup [path : Blocks,   props : BlockProps, ifaces : {{}}]
  \cup [path : JobPaths, props : JobProps,   ifaces : {{}}]

Removals == [path : Paths, props : {None}, ifaces : (SUBSET Ifaces) \ {{}}]

Event == Additions \cup Removals

Added(path, props) == [path |-> path, props |-> props, ifaces |-> {}]
Removed(path, ifaces) == [path |-> path, props |-> None, ifaces |-> ifaces]

isRemovalEvent(e) == e.ifaces # {}

(* The paths a job works on: only these operations carry them. *)
getFormattedPaths(props) ==
  IF props.op \in {Mkfs, UnmountFs, MountFs} THEN props.objects ELSE <<>>

isFilesystem(props) == props.fs # "none"
isMounted(props) == isFilesystem(props) /\ props.mounted

-----------------------------------------------------------------------------
(* Partial functions: Go maps. *)

EmptyMap == [x \in {} |-> None]

Put(map, key, value) ==
  [x \in DOMAIN map \cup {key} |-> IF x = key THEN value ELSE map[x]]

Delete(map, key) == [x \in DOMAIN map \ {key} |-> map[x]]
=============================================================================
