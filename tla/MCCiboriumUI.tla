---------------------------- MODULE MCCiboriumUI ----------------------------
(* One drive whose card has one block device, or two. *)
EXTENDS CiboriumUI

CONSTANTS d1, mp1, mp2

TwoBlocks == {1, 2}
MCDriveOf == [b \in Blocks |-> d1]
MCMountpointOf == [b \in Blocks |-> IF b = 1 THEN mp1 ELSE mp2]
NoBlocks == {}

Nothing == [o \in Drives \cup Blocks |-> 0]
Vfat == [b \in Blocks |-> "vfat"]
Dialog(kind, n) == [k \in Dialogs |-> IF k = kind THEN n ELSE 0]

(* A card of one block device that somebody else may unmount, while the
   user removes it safely twice. *)
Removal ==
  [card |-> {1}, before |-> {1}, last |-> {1}, fs |-> Vfat, insertions |-> Nothing,
   unmounts |-> 1, formats |-> 0, failing |-> TRUE, settled |-> TRUE, daemon |-> TRUE, dialogs |-> Dialog("removal", 2)]

(* The application starts while a reader, or such a card, comes and goes. *)
StartingWith(objects) ==
  [Removal EXCEPT !.insertions = [o \in objects |-> 1] @@ Nothing,
                  !.unmounts = 0, !.settled = FALSE, !.daemon = FALSE,
                  !.dialogs = Dialog("removal", 0)]
Reader == StartingWith(Drives)
Card == StartingWith({1})

(* A card with a partition, 2, which is what holds the file system and was
   added after its disk, is formatted. *)
Partition == {2}
UnpartitionedBlocks == {1}
Reformat ==
  [card |-> {1, 2}, before |-> {2}, last |-> {2},
   fs |-> [b \in Blocks |-> IF b = 2 THEN "vfat" ELSE "none"],
   insertions |-> Nothing, unmounts |-> 0, formats |-> 0, failing |-> TRUE,
   settled |-> TRUE, daemon |-> FALSE, dialogs |-> Dialog("format", 1)]

(* A card with two file systems is removed safely. *)
TwoFilesystems ==
  [Removal EXCEPT !.card = {1, 2}, !.before = {1, 2}, !.last = {1, 2}, !.unmounts = 0, !.dialogs = Dialog("removal", 1)]

UISessions == {Removal, Reader, Card, Reformat}
TwoBlockSessions == {TwoFilesystems}
=============================================================================
