----------------------------- MODULE MCCiborium -----------------------------
(* One drive with one block device. *)
EXTENDS Ciborium

CONSTANTS d1, mp1, mp2

OneBlock == {1}
MCDriveOf == [b \in Blocks |-> d1]
MCMountpointOf == [b \in Blocks |-> IF b = 1 THEN mp1 ELSE mp2]
NoBlocks == {}

(* Nothing appears after the start, each object appears once, or a card is
   put in a reader twice. *)
Never == [o \in Drives \cup Blocks |-> 0]
Once == [o \in Drives \cup Blocks |-> 1]
CardTwice == [o \in Drives \cup Blocks |-> IF o \in Blocks THEN 2 ELSE 0]

Session(fsType, insertions_, unmounts_, formats_) ==
  [card |-> Blocks, before |-> {}, fs |-> [b \in Blocks |-> fsType],
   insertions |-> insertions_, unmounts |-> unmounts_, formats |-> formats_,
   failing |-> FALSE]

(* The same when the card may be mounted before the daemon starts, or when
   queries may fail as well. *)
Mounted(s) == [s EXCEPT !.before = Blocks]
Failing(s) == [Mounted(s) EXCEPT !.failing = TRUE]

(* A card that was there is formatted, and unmounted, in either order; one
   that was mounted is unmounted; a card is put in twice; a card appears, and
   nothing else; a card appears and is formatted. *)
Requests == Session("unhandled", Never, 1, 1)
Unmounting == Failing(Session("unhandled", Never, 1, 0))
Reinsertion == Mounted(Session("vfat", CardTwice, 0, 0))
Insertion == Failing(Session("vfat", Once, 0, 0))
Formatting == Session("unhandled", Once, 0, 1)

DaemonSessions == {Requests, Unmounting, Reinsertion, Insertion}
ReactionSessions == {Mounted(Session("vfat", Once, 0, 0))}
FormatSessions == {Formatting}
=============================================================================
