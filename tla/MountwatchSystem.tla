-------------------------- MODULE MountwatchSystem --------------------------
(***************************************************************************)
(* The mountwatch between its two users.  The goroutine that follows block *)
(* devices reads removals and makes the free space check, so a removal     *)
(* never falls into one.  The goroutine that follows mounts reads mounts   *)
(* and unmounts at any moment, also while a mount point is being checked   *)
(* or warned about.  A mount is announced late, by a goroutine of its own: *)
(* the card may have been unmounted or removed meanwhile, or mounted again.*)
(***************************************************************************)
EXTENDS Mountwatch, FiniteSets

CONSTANTS Mountpoints,   \* mount points of cards
          MaxMounts,     \* bound: mounts of each mount point
          MaxWarnings    \* bound: notifications, sent or not, per mount point

(* Mount points are not the object paths of block devices. *)
ASSUME MountpointsAssumption ==
  /\ Home \notin Mountpoints
  /\ None \notin Mountpoints \cup {Home}
  /\ Blocks \cap (Mountpoints \cup {Home}) = {}

VARIABLES mounted,    \* the mount points the storage watcher knows
          arriving,   \* mount point -> mounts not announced yet
          told,       \* history: mount points announced since they last were removed
          mounts,     \* history: how often each mount point was mounted
          episodes,   \* history: how often a warning became due, per mount point
          warnings,   \* history: how often it was given, per mount point
          attempts    \* history: notifications tried, per mount point

cards == <<mounted, arriving, told, mounts>>
notices == <<episodes, warnings, attempts>>
vars == <<mountwatchVars, cards, notices>>

All == Mountpoints \cup {Home}

Init ==
  /\ MountwatchInit
  /\ mounted = {} /\ told = {}
  /\ arriving = [m \in Mountpoints |-> 0]
  /\ mounts = [m \in Mountpoints |-> 0]
  /\ episodes = [m \in All |-> IF m = Home THEN 1 ELSE 0]
  /\ warnings = [m \in All |-> 0]
  /\ attempts = [m \in All |-> 0]

(* A warning becomes due with this step: one episode more. *)
Due(m) == episodes' = IF warn(m) THEN episodes ELSE [episodes EXCEPT ![m] = @ + 1]

-----------------------------------------------------------------------------
(* The storage watcher finds that a card is mounted, for the first time or
   again; a goroutine waits for the mount point to appear. *)
Mount(m) ==
  /\ mounts[m] < MaxMounts
  /\ mounts' = [mounts EXCEPT ![m] = @ + 1]
  /\ mounted' = mounted \cup {m}
  /\ arriving' = [arriving EXCEPT ![m] = @ + 1]
  /\ UNCHANGED <<mountwatchVars, told, notices>>

(* mountCompleted is read. *)
MountCompleted(m) ==
  /\ arriving[m] > 0
  /\ arriving' = [arriving EXCEPT ![m] = @ - 1]
  /\ set(m, TRUE)
  /\ told' = told \cup {m}
  /\ Due(m)
  /\ UNCHANGED <<checking, warning, mounted, mounts, warnings, attempts>>

(* unmountCompleted is read: it carries the object path of the block device,
   which is what is then removed. *)
UnmountCompleted(m) ==
  /\ m \in mounted
  /\ mounted' = mounted \ {m}
  /\ \E path \in Blocks : remove(path)
  /\ UNCHANGED <<checking, warning, arriving, told, mounts, notices>>

(* mountRemoved is read, by the goroutine that checks. *)
MountRemoved(m) ==
  /\ NoCheck
  /\ m \in mounted
  /\ mounted' = mounted \ {m}
  /\ remove(m)
  /\ told' = told \ {m}
  /\ UNCHANGED <<checking, warning, arriving, mounts, notices>>

-----------------------------------------------------------------------------
(* The check.  Space above the threshold makes a warning due. *)
FindSpace(m) ==
  /\ CheckFindsSpace(m)
  /\ Due(m)
  /\ UNCHANGED <<cards, warnings, attempts>>

Tried == attempts' = [attempts EXCEPT ![warning] = @ + 1]

Warn ==
  /\ WarningSent
  /\ warnings' = [warnings EXCEPT ![warning] = @ + 1]
  /\ Tried
  /\ UNCHANGED <<cards, episodes>>

FailToWarn ==
  /\ WarningFails
  /\ Tried
  /\ UNCHANGED <<cards, episodes, warnings>>

Check ==
  \/ /\ StartCheck /\ \A m \in All : attempts[m] < MaxWarnings
     /\ UNCHANGED <<cards, notices>>
  \/ \E m \in checking : (CheckFails(m) \/ CheckFindsLow(m)) /\ UNCHANGED <<cards, notices>>
  \/ \E m \in checking : FindSpace(m)
  \/ Warn
  \/ FailToWarn

Next ==
  \/ \E m \in Mountpoints : Mount(m) \/ MountCompleted(m) \/ UnmountCompleted(m) \/ MountRemoved(m)
  \/ Check

Spec == Init /\ [][Next]_vars

-----------------------------------------------------------------------------
TypeOK ==
  /\ mw \in [DOMAIN mw -> BOOLEAN]
  /\ DOMAIN mw \subseteq All
  /\ checking \subseteq All
  /\ warning \in All \cup {None}
  /\ mounted \subseteq Mountpoints /\ told \subseteq Mountpoints
  /\ arriving \in [Mountpoints -> Nat] /\ mounts \in [Mountpoints -> Nat]
  /\ episodes \in [All -> Nat] /\ warnings \in [All -> Nat] /\ attempts \in [All -> Nat]

(* Why the properties hold: a check only holds mount points that are watched,
   which no removal can change; the mount point being warned about is still
   marked, since nothing but the end of the warning takes the mark away; and
   a mark is a warning that is due and was not given. *)
MountwatchInv ==
  /\ TypeOK
  /\ DOMAIN mw = told \cup {Home}
  /\ checking \subseteq DOMAIN mw
  /\ warning # None => warn(warning)
  /\ \A m \in All : warnings[m] + (IF warn(m) THEN 1 ELSE 0) <= episodes[m]
  /\ \A m \in mounted : arriving[m] > 0 \/ Watched(m)

(* Low space is notified "only if a notification is actually needed"
   (main.go:324): at most once for every time a warning became due, by a
   mount announced while none was, or by space above the threshold after
   one was given, although the check decides before it sends and records it
   after (main.go:353-364), and mounts are announced in between. *)
WarnedOncePerEpisode == \A m \in All : warnings[m] <= episodes[m]

(* What is mounted and was announced is watched, whatever was unmounted,
   removed and announced late before (main.go:194, 236, 252), and whatever
   a check wrote meanwhile. *)
MountedAreWatched == \A m \in mounted : arriving[m] = 0 => Watched(m)

(* What was removed is not watched again until a mount of it is announced: no
   write of a check (main.go:363, 367) brings it back.  An unmount does not
   count: the mount point of an unmounted card stays (main.go:252). *)
RemovedStayOut == \A m \in Mountpoints : Watched(m) => m \in told
=============================================================================
