----------------------------- MODULE Mountwatch -----------------------------
(***************************************************************************)
(* cmd/ciborium/main.go: the mountwatch, a locked map from mount points to *)
(* "warn when space gets low", and the free space check that the first     *)
(* goroutine of main makes when nothing has happened for a minute.  The    *)
(* lock is held for one map operation at a time: a check reads the map,    *)
(* sends a notification and writes the map again, and the goroutine that   *)
(* follows mounts may use the map in between.                              *)
(***************************************************************************)
EXTENDS Events

CONSTANT Home    \* homeMountpoint

VARIABLES mw,         \* mount point -> warn
          checking,   \* mount points the check has still to look at
          warning     \* the mount point being warned about, or None

mountwatchVars == <<mw, checking, warning>>

MountwatchInit ==
  /\ mw = Put(EmptyMap, Home, TRUE)
  /\ checking = {}
  /\ warning = None

Watched(m) == m \in DOMAIN mw

warn(m) == Watched(m) /\ mw[m]

(* mountwatch.set and mountwatch.remove *)
set(m, state) == mw' = Put(mw, m, state)
remove(m) == mw' = Delete(mw, m)

(* Mutant of NoCheck: the check only keeps removals out while it sends. *)
NothingSent == warning = None

NoCheck == checking = {} /\ warning = None

(* Mutant of StartCheck: the slice of mount points is made with a length
   instead of a capacity, and starts with empty ones. *)
StartCheckPadded ==
  /\ NoCheck
  /\ checking' = DOMAIN mw \cup {None}
  /\ UNCHANGED <<mw, warning>>

(* The timer fires: the check goes over the mount points of this moment, in
   the order of a map iteration. *)
StartCheck ==
  /\ NoCheck
  /\ checking' = DOMAIN mw
  /\ UNCHANGED <<mw, warning>>

(* notifyFree(m), up to the notification: statfs fails, or there is more
   than freeThreshold left, or there is not. *)
CheckFails(m) ==
  /\ m \in checking /\ warning = None
  /\ checking' = checking \ {m}
  /\ UNCHANGED <<mw, warning>>

CheckFindsSpace(m) ==
  /\ m \in checking /\ warning = None
  /\ set(m, TRUE)
  /\ checking' = checking \ {m}
  /\ UNCHANGED warning

CheckFindsLow(m) ==
  /\ m \in checking /\ warning = None
  /\ checking' = checking \ {m}
  /\ warning' = IF warn(m) THEN m ELSE None
  /\ UNCHANGED mw

(* Mutant of WarningSent: that the warning was given is not recorded. *)
WarningSentUnrecorded ==
  /\ warning # None
  /\ warning' = None
  /\ UNCHANGED <<mw, checking>>

(* Mutant of WarningSent: the mount point is taken out of the map. *)
WarningSentForgets ==
  /\ warning # None
  /\ remove(warning)
  /\ warning' = None
  /\ UNCHANGED checking

(* The notification is sent, or it is not: then the mount point is warned
   about again at the next check. *)
WarningSent ==
  /\ warning # None
  /\ set(warning, FALSE)
  /\ warning' = None
  /\ UNCHANGED checking

WarningFails ==
  /\ warning # None
  /\ warning' = None
  /\ UNCHANGED <<mw, checking>>
=============================================================================
