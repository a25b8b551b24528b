-------------------------- MODULE Mountwatch_proofs --------------------------
(***************************************************************************)
(* For any number of cards and any bounds: low space is warned about once  *)
(* per episode, what is mounted and was announced is watched, and what was *)
(* removed stays out of the mountwatch.                                    *)
(***************************************************************************)
EXTENDS MountwatchSystem, TLAPS

(* What set(m, state) does to the type and to the domain. *)
LEMMA SetFacts ==
  ASSUME TypeOK, NEW m \in All, NEW state \in BOOLEAN, set(m, state)
  PROVE  /\ DOMAIN mw' = DOMAIN mw \cup {m}
         /\ mw' \in [DOMAIN mw' -> BOOLEAN]
         /\ mw'[m] = state
         /\ \A x \in DOMAIN mw : x # m => mw'[x] = mw[x]
         /\ warn(m)' = state
         /\ \A x : x # m => warn(x)' = warn(x)
  BY DEF set, Put, TypeOK, warn, Watched

(* What remove(path) does, for a mount point or for any other path. *)
LEMMA RemoveFacts ==
  ASSUME TypeOK, NEW path, remove(path)
  PROVE  /\ DOMAIN mw' = DOMAIN mw \ {path}
         /\ mw' \in [DOMAIN mw' -> BOOLEAN]
         /\ \A x \in DOMAIN mw' : mw'[x] = mw[x]
         /\ \A x : warn(x)' => warn(x)
         /\ \A x : x # path => warn(x)' = warn(x)
  BY DEF remove, Delete, TypeOK, warn, Watched

LEMMA InitInv == Init => MountwatchInv
<1> SUFFICES ASSUME Init PROVE MountwatchInv
  OBVIOUS
<1> USE DEF Init, MountwatchInit
<1>1. DOMAIN mw = {Home} /\ mw[Home] = TRUE
  BY DEF Put, EmptyMap
<1>2. TypeOK
  BY <1>1 DEF TypeOK, All, Put, EmptyMap
<1>3. ASSUME NEW m \in All PROVE warnings[m] + (IF warn(m) THEN 1 ELSE 0) <= episodes[m]
  <2>1. CASE m = Home
    BY <2>1
  <2>2. CASE m # Home
    <3>1. ~ warn(m)
      BY <1>1, <2>2 DEF warn, Watched
    <3> QED
      BY <2>2, <3>1
  <2> QED
    BY <2>1, <2>2
<1> QED
  BY <1>1, <1>2, <1>3 DEF MountwatchInv

(* The marks that are set are no more than the warnings that are due. *)
Covered(m) == warnings[m] + (IF warn(m) THEN 1 ELSE 0) <= episodes[m]

(* Setting the mark keeps that, if what becomes due is counted. *)
LEMMA DueFacts ==
  ASSUME MountwatchInv, NEW m \in All, set(m, TRUE), Due(m), UNCHANGED warnings
  PROVE  episodes' \in [All -> Nat] /\ \A x \in All : Covered(x)'
<1>1. TypeOK /\ \A x \in All : Covered(x)
  BY DEF MountwatchInv, Covered
<1>2. warn(m)' = TRUE /\ \A x : x # m => warn(x)' = warn(x)
  BY <1>1, SetFacts
<1>3. episodes' = IF warn(m) THEN episodes ELSE [episodes EXCEPT ![m] = @ + 1]
  BY DEF Due
<1>4. /\ episodes \in [All -> Nat] /\ warnings \in [All -> Nat]
  BY <1>1 DEF TypeOK
<1>5. episodes' \in [All -> Nat]
  BY <1>3, <1>4
<1>6. ASSUME NEW x \in All PROVE Covered(x)'
  <2>1. CASE x = m
    <3>1. warnings[m] + (IF warn(m) THEN 1 ELSE 0) <= episodes[m]
      BY <1>1 DEF Covered
    <3>2. episodes'[m] = IF warn(m) THEN episodes[m] ELSE episodes[m] + 1
      BY <1>3, <1>4
    <3>3. warnings[m] + 1 <= episodes'[m]
      BY <1>4, <3>1, <3>2
    <3> QED
      BY <1>2, <2>1, <3>3 DEF Covered
  <2>2. CASE x # m
    <3>1. episodes'[x] = episodes[x] /\ warn(x)' = warn(x)
      BY <1>2, <1>3, <1>4, <2>2
    <3> QED
      BY <1>1, <3>1 DEF Covered
  <2> QED
    BY <2>1, <2>2
<1> QED
  BY <1>5, <1>6

(* Marks that are taken away, and counts that stay, keep it too. *)
LEMMA CoveredStays ==
  ASSUME MountwatchInv, UNCHANGED <<episodes, warnings>>, \A m \in All : warn(m)' => warn(m)
  PROVE  \A m \in All : Covered(m)'
  BY DEF MountwatchInv, TypeOK, Covered

(* The cards come and go. *)
LEMMA CardsInv ==
  ASSUME MountwatchInv, NEW m \in Mountpoints,
         Mount(m) \/ MountCompleted(m) \/ UnmountCompleted(m) \/ MountRemoved(m)
  PROVE  MountwatchInv'
<1>1. TypeOK /\ m \in All /\ m # Home /\ m # None
  BY MountpointsAssumption DEF MountwatchInv, All
<1>2. CASE Mount(m)
  <2>1. UNCHANGED <<mw, checking, warning, told, episodes, warnings, attempts>>
    BY <1>2 DEF Mount, mountwatchVars, notices
  <2>2. \A x : warn(x)' = warn(x) /\ Watched(x)' = Watched(x)
    BY <2>1 DEF warn, Watched
  <2>3. TypeOK'
    BY <1>1, <1>2, <2>1 DEF Mount, TypeOK
  <2>4. \A x \in mounted' : arriving'[x] > 0 \/ Watched(x)'
    BY <1>2, <2>2 DEF Mount, MountwatchInv, TypeOK
  <2>5. \A x \in All : Covered(x)'
    BY <2>1, <2>2, CoveredStays
  <2> QED
    BY <2>1, <2>2, <2>3, <2>4, <2>5 DEF MountwatchInv, Covered
<1>3. CASE MountCompleted(m)
  <2>1. /\ DOMAIN mw' = DOMAIN mw \cup {m} /\ mw' \in [DOMAIN mw' -> BOOLEAN]
        /\ warn(m)' = TRUE /\ \A x : x # m => warn(x)' = warn(x)
    BY <1>1, <1>3, SetFacts DEF MountCompleted
  <2>2. episodes' \in [All -> Nat] /\ \A x \in All : Covered(x)'
    BY <1>1, <1>3, DueFacts DEF MountCompleted
  <2>3. /\ UNCHANGED <<checking, warning, mounted, mounts, warnings, attempts>>
        /\ told' = told \cup {m} /\ arriving' = [arriving EXCEPT ![m] = @ - 1]
        /\ arriving[m] > 0
    BY <1>3 DEF MountCompleted
  <2>4. TypeOK'
    BY <1>1, <2>1, <2>2, <2>3 DEF TypeOK
  <2>5. \A x \in mounted' : arriving'[x] > 0 \/ Watched(x)'
    BY <1>1, <2>1, <2>3 DEF MountwatchInv, TypeOK, Watched
  <2> QED
    BY <2>1, <2>2, <2>3, <2>4, <2>5 DEF MountwatchInv, Covered
<1>4. CASE UnmountCompleted(m)
  <2>1. PICK path \in Blocks : remove(path)
    BY <1>4 DEF UnmountCompleted
  <2>2. path \notin All
    BY MountpointsAssumption DEF All
  <2>3. DOMAIN mw' = DOMAIN mw /\ mw' \in [DOMAIN mw' -> BOOLEAN]
    BY <1>1, <2>1, <2>2, RemoveFacts DEF TypeOK
  <2>4. \A x : warn(x)' => warn(x)
    BY <1>1, <2>1, RemoveFacts
  <2>5. \A x \in All : warn(x)' = warn(x) /\ Watched(x)' = Watched(x)
    BY <1>1, <2>1, <2>2, <2>3, RemoveFacts DEF Watched
  <2>6. UNCHANGED <<checking, warning, arriving, told, mounts, episodes, warnings, attempts>>
    BY <1>4 DEF UnmountCompleted, notices
  <2>7. TypeOK'
    BY <1>1, <1>4, <2>3, <2>6 DEF UnmountCompleted, TypeOK
  <2>8. \A x \in All : Covered(x)'
    BY <2>4, <2>6, CoveredStays
  <2>9. \A x \in mounted' : arriving'[x] > 0 \/ Watched(x)'
    BY <1>4, <2>5, <2>6 DEF UnmountCompleted, MountwatchInv, TypeOK, All
  <2>10. (warning # None => warn(warning))'
    BY <2>5, <2>6 DEF MountwatchInv, TypeOK
  <2> QED
    BY <2>3, <2>6, <2>7, <2>8, <2>9, <2>10 DEF MountwatchInv, Covered
<1>5. CASE MountRemoved(m)
  <2>1. /\ DOMAIN mw' = DOMAIN mw \ {m} /\ mw' \in [DOMAIN mw' -> BOOLEAN]
        /\ \A x : warn(x)' => warn(x)
    BY <1>1, <1>5, RemoveFacts DEF MountRemoved
  <2>2. /\ checking = {} /\ warning = None /\ mounted' = mounted \ {m} /\ told' = told \ {m}
        /\ UNCHANGED <<checking, warning, arriving, mounts, episodes, warnings, attempts>>
    BY <1>5 DEF MountRemoved, NoCheck, notices
  <2>3. TypeOK'
    BY <1>1, <2>1, <2>2 DEF TypeOK
  <2>4. \A x \in All : Covered(x)'
    BY <2>1, <2>2, CoveredStays
  <2>5. \A x \in mounted' : arriving'[x] > 0 \/ Watched(x)'
    BY <2>1, <2>2 DEF MountwatchInv, Watched
  <2>6. DOMAIN mw' = told' \cup {Home}
    BY <1>1, <2>1, <2>2 DEF MountwatchInv
  <2> QED
    BY <2>2, <2>3, <2>4, <2>5, <2>6 DEF MountwatchInv, Covered
<1> QED
  BY <1>2, <1>3, <1>4, <1>5

(* The check goes on. *)
LEMMA CheckInv ==
  ASSUME MountwatchInv, Check
  PROVE  MountwatchInv'
<1>1. TypeOK
  BY DEF MountwatchInv
<1>2. ASSUME UNCHANGED <<mw, cards, notices>>, checking' \subseteq DOMAIN mw,
             warning' = None \/ warn(warning')
      PROVE  MountwatchInv'
  <2>1. /\ UNCHANGED <<mw, mounted, arriving, told, mounts, episodes, warnings, attempts>>
        /\ \A x : warn(x)' = warn(x) /\ Watched(x)' = Watched(x)
    BY <1>2 DEF cards, notices, warn, Watched
  <2>2. \A x \in All : Covered(x)'
    BY <2>1, CoveredStays
  <2>3. TypeOK'
    BY <1>1, <1>2, <2>1 DEF TypeOK, warn, Watched
  <2> QED
    BY <1>2, <2>1, <2>2, <2>3 DEF MountwatchInv, Covered
<1>3. CASE StartCheck /\ UNCHANGED <<cards, notices>>
  BY <1>2, <1>3 DEF StartCheck, NoCheck
<1>4. ASSUME NEW m \in checking, CheckFails(m) \/ CheckFindsLow(m), UNCHANGED <<cards, notices>>
      PROVE  MountwatchInv'
  BY <1>2, <1>4 DEF CheckFails, CheckFindsLow, MountwatchInv
<1>5. ASSUME NEW m \in checking, FindSpace(m) PROVE MountwatchInv'
  <2>1. m \in All /\ m \in DOMAIN mw
    BY <1>1 DEF TypeOK, MountwatchInv
  <2>2. /\ DOMAIN mw' = DOMAIN mw /\ mw' \in [DOMAIN mw' -> BOOLEAN]
        /\ \A x : warn(x) => warn(x)'
    BY <1>1, <1>5, <2>1, SetFacts DEF FindSpace, CheckFindsSpace
  <2>3. episodes' \in [All -> Nat] /\ \A x \in All : Covered(x)'
    BY <1>5, <2>1, DueFacts DEF FindSpace, CheckFindsSpace
  <2>4. /\ UNCHANGED <<mounted, arriving, told, mounts, warnings, attempts, warning>>
        /\ checking' \subseteq checking /\ warning' = None
    BY <1>5 DEF FindSpace, CheckFindsSpace, cards
  <2>5. TypeOK'
    BY <1>1, <2>2, <2>3, <2>4 DEF TypeOK
  <2>6. \A x \in mounted' : arriving'[x] > 0 \/ Watched(x)'
    BY <2>2, <2>4 DEF MountwatchInv, Watched
  <2> QED
    BY <2>2, <2>3, <2>4, <2>5, <2>6 DEF MountwatchInv, Covered
<1>6. CASE Warn
  <2>1. warning \in All /\ warning \in DOMAIN mw /\ warn(warning) /\ warning # None
    BY <1>1, <1>6 DEF Warn, WarningSent, MountwatchInv, TypeOK, warn, Watched
  <2>2. DOMAIN mw' = DOMAIN mw /\ mw' \in [DOMAIN mw' -> BOOLEAN]
    BY <1>1, <1>6, <2>1, SetFacts DEF Warn, WarningSent
  <2>3. PICK w \in All : w = warning
    BY <2>1
  <2>4. set(w, FALSE)
    BY <1>6, <2>3 DEF Warn, WarningSent
  <2>5. warn(w)' = FALSE /\ \A x : x # w => warn(x)' = warn(x)
    BY <1>1, <2>3, <2>4, SetFacts
  <2>6. /\ warning' = None /\ UNCHANGED <<checking, mounted, arriving, told, mounts, episodes>>
        /\ warnings' = [warnings EXCEPT ![w] = @ + 1]
        /\ attempts' = [attempts EXCEPT ![w] = @ + 1]
    BY <1>6, <2>3 DEF Warn, WarningSent, Tried, cards
  <2>7. TypeOK'
    BY <1>1, <2>2, <2>3, <2>6 DEF TypeOK
  <2>8. ASSUME NEW x \in All PROVE Covered(x)'
    BY <1>1, <2>1, <2>3, <2>5, <2>6 DEF MountwatchInv, TypeOK, Covered
  <2>9. \A x \in mounted' : arriving'[x] > 0 \/ Watched(x)'
    BY <2>2, <2>6 DEF MountwatchInv, Watched
  <2> QED
    BY <2>2, <2>6, <2>7, <2>8, <2>9 DEF MountwatchInv, Covered
<1>7. CASE FailToWarn
  <2>1. warning \in All
    BY <1>1, <1>7 DEF FailToWarn, WarningFails, TypeOK
  <2>2. /\ UNCHANGED <<mw, checking, mounted, arriving, told, mounts, episodes, warnings>>
        /\ warning' = None /\ attempts' = [attempts EXCEPT ![warning] = @ + 1]
        /\ \A x : warn(x)' = warn(x) /\ Watched(x)' = Watched(x)
    BY <1>7 DEF FailToWarn, WarningFails, Tried, cards, warn, Watched
  <2>3. TypeOK'
    BY <1>1, <2>1, <2>2 DEF TypeOK
  <2>4. \A x \in All : Covered(x)'
    BY <2>2, CoveredStays
  <2> QED
    BY <2>2, <2>3, <2>4 DEF MountwatchInv, Covered
<1> QED
  BY <1>3, <1>4, <1>5, <1>6, <1>7 DEF Check

LEMMA StepInv == MountwatchInv /\ [Next]_vars => MountwatchInv'
<1> SUFFICES ASSUME MountwatchInv, [Next]_vars PROVE MountwatchInv'
  OBVIOUS
<1>1. CASE UNCHANGED vars
  BY <1>1 DEF vars, mountwatchVars, cards, notices, MountwatchInv, TypeOK, warn, Watched
<1> QED
  BY <1>1, CardsInv, CheckInv DEF Next

(* The inductive invariant: what the free space check holds is watched and
   stays so, and every mark is a warning that is due (main.go:202-209,
   324-370). *)
THEOREM Invariance == Spec => []MountwatchInv
  BY InitInv, StepInv, PTL DEF Spec

(* The map, the mount points a check has yet to look at and the warning it
   waits to give keep their types, for any mount points (main.go:194-252,
   353-368). *)
THEOREM TypeCorrect == Spec => []TypeOK
<1>1. MountwatchInv => TypeOK
  BY DEF MountwatchInv
<1> QED
  BY <1>1, Invariance, PTL

(* Whatever the interleaving of the two goroutines, mounts announced while a
   mount point is checked or warned about included, a warning is given at
   most once for every time one became due (main.go:224-236, 353-368). *)
THEOREM WarnsOncePerEpisode == Spec => []WarnedOncePerEpisode
<1>1. MountwatchInv => WarnedOncePerEpisode
  BY DEF MountwatchInv, WarnedOncePerEpisode, TypeOK
<1> QED
  BY <1>1, Invariance, PTL

(* A mount point that is mounted, and none of whose mounts has yet to be
   announced, is in the mountwatch, between any two steps of a check
   (main.go:194, 236, 252). *)
THEOREM WatchesWhatIsMounted == Spec => []MountedAreWatched
<1>1. MountwatchInv => MountedAreWatched
  BY DEF MountwatchInv, MountedAreWatched, TypeOK
<1> QED
  BY <1>1, Invariance, PTL

(* No write of a check brings back a mount point that was removed
   (main.go:194, 353-368). *)
THEOREM RemovedAreOut == Spec => []RemovedStayOut
<1>1. MountwatchInv => RemovedStayOut
  BY MountpointsAssumption DEF MountwatchInv, RemovedStayOut, Watched
<1> QED
  BY <1>1, Invariance, PTL
=============================================================================
