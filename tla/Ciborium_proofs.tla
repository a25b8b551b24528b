--------------------------- MODULE Ciborium_proofs ---------------------------
(***************************************************************************)
(* The composed daemon, for any drives and block devices and whatever      *)
(* happens to them: what each of its parts holds has its type, the lock of *)
(* the drives map is held by a goroutine exactly while it sends, what the  *)
(* storage watcher believes mounted is what UDisks2 has mounted, cards end *)
(* up mounted, when they are put in and after they were formatted, and the *)
(* free space of what is mounted is watched.                               *)
(***************************************************************************)
EXTENDS Ciborium, StorageClient_proofs

-----------------------------------------------------------------------------
(* The types *)

Call == [path : Blocks,
         state : {"calling", "mounting", "failed", "noReply", "failedAgain"}]

DaemonTyped ==
  /\ \A m \in DOMAIN mw : mw[m] \in BOOLEAN
  /\ listener \in [Listeners -> {"select", "notify"}]
  /\ BagToSet(calls) \subseteq Call

TypedInv == ServiceTyped /\ DispatcherTyped /\ JobsTyped /\ WatcherInv /\ DaemonTyped

(* What is known of the package. *)
LEMMA ClientPart == TypedInv <=> ClientTyped /\ DaemonTyped
  BY DEF TypedInv, ClientTyped

LEMMA SameDaemon == ASSUME DaemonTyped, UNCHANGED <<mw, daemonVars>> PROVE DaemonTyped'
  BY DEF DaemonTyped, daemonVars

-----------------------------------------------------------------------------
(* The daemon *)

(* A call under way keeps its type. *)
LEMMA CallMoves ==
  ASSUME BagToSet(calls) \subseteq Call, NEW c \in Call,
         NEW state \in {"calling", "mounting", "failed", "noReply", "failedAgain"},
         Move(c, state) \/ End(c) \/ Mount(c.path)
  PROVE  BagToSet(calls') \subseteq Call
<1>1. [c EXCEPT !.state = state] \in Call
  BY DEF Call
<1>2. ANewCall(c.path) \in Call
  BY DEF ANewCall, Call
<1> DEFINE d == [c EXCEPT !.state = state]
           e == ANewCall(c.path)
<1>3. \/ calls' = (calls (-) SetToBag({c})) (+) SetToBag({d})
      \/ calls' = calls (-) SetToBag({c})
      \/ calls' = calls (+) SetToBag({e})
  BY DEF Move, End, Mount
<1> HIDE DEF d, e
<1> QED
  BY <1>1, <1>2, <1>3 DEF d, e, BagToSet, (+), (-), SetToBag

LEMMA MountCalled ==
  ASSUME BagToSet(calls) \subseteq Call, NEW b \in Blocks, Mount(b)
  PROVE  BagToSet(calls') \subseteq Call
<1> DEFINE c == [path |-> b, state |-> "calling"]
<1>1. c \in Call /\ c.path = b
  BY DEF Call
<1> HIDE DEF c
<1> QED
  BY <1>1, CallMoves

(* set and remove keep the type of the watched mount points. *)
LEMMA WatchKept ==
  ASSUME DaemonTyped, NEW m
  PROVE  /\ \A state \in BOOLEAN : set(m, state) => \A x \in DOMAIN mw' : mw'[x] \in BOOLEAN
         /\ remove(m) => \A x \in DOMAIN mw' : mw'[x] \in BOOLEAN
  BY DEF DaemonTyped, set, remove, Put, Delete

LEMMA Notifies ==
  ASSUME DaemonTyped, NEW l, Notify(l) \/ Notified(l)
  PROVE  listener' \in [Listeners -> {"select", "notify"}]
  BY DEF DaemonTyped, Notify, Notified

(* A new process starts with the types it needs. *)
LEMMA RestartTyped ==
  ASSUME TypedInv, Restart
  PROVE  TypedInv'
<1>1. ClientTyped'
  BY ClientPart, ClientRestartsTyped DEF Restart
<1>2. DaemonTyped'
  BY DEF Restart, DaemonTyped, Put, EmptyMap, BagToSet, EmptyBag, SetToBag
<1> QED
  BY <1>1, <1>2 DEF TypedInv, ClientTyped

-----------------------------------------------------------------------------
(* The steps of the daemon *)

(* A step of UDisks2 keeps the types. *)
LEMMA ServiceStepTyped ==
  ASSUME TypedInv, ServiceStep
  PROVE  TypedInv'
<1>1. ServiceTyped' /\ DispatcherTyped'
  <2>1. ASSUME NEW b \in Blocks, StartUnmount(b) \/ StartFormat(b)
        PROVE  ServiceTyped' /\ DispatcherTyped'
    BY <2>1, StartJobStep
      DEF StartUnmount, StartFormat, AcceptUnmount, AcceptFormat, JobOperations, TypedInv
  <2> QED
    BY <2>1, DevicesStep DEF ServiceStep, TypedInv
<1>2. JobsTyped' /\ WatcherInv' /\ DaemonTyped'
  BY SameJobs, SameWatcher, SameDaemon
    DEF ServiceStep, Rests, TypedInv, mountwatchVars, daemonVars
<1> QED
  BY <1>1, <1>2 DEF TypedInv

(* A step of a job keeps the types. *)
LEMMA JobStepTyped ==
  ASSUME TypedInv, JobStep
  PROVE  TypedInv'
<1>1. JobsTyped' /\ WatcherInv'
  BY SameJobs, SameWatcher DEF JobStep, ServiceFinishesJob, Rests, TypedInv
<1>2. CASE \E p \in JobPaths : Wipe(p) /\ UNCHANGED <<calls, Rests>>
  <2>1. ServiceTyped' /\ DispatcherTyped'
    BY <1>2, WipeStep DEF TypedInv
  <2>2. DaemonTyped'
    BY <1>2, SameDaemon DEF Rests, TypedInv, mountwatchVars, daemonVars
  <2> QED
    BY <1>1, <2>1, <2>2 DEF TypedInv
<1>3. CASE \E b \in Blocks : AnnounceFilesystem(b) /\ UNCHANGED <<calls, Rests>>
  <2>1. ServiceTyped' /\ DispatcherTyped'
    BY <1>3, AnnounceStep DEF TypedInv
  <2>2. DaemonTyped'
    BY <1>3, SameDaemon DEF Rests, TypedInv, mountwatchVars, daemonVars
  <2> QED
    BY <1>1, <2>1, <2>2 DEF TypedInv
<1>4. ASSUME NEW p \in JobPaths, ServiceFinishesJob(p) PROVE TypedInv'
  <2>1. ServiceTyped' /\ DispatcherTyped'
    BY <1>4, FinishJobStep DEF ServiceFinishesJob, TypedInv
  <2> DEFINE c == [path |-> running[p].block, state |-> "mounting"]
  <2>2. c \in Call
    <3>1. running[p].block \in Blocks
      BY <1>4 DEF ServiceFinishesJob, FinishJob, TypedInv, ServiceTyped
    <3> QED
      BY <3>1 DEF Call
  <2>3. UNCHANGED calls \/ End(c) \/ Move(c, "failed")
    BY <1>4 DEF ServiceFinishesJob
  <2> HIDE DEF c
  <2>4. BagToSet(calls') \subseteq Call
    BY <2>2, <2>3, CallMoves DEF TypedInv, DaemonTyped
  <2>5. DaemonTyped'
    BY <1>4, <2>4 DEF ServiceFinishesJob, Rests, TypedInv, DaemonTyped, mountwatchVars
  <2> QED
    BY <1>1, <2>1, <2>5 DEF TypedInv
<1> QED
  BY <1>2, <1>3, <1>4 DEF JobStep

(* A step of a call to UDisks2 keeps the types. *)
LEMMA CallStepTyped ==
  ASSUME TypedInv, CallStep
  PROVE  TypedInv'
<1>1. PICK c \in BagToSet(calls) :
        MountAccepted(c) \/ MountRefused(c) \/ ArgsOfNoReply(c) \/ Crash(c)
  BY DEF CallStep
<1>2. c \in Call /\ c.path \in Blocks
  BY DEF TypedInv, DaemonTyped, Call
<1>3. CASE Crash(c)
  BY <1>3, RestartTyped DEF Crash
<1>4. CASE MountAccepted(c)
  <2>1. ServiceTyped' /\ DispatcherTyped'
    BY <1>2, <1>4, StartJobStep DEF MountAccepted, StartMount, JobOperations, TypedInv
  <2>2. JobsTyped' /\ WatcherInv'
    BY <1>4, SameJobs, SameWatcher DEF MountAccepted, Rests, TypedInv
  <2>3. BagToSet(calls') \subseteq Call
    BY <1>2, <1>4, CallMoves DEF MountAccepted, TypedInv, DaemonTyped
  <2>4. DaemonTyped'
    BY <1>4, <2>3 DEF MountAccepted, Rests, TypedInv, DaemonTyped, mountwatchVars
  <2> QED
    BY <2>1, <2>2, <2>4 DEF TypedInv
<1>5. CASE MountRefused(c) \/ ArgsOfNoReply(c)
  <2>1. UNCHANGED <<serviceVars, watch, Rests>>
    BY <1>5 DEF MountRefused, ArgsOfNoReply
  <2>2. ServiceTyped' /\ DispatcherTyped' /\ JobsTyped' /\ WatcherInv'
    BY <2>1, SameService, SameDispatcher, SameJobs, SameWatcher
      DEF Rests, TypedInv, dispatcherVars
  <2>3. BagToSet(calls') \subseteq Call
    BY <1>2, <1>5, CallMoves DEF MountRefused, ArgsOfNoReply, TypedInv, DaemonTyped
  <2>4. DaemonTyped'
    BY <2>1, <2>3 DEF Rests, TypedInv, DaemonTyped, mountwatchVars
  <2> QED
    BY <2>2, <2>4 DEF TypedInv
<1> QED
  BY <1>1, <1>3, <1>4, <1>5

LEMMA DeliverTyped ==
  ASSUME TypedInv, Deliver
  PROVE  TypedInv'
<1>1. ClientTyped'
  BY ClientPart, ClientStepTyped DEF Deliver
<1>2. DaemonTyped'
  BY SameDaemon DEF Deliver, TypedInv, mountwatchVars
<1> QED
  BY <1>1, <1>2 DEF TypedInv, ClientTyped

(* A step of a goroutine of main.go keeps the types. *)
LEMMA ListenTyped ==
  ASSUME TypedInv, NEW l \in Listeners, Listen(l)
  PROVE  TypedInv'
<1> USE DEF TypedInv
<1>1. ASSUME Quietly PROVE ServiceTyped' /\ DispatcherTyped' /\ JobsTyped'
  BY <1>1, SameService, SameDispatcher, SameJobs DEF Quietly
<1>2. ASSUME BagToSet(calls') \subseteq Call, UNCHANGED <<mw, listener>> PROVE DaemonTyped'
  BY <1>2 DEF DaemonTyped
<1>3. ASSUME NEW k, Notify(k), UNCHANGED calls,
             \A x \in DOMAIN mw' : mw'[x] \in BOOLEAN
      PROVE  DaemonTyped'
  BY <1>3, Notifies DEF DaemonTyped
<1>4. ASSUME NEW g \in Goroutines, ListenBlockAdded(g) PROVE TypedInv'
  <2>1. WatcherInv'
    BY <1>4, SendBlockStep DEF ListenBlockAdded
  <2>2. at[g].event.path \in Blocks
    BY <1>4, HolderHasLock DEF ListenBlockAdded, Sending, BlockAdditions
  <2>3. BagToSet(calls') \subseteq Call
    BY <1>4, <2>2, MountCalled DEF ListenBlockAdded, DaemonTyped
  <2> QED
    BY <1>1, <1>2, <1>4, <2>1, <2>3 DEF ListenBlockAdded, mountwatchVars
<1>5. ASSUME NEW g \in Goroutines, ListenBlockError(g) PROVE TypedInv'
  <2>1. WatcherInv'
    BY <1>5, SendBlockStep DEF ListenBlockError
  <2> QED
    BY <1>1, <1>3, <1>5, <2>1 DEF ListenBlockError, mountwatchVars, DaemonTyped
<1>6. CASE ListenMountRemoved
  <2>1. WatcherInv'
    BY <1>6, SendMountRemovedStep DEF ListenMountRemoved
  <2> QED
    BY <1>1, <1>3, <1>6, <2>1, WatchKept DEF ListenMountRemoved
<1>7. ASSUME NEW e, ListenMountCompleted(e) PROVE TypedInv'
  <2>1. WatcherInv'
    BY <1>7, SendMountCompletedStep DEF ListenMountCompleted
  <2> QED
    BY <1>1, <1>3, <1>7, <2>1, WatchKept DEF ListenMountCompleted
<1>8. CASE ListenUmountCompleted
  <2>1. WatcherInv'
    BY <1>8, SendUmountCompletedStep DEF ListenUmountCompleted
  <2> QED
    BY <1>1, <1>3, <1>8, <2>1, WatchKept DEF ListenUmountCompleted
<1>9. ASSUME NEW c \in BagToSet(calls), ReadMountError(c) PROVE TypedInv'
  <2>1. ServiceTyped' /\ DispatcherTyped' /\ JobsTyped' /\ WatcherInv'
    BY <1>9, SameService, SameDispatcher, SameJobs, SameWatcher
      DEF ReadMountError, clientVars, packageVars
  <2>2. BagToSet(calls') \subseteq Call
    BY <1>9, CallMoves DEF ReadMountError, DaemonTyped
  <2>3. listener' \in [Listeners -> {"select", "notify"}]
    BY <1>9, Notifies DEF ReadMountError
  <2> QED
    BY <1>9, <2>1, <2>2, <2>3 DEF ReadMountError, DaemonTyped, mountwatchVars
<1>10. ASSUME NEW g \in Goroutines, ListenFormatCompleted(g) PROVE TypedInv'
  <2>1. WatcherInv'
    BY <1>10, SendFormatCompletedStep DEF ListenFormatCompleted
  <2>2. at[g].event.path \in Blocks
    BY <1>10, HolderHasLock DEF ListenFormatCompleted, SendFormatCompleted, Sending, BlockAdditions
  <2>3. BagToSet(calls') \subseteq Call
    BY <1>10, <2>2, MountCalled DEF ListenFormatCompleted, DaemonTyped
  <2> QED
    BY <1>1, <1>2, <1>10, <2>1, <2>3 DEF ListenFormatCompleted, mountwatchVars
<1>11. CASE Notified(l)
  <2>1. ServiceTyped' /\ DispatcherTyped' /\ JobsTyped' /\ WatcherInv'
    BY <1>11, SameService, SameDispatcher, SameJobs, SameWatcher
      DEF Notified, clientVars, packageVars
  <2>2. listener' \in [Listeners -> {"select", "notify"}]
    BY <1>11, Notifies
  <2> QED
    BY <1>11, <2>1, <2>2 DEF Notified, DaemonTyped, mountwatchVars
<1> QED
  BY <1>4, <1>5, <1>6, <1>7, <1>8, <1>9, <1>10, <1>11 DEF Listen

(* So does the check of the free space. *)
LEMMA CheckFreeSpaceTyped ==
  ASSUME TypedInv, CheckFreeSpace
  PROVE  TypedInv'
<1>1. ServiceTyped' /\ DispatcherTyped' /\ JobsTyped' /\ WatcherInv'
  BY SameService, SameDispatcher, SameJobs, SameWatcher
    DEF CheckFreeSpace, clientVars, packageVars, TypedInv
<1>2. UNCHANGED <<listener, calls>>
  BY DEF CheckFreeSpace, daemonVars
<1>3. \A x \in DOMAIN mw' : mw'[x] \in BOOLEAN
  <2>1. UNCHANGED mw \/ \E m : set(m, TRUE) \/ set(m, FALSE)
    BY DEF CheckFreeSpace, StartCheck, CheckFails, CheckFindsSpace, CheckFindsLow,
           WarningSent, WarningFails
  <2> QED
    BY <2>1, WatchKept DEF TypedInv, DaemonTyped
<1>4. DaemonTyped'
  BY <1>2, <1>3 DEF TypedInv, DaemonTyped
<1> QED
  BY <1>1, <1>4 DEF TypedInv

(* The daemon starts with the types. *)
LEMMA InitTyped ==
  ASSUME Init
  PROVE  TypedInv
<1>1. PICK s \in Sessions : ServiceInit(s)
  BY DEF Init
<1>3. ServiceTyped
  BY <1>1, ServiceInitTyped
<1>4. ClientTyped
  BY <1>3, ClientInitTyped DEF Init
<1>5. DaemonTyped
  BY DEF Init, MountwatchInit, DaemonInit, DaemonTyped, Put, EmptyMap, BagToSet, EmptyBag, SetToBag
<1> QED
  BY <1>4, <1>5 DEF TypedInv, ClientTyped

(* A step of nobody keeps the types. *)
LEMMA StutterTyped ==
  ASSUME TypedInv, UNCHANGED vars
  PROVE  TypedInv'
<1>1. UNCHANGED <<serviceVars, clientVars, mountwatchVars, daemonVars>>
  BY DEF vars
<1> QED
  BY <1>1, SameService, SameDispatcher, SameJobs, SameWatcher, SameDaemon
    DEF TypedInv, clientVars, packageVars, mountwatchVars

(* So does a query that fails. *)
LEMMA UnansweredTyped ==
  ASSUME TypedInv, Unanswered
  PROVE  TypedInv'
<1>1. UNCHANGED <<serviceVars, mountwatchVars, daemonVars>>
  BY DEF Unanswered
<1>2. DispatcherTyped' /\ JobsTyped' /\ WatcherInv'
  BY ClientPart, RefusalsTyped DEF Unanswered
<1> QED
  BY <1>1, <1>2, SameService, SameDaemon DEF TypedInv, mountwatchVars

(* Every step keeps the types. *)
LEMMA NextTyped ==
  ASSUME TypedInv, [Next]_vars
  PROVE  TypedInv'
  BY ServiceStepTyped, JobStepTyped, CallStepTyped, RestartTyped, DeliverTyped, ListenTyped,
     CheckFreeSpaceTyped, UnansweredTyped, StutterTyped
    DEF Next, Step, RacingMapAccess, NoManagedObjects

(* The inductive invariant holds in every state: each part of the daemon holds
   only what the others send it, and the lock of the drives map belongs to the
   goroutine that announces a block device with it (udisks2.go:464-504). *)
THEOREM TypedAlways == Spec => []TypedInv
<1>1. TypedInv /\ [Next]_vars => TypedInv'
  BY NextTyped
<1> QED
  BY <1>1, InitTyped, PTL DEF Spec

-----------------------------------------------------------------------------
(* What the runs check *)

(* The variables of the whole daemon keep their types, whatever UDisks2 and
   the devices do. *)
THEOREM TypeCorrect == Spec => []TypeOK
<1>1. TypedInv => TypeOK
  BY ClientPart, ClientTypes DEF TypeOK, DaemonTyped
<1> QED
  BY <1>1, TypedAlways, PTL

(* The lock of the drives map (udisks2.go:464-466 and its deferred unlock)
   is held by a goroutine exactly while it waits for the reader of what it
   announces. *)
THEOREM LockHeldWhileSending == Spec => []LockedOnlyWhileSending
<1>1. TypedInv => LockedOnlyWhileSending
  <2>1. Stranded = {}
    BY SubscribedAssumption DEF Stranded, DaemonChannels
  <2> QED
    BY <2>1, ClientPart, HeldWhileSending
<1> QED
  BY <1>1, TypedAlways, PTL

-----------------------------------------------------------------------------
(* What UDisks2 has mounted and what the storage watcher believes: first
   the signals on their way, and what they say about the objects of P. *)

Coming == held["additions"] \o watch["additions"]
Going == held["removals"] \o watch["removals"]

Has(s, e) == \E i \in 1 .. Len(s) : s[i] = e
About(s, P) == \E i \in 1 .. Len(s) : s[i].path \in P
AboutOnce(s, p) == \A i, k \in 1 .. Len(s) : s[i].path = p /\ s[k].path = p => i = k

(* A signal about an object of M comes after all of those about one of U. *)
LastAbout(s, M, U) ==
  \E i \in 1 .. Len(s) :
    s[i].path \in M /\ \A k \in 1 .. Len(s) : k > i => s[k].path \notin U

(* What a signal more says. *)
LEMMA AboutAppended ==
  ASSUME NEW S, NEW s \in Seq(S), NEW e \in S
  PROVE  /\ \A P : About(Append(s, e), P) <=> About(s, P) \/ e.path \in P
         /\ \A x : Has(Append(s, e), x) <=> Has(s, x) \/ x = e
         /\ \A p : AboutOnce(s, p) /\ (e.path = p => ~ About(s, {p}))
                     => AboutOnce(Append(s, e), p)
         /\ \A M, U : e.path \in M \/ (LastAbout(s, M, U) /\ e.path \notin U)
                        => LastAbout(Append(s, e), M, U)
<1> DEFINE t == Append(s, e)
<1>1. /\ Len(t) = Len(s) + 1 /\ t[Len(s) + 1] = e /\ Len(s) \in Nat
      /\ \A i \in 1 .. Len(s) : t[i] = s[i]
  OBVIOUS
<1>2. \A i \in 1 .. Len(t) : i \in 1 .. Len(s) \/ i = Len(s) + 1
  BY <1>1
<1>3. 1 .. Len(s) \subseteq 1 .. Len(t) /\ Len(s) + 1 \in 1 .. Len(t)
  BY <1>1
<1> HIDE DEF t
<1>4. \A P : About(t, P) <=> About(s, P) \/ e.path \in P
  BY <1>1, <1>2, <1>3 DEF About
<1>5. \A x : Has(t, x) <=> Has(s, x) \/ x = e
  BY <1>1, <1>2, <1>3 DEF Has
<1>6. ASSUME NEW p, AboutOnce(s, p), e.path = p => ~ About(s, {p}) PROVE AboutOnce(t, p)
  BY <1>1, <1>2, <1>3, <1>6 DEF AboutOnce, About
<1>7. ASSUME NEW M, NEW U, e.path \in M PROVE LastAbout(t, M, U)
  <2>1. \A k \in 1 .. Len(t) : ~ (k > Len(s) + 1)
    BY <1>1
  <2> QED
    BY <1>1, <1>3, <1>7, <2>1 DEF LastAbout
<1>8. ASSUME NEW M, NEW U, LastAbout(s, M, U), e.path \notin U PROVE LastAbout(t, M, U)
  BY <1>1, <1>2, <1>3, <1>8 DEF LastAbout
<1> QED
  BY <1>4, <1>5, <1>6, <1>7, <1>8 DEF t

(* What a signal less says. *)
LEMMA AboutTail ==
  ASSUME NEW S, NEW s \in Seq(S), s # <<>>
  PROVE  /\ \A P : About(s, P) <=> About(Tail(s), P) \/ Head(s).path \in P
         /\ \A x : Has(s, x) <=> Has(Tail(s), x) \/ x = Head(s)
         /\ \A p : AboutOnce(s, p) => /\ AboutOnce(Tail(s), p)
                                      /\ Head(s).path = p => ~ About(Tail(s), {p})
         /\ \A M, U : LastAbout(s, M, U) => \/ LastAbout(Tail(s), M, U)
                                            \/ Head(s).path \in M /\ ~ About(Tail(s), U)
<1> DEFINE t == Tail(s)
<1>1. /\ Len(s) = Len(t) + 1 /\ s[1] = Head(s) /\ Len(t) \in Nat
      /\ \A i \in 1 .. Len(t) : t[i] = s[i + 1] /\ i + 1 \in 1 .. Len(s)
      /\ 1 \in 1 .. Len(s)
  OBVIOUS
<1>2. \A i \in 1 .. Len(s) : i = 1 \/ (i - 1 \in 1 .. Len(t) /\ t[i - 1] = s[i])
  BY <1>1
<1> HIDE DEF t
<1>4. \A P : About(s, P) <=> About(t, P) \/ Head(s).path \in P
  BY <1>1, <1>2 DEF About
<1>5. \A x : Has(s, x) <=> Has(t, x) \/ x = Head(s)
  BY <1>1, <1>2 DEF Has
<1>6. ASSUME NEW p, AboutOnce(s, p)
      PROVE  AboutOnce(t, p) /\ (Head(s).path = p => ~ About(t, {p}))
  <2>1. AboutOnce(t, p)
    <3> SUFFICES ASSUME NEW i \in 1 .. Len(t), NEW k \in 1 .. Len(t),
                        t[i].path = p, t[k].path = p
                 PROVE  i = k
      BY DEF AboutOnce
    <3>1. i + 1 = k + 1
      BY <1>1, <1>6 DEF AboutOnce
    <3> QED
      BY <1>1, <3>1
  <2>2. ASSUME Head(s).path = p, NEW i \in 1 .. Len(t), t[i].path = p PROVE FALSE
    <3>1. i + 1 = 1
      BY <1>1, <1>6, <2>2 DEF AboutOnce
    <3> QED
      BY <1>1, <3>1
  <2> QED
    BY <2>1, <2>2 DEF About
<1>7. ASSUME NEW M, NEW U, LastAbout(s, M, U)
      PROVE  LastAbout(t, M, U) \/ (Head(s).path \in M /\ ~ About(t, U))
  <2>1. PICK i \in 1 .. Len(s) :
          s[i].path \in M /\ \A k \in 1 .. Len(s) : k > i => s[k].path \notin U
    BY <1>7 DEF LastAbout
  <2>2. CASE i = 1
    BY <1>1, <2>1, <2>2 DEF About
  <2>3. CASE i # 1
    <3>1. i - 1 \in 1 .. Len(t) /\ t[i - 1].path \in M
      BY <1>2, <2>1, <2>3
    <3>2. \A k \in 1 .. Len(t) : k > i - 1 => t[k].path \notin U
      BY <1>1, <2>1
    <3> QED
      BY <3>1, <3>2 DEF LastAbout
  <2> QED
    BY <2>2, <2>3
<1> QED
  BY <1>4, <1>5, <1>6, <1>7 DEF t

(* No signal says nothing. *)
LEMMA AboutNothing ==
  /\ \A P : ~ About(<<>>, P)
  /\ \A e : ~ Has(<<>>, e)
  /\ \A p : AboutOnce(<<>>, p)
  /\ \A M, U : ~ LastAbout(<<>>, M, U)
  BY DEF About, Has, AboutOnce, LastAbout

(* About an object of P only what is not about any of Q. *)
LEMMA AboutSame ==
  ASSUME NEW s, NEW P, NEW Q, \A i \in 1 .. Len(s) : s[i].path \in P <=> s[i].path \in Q
  PROVE  About(s, P) <=> About(s, Q)
  BY DEF About

-----------------------------------------------------------------------------
(* How the signals move *)

LEMMA Queues ==
  ASSUME DispatcherTyped
  PROVE  Coming \in Seq(Signals("additions")) /\ Going \in Seq(Signals("removals"))
<1>1. ASSUME NEW w \in Watches PROVE held[w] \in Seq(Signals(w)) /\ watch[w] \in Seq(Signals(w))
  <2>1. \A e \in Signals(w) : <<e>> \in Seq(Signals(w))
    OBVIOUS
  <2>2. held[w] = <<>> \/ \E e \in Signals(w) : held[w] = <<e>>
    BY DEF DispatcherTyped
  <2>3. <<>> \in Seq(Signals(w))
    OBVIOUS
  <2> QED
    BY <2>1, <2>2, <2>3 DEF DispatcherTyped
<1>2. /\ held["additions"] \in Seq(Signals("additions"))
      /\ watch["additions"] \in Seq(Signals("additions"))
      /\ held["removals"] \in Seq(Signals("removals"))
      /\ watch["removals"] \in Seq(Signals("removals"))
  BY <1>1 DEF Watches
<1> QED
  BY <1>2 DEF Coming, Going

LEMMA Appended ==
  ASSUME NEW S, NEW s \in Seq(S), NEW t \in Seq(S), NEW e \in S
  PROVE  s \o Append(t, e) = Append(s \o t, e)
  OBVIOUS

(* A signal that is sent comes last. *)
LEMMA SignalMoves ==
  ASSUME DispatcherTyped, NEW w \in Watches, NEW e \in Signals(w), Signal(w, e)
  PROVE  /\ w = "additions" => Coming' = Append(Coming, e) /\ Going' = Going
         /\ w = "removals" => Going' = Append(Going, e) /\ Coming' = Coming
<1>1. held' = held /\ watch' = [watch EXCEPT ![w] = Append(@, e)]
  BY DEF Signal
<1>2. watch'[w] = Append(watch[w], e) /\ \A v \in Watches \ {w} : watch'[v] = watch[v]
  BY <1>1 DEF DispatcherTyped
<1>3. held[w] \in Seq(Signals(w)) /\ watch[w] \in Seq(Signals(w))
  <2>1. \A d \in Signals(w) : <<d>> \in Seq(Signals(w))
    OBVIOUS
  <2>2. held[w] = <<>> \/ \E d \in Signals(w) : held[w] = <<d>>
    BY DEF DispatcherTyped
  <2>3. <<>> \in Seq(Signals(w))
    OBVIOUS
  <2> QED
    BY <2>1, <2>2, <2>3 DEF DispatcherTyped
<1>4. held[w] \o watch'[w] = Append(held[w] \o watch[w], e)
  <2> DEFINE S == Signals(w)
             h == held[w]
             t == watch[w]
  <2>1. h \in Seq(S) /\ t \in Seq(S) /\ e \in S /\ watch'[w] = Append(t, e)
    BY <1>2, <1>3
  <2> HIDE DEF S, h, t
  <2>2. h \o Append(t, e) = Append(h \o t, e)
    BY <2>1, Appended
  <2> QED
    BY <2>1, <2>2 DEF h, t
<1> QED
  BY <1>1, <1>2, <1>4 DEF Coming, Going, Watches

AllDecodable == Undecodable \cap Event = {}

(* A signal that can be decoded only moves from the watch to the goroutine. *)
LEMMA FetchMoves ==
  ASSUME AllDecodable, DispatcherTyped, NEW w \in Watches, DispatcherStep(w)
  PROVE  Coming' = Coming /\ Going' = Going
<1>1. watch[w] \in Seq(Signals(w)) /\ watch[w] # <<>> /\ held[w] = <<>>
  BY DEF DispatcherTyped, DispatcherStep, Skip, Take, Waiting
<1>2. Head(watch[w]) \notin Undecodable
  <2>1. Head(watch[w]) \in Signals(w)
    BY <1>1
  <2> QED
    BY <2>1, SignalEvents DEF AllDecodable
<1>3. Take(w)
  BY <1>2 DEF DispatcherStep, Skip
<1>4. held'[w] = <<Head(watch[w])>> /\ watch'[w] = Tail(watch[w])
      /\ \A v \in Watches \ {w} : watch'[v] = watch[v] /\ held'[v] = held[v]
  BY <1>3 DEF Take, DispatcherTyped
<1>5. <<Head(watch[w])>> \o Tail(watch[w]) = <<>> \o watch[w]
  BY <1>1
<1> QED
  BY <1>1, <1>4, <1>5 DEF Coming, Going, Watches

(* A signal that is handed over was the first. *)
LEMMA SendMoves ==
  ASSUME DispatcherTyped, NEW w \in Watches, NEW c, held[w] # <<>>, Send(w, c, held[w][1])
  PROVE  /\ w = "additions" => /\ Coming # <<>> /\ Head(Coming) = held[w][1]
                               /\ Coming' = Tail(Coming) /\ Going' = Going
         /\ w = "removals" => /\ Going # <<>> /\ Head(Going) = held[w][1]
                              /\ Going' = Tail(Going) /\ Coming' = Coming
<1>1. PICK e \in Signals(w) : held[w] = <<e>>
  BY DEF DispatcherTyped
<1>2. held'[w] = <<>> /\ (\A v \in Watches \ {w} : held'[v] = held[v]) /\ watch' = watch
  BY DEF Send, DispatcherTyped
<1>3. watch[w] \in Seq(Signals(w))
  BY DEF DispatcherTyped
<1>4. <<e>> \o watch[w] # <<>> /\ Head(<<e>> \o watch[w]) = e
      /\ Tail(<<e>> \o watch[w]) = <<>> \o watch[w]
  BY <1>3
<1>5. <<>> \o watch[w] = held'[w] \o watch'[w] /\ <<e>> \o watch[w] = held[w] \o watch[w]
  BY <1>1, <1>2
<1>6. held[w][1] = e
  BY <1>1
<1>7. CASE w = "additions"
  BY <1>2, <1>4, <1>5, <1>6, <1>7 DEF Coming, Going, Watches
<1>8. CASE w = "removals"
  BY <1>2, <1>4, <1>5, <1>6, <1>8 DEF Coming, Going, Watches
<1> QED
  BY <1>7, <1>8 DEF Watches

-----------------------------------------------------------------------------
(* Jobs, from UDisks2 to the job manager *)

(* What the package knows of job p, or will know from a signal on its way. *)
JobIs(p, op, b) ==
  \/ Known(p) /\ onGoingJobs[p].operation = op /\ onGoingJobs[p].paths = <<b>>
  \/ Has(Coming, JobAddition(p, op, b))

Unended(p) == p \in DOMAIN running \/ About(Going, {p})

Completing(p) == report # <<>> /\ report[1].wasCompleted /\ report[1].path = p

(* A job is announced once and ends once, after UDisks2 is done with it; what
   is reported as completed is what was announced. *)
JobInv(p) ==
  /\ Known(p) \/ About(Coming, {p}) \/ Unended(p) => p \in usedJobs
  /\ Known(p) => onGoingJobs[p].path = p /\ ~ About(Coming, {p})
  /\ AboutOnce(Coming, p) /\ AboutOnce(Going, p)
  /\ p \in DOMAIN running =>
       JobIs(p, running[p].op, running[p].block) /\ ~ About(Going, {p})
  /\ Unended(p) => \E op \in JobOperations, b \in Blocks : JobIs(p, op, b)
  /\ Completing(p) => /\ Known(p) /\ ~ Unended(p)
                      /\ report[1].operation = onGoingJobs[p].operation
                      /\ report[1].paths = onGoingJobs[p].paths

(* UDisks2 runs one job at a time on a block device, and formats none that is
   mounted. *)
BusyInv ==
  \A p \in DOMAIN running :
    /\ \A q \in DOMAIN running : running[p].block = running[q].block => p = q
    /\ running[p].op = Mkfs => running[p].block \notin mounted

JobsInv == BusyInv /\ \A p \in JobPaths : JobInv(p)

-----------------------------------------------------------------------------
(* Mounts, from UDisks2 to the map of mount points *)

(* The paths whose removal says that b was mounted, or that it is not. *)
MountPaths(b) == {p \in JobPaths : JobIs(p, MountFs, b)}
UnmountPaths(b) == {b} \cup {p \in JobPaths : JobIs(p, UnmountFs, b)}

Reporting(op, b) ==
  report # <<>> /\ report[1].wasCompleted /\ report[1].operation = op /\ report[1].paths = <<b>>

LoopAt(point, b) == at["loop"].point = point /\ at["loop"].paths = <<b>>

(* The map has b, or will have it if it is mounted when the loop asks ... *)
TakenAsMounted(b) ==
  \/ Reporting(MountFs, b)
  \/ /\ ~ Reporting(UnmountFs, b)
     /\ \/ LoopAt("mountpointsForPath", b)
        \/ b \in DOMAIN mountpoints /\ ~ LoopAt("umountCompleted", b)

(* ... or has it not, or will not. *)
TakenAsUnmounted(b) ==
  b \notin DOMAIN mountpoints \/ Reporting(UnmountFs, b) \/ LoopAt("umountCompleted", b)

MatchOf(b) ==
  /\ b \in mounted =>
       \/ LastAbout(Going, MountPaths(b), UnmountPaths(b))
       \/ ~ About(Going, UnmountPaths(b)) /\ TakenAsMounted(b)
  /\ b \notin mounted => About(Going, UnmountPaths(b)) \/ TakenAsUnmounted(b)

(* The claims about all block devices but those that came too late to be
   understood, and those of X. *)
MatchBut(X) == JobsInv /\ \A b \in Blocks \ (overtaken \cup X) : MatchOf(b)

-----------------------------------------------------------------------------
(* What leaves the jobs as they are *)

SameJobSignals ==
  \A p \in JobPaths :
    /\ About(Coming', {p}) <=> About(Coming, {p})
    /\ About(Going', {p}) <=> About(Going, {p})
    /\ AboutOnce(Coming, p) => AboutOnce(Coming', p)
    /\ AboutOnce(Going, p) => AboutOnce(Going', p)
    /\ \A op, b : Has(Coming', JobAddition(p, op, b)) <=> Has(Coming, JobAddition(p, op, b))

JobsAreSame == \A p \in JobPaths : \A op, b : JobIs(p, op, b)' <=> JobIs(p, op, b)

(* No signal about a job, no step of a job: the jobs are as they were. *)
LEMMA JobsKept ==
  ASSUME JobsInv, SameJobSignals, UNCHANGED <<running, usedJobs, jobManagerVars>>,
         mounted' \subseteq mounted
  PROVE  JobsInv' /\ JobsAreSame
<1>1. BusyInv'
  BY DEF JobsInv, BusyInv
<1>2. JobsAreSame
  BY DEF JobsAreSame, SameJobSignals, JobIs, Known, jobManagerVars
<1>3. ASSUME NEW p \in JobPaths PROVE JobInv(p)'
  <2>1. JobInv(p)
    BY DEF JobsInv
  <2>2. /\ About(Coming', {p}) <=> About(Coming, {p})
        /\ About(Going', {p}) <=> About(Going, {p})
        /\ AboutOnce(Coming, p) => AboutOnce(Coming', p)
        /\ AboutOnce(Going, p) => AboutOnce(Going', p)
    BY DEF SameJobSignals
  <2>3. /\ Unended(p)' <=> Unended(p)
        /\ Completing(p)' <=> Completing(p)
        /\ Known(p)' <=> Known(p)
        /\ \A op, b : JobIs(p, op, b)' <=> JobIs(p, op, b)
    BY <1>2, <2>2 DEF Unended, Completing, Known, jobManagerVars, JobsAreSame
  <2> QED
    BY <2>1, <2>2, <2>3 DEF JobInv, jobManagerVars
<1> QED
  BY <1>1, <1>2, <1>3 DEF JobsInv

(* Then so are the mounts and unmounts under way. *)
LEMMA PathsKept ==
  ASSUME JobsAreSame, NEW b
  PROVE  MountPaths(b)' = MountPaths(b) /\ UnmountPaths(b)' = UnmountPaths(b)
  BY DEF JobsAreSame, MountPaths, UnmountPaths

(* A signal about anything else changes nothing of what is said about job p. *)
LEMMA OtherSignal ==
  ASSUME NEW S, NEW s \in Seq(S), NEW e \in S, NEW p, e.path # p, NEW t,
         t = Append(s, e) \/ (s # <<>> /\ e = Head(s) /\ t = Tail(s))
  PROVE  /\ About(t, {p}) <=> About(s, {p})
         /\ AboutOnce(s, p) => AboutOnce(t, p)
         /\ \A op, b : Has(t, JobAddition(p, op, b)) <=> Has(s, JobAddition(p, op, b))
<1>1. \A op, b : JobAddition(p, op, b) # e
  BY DEF JobAddition, Added
<1> HIDE DEF JobAddition
<1>2. CASE t = Append(s, e)
  <2>1. About(t, {p}) <=> About(s, {p})
    BY <1>2, AboutAppended
  <2>2. AboutOnce(s, p) => AboutOnce(t, p)
    BY <1>2, AboutAppended
  <2>3. \A x : x # e => (Has(t, x) <=> Has(s, x))
    BY <1>2, AboutAppended
  <2> QED
    BY <1>1, <2>1, <2>2, <2>3
<1>3. CASE s # <<>> /\ e = Head(s) /\ t = Tail(s)
  BY <1>1, <1>3, AboutTail
<1> QED
  BY <1>2, <1>3

(* A signal about a device is not about a job. *)
LEMMA DeviceSignal ==
  ASSUME DispatcherTyped, NEW w \in Watches, NEW e \in Signals(w), e.path \notin JobPaths,
         \/ Signal(w, e)
         \/ \E c : held[w] # <<>> /\ e = held[w][1] /\ Send(w, c, e)
  PROVE  SameJobSignals
<1>1. Coming \in Seq(Signals("additions")) /\ Going \in Seq(Signals("removals"))
  BY Queues
<1>2. ASSUME w = "additions"
      PROVE  /\ Going' = Going
             /\ \/ Coming' = Append(Coming, e)
                \/ Coming # <<>> /\ e = Head(Coming) /\ Coming' = Tail(Coming)
  BY <1>2, SignalMoves, SendMoves
<1>3. ASSUME w = "removals"
      PROVE  /\ Coming' = Coming
             /\ \/ Going' = Append(Going, e)
                \/ Going # <<>> /\ e = Head(Going) /\ Going' = Tail(Going)
  BY <1>3, SignalMoves, SendMoves
<1>4. CASE w = "additions"
  BY <1>1, <1>2, <1>4, OtherSignal DEF SameJobSignals
<1>5. CASE w = "removals"
  BY <1>1, <1>3, <1>5, OtherSignal DEF SameJobSignals
<1> QED
  BY <1>4, <1>5 DEF Watches

LEMMA NoSignal ==
  ASSUME Coming' = Coming, Going' = Going
  PROVE  SameJobSignals
  BY DEF SameJobSignals

-----------------------------------------------------------------------------
(* What leaves the mounts as they are *)

LoopElsewhere ==
  /\ at["loop"].point \notin {"mountpointsForPath", "umountCompleted"}
  /\ at["loop"].point' \notin {"mountpointsForPath", "umountCompleted"}

(* What is believed of b changes only with the map, the report and the loop. *)
LEMMA TakenKept ==
  ASSUME NEW b, UNCHANGED report, b \in DOMAIN mountpoints' <=> b \in DOMAIN mountpoints,
         UNCHANGED at["loop"] \/ LoopElsewhere
  PROVE  /\ TakenAsMounted(b)' <=> TakenAsMounted(b)
         /\ TakenAsUnmounted(b)' <=> TakenAsUnmounted(b)
<1>1. \A op : Reporting(op, b)' <=> Reporting(op, b)
  BY DEF Reporting
<1>2. /\ LoopAt("mountpointsForPath", b)' <=> LoopAt("mountpointsForPath", b)
      /\ LoopAt("umountCompleted", b)' <=> LoopAt("umountCompleted", b)
  BY DEF LoopAt, LoopElsewhere
<1> QED
  BY <1>1, <1>2 DEF TakenAsMounted, TakenAsUnmounted

(* A step that moves no signal keeps MatchOf(b) if what is believed of b follows. *)
LEMMA MatchTaken ==
  ASSUME NEW b, MatchOf(b), JobsAreSame, Going' = Going, UNCHANGED mounted,
         b \in mounted /\ TakenAsMounted(b) => TakenAsMounted(b)',
         b \notin mounted /\ TakenAsUnmounted(b) => TakenAsUnmounted(b)'
  PROVE  MatchOf(b)'
  BY PathsKept DEF MatchOf

(* In particular when the map keeps b and the loop is not about b. *)
LEMMA MatchKept ==
  ASSUME NEW b, MatchOf(b), JobsAreSame, Going' = Going, UNCHANGED <<mounted, report>>,
         b \in DOMAIN mountpoints' <=> b \in DOMAIN mountpoints,
         UNCHANGED at["loop"] \/ LoopElsewhere
  PROVE  MatchOf(b)'
  BY MatchTaken, TakenKept

(* A step that moves no signal, no job and no mount. *)
LEMMA Aside ==
  ASSUME NEW X, MatchBut(X), Coming' = Coming, Going' = Going, overtaken \subseteq overtaken',
         UNCHANGED <<running, usedJobs, jobManagerVars, mounted>>,
         DOMAIN mountpoints' = DOMAIN mountpoints,
         UNCHANGED at["loop"] \/ LoopElsewhere
  PROVE  MatchBut(X)'
<1>1. JobsInv' /\ JobsAreSame
  BY NoSignal, JobsKept DEF MatchBut
<1>2. ASSUME NEW b \in Blocks \ (overtaken' \cup X) PROVE MatchOf(b)'
  BY <1>1, MatchKept DEF MatchBut, jobManagerVars
<1> QED
  BY <1>1, <1>2 DEF MatchBut

-----------------------------------------------------------------------------
(* The steps of UDisks2 *)

(* A device is put in. *)
LEMMA DeviceComes ==
  ASSUME DispatcherTyped, NEW X, MatchBut(X), NEW e \in DriveAdditions \cup BlockAdditions,
         Signal("additions", e),
         UNCHANGED <<mounted, running, usedJobs, jobManagerVars, mountpoints, at, overtaken>>
  PROVE  MatchBut(X)'
<1>1. e.path \notin JobPaths
  BY DevicePaths DEF DeviceAdditions
<1>2. Going' = Going /\ SameJobSignals
  BY <1>1, ServiceSignals, SignalMoves, DeviceSignal
<1>3. JobsInv' /\ JobsAreSame
  BY <1>2, JobsKept DEF MatchBut
<1>4. ASSUME NEW b \in Blocks \ (overtaken' \cup X) PROVE MatchOf(b)'
  BY <1>2, <1>3, MatchKept DEF MatchBut, jobManagerVars
<1> QED
  BY <1>3, <1>4 DEF MatchBut

(* What goes is not mounted any more, and all that is said of it is late. *)
LEMMA DeviceGoes ==
  ASSUME DispatcherTyped, NEW X, MatchBut(X), NEW e \in DeviceRemovals,
         Signal("removals", e), mounted' = mounted \ {e.path},
         UNCHANGED <<running, usedJobs, jobManagerVars, mountpoints, at, overtaken>>
  PROVE  MatchBut(X)'
<1>1. e.path \notin JobPaths
  BY PathsAssumption DEF DeviceRemovals
<1>2. /\ Going' = Append(Going, e) /\ SameJobSignals
      /\ Going \in Seq(Signals("removals")) /\ e \in Signals("removals")
  BY <1>1, ServiceSignals, SignalMoves, DeviceSignal, Queues
<1>3. JobsInv' /\ JobsAreSame
  BY <1>2, JobsKept DEF MatchBut
<1>4. ASSUME NEW b \in Blocks \ (overtaken' \cup X) PROVE MatchOf(b)'
  <2>1. MatchOf(b)
    BY <1>4 DEF MatchBut
  <2> DEFINE M == MountPaths(b)
             U == UnmountPaths(b)
  <2>2. M' = M /\ U' = U
    BY <1>3, PathsKept
  <2>3. /\ TakenAsMounted(b)' <=> TakenAsMounted(b)
        /\ TakenAsUnmounted(b)' <=> TakenAsUnmounted(b)
    BY TakenKept DEF jobManagerVars
  <2>4. e.path \in U <=> e.path = b
    BY <1>1 DEF UnmountPaths
  <2> HIDE DEF M, U
  <2>5. About(Going', U) <=> About(Going, U) \/ e.path \in U
    BY <1>2, AboutAppended
  <2>6. LastAbout(Going, M, U) /\ e.path \notin U => LastAbout(Going', M, U)
    BY <1>2, AboutAppended
  <2>7. CASE e.path = b
    <3>1. b \notin mounted' /\ About(Going', U')
      BY <2>2, <2>4, <2>5, <2>7
    <3> QED
      BY <3>1 DEF MatchOf, U
  <2>8. CASE e.path # b
    <3>1. b \in mounted' <=> b \in mounted
      BY <2>8
    <3>2. /\ b \in mounted => \/ LastAbout(Going, M, U)
                              \/ ~ About(Going, U) /\ TakenAsMounted(b)
          /\ b \notin mounted => About(Going, U) \/ TakenAsUnmounted(b)
      BY <2>1 DEF MatchOf, M, U
    <3>3. /\ b \in mounted' => \/ LastAbout(Going', M', U')
                               \/ ~ About(Going', U') /\ TakenAsMounted(b)'
          /\ b \notin mounted' => About(Going', U') \/ TakenAsUnmounted(b)'
      BY <2>2, <2>3, <2>4, <2>5, <2>6, <2>8, <3>1, <3>2
    <3> QED
      BY <3>3 DEF MatchOf, M, U
  <2> QED
    BY <2>7, <2>8
<1> QED
  BY <1>3, <1>4 DEF MatchBut

(* The announcements of two jobs differ. *)
LEMMA JobAdditionsDiffer ==
  ASSUME NEW p, NEW op, NEW b, NEW q, NEW oq, NEW c
  PROVE  /\ JobAddition(p, op, b).path = p
         /\ JobAddition(p, op, b) = JobAddition(q, oq, c) => p = q /\ op = oq /\ b = c
<1>1. JobAddition(p, op, b).props.op = op /\ JobAddition(p, op, b).props.objects[1] = b
  BY DEF JobAddition, Added
<1>2. JobAddition(q, oq, c).props.op = oq /\ JobAddition(q, oq, c).props.objects[1] = c
  BY DEF JobAddition, Added
<1> QED
  BY <1>1, <1>2 DEF JobAddition, Added

(* A new job has a path of its own. *)
LEMMA JobStarts ==
  ASSUME ServiceTyped, DispatcherTyped, NEW X, MatchBut(X), NEW op \in JobOperations, NEW b \in Blocks,
         StartJob(op, b), op = Mkfs => b \notin mounted,
         UNCHANGED <<jobManagerVars, mountpoints, at, overtaken>>
  PROVE  MatchBut(X)'
<1>1. PICK p \in JobPaths \ usedJobs :
        /\ usedJobs' = usedJobs \cup {p}
        /\ running' = Put(running, p, [op |-> op, block |-> b])
        /\ Signal("additions", JobAddition(p, op, b))
  BY DEF StartJob, JobAddition
<1> DEFINE e == JobAddition(p, op, b)
<1>2. /\ Coming' = Append(Coming, e) /\ Going' = Going
      /\ Coming \in Seq(Signals("additions")) /\ e \in Signals("additions")
  BY <1>1, ServiceSignals, SignalMoves, Queues DEF JobAdditions
<1>3. /\ e.path = p
      /\ \A q, oq, c : e = JobAddition(q, oq, c) => q = p /\ oq = op /\ c = b
  BY JobAdditionsDiffer
<1> HIDE DEF e
<1>4. ~ Known(p) /\ ~ About(Coming, {p}) /\ ~ Unended(p) /\ ~ Completing(p) /\ p \notin DOMAIN running
  BY <1>1 DEF MatchBut, JobsInv, JobInv, Unended
<1>5. mounted' = mounted /\ ~ Busy(b)
  BY DEF StartJob
<1>6. BusyInv'
  <2>1. /\ DOMAIN running' = DOMAIN running \cup {p}
        /\ running'[p] = [op |-> op, block |-> b]
        /\ \A q \in DOMAIN running : q # p /\ running'[q] = running[q] /\ running[q].block # b
    BY <1>1, <1>4, <1>5 DEF Put, Busy
  <2> QED
    BY <1>5, <2>1 DEF BusyInv, MatchBut, JobsInv
<1>7. \A P : About(Coming', P) <=> About(Coming, P) \/ p \in P
  BY <1>2, <1>3, AboutAppended
<1>8. \A x : Has(Coming', x) <=> Has(Coming, x) \/ x = e
  BY <1>2, AboutAppended
<1>9. AboutOnce(Coming', p)
  <2>1. AboutOnce(Coming, p)
    BY <1>1 DEF MatchBut, JobsInv, JobInv
  <2> QED
    BY <1>2, <1>3, <1>4, <2>1, AboutAppended
<1>10. ASSUME NEW q \in JobPaths, q # p
       PROVE  JobInv(q)' /\ \A oq, c : JobIs(q, oq, c)' <=> JobIs(q, oq, c)
  <2>1. \A oq, c : Has(Coming', JobAddition(q, oq, c)) <=> Has(Coming, JobAddition(q, oq, c))
    BY <1>3, <1>8, <1>10
  <2>2. /\ About(Coming', {q}) <=> About(Coming, {q})
        /\ AboutOnce(Coming, q) => AboutOnce(Coming', q)
    BY <1>2, <1>3, <1>7, <1>10, AboutAppended
  <2>3. /\ Known(q)' <=> Known(q)
        /\ Completing(q)' <=> Completing(q)
        /\ q \in DOMAIN running' <=> q \in DOMAIN running
        /\ q \in DOMAIN running => running'[q] = running[q]
        /\ Unended(q)' <=> Unended(q)
    BY <1>1, <1>2, <1>10 DEF Known, Completing, Unended, jobManagerVars, Put
  <2>4. \A oq, c : JobIs(q, oq, c)' <=> JobIs(q, oq, c)
    BY <2>1, <2>3 DEF JobIs, jobManagerVars
  <2>5. JobInv(q)
    BY DEF MatchBut, JobsInv
  <2>6. JobInv(q)'
    BY <1>1, <1>2, <2>2, <2>3, <2>4, <2>5 DEF JobInv, jobManagerVars
  <2> QED
    BY <2>4, <2>6
<1>11. JobInv(p)'
  <2>1. JobIs(p, op, b)'
    BY <1>8 DEF JobIs, e
  <2>2. running'[p].op = op /\ running'[p].block = b /\ p \in DOMAIN running'
    BY <1>1 DEF Put
  <2>3. ~ About(Going', {p})
    BY <1>2, <1>4 DEF Unended
  <2>4. ~ Known(p)' /\ ~ Completing(p)' /\ p \in usedJobs'
    BY <1>1, <1>4 DEF Known, Completing, jobManagerVars
  <2>5. AboutOnce(Going', p)
    BY <1>1, <1>2 DEF MatchBut, JobsInv, JobInv
  <2> QED
    BY <1>9, <2>1, <2>2, <2>3, <2>4, <2>5 DEF JobInv
<1>12. ASSUME NEW c \in Blocks \ (overtaken' \cup X) PROVE MatchOf(c)'
  <2>1. MatchOf(c)
    BY <1>12 DEF MatchBut
  <2>2. /\ TakenAsMounted(c)' <=> TakenAsMounted(c)
        /\ TakenAsUnmounted(c)' <=> TakenAsUnmounted(c)
    BY TakenKept DEF jobManagerVars
  <2>3. \A i \in 1 .. Len(Going) : Going[i].path # p
    BY <1>4 DEF Unended, About
  <2>4. \A i \in 1 .. Len(Going) :
          /\ Going[i].path \in MountPaths(c)' <=> Going[i].path \in MountPaths(c)
          /\ Going[i].path \in UnmountPaths(c)' <=> Going[i].path \in UnmountPaths(c)
    BY <1>10, <2>3 DEF MountPaths, UnmountPaths
  <2>5. /\ About(Going', UnmountPaths(c)') <=> About(Going, UnmountPaths(c))
        /\ LastAbout(Going', MountPaths(c)', UnmountPaths(c)')
             <=> LastAbout(Going, MountPaths(c), UnmountPaths(c))
    BY <1>2, <2>4 DEF About, LastAbout
  <2> QED
    BY <1>5, <2>1, <2>2, <2>5 DEF MatchOf
<1> QED
  BY <1>6, <1>10, <1>11, <1>12 DEF MatchBut, JobsInv

(* A job does one thing to one block device. *)
LEMMA JobIsOne ==
  ASSUME NEW p, JobInv(p), NEW op, NEW b, NEW oq, NEW c, JobIs(p, op, b), JobIs(p, oq, c)
  PROVE  op = oq /\ b = c
<1>1. \A o, d : Has(Coming, JobAddition(p, o, d)) =>
        \E i \in 1 .. Len(Coming) : Coming[i] = JobAddition(p, o, d) /\ Coming[i].path = p
  BY JobAdditionsDiffer DEF Has
<1>2. CASE Known(p)
  <2>1. \A o, d : ~ Has(Coming, JobAddition(p, o, d))
    BY <1>1, <1>2 DEF JobInv, About
  <2> QED
    BY <2>1 DEF JobIs
<1>3. CASE ~ Known(p)
  <2>1. PICK i \in 1 .. Len(Coming) : Coming[i] = JobAddition(p, op, b) /\ Coming[i].path = p
    BY <1>1, <1>3 DEF JobIs
  <2>2. PICK k \in 1 .. Len(Coming) : Coming[k] = JobAddition(p, oq, c) /\ Coming[k].path = p
    BY <1>1, <1>3 DEF JobIs
  <2>3. i = k
    BY <2>1, <2>2 DEF JobInv, AboutOnce
  <2> QED
    BY <2>1, <2>2, <2>3, JobAdditionsDiffer
<1> QED
  BY <1>2, <1>3

(* Whose mount or unmount the end of job p is about. *)
LEMMA PathsOfJob ==
  ASSUME NEW p \in JobPaths, JobInv(p), NEW op, NEW b, JobIs(p, op, b), NEW c \in Blocks
  PROVE  /\ p \in MountPaths(c) <=> op = MountFs /\ c = b
         /\ p \in UnmountPaths(c) <=> op = UnmountFs /\ c = b
<1>1. p # c
  BY PathsAssumption
<1> QED
  BY <1>1, JobIsOne DEF MountPaths, UnmountPaths

(* A job ends: a mount, unmount or format is done and its end on its way. *)
LEMMA JobEnds ==
  ASSUME ServiceTyped, DispatcherTyped, NEW X, MatchBut(X), NEW p, FinishJob(p),
         UNCHANGED <<jobManagerVars, mountpoints, at, overtaken>>
  PROVE  MatchBut(X)'
<1> DEFINE op == running[p].op
           b == running[p].block
           e == Removed(p, {JobIface})
<1>1. /\ p \in JobPaths /\ p \in DOMAIN running /\ op \in JobOperations /\ b \in Blocks
      /\ usedJobs' = usedJobs /\ running' = Delete(running, p)
  BY DEF FinishJob, ServiceTyped
<1>2. e.path = p /\ e \in Signals("removals")
  BY <1>1, ServiceSignals DEF Removed, JobRemovals
<1>3. Coming' = Coming /\ Going' = Append(Going, e) /\ Going \in Seq(Signals("removals"))
  BY <1>1, <1>2, ServiceSignals, SignalMoves, Queues DEF FinishJob
<1>4. JobInv(p) /\ JobIs(p, op, b) /\ ~ About(Going, {p}) /\ ~ Completing(p) /\ p \in usedJobs
  BY <1>1 DEF MatchBut, JobsInv, JobInv, Unended
<1>5. mounted' = CASE op = MountFs -> mounted \cup ({b} \cap present)
                   [] op = UnmountFs -> mounted \ {b}
                   [] OTHER -> mounted
  BY DEF FinishJob
<1> HIDE DEF e, op, b
<1>6. JobsAreSame
  BY <1>3 DEF JobsAreSame, JobIs, Known, jobManagerVars
<1>7. BusyInv'
  <2>1. /\ DOMAIN running' \subseteq DOMAIN running
        /\ \A q \in DOMAIN running' : running'[q] = running[q] /\ running[q].block # b
    BY <1>1 DEF Delete, MatchBut, JobsInv, BusyInv, b
  <2>2. mounted' \subseteq mounted \cup {b}
    BY <1>5
  <2> QED
    BY <2>1, <2>2 DEF MatchBut, JobsInv, BusyInv
<1>8. /\ \A P : About(Going', P) <=> About(Going, P) \/ p \in P
      /\ \A q : AboutOnce(Going, q) /\ (p = q => ~ About(Going, {q})) => AboutOnce(Going', q)
      /\ \A M, U : p \in M \/ (LastAbout(Going, M, U) /\ p \notin U) => LastAbout(Going', M, U)
  BY <1>2, <1>3, AboutAppended
<1>9. ASSUME NEW q \in JobPaths PROVE JobInv(q)'
  <2>1. JobInv(q)
    BY DEF MatchBut, JobsInv
  <2>2. /\ Known(q)' <=> Known(q)
        /\ Completing(q)' <=> Completing(q)
        /\ \A oq, c : JobIs(q, oq, c)' <=> JobIs(q, oq, c)
    BY <1>6 DEF Known, Completing, jobManagerVars, JobsAreSame
  <2>3. AboutOnce(Coming', q) /\ AboutOnce(Going', q)
    BY <1>3, <1>4, <1>8, <2>1 DEF JobInv
  <2>4. CASE q = p
    <3>1. p \notin DOMAIN running'
      BY <1>1 DEF Delete
    <3>2. \E oq \in JobOperations, c \in Blocks : JobIs(q, oq, c)'
      BY <1>1, <1>4, <2>2, <2>4
    <3> QED
      BY <1>1, <1>3, <1>4, <2>1, <2>2, <2>3, <2>4, <3>1, <3>2 DEF JobInv, jobManagerVars
  <2>5. CASE q # p
    <3>1. About(Going', {q}) <=> About(Going, {q})
      BY <1>8, <2>5
    <3>2. /\ q \in DOMAIN running' <=> q \in DOMAIN running
          /\ q \in DOMAIN running => running'[q] = running[q]
      BY <1>1, <2>5 DEF Delete
    <3>3. Unended(q)' <=> Unended(q)
      BY <3>1, <3>2 DEF Unended
    <3> QED
      BY <1>1, <1>3, <2>1, <2>2, <2>3, <3>1, <3>2, <3>3 DEF JobInv, jobManagerVars
  <2> QED
    BY <2>4, <2>5
<1>10. ASSUME NEW c \in Blocks \ (overtaken' \cup X) PROVE MatchOf(c)'
  <2> DEFINE M == MountPaths(c)
             U == UnmountPaths(c)
  <2>1. /\ c \in mounted => LastAbout(Going, M, U) \/ (~ About(Going, U) /\ TakenAsMounted(c))
        /\ c \notin mounted => About(Going, U) \/ TakenAsUnmounted(c)
    BY <1>10 DEF MatchBut, MatchOf
  <2>2. M' = M /\ U' = U
    BY <1>6, PathsKept
  <2>3. /\ TakenAsMounted(c)' <=> TakenAsMounted(c)
        /\ TakenAsUnmounted(c)' <=> TakenAsUnmounted(c)
    BY TakenKept DEF jobManagerVars
  <2>4. (p \in M <=> op = MountFs /\ c = b) /\ (p \in U <=> op = UnmountFs /\ c = b)
    BY <1>1, <1>4, PathsOfJob
  <2> HIDE DEF M, U
  <2>5. /\ About(Going', U) <=> About(Going, U) \/ p \in U
        /\ p \in M \/ (LastAbout(Going, M, U) /\ p \notin U) => LastAbout(Going', M, U)
    BY <1>8
  <2>6. /\ c \in mounted' =>
             LastAbout(Going', M', U') \/ (~ About(Going', U') /\ TakenAsMounted(c)')
        /\ c \notin mounted' => About(Going', U') \/ TakenAsUnmounted(c)'
    <3>1. CASE c = b /\ op = MountFs
      BY <1>5, <2>1, <2>2, <2>3, <2>4, <2>5, <3>1
    <3>2. CASE c = b /\ op = UnmountFs
      <4>1. c \notin mounted'
        BY <1>5, <3>2 DEF UnmountFs, MountFs
      <4> QED
        BY <2>2, <2>4, <2>5, <3>2, <4>1
    <3>3. CASE c # b \/ op \notin {MountFs, UnmountFs}
      <4>1. c \in mounted' <=> c \in mounted
        BY <1>5, <3>3
      <4> QED
        BY <2>1, <2>2, <2>3, <2>4, <2>5, <3>3, <4>1
    <3> QED
      BY <3>1, <3>2, <3>3
  <2> QED
    BY <2>6 DEF MatchOf, M, U
<1> QED
  BY <1>7, <1>9, <1>10 DEF MatchBut, JobsInv

-----------------------------------------------------------------------------
(* The steps of the package *)

LEMMA LoopMoves ==
  ASSUME WatcherInv, NEW w \in Where, Continue("loop", w)
  PROVE  at'["loop"] = w
  BY Continues, IsGoroutine DEF WatcherInv, WatcherTyped

(* A signal about a device reaches the storage watcher. *)
LEMMA DispatchDeviceMatch ==
  ASSUME TypedInv, NEW X, MatchBut(X), NEW w \in Watches, DispatchDevice(w), UNCHANGED serviceVars
  PROVE  MatchBut(X)'
<1> DEFINE e == held[w][1]
<1>1. /\ DispatcherTyped /\ WatcherInv /\ held[w] # <<>>
      /\ UNCHANGED <<mounted, running, usedJobs, jobManagerVars, overtaken>>
      /\ \/ Send(w, "Additions", e) /\ ReadAddition(e)
         \/ Send(w, "Removals", e) /\ ReadRemoval(e)
  BY DEF DispatchDevice, TypedInv, serviceVars, clientHistory
<1>2. /\ e \in Signals(w) /\ e.path \notin JobPaths
      /\ Send(w, "Additions", e) => w = "additions"
      /\ Send(w, "Removals", e) => w = "removals"
  BY <1>1, SendStep DEF Channel, Watches
<1>3. SameJobSignals
  BY <1>1, <1>2, DeviceSignal
<1>4. JobsInv' /\ JobsAreSame
  BY <1>1, <1>3, JobsKept DEF MatchBut
<1>5. LoopElsewhere
  <2>1. WatcherInv'
    BY ClientPart, DispatchDeviceTyped
  <2>2. at["loop"].point = "select"
    BY <1>1 DEF ReadAddition, ReadRemoval, Selecting
  <2>3. \E x \in {"add", "remove", "mountRemoved", "select"} : at'["loop"].point = x
    BY <1>1, IsGoroutine
      DEF ReadAddition, ReadRemoval, Continue, Rest, WatcherInv, WatcherTyped
  <2> QED
    BY <2>2, <2>3 DEF LoopElsewhere
<1>6. CASE Send(w, "Additions", e) /\ ReadAddition(e)
  <2>1. Going' = Going
    BY <1>1, <1>2, <1>6, SendMoves
  <2>2. UNCHANGED mountpoints
    BY <1>6 DEF ReadAddition
  <2>3. \A b \in Blocks \ (overtaken' \cup X) : MatchOf(b)'
    BY <1>1, <1>4, <1>5, <2>1, <2>2, MatchKept DEF MatchBut, jobManagerVars
  <2> QED
    BY <1>4, <2>3 DEF MatchBut
<1>7. CASE Send(w, "Removals", e) /\ ReadRemoval(e)
  <2>1. /\ Going # <<>> /\ Head(Going) = e /\ Going' = Tail(Going)
        /\ Going \in Seq(Signals("removals"))
    BY <1>1, <1>2, <1>7, SendMoves, Queues
  <2>2. DOMAIN mountpoints' = DOMAIN mountpoints \ {e.path}
    BY <1>7 DEF ReadRemoval, Delete
  <2> HIDE DEF e
  <2>3. ASSUME NEW b \in Blocks \ (overtaken' \cup X) PROVE MatchOf(b)'
    <3> DEFINE M == MountPaths(b)
               U == UnmountPaths(b)
    <3>1. /\ b \in mounted => LastAbout(Going, M, U) \/ (~ About(Going, U) /\ TakenAsMounted(b))
          /\ b \notin mounted => About(Going, U) \/ TakenAsUnmounted(b)
      BY <1>1, <2>3 DEF MatchBut, MatchOf
    <3>2. M' = M /\ U' = U
      BY <1>4, PathsKept
    <3>3. e.path \notin M /\ (e.path \in U <=> e.path = b)
      BY <1>2 DEF MountPaths, UnmountPaths
    <3> HIDE DEF M, U
    <3>4. /\ About(Going, U) <=> About(Going', U) \/ e.path \in U
          /\ LastAbout(Going, M, U) =>
               LastAbout(Going', M, U) \/ (e.path \in M /\ ~ About(Going', U))
      BY <2>1, AboutTail
    <3>5. CASE e.path = b
      <4>1. TakenAsUnmounted(b)'
        BY <2>2, <3>5 DEF TakenAsUnmounted
      <4>2. b \in mounted => LastAbout(Going', M', U')
        BY <3>1, <3>2, <3>3, <3>4, <3>5
      <4> QED
        BY <1>1, <4>1, <4>2 DEF MatchOf, M, U
    <3>6. CASE e.path # b
      <4>1. /\ TakenAsMounted(b)' <=> TakenAsMounted(b)
            /\ TakenAsUnmounted(b)' <=> TakenAsUnmounted(b)
        BY <1>1, <1>5, <2>2, <3>6, TakenKept DEF jobManagerVars
      <4>2. /\ b \in mounted => \/ LastAbout(Going', M', U')
                                \/ ~ About(Going', U') /\ TakenAsMounted(b)'
            /\ b \notin mounted => About(Going', U') \/ TakenAsUnmounted(b)'
        BY <3>1, <3>2, <3>3, <3>4, <3>6, <4>1
      <4> QED
        BY <1>1, <4>2 DEF MatchOf, M, U
    <3> QED
      BY <3>5, <3>6
  <2> QED
    BY <1>4, <2>3 DEF MatchBut
<1> QED
  BY <1>1, <1>6, <1>7

(* The job manager reads the start of a job: it knew nothing of it before. *)
LEMMA ReadStartMatch ==
  ASSUME TypedInv, NEW X, MatchBut(X), DispatchJob("additions"), UNCHANGED serviceVars
  PROVE  MatchBut(X)'
<1> DEFINE e == held["additions"][1]
<1>1. /\ DispatcherTyped /\ JobsTyped /\ held["additions"] # <<>>
      /\ Send("additions", "Jobs", e) /\ ReadJob(e)
      /\ overtaken \subseteq overtaken'
      /\ UNCHANGED <<mounted, running, usedJobs, mountpoints, at>>
  BY DEF DispatchJob, TypedInv, serviceVars, watcherVars
<1>2. "additions" \in Watches
  BY DEF Watches
<1>3. e \in Signals("additions") /\ e.path \in JobPaths
  <2>1. e \in Signals("additions") /\ "Jobs" = Channel("additions", e)
    BY <1>1, <1>2, SendStep
  <2> QED
    BY <2>1 DEF Channel
<1>4. PICK p \in JobPaths, op \in JobOperations, b \in Blocks : e = JobAddition(p, op, b)
  BY <1>3, DevicePaths DEF Signals, JobAdditions
<1>5. e.path = p /\ e.ifaces = {} /\ e.props = [op |-> op, objects |-> <<b>>]
  BY <1>4 DEF JobAddition, Added
<1>6. /\ Coming # <<>> /\ Head(Coming) = e /\ Coming' = Tail(Coming) /\ Going' = Going
      /\ Coming \in Seq(Signals("additions"))
  BY <1>1, <1>2, SendMoves, Queues
<1> HIDE DEF e
<1>7. JobInv(p)
  BY DEF MatchBut, JobsInv
<1>8. /\ \A P : About(Coming, P) <=> About(Coming', P) \/ p \in P
      /\ \A x : Has(Coming, x) <=> Has(Coming', x) \/ x = e
      /\ \A q : AboutOnce(Coming, q) => /\ AboutOnce(Coming', q)
                                        /\ p = q => ~ About(Coming', {q})
  BY <1>5, <1>6, AboutTail
<1>9. ~ Known(p) /\ ~ About(Coming', {p}) /\ p \in usedJobs
  BY <1>7, <1>8 DEF JobInv
<1>10. /\ processAdditionEvent(e) /\ report = <<>>
       /\ onGoingJobs' = Put(onGoingJobs, p, NewJob(e))
       /\ report' = Starting(NewJob(e))
  BY <1>1, <1>5, <1>9 DEF ReadJob, processRemovalEvent, processAdditionEvent, isRemovalEvent, Idle
<1>11. /\ onGoingJobs'[p] = NewJob(e) /\ DOMAIN onGoingJobs' = DOMAIN onGoingJobs \cup {p}
       /\ \A q \in JobPaths \ {p} : onGoingJobs'[q] = onGoingJobs[q] \/ ~ Known(q)
  BY <1>10 DEF Put, Known
<1>12. NewJob(e).path = p /\ NewJob(e).operation = op /\ NewJob(e).paths = <<b>>
       /\ NewJob(e).wasCompleted = FALSE
  <2>1. getFormattedPaths(e.props) = <<b>> /\ e.props.op = op
    BY <1>5 DEF getFormattedPaths, JobOperations
  <2> QED
    BY <1>5, <2>1 DEF NewJob
<1>13. /\ \A q : ~ Completing(q) /\ ~ Completing(q)'
       /\ \A o, c : ~ Reporting(o, c) /\ ~ Reporting(o, c)'
  BY <1>10, <1>12 DEF Completing, Reporting, Starting
<1>14. ASSUME NEW q \in JobPaths, q # p
       PROVE  JobInv(q)' /\ \A oq, c : JobIs(q, oq, c)' <=> JobIs(q, oq, c)
  <2>1. \A oq, c : Has(Coming', JobAddition(q, oq, c)) <=> Has(Coming, JobAddition(q, oq, c))
    <3>1. \A oq, c : JobAddition(q, oq, c) # e
      BY <1>4, <1>14, JobAdditionsDiffer
    <3> QED
      BY <1>8, <3>1
  <2>2. /\ About(Coming', {q}) <=> About(Coming, {q})
        /\ AboutOnce(Coming, q) => AboutOnce(Coming', q)
    BY <1>8, <1>14
  <2>3. /\ Known(q)' <=> Known(q)
        /\ Known(q) => onGoingJobs'[q] = onGoingJobs[q]
        /\ Unended(q)' <=> Unended(q)
    BY <1>1, <1>6, <1>11, <1>14 DEF Known, Unended
  <2>4. \A oq, c : JobIs(q, oq, c)' <=> JobIs(q, oq, c)
    BY <2>1, <2>3 DEF JobIs
  <2>5. JobInv(q)
    BY DEF MatchBut, JobsInv
  <2>6. JobInv(q)'
    BY <1>1, <1>6, <1>13, <2>2, <2>3, <2>4, <2>5 DEF JobInv
  <2> QED
    BY <2>4, <2>6
<1>15. \A oq, c : JobIs(p, oq, c)' <=> JobIs(p, oq, c)
  <2>1. Known(p)'
    BY <1>11 DEF Known
  <2>2. JobIs(p, op, b)' /\ JobIs(p, op, b)
    BY <1>4, <1>8, <1>11, <1>12, <2>1 DEF JobIs
  <2>3. \A oq, c : JobIs(p, oq, c)' => oq = op /\ c = b
    <3>1. \A oq, c : ~ Has(Coming', JobAddition(p, oq, c))
      BY <1>9, JobAdditionsDiffer DEF Has, About
    <3> QED
      BY <1>11, <1>12, <3>1 DEF JobIs
  <2>4. \A oq, c : JobIs(p, oq, c) => oq = op /\ c = b
    BY <1>7, <2>2, JobIsOne
  <2> QED
    BY <2>2, <2>3, <2>4
<1>16. JobInv(p)'
  <2>1. /\ Unended(p)' <=> Unended(p)
        /\ About(Going', {p}) <=> About(Going, {p})
    BY <1>1, <1>6 DEF Unended
  <2> QED
    BY <1>1, <1>6, <1>7, <1>8, <1>9, <1>11, <1>12, <1>13, <1>15, <2>1 DEF JobInv
<1>17. JobsAreSame
  BY <1>14, <1>15 DEF JobsAreSame
<1>18. BusyInv'
  BY <1>1 DEF MatchBut, JobsInv, BusyInv
<1>19. ASSUME NEW c \in Blocks \ (overtaken' \cup X) PROVE MatchOf(c)'
  <2>1. MatchOf(c)
    BY <1>1, <1>19 DEF MatchBut
  <2>2. /\ TakenAsMounted(c)' <=> TakenAsMounted(c)
        /\ TakenAsUnmounted(c)' <=> TakenAsUnmounted(c)
    BY <1>1, <1>13 DEF TakenAsMounted, TakenAsUnmounted, LoopAt
  <2> QED
    BY <1>1, <1>6, <1>17, <2>1, <2>2, MatchTaken
<1> QED
  BY <1>14, <1>16, <1>18, <1>19 DEF MatchBut, JobsInv

(* The job manager reads the end of a job.  If it does not know the job, the
   end has overtaken the start, and nothing is claimed of the block device. *)
LEMMA ReadEndMatch ==
  ASSUME TypedInv, NEW X, MatchBut(X), DispatchJob("removals"), UNCHANGED serviceVars
  PROVE  MatchBut(X)'
<1> DEFINE e == held["removals"][1]
<1>1. /\ DispatcherTyped /\ JobsTyped /\ held["removals"] # <<>>
      /\ Send("removals", "Jobs", e) /\ ReadJob(e)
      /\ UNCHANGED <<mounted, running, usedJobs, mountpoints, at>>
  BY DEF DispatchJob, TypedInv, serviceVars, watcherVars
<1>2. "removals" \in Watches
  BY DEF Watches
<1>3. e \in Signals("removals") /\ "Jobs" = Channel("removals", e)
  BY <1>1, <1>2, SendStep
<1>4. PICK p \in JobPaths : e.path = p
  BY <1>3 DEF Channel
<1>5. e.ifaces = {JobIface}
  BY <1>4, <1>3, PathsAssumption DEF Signals, JobRemovals, DeviceRemovals, Removed
<1>6. /\ Going # <<>> /\ Head(Going) = e /\ Going' = Tail(Going) /\ Coming' = Coming
      /\ Going \in Seq(Signals("removals"))
  BY <1>1, <1>2, SendMoves, Queues
<1>7. overtaken' = overtaken \cup UNION {Range(a.props.objects) : a \in Undelivered(p)}
  BY <1>4, <1>5 DEF DispatchJob, isRemovalEvent
<1>8. /\ processRemovalEvent(e) /\ report = <<>> /\ LostJobInterface(e)
  BY <1>1, <1>5
    DEF ReadJob, processAdditionEvent, processRemovalEvent, isRemovalEvent, Idle,
        LostJobInterface, SearchFinds, JobIface
<1> HIDE DEF e
<1>9. JobInv(p)
  BY DEF MatchBut, JobsInv
<1>10. /\ \A P : About(Going, P) <=> About(Going', P) \/ p \in P
      /\ \A q : AboutOnce(Going, q) => /\ AboutOnce(Going', q)
                                       /\ p = q => ~ About(Going', {q})
  BY <1>4, <1>6, AboutTail
<1>11. Unended(p) /\ ~ Unended(p)' /\ p \in usedJobs
  <2>1. About(Going, {p}) /\ ~ About(Going', {p})
    BY <1>9, <1>10 DEF JobInv
  <2> QED
    BY <1>1, <1>9, <2>1 DEF JobInv, Unended
<1>12. PICK op \in JobOperations, b \in Blocks : JobIs(p, op, b)
  BY <1>9, <1>11 DEF JobInv
<1>13. \/ /\ Known(p) /\ UNCHANGED onGoingJobs
          /\ report' = <<Completed(onGoingJobs[p])>>
       \/ ~ Known(p) /\ UNCHANGED <<onGoingJobs, report>>
  <2>1. Known(p) => onGoingJobs[p].operation # OtherOperation
    BY <1>1 DEF Known, JobsTyped, Jobs, JobOperations, Mkfs, UnmountFs, MountFs, OtherOperation
  <2> QED
    BY <1>4, <1>8, <2>1 DEF processRemovalEvent
<1>14. /\ onGoingJobs' = onGoingJobs
       /\ JobsAreSame
  BY <1>6, <1>13 DEF JobsAreSame, JobIs, Known
<1>15. Known(p) => /\ onGoingJobs[p] \in Jobs
                   /\ onGoingJobs[p].path = p
                   /\ onGoingJobs[p].operation = op
                   /\ onGoingJobs[p].paths = <<b>>
  <2>1. ASSUME Known(p) PROVE onGoingJobs[p].operation = op /\ onGoingJobs[p].paths = <<b>>
    <3>1. PICK c \in Blocks : onGoingJobs[p].paths = <<c>>
      BY <1>1, <2>1 DEF Known, JobsTyped, Jobs, OnePath
    <3>2. JobIs(p, onGoingJobs[p].operation, c)
      BY <2>1, <3>1 DEF JobIs
    <3> QED
      BY <1>9, <1>12, <3>1, <3>2, JobIsOne
  <2> QED
    BY <1>1, <1>9, <2>1 DEF JobInv, Known, JobsTyped
<1>16. /\ \A q : ~ Completing(q)
       /\ \A o, c : ~ Reporting(o, c)
       /\ Known(p) => /\ \A q : Completing(q)' <=> q = p
                      /\ \A o, c : Reporting(o, c)' <=> o = op /\ c = b
                      /\ report'[1].operation = op /\ report'[1].paths = <<b>>
       /\ ~ Known(p) => /\ \A q : ~ Completing(q)'
                        /\ \A o, c : ~ Reporting(o, c)'
  <2>1. (\A q : ~ Completing(q)) /\ (\A o, c : ~ Reporting(o, c))
    BY <1>8 DEF Completing, Reporting
  <2>2. ASSUME Known(p)
        PROVE  /\ \A q : Completing(q)' <=> q = p
               /\ \A o, c : Reporting(o, c)' <=> o = op /\ c = b
               /\ report'[1].operation = op /\ report'[1].paths = <<b>>
    <3> DEFINE j == Completed(onGoingJobs[p])
    <3>1. report' = <<j>> /\ j.path = p /\ j.operation = op /\ j.paths = <<b>> /\ j.wasCompleted
      BY <1>13, <1>15, <2>2, CompletedJob
    <3> HIDE DEF j
    <3>2. report' # <<>> /\ report'[1] = j
      BY <3>1
    <3>3. \A c : <<b>> = <<c>> <=> c = b
      OBVIOUS
    <3> QED
      BY <3>1, <3>2, <3>3 DEF Completing, Reporting
  <2>3. ASSUME ~ Known(p) PROVE (\A q : ~ Completing(q)') /\ (\A o, c : ~ Reporting(o, c)')
    BY <1>8, <1>13, <2>3 DEF Completing, Reporting
  <2> QED
    BY <2>1, <2>2, <2>3
<1>17. ASSUME NEW q \in JobPaths PROVE JobInv(q)'
  <2>1. JobInv(q)
    BY DEF MatchBut, JobsInv
  <2>2. /\ Known(q)' <=> Known(q)
        /\ \A oq, c : JobIs(q, oq, c)' <=> JobIs(q, oq, c)
    BY <1>14 DEF Known, JobsAreSame
  <2>3. /\ About(Going', {q}) => About(Going, {q})
        /\ AboutOnce(Going', q) /\ AboutOnce(Coming', q)
        /\ Unended(q)' => Unended(q)
    BY <1>1, <1>6, <1>10, <2>1 DEF JobInv, Unended
  <2>4. Completing(q)' => /\ Known(q)' /\ ~ Unended(q)'
                          /\ report'[1].operation = onGoingJobs'[q].operation
                          /\ report'[1].paths = onGoingJobs'[q].paths
    BY <1>11, <1>14, <1>15, <1>16, <2>2
  <2> QED
    BY <1>1, <1>6, <1>14, <2>1, <2>2, <2>3, <2>4 DEF JobInv
<1>18. BusyInv'
  BY <1>1 DEF MatchBut, JobsInv, BusyInv
<1>19. ASSUME NEW c \in Blocks \ (overtaken' \cup X) PROVE MatchOf(c)'
  <2> DEFINE M == MountPaths(c)
             U == UnmountPaths(c)
  <2>1. /\ c \in mounted => LastAbout(Going, M, U) \/ (~ About(Going, U) /\ TakenAsMounted(c))
        /\ c \notin mounted => About(Going, U) \/ TakenAsUnmounted(c)
    BY <1>7, <1>19 DEF MatchBut, MatchOf
  <2>2. M' = M /\ U' = U
    BY <1>14, PathsKept
  <2>3. (p \in M <=> op = MountFs /\ c = b) /\ (p \in U <=> op = UnmountFs /\ c = b)
    BY <1>9, <1>12, PathsOfJob
  <2> HIDE DEF M, U
  <2>4. /\ About(Going, U) <=> About(Going', U) \/ p \in U
        /\ LastAbout(Going, M, U) =>
             LastAbout(Going', M, U) \/ (p \in M /\ ~ About(Going', U))
    BY <1>4, <1>6, AboutTail
  <2>5. \A x : LoopAt(x, c)' <=> LoopAt(x, c)
    BY <1>1 DEF LoopAt
  <2>6. /\ c \in mounted' =>
             LastAbout(Going', M', U') \/ (~ About(Going', U') /\ TakenAsMounted(c)')
        /\ c \notin mounted' => About(Going', U') \/ TakenAsUnmounted(c)'
    <3>1. CASE ~ Known(p)
      <4>1. Has(Coming, JobAddition(p, op, b))
        BY <1>12, <3>1 DEF JobIs
      <4>2. b \in overtaken'
        <5>1. PICK i \in 1 .. Len(Coming) : Coming[i] = JobAddition(p, op, b)
          BY <4>1 DEF Has
        <5>2. Coming[i] \in Range(Coming)
          <6>1. Coming \in Seq(Signals("additions"))
            BY <1>1, Queues
          <6> QED
            BY <6>1 DEF Range
        <5>3. JobAddition(p, op, b) \in Undelivered(p)
          BY <5>1, <5>2, JobAdditionsDiffer DEF Undelivered, Coming
        <5>4. b \in Range(JobAddition(p, op, b).props.objects)
          BY DEF JobAddition, Added, Range
        <5> QED
          BY <1>7, <5>3, <5>4
      <4>3. c # b
        BY <1>19, <4>2
      <4>4. /\ TakenAsMounted(c)' <=> TakenAsMounted(c)
            /\ TakenAsUnmounted(c)' <=> TakenAsUnmounted(c)
        BY <1>1, <1>16, <2>5, <3>1 DEF TakenAsMounted, TakenAsUnmounted
      <4> QED
        BY <1>1, <2>1, <2>2, <2>3, <2>4, <4>3, <4>4
    <3>2. CASE Known(p) /\ c = b /\ op = MountFs
      <4>1. TakenAsMounted(c)' /\ (TakenAsUnmounted(c) => TakenAsUnmounted(c)')
        BY <1>1, <1>16, <2>5, <3>2 DEF TakenAsMounted, TakenAsUnmounted
      <4>2. About(Going', U) <=> About(Going, U)
        BY <2>3, <2>4, <3>2 DEF MountFs, UnmountFs
      <4> QED
        BY <1>1, <2>1, <2>2, <2>4, <4>1, <4>2
    <3>3. CASE Known(p) /\ c = b /\ op = UnmountFs
      <4>1. TakenAsUnmounted(c)'
        BY <1>16, <3>3 DEF TakenAsUnmounted
      <4>2. p \in U /\ p \notin M
        BY <2>3, <3>3 DEF MountFs, UnmountFs
      <4> QED
        BY <1>1, <2>1, <2>2, <2>4, <4>1, <4>2
    <3>4. CASE Known(p) /\ (c # b \/ op \notin {MountFs, UnmountFs})
      <4>1. /\ TakenAsMounted(c)' <=> TakenAsMounted(c)
            /\ TakenAsUnmounted(c)' <=> TakenAsUnmounted(c)
        BY <1>1, <1>16, <2>5, <3>4 DEF TakenAsMounted, TakenAsUnmounted
      <4> QED
        BY <1>1, <2>1, <2>2, <2>3, <2>4, <3>4, <4>1
    <3> QED
      BY <3>1, <3>2, <3>3, <3>4
  <2> QED
    BY <2>6 DEF MatchOf, M, U
<1> QED
  BY <1>17, <1>18, <1>19 DEF MatchBut, JobsInv

(* The loop takes a report; the job manager forgets a job that is completed. *)
LEMMA PassReportMatch ==
  ASSUME TypedInv, NEW X, MatchBut(X), PassReport, UNCHANGED serviceVars
  PROVE  MatchBut(X)'
<1>1. PICK j \in Jobs : report = <<j>>
  BY DEF PassReport, TypedInv, JobsTyped
<1>2. /\ report' = <<>>
      /\ onGoingJobs' = IF j.wasCompleted THEN Delete(onGoingJobs, j.path) ELSE onGoingJobs
      /\ ReadReport(j)
  BY <1>1 DEF PassReport, Forward
<1>3. /\ UNCHANGED <<mounted, running, usedJobs, overtaken, mountpoints>>
      /\ Coming' = Coming /\ Going' = Going
  BY <1>2 DEF PassReport, ReadReport, serviceVars, dispatcherVars, Coming, Going
<1>4. \A q, o, c : ~ Completing(q)' /\ ~ Reporting(o, c)'
  BY <1>2 DEF Completing, Reporting
<1>5. \A x, c : ~ LoopAt(x, c) \/ x = "select"
  BY <1>2 DEF ReadReport, Selecting, LoopAt
<1>6. BusyInv'
  BY <1>3 DEF MatchBut, JobsInv, BusyInv
<1>7. ASSUME NEW q \in JobPaths, Known(q)' <=> Known(q),
             Known(q) => onGoingJobs'[q] = onGoingJobs[q]
      PROVE  JobInv(q)' /\ \A o, c : JobIs(q, o, c)' <=> JobIs(q, o, c)
  <2>1. \A o, c : JobIs(q, o, c)' <=> JobIs(q, o, c)
    BY <1>3, <1>7 DEF JobIs
  <2>2. /\ Unended(q)' <=> Unended(q)
        /\ JobInv(q)
    BY <1>3 DEF Unended, MatchBut, JobsInv
  <2>3. JobInv(q)'
    BY <1>3, <1>4, <1>7, <2>1, <2>2 DEF JobInv
  <2> QED
    BY <2>1, <2>3
<1>8. CASE ~ j.wasCompleted
  <2>1. \A q \in JobPaths : JobInv(q)' /\ \A o, c : JobIs(q, o, c)' <=> JobIs(q, o, c)
    BY <1>2, <1>7, <1>8 DEF Known
  <2>2. JobsAreSame
    BY <2>1 DEF JobsAreSame
  <2>3. \A o, c : ~ Reporting(o, c)
    BY <1>1, <1>8 DEF Reporting
  <2>4. at'["loop"] = Rest("loop")
    BY <1>2, <1>8, IsGoroutine DEF ReadReport, Continue, TypedInv, WatcherInv, WatcherTyped
  <2>5. ASSUME NEW c \in Blocks \ (overtaken' \cup X) PROVE MatchOf(c)'
    <3>1. /\ ~ LoopAt("mountpointsForPath", c)' /\ ~ LoopAt("umountCompleted", c)'
          /\ ~ LoopAt("mountpointsForPath", c) /\ ~ LoopAt("umountCompleted", c)
      BY <1>5, <2>4 DEF LoopAt, Rest
    <3>2. /\ TakenAsMounted(c)' <=> TakenAsMounted(c)
          /\ TakenAsUnmounted(c)' <=> TakenAsUnmounted(c)
      BY <1>3, <1>4, <2>3, <3>1 DEF TakenAsMounted, TakenAsUnmounted
    <3> QED
      BY <1>3, <2>2, <2>5, <3>2, MatchTaken DEF MatchBut
  <2> QED
    BY <1>6, <2>1, <2>5 DEF MatchBut, JobsInv
<1>9. CASE j.wasCompleted
  <2> DEFINE p == j.path
             op == j.operation
  <2>1. p \in JobPaths /\ op \in JobOperations
    BY DEF Jobs
  <2>2. PICK b \in Blocks : j.paths = <<b>>
    BY DEF Jobs, OnePath
  <2>3. \A o, c : Reporting(o, c) <=> o = op /\ c = b
    <3>1. report # <<>> /\ report[1] = j
      BY <1>1
    <3>2. \A c : <<b>> = <<c>> <=> c = b
      OBVIOUS
    <3> QED
      BY <1>9, <2>2, <3>1, <3>2 DEF Reporting
  <2>4. Completing(p) /\ JobInv(p)
    BY <1>1, <1>9, <2>1 DEF Completing, MatchBut, JobsInv
  <2>5. Known(p) /\ ~ Unended(p) /\ ~ About(Coming, {p}) /\ p \in usedJobs
    BY <2>4 DEF JobInv
  <2>6. /\ ~ Known(p)'
        /\ \A q \in JobPaths \ {p} : /\ Known(q)' <=> Known(q)
                                     /\ Known(q) => onGoingJobs'[q] = onGoingJobs[q]
    BY <1>2, <1>9 DEF Known, Delete
  <2>7. \A q \in JobPaths \ {p} : JobInv(q)' /\ \A o, c : JobIs(q, o, c)' <=> JobIs(q, o, c)
    BY <1>7, <2>6
  <2>8. JobInv(p)'
    <3>1. ~ Unended(p)' /\ p \notin DOMAIN running'
      BY <1>3, <2>5 DEF Unended
    <3>2. AboutOnce(Coming', p) /\ AboutOnce(Going', p)
      BY <1>3, <2>4 DEF JobInv
    <3> QED
      BY <1>3, <1>4, <2>5, <2>6, <3>1, <3>2 DEF JobInv
  <2>9. at'["loop"] = IF op \in {UnmountFs, MountFs}
                      THEN [point |-> IF op = MountFs THEN "mountpointsForPath"
                                      ELSE "umountCompleted",
                            paths |-> <<b>>]
                      ELSE Rest("loop")
    <3>1. <<b>> # <<>>
      OBVIOUS
    <3> QED
      BY <1>2, <1>9, <2>2, <3>1, IsGoroutine
        DEF ReadReport, Continue, TypedInv, WatcherInv, WatcherTyped
  <2> HIDE DEF p, op
  <2>10. \A c : /\ LoopAt("mountpointsForPath", c)' <=> op = MountFs /\ c = b
                /\ LoopAt("umountCompleted", c)' <=> op = UnmountFs /\ c = b
    <3>1. \A c : <<b>> = <<c>> <=> c = b
      OBVIOUS
    <3> QED
      BY <2>9, <3>1 DEF LoopAt, Rest, MountFs, UnmountFs
  <2>11. ASSUME NEW c \in Blocks \ (overtaken' \cup X) PROVE MatchOf(c)'
    <3>1. MatchOf(c)
      BY <1>3, <2>11 DEF MatchBut
    <3>2. /\ TakenAsMounted(c)' <=> TakenAsMounted(c)
          /\ TakenAsUnmounted(c)' <=> TakenAsUnmounted(c)
      BY <1>3, <1>4, <1>5, <2>3, <2>10 DEF TakenAsMounted, TakenAsUnmounted, MountFs, UnmountFs
    <3>3. \A i \in 1 .. Len(Going) : Going[i].path # p
      BY <2>5 DEF Unended, About
    <3>4. \A i \in 1 .. Len(Going) :
            /\ Going[i].path \in MountPaths(c)' <=> Going[i].path \in MountPaths(c)
            /\ Going[i].path \in UnmountPaths(c)' <=> Going[i].path \in UnmountPaths(c)
      BY <2>7, <3>3 DEF MountPaths, UnmountPaths
    <3>5. /\ About(Going', UnmountPaths(c)') <=> About(Going, UnmountPaths(c))
          /\ LastAbout(Going', MountPaths(c)', UnmountPaths(c)')
               <=> LastAbout(Going, MountPaths(c), UnmountPaths(c))
      BY <1>3, <3>4 DEF About, LastAbout
    <3> QED
      BY <1>3, <3>1, <3>2, <3>5 DEF MatchOf
  <2> QED
    BY <1>6, <2>7, <2>8, <2>11 DEF MatchBut, JobsInv
<1> QED
  BY <1>8, <1>9

(* The answer that the loop expects: where block device h is mounted, if it is.
   That decides, whatever was mounted when the job was done. *)
Truth(h) == IF h \in mounted THEN MountpointOf[h] ELSE None

(* The loop learns it, or learns nothing of one of X. *)
LEMMA MountFinishedMatch ==
  ASSUME TypedInv, NEW X, MatchBut(X), NEW answer, MountFinished(answer),
         \/ answer = Truth(Head(at["loop"].paths))
         \/ answer = None /\ Head(at["loop"].paths) \in X,
         UNCHANGED <<dispatcherVars, jobManagerVars, clientHistory, serviceVars>>
  PROVE  MatchBut(X)'
<1> DEFINE h == Head(at["loop"].paths)
<1>1. /\ at["loop"].point = "mountpointsForPath" /\ MountFinished(answer)
      /\ UNCHANGED <<dispatcherVars, jobManagerVars, clientHistory, serviceVars>>
  BY DEF MountFinished
<1>2. PICK b \in Blocks : at["loop"].paths = <<b>> /\ h = b
  BY <1>1, NextPathRests DEF MountFinished, TypedInv
<1>3. /\ Coming' = Coming /\ Going' = Going
      /\ UNCHANGED <<mounted, running, usedJobs, overtaken, report>>
  BY <1>1 DEF dispatcherVars, jobManagerVars, clientHistory, serviceVars, Coming, Going
<1>4. JobsInv' /\ JobsAreSame
  BY <1>1, <1>3, NoSignal, JobsKept DEF MatchBut
<1>5. at'["loop"] = Rest("loop")
  BY <1>1, NextPathRests, IsGoroutine
    DEF MountFinished, Continue, TypedInv, WatcherInv, WatcherTyped
<1>6. IF b \in mounted /\ b \notin X THEN DOMAIN mountpoints' = DOMAIN mountpoints \cup {b}
      ELSE /\ DOMAIN mountpoints \subseteq DOMAIN mountpoints'
           /\ b \notin X => mountpoints' = mountpoints
           /\ DOMAIN mountpoints' \subseteq DOMAIN mountpoints \cup {b}
  BY <1>1, <1>2, MountpointOfAssumption DEF MountFinished, Put, Truth
<1>7. \A c : /\ LoopAt("mountpointsForPath", c) <=> c = b
             /\ ~ LoopAt("umountCompleted", c)
             /\ ~ LoopAt("mountpointsForPath", c)' /\ ~ LoopAt("umountCompleted", c)'
  <2>1. \A c : <<b>> = <<c>> <=> c = b
    OBVIOUS
  <2> QED
    BY <1>1, <1>2, <1>5, <2>1 DEF LoopAt, Rest
<1>8. \A o, c : Reporting(o, c)' <=> Reporting(o, c)
  BY <1>3 DEF Reporting
<1>9. ASSUME NEW c \in Blocks \ (overtaken' \cup X) PROVE MatchOf(c)'
  <2>1. MatchOf(c)
    BY <1>3, <1>9 DEF MatchBut
  <2>2. c \in mounted /\ TakenAsMounted(c) => TakenAsMounted(c)'
    BY <1>6, <1>7, <1>8 DEF TakenAsMounted
  <2>3. c \notin mounted /\ TakenAsUnmounted(c) => TakenAsUnmounted(c)'
    BY <1>6, <1>7, <1>8 DEF TakenAsUnmounted
  <2> QED
    BY <1>3, <1>4, <2>1, <2>2, <2>3, MatchTaken
<1> QED
  BY <1>4, <1>9 DEF MatchBut

(* The loop has announced the unmount: the map loses b. *)
LEMMA UmountCompletedMatch ==
  ASSUME TypedInv, NEW X, MatchBut(X), ListenUmountCompleted
  PROVE  MatchBut(X)'
<1>1. /\ at["loop"].point = "umountCompleted"
      /\ SendUmountCompleted(Head(at["loop"].paths))
      /\ UNCHANGED <<dispatcherVars, jobManagerVars, clientHistory, serviceVars>>
  BY DEF ListenUmountCompleted, Quietly
<1>2. PICK b \in Blocks : at["loop"].paths = <<b>> /\ Head(at["loop"].paths) = b
  BY <1>1, NextPathRests DEF SendUmountCompleted, TypedInv
<1>3. /\ Coming' = Coming /\ Going' = Going
      /\ UNCHANGED <<mounted, running, usedJobs, overtaken, report>>
  BY <1>1 DEF dispatcherVars, jobManagerVars, clientHistory, serviceVars, Coming, Going
<1>4. JobsInv' /\ JobsAreSame
  BY <1>1, <1>3, NoSignal, JobsKept DEF MatchBut
<1>5. at'["loop"] = Rest("loop")
  BY <1>1, NextPathRests, IsGoroutine
    DEF SendUmountCompleted, Continue, TypedInv, WatcherInv, WatcherTyped
<1>6. DOMAIN mountpoints' = DOMAIN mountpoints \ {b}
  BY <1>1, <1>2 DEF SendUmountCompleted, Delete
<1>7. \A c : /\ LoopAt("umountCompleted", c) <=> c = b
             /\ ~ LoopAt("mountpointsForPath", c)
             /\ ~ LoopAt("mountpointsForPath", c)' /\ ~ LoopAt("umountCompleted", c)'
  <2>1. \A c : <<b>> = <<c>> <=> c = b
    OBVIOUS
  <2> QED
    BY <1>1, <1>2, <1>5, <2>1 DEF LoopAt, Rest
<1>8. \A o, c : Reporting(o, c)' <=> Reporting(o, c)
  BY <1>3 DEF Reporting
<1>9. ASSUME NEW c \in Blocks \ (overtaken' \cup X) PROVE MatchOf(c)'
  <2>1. MatchOf(c)
    BY <1>3, <1>9 DEF MatchBut
  <2>2. TakenAsMounted(c) => TakenAsMounted(c)'
    BY <1>6, <1>7, <1>8 DEF TakenAsMounted
  <2>3. TakenAsUnmounted(c) => TakenAsUnmounted(c)'
    BY <1>6, <1>7, <1>8 DEF TakenAsUnmounted
  <2> QED
    BY <1>3, <1>4, <2>1, <2>2, <2>3, MatchTaken
<1> QED
  BY <1>4, <1>9 DEF MatchBut

-----------------------------------------------------------------------------
(* The steps of the daemon *)

LEMMA ServiceStepMatch ==
  ASSUME TypedInv, NEW X, MatchBut(X), ServiceStep
  PROVE  MatchBut(X)'
<1>1. UNCHANGED <<jobManagerVars, mountpoints, at, overtaken>>
  BY DEF ServiceStep, Rests, watcherVars, clientHistory
<1>2. ServiceTyped /\ DispatcherTyped
  BY DEF TypedInv
<1>3. ASSUME NEW d \in Drives, InsertDrive(d) PROVE MatchBut(X)'
  BY <1>1, <1>2, <1>3, AnnouncedDevices, DeviceComes DEF InsertDrive, Insert
<1>4. ASSUME NEW d \in Drives, RemoveDrive(d) PROVE MatchBut(X)'
  <2> DEFINE e == Removed(d, {DriveIface})
  <2>1. e \in DeviceRemovals /\ e.path = d
    BY <1>2, AnnouncedDevices DEF Removed
  <2>2. d \notin mounted
    BY <1>2, PathsAssumption DEF ServiceTyped
  <2>3. /\ Signal("removals", e)
        /\ UNCHANGED <<mounted, running, usedJobs>>
    BY <1>4 DEF RemoveDrive
  <2> HIDE DEF e
  <2> QED
    BY <1>1, <1>2, <2>1, <2>2, <2>3, DeviceGoes
<1>5. ASSUME NEW b \in Blocks, InsertBlock(b) PROVE MatchBut(X)'
  BY <1>1, <1>2, <1>5, AnnouncedDevices, DeviceComes DEF InsertBlock, Insert
<1>6. ASSUME NEW b \in Blocks, RemoveBlock(b) PROVE MatchBut(X)'
  <2> DEFINE e == Removed(b, BlockIfaces(b))
  <2>1. e \in DeviceRemovals /\ e.path = b
    BY <1>2, AnnouncedDevices DEF Removed
  <2>2. /\ Signal("removals", e) /\ mounted' = mounted \ {b}
        /\ UNCHANGED <<running, usedJobs>>
    BY <1>6 DEF RemoveBlock
  <2> HIDE DEF e
  <2> QED
    BY <1>1, <1>2, <2>1, <2>2, DeviceGoes
<1>7. ASSUME NEW b \in Blocks, StartUnmount(b) PROVE MatchBut(X)'
  BY <1>1, <1>2, <1>7, JobStarts DEF StartUnmount, AcceptUnmount, JobOperations, UnmountFs, Mkfs
<1>8. ASSUME NEW b \in Blocks, StartFormat(b) PROVE MatchBut(X)'
  BY <1>1, <1>2, <1>8, JobStarts DEF StartFormat, AcceptFormat, JobOperations
<1> QED
  BY <1>3, <1>4, <1>5, <1>6, <1>7, <1>8 DEF ServiceStep

(* A step of a job keeps the match. *)
LEMMA JobStepMatch ==
  ASSUME TypedInv, NEW X, MatchBut(X), JobStep
  PROVE  MatchBut(X)'
<1>1. UNCHANGED <<jobManagerVars, mountpoints, at, overtaken>>
  BY DEF JobStep, ServiceFinishesJob, Rests, watcherVars, clientHistory
<1>2. ServiceTyped /\ DispatcherTyped
  BY DEF TypedInv
<1>3. ASSUME NEW p \in JobPaths, Wipe(p) PROVE MatchBut(X)'
  <2> DEFINE e == Removed(running[p].block, {FilesystemIface})
  <2>1. running[p].block \in Blocks /\ running[p].block \notin mounted
    BY <1>2, <1>3 DEF Wipe, JobOn, ServiceTyped, MatchBut, JobsInv, BusyInv
  <2>2. e \in DeviceRemovals /\ e.path = running[p].block
    BY <1>2, <2>1, AnnouncedDevices DEF Removed
  <2>3. Signal("removals", e) /\ UNCHANGED <<mounted, running, usedJobs>>
    BY <1>3 DEF Wipe
  <2>4. PICK f \in DeviceRemovals : f = e
    BY <2>2
  <2> HIDE DEF e
  <2>5. Signal("removals", f) /\ mounted' = mounted \ {f.path}
    BY <2>1, <2>2, <2>3, <2>4
  <2> QED
    BY <1>1, <1>2, <2>3, <2>5, DeviceGoes
<1>4. ASSUME NEW p \in JobPaths, ServiceFinishesJob(p) PROVE MatchBut(X)'
  BY <1>1, <1>2, <1>4, JobEnds DEF ServiceFinishesJob
<1>5. ASSUME NEW b \in Blocks, AnnounceFilesystem(b) PROVE MatchBut(X)'
  BY <1>1, <1>2, <1>5, AnnouncedDevices, DeviceComes DEF AnnounceFilesystem
<1> QED
  BY <1>3, <1>4, <1>5 DEF JobStep

LEMMA SameQueues ==
  ASSUME UNCHANGED dispatcherVars
  PROVE  Coming' = Coming /\ Going' = Going
  BY DEF dispatcherVars, Coming, Going

(* The steps of goroutines that have nothing to do with mounts. *)
LEMMA WatcherAside ==
  ASSUME TypedInv, NEW X, MatchBut(X), UNCHANGED <<serviceVars, dispatcherVars, jobManagerVars>>,
         overtaken \subseteq overtaken',
         \/ \E g \in Goroutines :
              \/ WatcherStep(g)
              \/ \E channel : SendBlock(g, channel, at[g].event)
              \/ SendFormatCompleted(g, at[g].event)
         \/ \E answer : ListExisting(answer)
         \/ SendMountRemoved(at["loop"].mountpoint)
         \/ \E e : SendMountCompleted(e)
  PROVE  MatchBut(X)'
<1>1. /\ Coming' = Coming /\ Going' = Going
      /\ UNCHANGED <<running, usedJobs, jobManagerVars, mounted>>
  BY SameQueues DEF serviceVars
<1>2. at \in [Goroutines -> Where] /\ "loop" \in Goroutines /\ "init" \in Goroutines
  BY IsGoroutine DEF TypedInv, WatcherInv, WatcherTyped
<1>3. ASSUME NEW g \in Goroutines, NEW x, Continue(g, x),
             at[g].point \notin {"mountpointsForPath", "umountCompleted"},
             x.point \notin {"mountpointsForPath", "umountCompleted"}
      PROVE  UNCHANGED at["loop"] \/ LoopElsewhere
  BY <1>2, <1>3 DEF Continue, LoopElsewhere
<1>4. ASSUME NEW g \in Goroutines, NEW s, NEW channel, Offer(g, s, channel),
             channel \in Channels,
             at[g].point \notin {"mountpointsForPath", "umountCompleted"}
      PROVE  UNCHANGED at["loop"] \/ LoopElsewhere
  BY <1>3, <1>4, RestFacts DEF Offer, Channels
<1>5. ASSUME NEW g \in Goroutines, NEW s, AddDevice(g, s),
             at[g].point \notin {"mountpointsForPath", "umountCompleted"}
      PROVE  UNCHANGED at["loop"] \/ LoopElsewhere
  <2>1. \A dm : MountableOn(s, dm) \subseteq Channels
    BY DEF MountableOn, Channels
  <2>2. \E channel \in Channels : Offer(g, s, channel)
    BY <1>5, <2>1 DEF AddDevice, Channels
  <2> QED
    BY <1>4, <1>5, <2>2
<1>6. ASSUME NEW g \in Goroutines, EnterAdd(g)
      PROVE  UNCHANGED mountpoints /\ (UNCHANGED at["loop"] \/ LoopElsewhere)
  <2>1. CASE AddDevice(g, at[g].event)
    BY <1>5, <1>6, <2>1 DEF EnterAdd
  <2>2. CASE Continue(g, [point |-> "formatCompleted", event |-> at[g].event])
    BY <1>3, <1>6, <2>2 DEF EnterAdd
  <2> QED
    BY <1>6, <2>1, <2>2 DEF EnterAdd
<1>7. ASSUME RemoveDevice
      PROVE  UNCHANGED mountpoints /\ (UNCHANGED at["loop"] \/ LoopElsewhere)
  BY <1>2, <1>3, <1>7, RestFacts DEF RemoveDevice
<1>8. ASSUME AddExisting
      PROVE  UNCHANGED mountpoints /\ (UNCHANGED at["loop"] \/ LoopElsewhere)
  BY <1>2, <1>3, <1>8 DEF AddExisting
<1>9. ASSUME NEW g \in Goroutines, NEW channel, SendBlock(g, channel, at[g].event)
      PROVE  UNCHANGED mountpoints /\ (UNCHANGED at["loop"] \/ LoopElsewhere)
  BY <1>4, <1>9 DEF SendBlock, Channels
<1>10. ASSUME NEW g \in Goroutines, SendFormatCompleted(g, at[g].event)
       PROVE  UNCHANGED mountpoints /\ (UNCHANGED at["loop"] \/ LoopElsewhere)
  BY <1>5, <1>10 DEF SendFormatCompleted
<1>11. ASSUME NEW answer, ListExisting(answer)
       PROVE  UNCHANGED mountpoints /\ (UNCHANGED at["loop"] \/ LoopElsewhere)
  BY <1>2, <1>3, <1>11, RestFacts DEF ListExisting
<1>12. ASSUME SendMountRemoved(at["loop"].mountpoint)
       PROVE  UNCHANGED mountpoints /\ (UNCHANGED at["loop"] \/ LoopElsewhere)
  BY <1>2, <1>3, <1>12 DEF SendMountRemoved
<1>13. ASSUME NEW e, SendMountCompleted(e)
       PROVE  UNCHANGED mountpoints /\ (UNCHANGED at["loop"] \/ LoopElsewhere)
  BY <1>13 DEF SendMountCompleted
<1>14. UNCHANGED mountpoints /\ (UNCHANGED at["loop"] \/ LoopElsewhere)
  BY <1>6, <1>7, <1>8, <1>9, <1>10, <1>11, <1>12, <1>13 DEF WatcherStep
<1> QED
  BY <1>1, <1>14, Aside

(* A step inside the udisks2 package keeps the match. *)
LEMMA DeliverMatch ==
  ASSUME AllDecodable, TypedInv, NEW X, MatchBut(X), Deliver
  PROVE  MatchBut(X)'
<1>1. ClientStep /\ UNCHANGED serviceVars
  BY DEF Deliver, ClientStep
<1>2. ASSUME NEW w \in Watches, Fetch(w) PROVE MatchBut(X)'
  <2>1. Coming' = Coming /\ Going' = Going
    BY <1>2, FetchMoves DEF Fetch, TypedInv
  <2> QED
    BY <1>1, <1>2, <2>1, Aside DEF Fetch, watcherVars, clientHistory, serviceVars
<1>3. ASSUME NEW w \in Watches, DispatchJob(w) PROVE MatchBut(X)'
  BY <1>1, <1>3, ReadStartMatch, ReadEndMatch DEF Watches
<1>4. ASSUME NEW w \in Watches, DispatchDevice(w) PROVE MatchBut(X)'
  BY <1>1, <1>4, DispatchDeviceMatch
<1>5. ASSUME NEW g \in Goroutines, Watch(g) PROVE MatchBut(X)'
  BY <1>1, <1>5, WatcherAside DEF Watch
<1>6. CASE AnswerManagedObjects
  BY <1>1, <1>6, WatcherAside DEF AnswerManagedObjects, clientHistory
<1>7. CASE AnswerMountpoints
  BY <1>1, <1>7, MountFinishedMatch DEF AnswerMountpoints, Truth
<1> QED
  BY <1>1, <1>2, <1>3, <1>4, <1>5, <1>6, <1>7, PassReportMatch DEF ClientStep

(* A step of a goroutine of main.go keeps the match. *)
LEMMA ListenMatch ==
  ASSUME TypedInv, NEW X, MatchBut(X), NEW l \in Listeners, Listen(l)
  PROVE  MatchBut(X)'
<1>1. ASSUME Quietly
      PROVE  /\ UNCHANGED <<serviceVars, dispatcherVars, jobManagerVars>>
             /\ overtaken \subseteq overtaken'
  BY <1>1 DEF Quietly, clientHistory
<1>2. ASSUME NEW g \in Goroutines, ListenBlockAdded(g) \/ ListenBlockError(g) PROVE MatchBut(X)'
  BY <1>1, <1>2, WatcherAside DEF ListenBlockAdded, ListenBlockError
<1>3. CASE ListenMountRemoved
  BY <1>1, <1>3, WatcherAside DEF ListenMountRemoved
<1>4. ASSUME NEW e, ListenMountCompleted(e) PROVE MatchBut(X)'
  BY <1>1, <1>4, WatcherAside DEF ListenMountCompleted
<1>5. ASSUME NEW g \in Goroutines, ListenFormatCompleted(g) PROVE MatchBut(X)'
  BY <1>1, <1>5, WatcherAside DEF ListenFormatCompleted
<1>6. ASSUME UNCHANGED <<serviceVars, clientVars>> PROVE MatchBut(X)'
  <2>1. Coming' = Coming /\ Going' = Going
    BY <1>6, SameQueues DEF clientVars, packageVars
  <2> QED
    BY <1>6, <2>1, Aside DEF clientVars, packageVars, watcherVars, clientHistory, serviceVars
<1>7. ASSUME NEW c, ReadMountError(c) PROVE MatchBut(X)'
  BY <1>6, <1>7 DEF ReadMountError
<1>8. CASE Notified(l)
  BY <1>6, <1>8 DEF Notified
<1> QED
  BY <1>2, <1>3, <1>4, <1>5, <1>7, <1>8, UmountCompletedMatch DEF Listen

(* So does the check of the free space, and a step of nobody. *)
LEMMA AsideMatch ==
  ASSUME NEW X, MatchBut(X), \/ CheckFreeSpace \/ UNCHANGED vars
                   \/ \E c : MountRefused(c) \/ ArgsOfNoReply(c)
  PROVE  MatchBut(X)'
<1>1. UNCHANGED <<serviceVars, watch, held, jobManagerVars, mountpoints, at, overtaken>>
  BY DEF CheckFreeSpace, vars, MountRefused, ArgsOfNoReply, Rests, clientVars, packageVars,
         watcherVars, clientHistory, dispatcherVars
<1>2. Coming' = Coming /\ Going' = Going
  BY <1>1 DEF Coming, Going
<1> QED
  BY <1>1, <1>2, Aside DEF serviceVars

(* A step of a call to UDisks2 keeps the match. *)
LEMMA CallStepMatch ==
  ASSUME TypedInv, NEW X, MatchBut(X), CallStep, ~ crashed'
  PROVE  MatchBut(X)'
<1>1. PICK c \in BagToSet(calls) :
        MountAccepted(c) \/ MountRefused(c) \/ ArgsOfNoReply(c) \/ Crash(c)
  BY DEF CallStep
<1>2. c.path \in Blocks
  BY DEF TypedInv, DaemonTyped, Call
<1>3. ~ Crash(c)
  BY DEF Crash, Restart
<1>4. CASE MountAccepted(c)
  <2>1. StartJob(MountFs, c.path) /\ UNCHANGED <<jobManagerVars, mountpoints, at, overtaken>>
    BY <1>4 DEF MountAccepted, StartMount, Rests, watcherVars, clientHistory
  <2> QED
    BY <1>2, <2>1, JobStarts DEF TypedInv, JobOperations, MountFs, Mkfs
<1> QED
  BY <1>1, <1>3, <1>4, AsideMatch

(* A block device that is not mounted any more has been pulled out or
   unmounted, and the signal that says so is on its way. *)
LEMMA UnmountedIsTold ==
  ASSUME TypedInv, JobsInv, Step, ~ crashed', NEW b \in mounted, b \notin mounted'
  PROVE  MatchOf(b)'
<1>1. DispatcherTyped /\ ServiceTyped /\ b \in Blocks
  BY DEF TypedInv, ServiceTyped
<1>2. Going \in Seq(Signals("removals"))
  BY <1>1, Queues
<1>3. ASSUME NEW e \in Signals("removals"), Signal("removals", e), e.path \in UnmountPaths(b)'
      PROVE  MatchOf(b)'
  <2>1. Going' = Append(Going, e)
    BY <1>1, <1>3, ServiceSignals, SignalMoves
  <2> DEFINE U == UnmountPaths(b)'
  <2>2. e.path \in U
    BY <1>3
  <2> HIDE DEF U
  <2>3. About(Going', U)
    BY <1>2, <2>1, <2>2, AboutAppended
  <2> QED
    BY <2>3 DEF MatchOf, U
<1>4. UNCHANGED mounted \/ RemoveBlock(b) \/ \E p \in JobPaths : ServiceFinishesJob(p)
  <2>1. CASE ServiceStep
    BY <2>1 DEF ServiceStep, InsertDrive, InsertBlock, Insert, RemoveDrive, RemoveBlock,
                StartUnmount, AcceptUnmount, StartFormat, AcceptFormat, StartJob
  <2>2. CASE JobStep
    BY <2>2 DEF JobStep, Wipe, AnnounceFilesystem
  <2>3. CASE CallStep \/ RacingMapAccess \/ NoManagedObjects
    BY <2>3 DEF CallStep, MountAccepted, MountRefused, ArgsOfNoReply, Crash, RacingMapAccess,
                NoManagedObjects, Restart, StartMount, StartJob, serviceVars
  <2>4. CASE Deliver \/ CheckFreeSpace
    BY <2>4 DEF Deliver, ClientStep, CheckFreeSpace, serviceVars
  <2>5. ASSUME NEW l \in Listeners, Listen(l) PROVE UNCHANGED mounted
    BY <2>5 DEF Listen, ListenBlockAdded, ListenBlockError, ListenMountRemoved,
                ListenMountCompleted, ListenUmountCompleted, ReadMountError,
                ListenFormatCompleted, Notified, Quietly, serviceVars
  <2> QED
    BY <2>1, <2>2, <2>3, <2>4, <2>5 DEF Step
<1>5. CASE RemoveBlock(b)
  <2> DEFINE e == Removed(b, BlockIfaces(b))
  <2>1. e \in DeviceRemovals /\ e.path = b /\ Signal("removals", e)
    BY <1>1, <1>5, AnnouncedDevices DEF RemoveBlock, Removed
  <2>2. e.path \in UnmountPaths(b)'
    BY <2>1 DEF UnmountPaths
  <2> HIDE DEF e
  <2> QED
    BY <1>3, <2>1, <2>2, ServiceSignals
<1>6. ASSUME NEW p \in JobPaths, ServiceFinishesJob(p) PROVE MatchOf(b)'
  <2> DEFINE e == Removed(p, {JobIface})
  <2>1. /\ FinishJob(p) /\ p \in DOMAIN running
        /\ running[p].op = UnmountFs /\ running[p].block = b
    BY <1>6 DEF ServiceFinishesJob, FinishJob
  <2>2. e \in Signals("removals") /\ e.path = p /\ Signal("removals", e)
    BY <2>1, ServiceSignals DEF Removed, JobRemovals, FinishJob
  <2> HIDE DEF e
  <2>3. JobIs(p, UnmountFs, b)
    BY <2>1 DEF JobsInv, JobInv
  <2>4. Coming' = Coming /\ UNCHANGED jobManagerVars
    BY <1>1, <1>6, <2>2, ServiceSignals, SignalMoves DEF ServiceFinishesJob, Rests
  <2>5. JobIs(p, UnmountFs, b)'
    BY <2>3, <2>4 DEF JobIs, Known, jobManagerVars
  <2>6. p \in UnmountPaths(b)'
    BY <2>5 DEF UnmountPaths
  <2> QED
    BY <1>3, <2>2, <2>6
<1> QED
  BY <1>4, <1>5, <1>6

(* Nothing is believed mounted at the start, and what is mounted is unseen. *)
LEMMA InitMatch ==
  ASSUME Init
  PROVE  unseen \subseteq mounted /\ MatchBut(unseen)
<1>1. /\ Coming = <<>> /\ Going = <<>> /\ report = <<>>
      /\ DOMAIN running = {} /\ DOMAIN onGoingJobs = {} /\ DOMAIN mountpoints = {}
      /\ unseen = mounted
  BY DEF Init, ClientInit, DispatcherInit, JobManagerInit, WatcherInit, ServiceInit,
         EmptyMap, Coming, Going, Watches
<1>2. \A p \in JobPaths : JobInv(p)
  BY <1>1, AboutNothing DEF JobInv, Unended, Completing, Known
<1>3. \A b \in Blocks \ unseen : MatchOf(b)
  BY <1>1 DEF MatchOf, TakenAsUnmounted
<1> QED
  BY <1>1, <1>2, <1>3 DEF MatchBut, JobsInv, BusyInv

(* Once restarted, always restarted. *)
LEMMA NotYetCrashed ==
  ASSUME [Next]_vars, ~ crashed'
  PROVE  ~ crashed
  BY DEF Next, Step, Unanswered, ServiceStep, JobStep, ServiceFinishesJob, CallStep,
         MountAccepted, MountRefused, ArgsOfNoReply, Crash, Restart, RacingMapAccess,
         NoManagedObjects, Deliver, Listen,
         ListenBlockAdded, ListenBlockError, ListenMountRemoved, ListenMountCompleted,
         ListenUmountCompleted, ReadMountError, ListenFormatCompleted, Notified,
         Quietly, CheckFreeSpace, Rests, bounds, vars

(* The steps of the daemon keep the match for all but a given set. *)
LEMMA StepMatch ==
  ASSUME AllDecodable, TypedInv, NEW X, MatchBut(X), Step, ~ crashed'
  PROVE  MatchBut(X)'
<1>1. ~ RacingMapAccess /\ ~ NoManagedObjects
  BY DEF RacingMapAccess, NoManagedObjects, Restart
<1> QED
  BY <1>1, ServiceStepMatch, JobStepMatch, CallStepMatch, DeliverMatch, ListenMatch, AsideMatch
    DEF Step

(* A query that fails adds to that set what it should have told. *)
LEMMA UnansweredMatch ==
  ASSUME TypedInv, unseen \subseteq mounted, MatchBut(unseen), Unanswered
  PROVE  unseen' \subseteq mounted' /\ MatchBut(unseen)'
<1>1. UNCHANGED serviceVars /\ UNCHANGED mounted
  BY DEF Unanswered, serviceVars
<1>2. CASE RefuseManagedObjects /\ UNCHANGED unseen
  <2>1. PICK X : X = unseen
    OBVIOUS
  <2>2. MatchBut(X)'
    BY <1>1, <1>2, <2>1, WatcherAside DEF RefuseManagedObjects, clientHistory
  <2> QED
    BY <1>1, <1>2, <2>1, <2>2 DEF MatchBut
<1>3. CASE RefuseMountpoints /\ unseen' = unseen \cup ({Head(at["loop"].paths)} \cap mounted)
  <2> DEFINE h == Head(at["loop"].paths)
  <2>1. PICK X : X = unseen \cup ({h} \cap mounted)
    OBVIOUS
  <2>2. MatchBut(X)
    BY <2>1 DEF MatchBut
  <2>3. None = Truth(h) \/ h \in X
    BY <2>1 DEF Truth
  <2>4. /\ MountFinished(None)
        /\ UNCHANGED <<dispatcherVars, jobManagerVars, clientHistory, serviceVars>>
    BY <1>1, <1>3 DEF RefuseMountpoints
  <2>5. MatchBut(X)'
    BY <2>2, <2>3, <2>4, MountFinishedMatch
  <2>6. unseen' = X
    BY <1>3, <2>1
  <2> QED
    BY <1>1, <2>1, <2>5, <2>6 DEF MatchBut
<1> QED
  BY <1>2, <1>3 DEF Unanswered

(* What the storage watcher believes mounted is what UDisks2 has mounted once
   all that UDisks2 said has been handled (udisks2.go:281-347), whatever was
   mounted, unmounted, formatted, put in and pulled out meanwhile, if every
   signal can be decoded and the process has not been restarted.  It is not
   claimed of a block device with a job whose removal overtook its
   announcement, nor of one that is unseen: mounted since before the daemon
   first started (udisks2.go:569), or since a mount after which the query for
   its mount points failed (udisks2.go:261-274). *)
THEOREM MountpointsMatch ==
  ASSUME AllDecodable
  PROVE  Spec => []MountpointsMatchUDisks2
<1> DEFINE Inv == TypedInv /\ (~ crashed => unseen \subseteq mounted /\ MatchBut(unseen))
<1>1. Init => Inv
  BY InitTyped, InitMatch
<1>2. Inv /\ [Next]_vars => Inv'
  <2> SUFFICES ASSUME Inv, [Next]_vars, ~ crashed'
               PROVE  unseen' \subseteq mounted' /\ MatchBut(unseen)'
    BY NextTyped
  <2>1. TypedInv /\ unseen \subseteq mounted /\ MatchBut(unseen)
    BY NotYetCrashed
  <2>2. CASE Step /\ Remember
    <3>1. PICK X : X = unseen
      OBVIOUS
    <3>2. MatchBut(X)'
      BY <2>1, <2>2, <3>1, StepMatch
    <3>3. unseen' = X \cap mounted'
      BY <2>2, <3>1 DEF Remember
    <3>4. ASSUME NEW b \in X, b \notin mounted' PROVE MatchOf(b)'
      BY <2>1, <2>2, <3>1, <3>4, UnmountedIsTold DEF MatchBut
    <3> QED
      BY <3>2, <3>3, <3>4 DEF MatchBut
  <2>3. CASE UNCHANGED vars
    <3>1. PICK X : X = unseen
      OBVIOUS
    <3>2. MatchBut(X)' /\ UNCHANGED <<unseen, mounted>>
      BY <2>1, <2>3, <3>1, AsideMatch DEF vars, untold, serviceVars
    <3> QED
      BY <2>1, <3>1, <3>2 DEF MatchBut
  <2> QED
    BY <2>1, <2>2, <2>3, UnansweredMatch DEF Next
<1>3. Inv => MountpointsMatchUDisks2
  <2> SUFFICES ASSUME MatchBut(unseen), Quiet, NEW b \in Blocks \ (overtaken \cup unseen)
               PROVE  b \in DOMAIN mountpoints <=> b \in mounted
    BY DEF MountpointsMatchUDisks2
  <2>1. Going = <<>> /\ report = <<>> /\ at["loop"].point = "select"
    <3>1. held["removals"] = <<>> /\ watch["removals"] = <<>>
      BY DEF Quiet, ClientQuiet, Watches
    <3> QED
      BY <3>1, IsGoroutine DEF Quiet, ClientQuiet, Rest, Going
  <2>2. MatchOf(b)
    BY DEF MatchBut
  <2> QED
    BY <2>1, <2>2, AboutNothing
      DEF MatchOf, TakenAsMounted, TakenAsUnmounted, Reporting, LoopAt
<1> QED
  BY <1>1, <1>2, <1>3, PTL DEF Spec

-----------------------------------------------------------------------------
(* Cards, from UDisks2 to its Mount method.  First what UDisks2 keeps by
   itself: a job does what was asked for, and a new file system that is not
   announced yet is one that was asked for. *)

RequestsInv ==
  /\ mounted \subseteq present
  /\ DOMAIN running \subseteq usedJobs
  /\ \A p \in DOMAIN running :
       /\ running[p].op = UnmountFs => asked[running[p].block] = "unmount"
       /\ running[p].op = Mkfs => asked[running[p].block] = "format"
  /\ \A b \in unprobed : b \in present /\ asked[b] # "none" /\ fs[b] = "none"
  /\ asked = [b \in Blocks |-> asked[b]]

JobAt(b, operation) ==
  \E p \in DOMAIN running : running[p].op = operation /\ running[p].block = b

(* UDisks2 mounts b, is called to, or will be once a channel is read. *)
MountComes(b) ==
  \/ JobAt(b, MountFs)
  \/ ANewCall(b) \in BagToSet(calls)
  \/ \E g \in Goroutines :
       at[g].point \in {"blockAdded", "formatCompleted"} /\ at[g].event.path = b

(* The announcement of a card that can be mounted, or of a file system made
   on one that was there. *)
Announcement(b, whole) ==
  Added(b, [block |-> whole, drive |-> DriveOf[b], fs |-> "vfat", mounted |-> FALSE,
            system |-> IF whole THEN b \in SystemBlocks ELSE FALSE])

(* It is on its way to processAddEvent; the list of the objects that exist
   has whole block devices only. *)
Pending(b, whole) ==
  \/ Has(Coming, Announcement(b, whole))
  \/ whole = TRUE /\ Has(existing, Announcement(b, whole))
  \/ \E g \in Goroutines : at[g].point = "add" /\ at[g].event = Announcement(b, whole)

Waits(b, request) == Wanted(b) /\ asked[b] = request /\ b \notin mounted

(* Of a card that is not mounted there is always somebody to tell, or the
   objects that exist have yet to be asked for. *)
CardOf(b) ==
  Waits(b, "none") /\ b \notin DOMAIN drives =>
    \/ MountComes(b) \/ Pending(b, TRUE)
    \/ at["init"].point = "getManagedObjects"

(* A card that was formatted is being formatted, or somebody will tell of
   its file system. *)
FormatOf(b) ==
  Waits(b, "format") => MountComes(b) \/ JobAt(b, Mkfs) \/ Pending(b, FALSE)

(* Of the cards outside X: rigid, for a step to be looked at while the set of
   the exceptions stands still. *)
CardsBut(X) == RequestsInv /\ IsABag(calls) /\ \A b \in Blocks \ X : CardOf(b)

(* The file system of a card outside early finds the card in pendingMounts. *)
FormatsInv == formatted \subseteq pendingMounts /\ \A b \in Blocks \ early : FormatOf(b)

-----------------------------------------------------------------------------
(* What moves, and what does not *)

LEMMA AnnouncementFacts ==
  ASSUME NEW b \in Blocks, NEW whole
  PROVE  /\ Announcement(b, whole).path = b
         /\ Announcement(b, whole).path \notin JobPaths
         /\ Announcement(b, whole).props.block = whole
         /\ Announcement(b, whole).props.drive = DriveOf[b]
         /\ Announcement(b, whole).props.fs = "vfat"
         /\ isFilesystem(Announcement(b, whole).props)
         /\ ~ isMounted(Announcement(b, whole).props)
         /\ Announcement(b, whole)' = Announcement(b, whole)
  BY PathsAssumption DEF Announcement, Added, isFilesystem, isMounted

(* Whoever tells UDisks2 to mount a card stays where it is. *)
LEMMA MountStays ==
  ASSUME NEW b, JobAt(b, MountFs) => JobAt(b, MountFs)',
         ANewCall(b) \in BagToSet(calls) => ANewCall(b) \in BagToSet(calls'),
         NEW g \in Goroutines, \A h \in Goroutines \ {g} : at'[h] = at[h],
         \/ at[g].point \notin {"blockAdded", "formatCompleted"}
         \/ at[g].event.path # b
         \/ at'[g] = at[g]
  PROVE  MountComes(b) => MountComes(b)'
<1>1. ANewCall(b)' = ANewCall(b)
  BY DEF ANewCall
<1> QED
  BY <1>1 DEF MountComes

(* So does an announcement. *)
LEMMA AnnouncementStays ==
  ASSUME NEW b \in Blocks, NEW whole,
         \A x : Has(Coming, x) => Has(Coming', x),
         \A x : Has(existing, x) => Has(existing', x),
         NEW g \in Goroutines, \A h \in Goroutines \ {g} : at'[h] = at[h],
         at[g].point # "add" \/ at[g].event # Announcement(b, whole) \/ at'[g] = at[g]
  PROVE  Pending(b, whole) => Pending(b, whole)'
<1>1. Announcement(b, whole)' = Announcement(b, whole)
  BY AnnouncementFacts
<1> QED
  BY <1>1 DEF Pending

(* The cards while UDisks2 and the drives stay as they are. *)
LEMMA CardsKept ==
  ASSUME NEW b \in Blocks, UNCHANGED <<present, fs, asked, mounted, running>>,
         b \in DOMAIN drives => b \in DOMAIN drives',
         MountComes(b) => MountComes(b)',
         \A whole \in BOOLEAN : Pending(b, whole) => Pending(b, whole)' \/ MountComes(b)',
         at["init"].point = "getManagedObjects" => at'["init"].point = "getManagedObjects"
  PROVE  (CardOf(b) => CardOf(b)') /\ (FormatOf(b) => FormatOf(b)')
<1>1. \A request : Waits(b, request)' <=> Waits(b, request)
  BY DEF Waits, Wanted
<1>2. \A o : JobAt(b, o)' <=> JobAt(b, o)
  BY DEF JobAt
<1> QED
  BY <1>1, <1>2 DEF CardOf, FormatOf

(* The cards while the package and the daemon stay as they are, but for what
   UDisks2 announces. *)
LEMMA CardsOutside ==
  ASSUME NEW b \in Blocks, UNCHANGED <<at, existing, drives>>,
         \A x : Has(Coming, x) => Has(Coming', x),
         ANewCall(b) \in BagToSet(calls) => ANewCall(b) \in BagToSet(calls') \/ JobAt(b, MountFs)',
         \A request \in {"none", "format"} : Waits(b, request)' => Waits(b, request),
         \A o \in {MountFs, Mkfs} : JobAt(b, o) =>
           JobAt(b, o)' \/ \A request \in {"none", "format"} : ~ Waits(b, request)'
  PROVE  (CardOf(b) => CardOf(b)') /\ (FormatOf(b) => FormatOf(b)')
<1>1. \A whole : Pending(b, whole) => Pending(b, whole)'
  BY IsGoroutine, AnnouncementStays
<1>2. ANewCall(b)' = ANewCall(b)
  BY DEF ANewCall
<1>3. MountComes(b) => MountComes(b)' \/ \A request \in {"none", "format"} : ~ Waits(b, request)'
  BY <1>2 DEF MountComes
<1> QED
  BY <1>1, <1>3 DEF CardOf, FormatOf

(* A call more, a call less. *)
LEMMA CallMade ==
  ASSUME IsABag(calls), NEW b, Mount(b)
  PROVE  /\ IsABag(calls') /\ BagToSet(calls) \subseteq BagToSet(calls')
         /\ ANewCall(b) \in BagToSet(calls')
<1> DEFINE c == ANewCall(b)
<1>1. calls' = calls (+) SetToBag({c})
  BY DEF Mount
<1> HIDE DEF c
<1>2. BagToSet(calls') = BagToSet(calls) \cup {c} /\ IsABag(calls')
  BY <1>1, OneMore
<1> QED
  BY <1>2 DEF c

LEMMA CallAnswered ==
  ASSUME IsABag(calls), NEW c, (\E state : Move(c, state)) \/ End(c)
  PROVE  IsABag(calls') /\ \A x \in BagToSet(calls) : x # c => x \in BagToSet(calls')
<1>1. CASE End(c)
  BY <1>1, OneLess DEF End
<1>2. ASSUME NEW state, Move(c, state)
      PROVE  IsABag(calls') /\ \A x \in BagToSet(calls) : x # c => x \in BagToSet(calls')
  <2> DEFINE B == calls (-) SetToBag({c})
             d == [c EXCEPT !.state = state]
  <2>1. calls' = B (+) SetToBag({d})
    BY <1>2 DEF Move
  <2>2. IsABag(B) /\ \A x \in BagToSet(calls) : x # c => x \in BagToSet(B)
    BY OneLess
  <2> HIDE DEF B, d
  <2> QED
    BY <2>1, <2>2, OneMore
<1> QED
  BY <1>1, <1>2

(* A job starts: the block device has none, and its path is new. *)
LEMMA JobsGain ==
  ASSUME RequestsInv, NEW op, NEW b, StartJob(op, b)
  PROVE  /\ \A c, o : JobAt(c, o) => JobAt(c, o)'
         /\ JobAt(b, op)'
         /\ DOMAIN running' \subseteq usedJobs'
         /\ \A p \in DOMAIN running' :
              \/ running'[p] = [op |-> op, block |-> b]
              \/ p \in DOMAIN running /\ running'[p] = running[p] /\ running[p].block # b
<1>1. PICK p \in JobPaths \ usedJobs :
        /\ usedJobs' = usedJobs \cup {p}
        /\ running' = Put(running, p, [op |-> op, block |-> b])
  BY DEF StartJob
<1>2. /\ DOMAIN running' = DOMAIN running \cup {p}
      /\ running'[p] = [op |-> op, block |-> b]
      /\ p \notin DOMAIN running
      /\ \A q \in DOMAIN running : running'[q] = running[q]
  BY <1>1 DEF Put, RequestsInv
<1>3. \A q \in DOMAIN running : running[q].block # b
  BY DEF StartJob, Busy
<1>4. ASSUME NEW c, NEW o, JobAt(c, o) PROVE JobAt(c, o)'
  BY <1>2, <1>4 DEF JobAt
<1>5. JobAt(b, op)'
  BY <1>2 DEF JobAt
<1> QED
  BY <1>1, <1>2, <1>3, <1>4, <1>5 DEF RequestsInv

(* The job of a block device that nobody asked to unmount. *)
LEMMA BusyWith ==
  ASSUME ServiceTyped, RequestsInv, NEW b \in Blocks, Busy(b), asked[b] # "unmount"
  PROVE  JobAt(b, MountFs) \/ (JobAt(b, Mkfs) /\ asked[b] = "format")
<1>1. PICK p \in DOMAIN running : running[p].block = b
  BY DEF Busy
<1>2. running[p].op \in JobOperations
  BY DEF ServiceTyped
<1> QED
  BY <1>1, <1>2 DEF JobAt, RequestsInv, JobOperations

-----------------------------------------------------------------------------
(* The cards and the steps of UDisks2 *)

LEMMA HasMore ==
  ASSUME DispatcherTyped, NEW w \in Watches, NEW e \in Signals(w), Signal(w, e)
  PROVE  /\ \A x : Has(Coming, x) => Has(Coming', x)
         /\ w = "additions" => Has(Coming', e)
<1>1. Coming \in Seq(Signals("additions"))
  BY Queues
<1>2. CASE w = "additions"
  <2>1. Coming' = Append(Coming, e)
    BY <1>2, SignalMoves
  <2> QED
    BY <1>1, <1>2, <2>1, AboutAppended
<1>3. CASE w = "removals"
  <2>1. Coming' = Coming
    BY <1>3, SignalMoves
  <2> QED
    BY <1>3, <2>1
<1> QED
  BY <1>2, <1>3 DEF Watches

(* A signal from UDisks2 about a device or a job. *)
LEMMA HasMoreSignals ==
  ASSUME DispatcherTyped, NEW e
  PROVE  /\ e \in DriveAdditions \cup BlockAdditions \cup JobAdditions /\ Signal("additions", e)
              => Has(Coming', e) /\ \A x : Has(Coming, x) => Has(Coming', x)
         /\ e \in DeviceRemovals \cup JobRemovals /\ Signal("removals", e)
              => \A x : Has(Coming, x) => Has(Coming', x)
  BY HasMore, ServiceSignals

(* A drive comes or goes. *)
LEMMA DriveRequests ==
  ASSUME TypedInv, NEW X, CardsBut(X), NEW d \in Drives, InsertDrive(d) \/ RemoveDrive(d),
         UNCHANGED <<calls, Rests>>
  PROVE  CardsBut(X)' /\ \A b \in Blocks : FormatOf(b) => FormatOf(b)'
<1>1. /\ UNCHANGED <<fs, mounted, running, unprobed, usedJobs, asked>>
      /\ \A b \in Blocks : b \in present' <=> b \in present
  BY PathsAssumption DEF InsertDrive, Insert, RemoveDrive
<1>2. \A x : Has(Coming, x) => Has(Coming', x)
  BY HasMoreSignals, AnnouncedDevices DEF TypedInv, InsertDrive, RemoveDrive
<1>3. RequestsInv'
  <2>1. mounted \subseteq Blocks /\ unprobed \subseteq Blocks
    BY DEF TypedInv, ServiceTyped
  <2> QED
    BY <1>1, <2>1 DEF CardsBut, RequestsInv
<1>4. ASSUME NEW b \in Blocks
      PROVE  (CardOf(b) => CardOf(b)') /\ (FormatOf(b) => FormatOf(b)')
  <2>1. \A r : Waits(b, r)' => Waits(b, r)
    BY <1>1 DEF Waits, Wanted
  <2>2. \A o : JobAt(b, o) => JobAt(b, o)'
    BY <1>1 DEF JobAt
  <2> QED
    BY <1>2, <2>1, <2>2, CardsOutside DEF Rests, watcherVars
<1> QED
  BY <1>3, <1>4 DEF CardsBut

(* A card is put in: it is announced; the job of a card that was pulled out
   goes on. *)
LEMMA InsertedCard ==
  ASSUME TypedInv, NEW X, CardsBut(X), NEW c \in Blocks, InsertBlock(c), UNCHANGED <<calls, Rests>>
  PROVE  CardsBut(X)' /\ \A b \in Blocks : FormatOf(b) => FormatOf(b)'
<1>1. /\ UNCHANGED <<fs, mounted, running, unprobed, usedJobs>>
      /\ present' = present \cup {c} /\ c \notin present /\ c \notin mounted
      /\ asked' = [asked EXCEPT ![c] = IF Busy(c) THEN @ ELSE "none"]
      /\ Signal("additions", Added(c, blockProps(c)))
  BY DEF InsertBlock, Insert, CardsBut, RequestsInv
<1>2. /\ Has(Coming', Added(c, blockProps(c)))
      /\ \A x : Has(Coming, x) => Has(Coming', x)
  BY <1>1, HasMoreSignals, AnnouncedDevices DEF TypedInv
<1>3. /\ asked' = [b \in Blocks |-> asked'[b]]
      /\ asked'[c] = IF Busy(c) THEN asked[c] ELSE "none"
      /\ \A b \in Blocks \ {c} : asked'[b] = asked[b]
  BY <1>1 DEF CardsBut, RequestsInv
<1>4. RequestsInv'
  <2>1. \A p \in DOMAIN running : running[p].block \in Blocks
    BY DEF TypedInv, ServiceTyped
  <2>2. \A p \in DOMAIN running : asked'[running[p].block] = asked[running[p].block]
    BY <1>3, <2>1 DEF Busy
  <2>3. c \notin unprobed
    BY <1>1 DEF CardsBut, RequestsInv
  <2>4. unprobed \subseteq Blocks
    BY DEF TypedInv, ServiceTyped
  <2> QED
    BY <1>1, <1>3, <2>2, <2>3, <2>4 DEF CardsBut, RequestsInv
<1>5. ASSUME NEW b \in Blocks \ {c}
      PROVE  (CardOf(b) => CardOf(b)') /\ (FormatOf(b) => FormatOf(b)')
  <2>1. \A r : Waits(b, r)' => Waits(b, r)
    BY <1>1, <1>3 DEF Waits, Wanted
  <2>2. \A o : JobAt(b, o) => JobAt(b, o)'
    BY <1>1 DEF JobAt
  <2> QED
    BY <1>2, <2>1, <2>2, CardsOutside DEF Rests, watcherVars
<1>6. CardOf(c)'
  <2>1. ASSUME Waits(c, "none")' PROVE Pending(c, TRUE)'
    <3>1. Added(c, blockProps(c)) = Announcement(c, TRUE)
      <4>1. fs[c] = "vfat" /\ (c \in mounted) = FALSE
        BY <1>1, <2>1 DEF Waits, Wanted
      <4> QED
        BY <4>1, Zenon DEF blockProps, Announcement
    <3>2. Announcement(c, TRUE)' = Announcement(c, TRUE)
      BY AnnouncementFacts
    <3> QED
      BY <1>2, <3>1, <3>2 DEF Pending
  <2> QED
    BY <2>1 DEF CardOf
<1>7. FormatOf(c)'
  <2>1. ASSUME Waits(c, "format")' PROVE JobAt(c, MountFs)' \/ JobAt(c, Mkfs)'
    <3>1. Busy(c) /\ asked[c] = "format"
      BY <1>3, <2>1 DEF Waits
    <3>2. JobAt(c, MountFs) \/ JobAt(c, Mkfs)
      BY <3>1, BusyWith DEF TypedInv, CardsBut
    <3> QED
      BY <1>1, <3>2 DEF JobAt
  <2> QED
    BY <2>1 DEF FormatOf, MountComes
<1> QED
  BY <1>4, <1>5, <1>6, <1>7 DEF CardsBut, Rests

(* A card is pulled out: nothing is claimed of it any more. *)
LEMMA RemovedCard ==
  ASSUME TypedInv, NEW X, CardsBut(X), NEW c \in Blocks, RemoveBlock(c), UNCHANGED <<calls, Rests>>
  PROVE  CardsBut(X)' /\ \A b \in Blocks : FormatOf(b) => FormatOf(b)'
<1>1. /\ UNCHANGED <<fs, running, usedJobs, asked>>
      /\ present' = present \ {c} /\ mounted' = mounted \ {c} /\ unprobed' = unprobed \ {c}
      /\ Signal("removals", Removed(c, BlockIfaces(c)))
  BY DEF RemoveBlock
<1>2. \A x : Has(Coming, x) => Has(Coming', x)
  BY <1>1, HasMoreSignals, AnnouncedDevices DEF TypedInv
<1>3. RequestsInv'
  BY <1>1 DEF CardsBut, RequestsInv
<1>4. ASSUME NEW b \in Blocks
      PROVE  (CardOf(b) => CardOf(b)') /\ (FormatOf(b) => FormatOf(b)')
  <2>1. \A r : Waits(b, r)' => Waits(b, r)
    BY <1>1 DEF Waits, Wanted
  <2>2. \A o : JobAt(b, o) => JobAt(b, o)'
    BY <1>1 DEF JobAt
  <2> QED
    BY <1>2, <2>1, <2>2, CardsOutside DEF Rests, watcherVars
<1> QED
  BY <1>3, <1>4 DEF CardsBut, Rests

(* Another process asks for an unmount or a format. *)
LEMMA RequestedJob ==
  ASSUME TypedInv, NEW X, CardsBut(X), NEW c \in Blocks, StartUnmount(c) \/ StartFormat(c),
         UNCHANGED <<calls, Rests>>
  PROVE  CardsBut(X)' /\ \A b \in Blocks : FormatOf(b) => FormatOf(b)'
<1>1. PICK op \in {UnmountFs, Mkfs} :
        /\ StartJob(op, c)
        /\ asked' = [asked EXCEPT ![c] = IF op = Mkfs THEN "format" ELSE "unmount"]
        /\ op = Mkfs => c \notin unprobed
  BY DEF StartUnmount, StartFormat, AcceptUnmount, AcceptFormat, Mkfs, UnmountFs
<1>2. UNCHANGED <<present, fs, mounted, unprobed>>
  BY <1>1 DEF StartJob
<1>3. \A x : Has(Coming, x) => Has(Coming', x)
  <2>1. PICK p \in JobPaths : Signal("additions", JobAddition(p, op, c))
    BY <1>1 DEF StartJob, JobAddition
  <2>2. JobAddition(p, op, c) \in JobAdditions
    BY DEF JobAdditions, JobOperations
  <2> QED
    BY <2>1, <2>2, HasMoreSignals DEF TypedInv
<1>4. /\ asked' = [b \in Blocks |-> asked'[b]]
      /\ asked'[c] = IF op = Mkfs THEN "format" ELSE "unmount"
      /\ \A b \in Blocks \ {c} : asked'[b] = asked[b]
  BY <1>1 DEF CardsBut, RequestsInv
<1>5. /\ \A b, o : JobAt(b, o) => JobAt(b, o)'
      /\ JobAt(c, op)'
      /\ DOMAIN running' \subseteq usedJobs'
      /\ \A p \in DOMAIN running' :
           \/ running'[p] = [op |-> op, block |-> c]
           \/ p \in DOMAIN running /\ running'[p] = running[p] /\ running[p].block # c
  BY <1>1, JobsGain DEF CardsBut
<1>6. RequestsInv'
  <2>1. unprobed \subseteq Blocks /\ \A p \in DOMAIN running : running[p].block \in Blocks
    BY DEF TypedInv, ServiceTyped
  <2>2. ASSUME NEW p \in DOMAIN running'
        PROVE  /\ running'[p].op = UnmountFs => asked'[running'[p].block] = "unmount"
               /\ running'[p].op = Mkfs => asked'[running'[p].block] = "format"
    BY <1>4, <1>5, <2>1 DEF CardsBut, RequestsInv, UnmountFs, Mkfs
  <2>3. \A b \in unprobed' : b \in present' /\ asked'[b] # "none" /\ fs'[b] = "none"
    BY <1>2, <1>4, <2>1 DEF CardsBut, RequestsInv
  <2> QED
    BY <1>2, <1>4, <1>5, <2>2, <2>3 DEF CardsBut, RequestsInv
<1>7. ASSUME NEW b \in Blocks \ {c}
      PROVE  (CardOf(b) => CardOf(b)') /\ (FormatOf(b) => FormatOf(b)')
  <2>1. \A r : Waits(b, r)' => Waits(b, r)
    BY <1>2, <1>4 DEF Waits, Wanted
  <2> QED
    BY <1>3, <1>5, <2>1, CardsOutside DEF Rests, watcherVars
<1>8. CardOf(c)' /\ FormatOf(c)'
  <2>1. ~ Waits(c, "none")'
    BY <1>4 DEF Waits
  <2>2. Waits(c, "format")' => JobAt(c, Mkfs)'
    BY <1>4, <1>5 DEF Waits
  <2> QED
    BY <2>1, <2>2 DEF CardOf, FormatOf
<1> QED
  BY <1>6, <1>7, <1>8 DEF CardsBut, Rests

LEMMA ServiceStepCards ==
  ASSUME TypedInv, NEW X, CardsBut(X), ServiceStep
  PROVE  CardsBut(X)' /\ \A b \in Blocks : FormatOf(b) => FormatOf(b)'
  BY DriveRequests, InsertedCard, RemovedCard, RequestedJob DEF ServiceStep

(* Formatting takes the old file system away. *)
LEMMA WipedCard ==
  ASSUME TypedInv, NEW X, CardsBut(X), NEW p, Wipe(p), UNCHANGED <<calls, Rests>>
  PROVE  CardsBut(X)' /\ \A b \in Blocks : FormatOf(b) => FormatOf(b)'
<1> DEFINE c == running[p].block
<1>1. /\ UNCHANGED <<present, mounted, running, unprobed, usedJobs, asked>>
      /\ fs' = [fs EXCEPT ![c] = "none"] /\ c \in Blocks
      /\ Signal("removals", Removed(c, {FilesystemIface}))
  BY DEF Wipe, JobOn, TypedInv, ServiceTyped
<1>2. \A b \in Blocks : fs'[b] = fs[b] \/ fs'[b] = "none"
  BY <1>1 DEF TypedInv, ServiceTyped
<1>3. \A x : Has(Coming, x) => Has(Coming', x)
  BY <1>1, HasMoreSignals, AnnouncedDevices DEF TypedInv
<1> HIDE DEF c
<1>4. RequestsInv'
  <2>1. unprobed \subseteq Blocks
    BY DEF TypedInv, ServiceTyped
  <2> QED
    BY <1>1, <1>2, <2>1 DEF CardsBut, RequestsInv
<1>5. ASSUME NEW b \in Blocks
      PROVE  (CardOf(b) => CardOf(b)') /\ (FormatOf(b) => FormatOf(b)')
  <2>1. \A r : Waits(b, r)' => Waits(b, r)
    BY <1>1, <1>2 DEF Waits, Wanted
  <2>2. \A o : JobAt(b, o) => JobAt(b, o)'
    BY <1>1 DEF JobAt
  <2> QED
    BY <1>3, <2>1, <2>2, CardsOutside DEF Rests, watcherVars
<1> QED
  BY <1>4, <1>5 DEF CardsBut, Rests

(* A job ends: a card it mounts is mounted, one it formats has no file
   system that is announced. *)
LEMMA FinishedJob ==
  ASSUME TypedInv, NEW X, CardsBut(X), NEW p, ServiceFinishesJob(p)
  PROVE  CardsBut(X)' /\ \A b \in Blocks : FormatOf(b) => FormatOf(b)'
<1> DEFINE c == running[p].block
           op == running[p].op
<1>1. /\ UNCHANGED <<present, fs, usedJobs, asked>>
      /\ p \in DOMAIN running /\ running' = Delete(running, p)
      /\ (op = Mkfs /\ c \in present) => fs[c] = "none"
      /\ mounted' = CASE op = MountFs -> mounted \cup ({c} \cap present)
                      [] op = UnmountFs -> mounted \ {c}
                      [] OTHER -> mounted
      /\ unprobed' = IF op = Mkfs THEN unprobed \cup ({c} \cap present) ELSE unprobed
      /\ Signal("removals", Removed(p, {JobIface}))
      /\ UNCHANGED Rests
  BY DEF ServiceFinishesJob, FinishJob
<1>2. c \in Blocks /\ op \in JobOperations /\ p \in JobPaths
  BY <1>1 DEF TypedInv, ServiceTyped
<1>3. \A x : Has(Coming, x) => Has(Coming', x)
  <2>1. Removed(p, {JobIface}) \in JobRemovals
    BY <1>2 DEF JobRemovals
  <2> QED
    BY <1>1, <2>1, HasMoreSignals DEF TypedInv
<1>4. IsABag(calls') /\ \A b : ANewCall(b) \in BagToSet(calls) => ANewCall(b) \in BagToSet(calls')
  <2> DEFINE x == [path |-> c, state |-> "mounting"]
  <2>1. UNCHANGED calls \/ End(x) \/ Move(x, "failed")
    BY DEF ServiceFinishesJob
  <2>2. \A b : ANewCall(b) # x
    BY DEF ANewCall
  <2>3. \A b : ANewCall(b)' = ANewCall(b)
    BY DEF ANewCall
  <2> HIDE DEF x
  <2> QED
    BY <2>1, <2>2, <2>3, CallAnswered DEF CardsBut
<1>5. (op = UnmountFs => asked[c] = "unmount") /\ (op = Mkfs => asked[c] = "format")
  BY <1>1 DEF CardsBut, RequestsInv
<1>6. /\ \A q \in DOMAIN running' : q \in DOMAIN running /\ running'[q] = running[q]
      /\ \A b, o : JobAt(b, o) => JobAt(b, o)' \/ (b = c /\ o = op)
  BY <1>1 DEF Delete, JobAt
<1> HIDE DEF c, op
<1>7. RequestsInv'
  <2>1. mounted' \subseteq present' /\ DOMAIN running' \subseteq usedJobs'
    BY <1>1, <1>6 DEF CardsBut, RequestsInv
  <2>2. \A b \in unprobed' : b \in present' /\ asked'[b] # "none" /\ fs'[b] = "none"
    BY <1>1, <1>5 DEF CardsBut, RequestsInv
  <2> QED
    BY <1>1, <1>6, <2>1, <2>2 DEF CardsBut, RequestsInv
<1>8. ASSUME NEW b \in Blocks
      PROVE  (CardOf(b) => CardOf(b)') /\ (FormatOf(b) => FormatOf(b)')
  <2>1. \A r \in {"none", "format"} : Waits(b, r)' => Waits(b, r)
    BY <1>1, <1>5 DEF Waits, Wanted
  <2>2. ASSUME NEW o \in {MountFs, Mkfs}, JobAt(b, o), ~ JobAt(b, o)', NEW r, Waits(b, r)'
        PROVE  FALSE
    <3>1. b = c /\ o = op
      BY <1>6, <2>2
    <3>2. b \in present /\ fs[b] = "vfat" /\ b \notin mounted'
      BY <1>1, <2>2 DEF Waits, Wanted
    <3> QED
      BY <1>1, <2>2, <3>1, <3>2 DEF MountFs, Mkfs, UnmountFs
  <2>3. UNCHANGED <<at, existing, drives>>
    BY <1>1 DEF Rests, watcherVars
  <2> QED
    BY <1>3, <1>4, <2>1, <2>2, <2>3, CardsOutside
<1> QED
  BY <1>4, <1>7, <1>8 DEF CardsBut

(* The new file system of a card is announced. *)
LEMMA AnnouncedFilesystem ==
  ASSUME TypedInv, NEW X, CardsBut(X), NEW c \in Blocks, AnnounceFilesystem(c),
         UNCHANGED <<calls, Rests>>
  PROVE  CardsBut(X)' /\ \A b \in Blocks : FormatOf(b) => FormatOf(b)'
<1>1. /\ UNCHANGED <<present, mounted, running, usedJobs, asked>>
      /\ c \in unprobed /\ unprobed' = unprobed \ {c}
      /\ fs' = [fs EXCEPT ![c] = "vfat"]
      /\ Signal("additions", Added(c, filesystemProps(c, "vfat")))
  BY DEF AnnounceFilesystem
<1>2. /\ Has(Coming', Added(c, filesystemProps(c, "vfat")))
      /\ \A x : Has(Coming, x) => Has(Coming', x)
  BY <1>1, HasMoreSignals, AnnouncedDevices DEF TypedInv
<1>3. \A b \in Blocks \ {c} : fs'[b] = fs[b]
  BY <1>1 DEF TypedInv, ServiceTyped
<1>4. RequestsInv'
  <2>1. unprobed \subseteq Blocks
    BY DEF TypedInv, ServiceTyped
  <2> QED
    BY <1>1, <1>3, <2>1 DEF CardsBut, RequestsInv
<1>5. ASSUME NEW b \in Blocks \ {c}
      PROVE  (CardOf(b) => CardOf(b)') /\ (FormatOf(b) => FormatOf(b)')
  <2>1. \A r : Waits(b, r)' => Waits(b, r)
    BY <1>1, <1>3 DEF Waits, Wanted
  <2>2. \A o : JobAt(b, o) => JobAt(b, o)'
    BY <1>1 DEF JobAt
  <2> QED
    BY <1>2, <2>1, <2>2, CardsOutside DEF Rests, watcherVars
<1>6. CardOf(c)' /\ FormatOf(c)'
  <2>1. ~ Waits(c, "none")'
    BY <1>1 DEF Waits, CardsBut, RequestsInv
  <2>2. Announcement(c, FALSE) = Added(c, filesystemProps(c, "vfat"))
    BY DEF Announcement, filesystemProps
  <2>3. Announcement(c, FALSE)' = Announcement(c, FALSE)
    BY AnnouncementFacts
  <2>4. Pending(c, FALSE)'
    BY <1>2, <2>2, <2>3 DEF Pending
  <2> QED
    BY <2>1, <2>4 DEF CardOf, FormatOf
<1> QED
  BY <1>4, <1>5, <1>6 DEF CardsBut, Rests

LEMMA JobStepCards ==
  ASSUME TypedInv, NEW X, CardsBut(X), JobStep
  PROVE  CardsBut(X)' /\ \A b \in Blocks : FormatOf(b) => FormatOf(b)'
  BY WipedCard, FinishedJob, AnnouncedFilesystem DEF JobStep

-----------------------------------------------------------------------------
(* The cards and the calls to Mount *)

(* UDisks2 mounts the card, or refuses to because a job has it. *)
LEMMA CallStepCards ==
  ASSUME TypedInv, NEW X, CardsBut(X), NEW c \in BagToSet(calls),
         MountAccepted(c) \/ MountRefused(c) \/ ArgsOfNoReply(c)
  PROVE  CardsBut(X)' /\ \A b \in Blocks : FormatOf(b) => FormatOf(b)'
<1>1. c \in Call /\ (c.state = "calling" => c = ANewCall(c.path))
  BY DEF TypedInv, DaemonTyped, Call, ANewCall
<1>2. /\ IsABag(calls')
      /\ \A b : ANewCall(b) \in BagToSet(calls) /\ ANewCall(b) # c
                  => ANewCall(b) \in BagToSet(calls')
  <2>1. \E state : Move(c, state)
    BY DEF MountAccepted, MountRefused, ArgsOfNoReply
  <2> QED
    BY <2>1, CallAnswered DEF CardsBut
<1>3. UNCHANGED <<present, fs, mounted, asked, unprobed, at, existing, drives>>
  BY DEF MountAccepted, MountRefused, ArgsOfNoReply, StartMount, StartJob, Rests, watcherVars,
         serviceVars
<1>4. \A b, r : Waits(b, r)' <=> Waits(b, r)
  BY <1>3 DEF Waits, Wanted
<1>5. CASE MountAccepted(c)
  <2>1. c.path \in Blocks /\ StartJob(MountFs, c.path) /\ asked' = asked
    BY <1>1, <1>5 DEF MountAccepted, StartMount, Call
  <2>2. \A x : Has(Coming, x) => Has(Coming', x)
    <3>1. PICK p \in JobPaths : Signal("additions", JobAddition(p, MountFs, c.path))
      BY <2>1 DEF StartJob, JobAddition
    <3>2. JobAddition(p, MountFs, c.path) \in JobAdditions
      BY <2>1 DEF JobAdditions, JobOperations
    <3> QED
      BY <3>1, <3>2, HasMoreSignals DEF TypedInv
  <2>3. /\ \A b, o : JobAt(b, o) => JobAt(b, o)'
        /\ JobAt(c.path, MountFs)'
        /\ DOMAIN running' \subseteq usedJobs'
        /\ \A p \in DOMAIN running' :
             \/ running'[p] = [op |-> MountFs, block |-> c.path]
             \/ p \in DOMAIN running /\ running'[p] = running[p] /\ running[p].block # c.path
    BY <2>1, JobsGain DEF CardsBut
  <2>4. RequestsInv'
    <3>1. \A p \in DOMAIN running' :
            /\ running'[p].op = UnmountFs => asked'[running'[p].block] = "unmount"
            /\ running'[p].op = Mkfs => asked'[running'[p].block] = "format"
      BY <1>3, <2>3 DEF CardsBut, RequestsInv, MountFs, UnmountFs, Mkfs
    <3> QED
      BY <1>3, <2>3, <3>1 DEF CardsBut, RequestsInv
  <2>5. ASSUME NEW b \in Blocks
        PROVE  (CardOf(b) => CardOf(b)') /\ (FormatOf(b) => FormatOf(b)')
    <3>1. ANewCall(b) \in BagToSet(calls) => ANewCall(b) \in BagToSet(calls') \/ JobAt(b, MountFs)'
      <4>1. ANewCall(b) = c => b = c.path
        BY DEF ANewCall
      <4> QED
        BY <1>2, <2>3, <4>1
    <3> QED
      BY <1>3, <1>4, <2>2, <2>3, <3>1, CardsOutside
  <2> QED
    BY <1>2, <2>4, <2>5 DEF CardsBut
<1>6. CASE MountRefused(c) \/ ArgsOfNoReply(c)
  <2>1. UNCHANGED <<serviceVars, watch, held>>
    BY <1>6 DEF MountRefused, ArgsOfNoReply, Rests
  <2>2. /\ RequestsInv'
        /\ \A b, o : JobAt(b, o)' <=> JobAt(b, o)
    BY <2>1 DEF CardsBut, RequestsInv, serviceVars, JobAt
  <2>3. \A x : Has(Coming, x) => Has(Coming', x)
    BY <2>1 DEF Coming
  <2>4. ASSUME NEW b \in Blocks
        PROVE  (CardOf(b) => CardOf(b)') /\ (FormatOf(b) => FormatOf(b)')
    <3>1. CASE ANewCall(b) \in BagToSet(calls) => ANewCall(b) \in BagToSet(calls')
      BY <1>3, <1>4, <2>2, <2>3, <3>1, CardsOutside
    <3>2. CASE ANewCall(b) = c
      <4>1. c.path = b /\ c.state = "calling" /\ ~ Mountable(b)
        BY <1>6, <3>2 DEF ANewCall, MountRefused, ArgsOfNoReply
      <4>2. ASSUME NEW r \in {"none", "format"}, Waits(b, r)
            PROVE  JobAt(b, MountFs) \/ (JobAt(b, Mkfs) /\ r = "format")
        <5>1. Busy(b) /\ asked[b] = r
          BY <4>1, <4>2 DEF Mountable, Waits, Wanted
        <5> QED
          BY <5>1, BusyWith DEF TypedInv, CardsBut
      <4> QED
        BY <1>4, <2>2, <4>2 DEF CardOf, FormatOf, MountComes
    <3> QED
      BY <1>2, <3>1, <3>2
  <2> QED
    BY <1>2, <2>2, <2>4 DEF CardsBut
<1> QED
  BY <1>5, <1>6

-----------------------------------------------------------------------------
(* The cards and the steps of the package *)

(* What keeps the cards when UDisks2 rests. *)
LEMMA CardsRest ==
  ASSUME NEW X, CardsBut(X), UNCHANGED serviceVars, IsABag(calls'),
         \A b \in Blocks : CardOf(b) => CardOf(b)'
  PROVE  CardsBut(X)'
  BY DEF CardsBut, RequestsInv, serviceVars

(* A goroutine of the storage watcher goes on from a point that has nothing to
   do with cards. *)
LEMMA CardsAside ==
  ASSUME NEW X, CardsBut(X), UNCHANGED serviceVars, IsABag(calls'),
         \A b : ANewCall(b) \in BagToSet(calls) => ANewCall(b) \in BagToSet(calls'),
         Coming' = Coming, existing' = existing,
         DOMAIN drives \cap Blocks \subseteq DOMAIN drives',
         NEW g \in Goroutines, \A h \in Goroutines \ {g} : at'[h] = at[h],
         at[g].point \notin {"add", "blockAdded", "formatCompleted", "getManagedObjects"}
           \/ UNCHANGED at[g]
  PROVE  CardsBut(X)' /\ \A b \in Blocks : FormatOf(b) => FormatOf(b)'
<1>1. ASSUME NEW b \in Blocks
      PROVE  (CardOf(b) => CardOf(b)') /\ (FormatOf(b) => FormatOf(b)')
  <2>1. UNCHANGED <<present, fs, asked, mounted, running>>
    BY DEF serviceVars
  <2>2. MountComes(b) => MountComes(b)'
    <3>1. JobAt(b, MountFs) => JobAt(b, MountFs)'
      BY <2>1 DEF JobAt
    <3> QED
      BY <3>1, MountStays
  <2>3. \A whole : Pending(b, whole) => Pending(b, whole)'
    BY AnnouncementStays
  <2>4. at["init"].point = "getManagedObjects" => at'["init"].point = "getManagedObjects"
    BY IsGoroutine
  <2> QED
    BY <2>1, <2>2, <2>3, <2>4, CardsKept
<1> QED
  BY <1>1, CardsRest

(* A signal about a device or a job leaves the queue. *)
LEMMA DispatchedCards ==
  ASSUME TypedInv, NEW X, CardsBut(X), NEW w \in Watches, DispatchDevice(w) \/ DispatchJob(w),
         UNCHANGED <<serviceVars, calls>>
  PROVE  CardsBut(X)' /\ \A b \in Blocks : FormatOf(b) => FormatOf(b)'
<1> DEFINE e == held[w][1]
<1>1. /\ held[w] # <<>> /\ \E k : Send(w, k, e)
      /\ UNCHANGED <<existing, drives>>
  BY DEF DispatchDevice, DispatchJob, watcherVars, ReadAddition, ReadRemoval
<1>2. at \in [Goroutines -> Where]
  BY DEF TypedInv, WatcherInv, WatcherTyped
<1>3. /\ \A h \in Goroutines \ {"loop"} : at'[h] = at[h]
      /\ at["loop"].point = "select" \/ UNCHANGED at["loop"]
      /\ w = "additions" =>
           \/ e.path \in JobPaths
           \/ at'["loop"] = [point |-> "add", event |-> e]
  <2>1. CASE DispatchJob(w)
    <3>1. Send(w, "Jobs", e) /\ UNCHANGED at
      BY <2>1 DEF DispatchJob, watcherVars
    <3>2. e.path \in JobPaths
      <4>1. "Jobs" = Channel(w, e)
        BY <1>1, <3>1, SendStep DEF TypedInv
      <4> QED
        BY <4>1 DEF Channel
    <3> QED
      BY <3>1, <3>2
  <2>2. CASE DispatchDevice(w)
    <3>1. \/ Send(w, "Additions", e) /\ ReadAddition(e)
          \/ Send(w, "Removals", e) /\ ReadRemoval(e)
      BY <2>2 DEF DispatchDevice
    <3>2. w = "additions" => ~ Send(w, "Removals", e)
      BY DEF Send, Channel
    <3>3. at["loop"].point = "select" /\ \A h \in Goroutines \ {"loop"} : at'[h] = at[h]
      BY <1>2, <3>1 DEF ReadAddition, ReadRemoval, Selecting, Continue
    <3>4. ReadAddition(e) => at'["loop"] = [point |-> "add", event |-> e]
      BY <1>2, IsGoroutine DEF ReadAddition, Continue
    <3> QED
      BY <3>1, <3>2, <3>3, <3>4
  <2> QED
    BY <2>1, <2>2
<1>4. /\ w = "additions" => Coming # <<>> /\ Head(Coming) = e /\ Coming' = Tail(Coming)
      /\ w = "removals" => Coming' = Coming
  BY <1>1, SendMoves DEF TypedInv
<1> HIDE DEF e
<1>5. \A x : Has(Coming, x) => Has(Coming', x) \/ (w = "additions" /\ x = e)
  <2>1. Coming \in Seq(Signals("additions"))
    BY Queues DEF TypedInv
  <2>2. CASE w = "additions"
    BY <1>4, <2>1, <2>2, AboutTail
  <2> QED
    BY <1>4, <2>2 DEF Watches
<1>6. ASSUME NEW b \in Blocks
      PROVE  (CardOf(b) => CardOf(b)') /\ (FormatOf(b) => FormatOf(b)')
  <2>1. UNCHANGED <<present, fs, asked, mounted, running>>
    BY DEF serviceVars
  <2>2. MountComes(b) => MountComes(b)'
    <3>1. JobAt(b, MountFs) => JobAt(b, MountFs)'
      BY <2>1 DEF JobAt
    <3> QED
      BY <1>3, <3>1, MountStays, IsGoroutine
  <2>3. ASSUME NEW whole \in BOOLEAN, Pending(b, whole) PROVE Pending(b, whole)'
    <3> DEFINE x == Announcement(b, whole)
    <3>1. x' = x /\ x.path \notin JobPaths
      BY AnnouncementFacts
    <3>2. CASE Has(Coming, x) /\ ~ Has(Coming', x)
      BY <1>3, <1>5, <3>1, <3>2, IsGoroutine DEF Pending
    <3>3. CASE Has(Coming', x)
      BY <3>1, <3>3 DEF Pending
    <3>4. CASE (whole = TRUE /\ Has(existing, x)) \/ \E g \in Goroutines : at[g].point = "add" /\ at[g].event = x
      BY <1>1, <1>3, <3>1, <3>4 DEF Pending
    <3> QED
      BY <2>3, <3>2, <3>3, <3>4 DEF Pending
  <2>4. at["init"].point = "getManagedObjects" => at'["init"].point = "getManagedObjects"
    BY <1>3 DEF Goroutines
  <2> QED
    BY <1>1, <2>1, <2>2, <2>3, <2>4, CardsKept
<1> QED
  BY <1>6, CardsRest DEF CardsBut

(* The walk over the objects that exist comes to the next one. *)
LEMMA AddExistingCards ==
  ASSUME TypedInv, NEW X, CardsBut(X), AddExisting, UNCHANGED <<serviceVars, dispatcherVars, calls>>
  PROVE  CardsBut(X)' /\ \A b \in Blocks : FormatOf(b) => FormatOf(b)'
<1>1. /\ existing \in Seq(DeviceAdditions) /\ existing # <<>> /\ existing' = Tail(existing)
      /\ at["init"].point = "existing"
      /\ at'["init"] = [point |-> "add", event |-> Head(existing)]
      /\ \A h \in Goroutines \ {"init"} : at'[h] = at[h]
      /\ UNCHANGED <<drives, running>> /\ Coming' = Coming
  BY IsGoroutine, SameQueues
    DEF AddExisting, Continue, TypedInv, WatcherInv, WatcherTyped, serviceVars
<1>2. \A x : Has(existing, x) => Has(existing', x) \/ x = Head(existing)
  BY <1>1, AboutTail
<1>3. ASSUME NEW b \in Blocks
      PROVE  (CardOf(b) => CardOf(b)') /\ (FormatOf(b) => FormatOf(b)')
  <2>1. MountComes(b) => MountComes(b)'
    <3>1. JobAt(b, MountFs) => JobAt(b, MountFs)'
      BY <1>1 DEF JobAt
    <3> QED
      BY <1>1, <3>1, MountStays, IsGoroutine
  <2>2. ASSUME NEW whole \in BOOLEAN, Pending(b, whole) PROVE Pending(b, whole)'
    <3> DEFINE x == Announcement(b, whole)
    <3>1. x' = x
      BY AnnouncementFacts
    <3>2. CASE x = Head(existing)
      BY <1>1, <3>1, <3>2, IsGoroutine DEF Pending
    <3>3. CASE Has(Coming, x) \/ (whole = TRUE /\ Has(existing', x))
      BY <1>1, <3>1, <3>3 DEF Pending
    <3>4. CASE \E g \in Goroutines : at[g].point = "add" /\ at[g].event = x
      BY <1>1, <3>1, <3>4 DEF Pending
    <3> QED
      BY <1>2, <2>2, <3>2, <3>3, <3>4 DEF Pending
  <2> QED
    BY <1>1, <2>1, <2>2, CardsKept DEF serviceVars
<1> QED
  BY <1>3, CardsRest DEF CardsBut

(* The objects that exist are listed: whatever card is there, and not mounted,
   is among them. *)
LEMMA AnsweredCards ==
  ASSUME TypedInv, NEW X, CardsBut(X), AnswerManagedObjects,
         UNCHANGED <<serviceVars, dispatcherVars, calls>>
  PROVE  CardsBut(X)' /\ \A b \in Blocks : FormatOf(b) => FormatOf(b)'
<1>1. PICK ds \in SetToSeqs(managedDrives), bs \in SetToSeqs(managedBlocks) :
        ListExisting(ds \o bs)
  BY DEF AnswerManagedObjects
<1>2. /\ at["init"].point = "getManagedObjects" /\ existing' = ds \o bs
      /\ \A h \in Goroutines \ {"init"} : at'[h] = at[h]
      /\ UNCHANGED <<drives, running>> /\ Coming' = Coming
  BY <1>1, SameQueues
    DEF ListExisting, Continue, TypedInv, WatcherInv, WatcherTyped, serviceVars
<1>3. \A b \in Blocks : MountComes(b) => MountComes(b)'
  <2>1. \A b : JobAt(b, MountFs) => JobAt(b, MountFs)'
    BY <1>2 DEF JobAt
  <2> QED
    BY <1>2, <2>1, MountStays, IsGoroutine
<1>4. ASSUME NEW e \in managedBlocks PROVE Has(existing', e)
  <2>1. IsFiniteSet(managedDrives) /\ IsFiniteSet(managedBlocks)
    BY ManagedFinite
  <2>2. ds \in Seq(managedDrives) /\ bs \in Seq(managedBlocks)
    BY <2>1, OrdersFacts
  <2>3. \E i \in 1 .. Len(bs) : bs[i] = e
    BY <2>1, OrdersAll
  <2>4. PICK i \in 1 .. Len(bs) : bs[i] = e
    BY <2>3
  <2>5. (ds \o bs)[Len(ds) + i] = e /\ Len(ds) + i \in 1 .. Len(ds \o bs)
    BY <2>2, <2>4
  <2> QED
    BY <1>2, <2>5 DEF Has
<1>5. ASSUME NEW b \in Blocks PROVE CardOf(b)'
  <2>1. ASSUME Waits(b, "none")' PROVE Pending(b, TRUE)'
    <3>1. b \in present /\ fs[b] = "vfat" /\ (b \in mounted) = FALSE
      BY <2>1 DEF Waits, Wanted, serviceVars
    <3>2. Added(b, blockProps(b)) = Announcement(b, TRUE)
      BY <3>1, Zenon DEF blockProps, Announcement
    <3>3. Added(b, blockProps(b)) \in managedBlocks
      BY <3>1 DEF managedBlocks
    <3>4. Has(existing', Announcement(b, TRUE))
      BY <1>4, <3>2, <3>3
    <3>5. Announcement(b, TRUE)' = Announcement(b, TRUE)
      BY AnnouncementFacts
    <3> QED
      BY <3>4, <3>5 DEF Pending
  <2> QED
    BY <2>1 DEF CardOf
<1>6. ASSUME NEW b \in Blocks, FormatOf(b) PROVE FormatOf(b)'
  <2>1. Waits(b, "format")' <=> Waits(b, "format")
    BY DEF Waits, Wanted, serviceVars
  <2>2. JobAt(b, Mkfs)' <=> JobAt(b, Mkfs)
    BY <1>2 DEF JobAt
  <2>3. Pending(b, FALSE) => Pending(b, FALSE)'
    <3>1. Announcement(b, FALSE)' = Announcement(b, FALSE)
      BY AnnouncementFacts
    <3> QED
      BY <1>2, <3>1, IsGoroutine DEF Pending
  <2>4. MountComes(b) => MountComes(b)'
    BY <1>3
  <2> QED
    BY <1>6, <2>1, <2>2, <2>3, <2>4 DEF FormatOf
<1> QED
  BY <1>5, <1>6, CardsRest DEF CardsBut

(* processAddEvent offers a card to be mounted, unless it has to make a drive
   of it ... *)
LEMMA EnteredCard ==
  ASSUME TypedInv, NEW g \in Goroutines, EnterAdd(g), NEW b \in Blocks, Waits(b, "none"),
         at[g].event = Announcement(b, TRUE)
  PROVE  \/ b \in DOMAIN drives'
         \/ at'[g].point \in {"blockAdded", "formatCompleted"} /\ at'[g].event.path = b
<1> DEFINE s == Announcement(b, TRUE)
           dm == addInterface(s)
           d == DriveOf[b]
<1>1. /\ s.path = b /\ s.props.block /\ s.props.drive = d /\ s.props.fs = "vfat"
      /\ isFilesystem(s.props) /\ ~ isMounted(s.props) /\ isBlockDevice(s)
      /\ b \notin Drives
  <2>1. /\ s.path = b /\ s.props.drive = d /\ s.props.fs = "vfat"
        /\ isFilesystem(s.props) /\ ~ isMounted(s.props)
    BY DEF Announcement, Added, isFilesystem, isMounted
  <2>2. s.props.block = TRUE
    BY AnnouncementFacts
  <2>3. s.props.block
    BY <2>2, Zenon
  <2>4. b \notin Drives
    BY PathsAssumption
  <2> QED
    BY <2>1, <2>3, <2>4, Zenon DEF isBlockDevice
<1>2. at \in [Goroutines -> Where] /\ DrivesTyped /\ at[g].event = s
  BY DEF TypedInv, WatcherInv, WatcherTyped
<1>3. ASSUME NEW point, Continue(g, [point |-> point, event |-> s])
      PROVE  at'[g].point = point /\ at'[g].event.path = b
  BY <1>1, <1>2, <1>3 DEF Continue
<1>4. d \in Removable /\ \A c \in SystemBlocks : DriveOf[c] # d
  BY DEF Waits, Wanted
<1>5. s \in DeviceAdditions
  BY <1>2, WhereFacts DEF EnterAdd
<1> HIDE DEF s
<1>6. CASE AddDevice(g, s)
  <2>1. drives' = dm
    BY <1>6 DEF AddDevice
  <2>2. CASE d \notin DOMAIN drives
    BY <1>1, <2>1, <2>2 DEF addInterface, Put
  <2>3. CASE d \in DOMAIN drives
    <3>1. DrivesTyped'
      BY <1>2, <1>5, <2>1, DrivesGain
    <3>2. dm = [drives EXCEPT ![d].blockDevices = Put(@, b, s.props),
                              ![d].mounted = isMounted(s.props)]
      BY <1>1, <2>3 DEF addInterface
    <3>3. DOMAIN dm = DOMAIN drives /\ dm[d].blockDevices = Put(drives[d].blockDevices, b, s.props)
      <4>1. drives[d] = [blockDevices |-> drives[d].blockDevices,
                         driveInfo |-> drives[d].driveInfo, mounted |-> drives[d].mounted]
        BY <1>2, <2>3 DEF DrivesTyped, IsDrive
      <4> QED
        BY <2>3, <3>2, <4>1
    <3> HIDE DEF dm
    <3>4. d \in Drives /\ d \in DOMAIN dm
      BY <2>3, <3>3, ServiceAssumption
    <3>5. hasDriveInterface(dm[d]) /\ dm[d].driveInfo.removable
      <4>1. dm[d].driveInfo = driveProps(d)
        BY <2>1, <3>1, <3>4 DEF DrivesTyped, driveProps
      <4>2. (d \in Removable) = TRUE
        BY <1>4
      <4>3. dm[d].driveInfo = [removable |-> TRUE]
        BY <4>1, <4>2, Zenon DEF driveProps
      <4>4. dm[d].driveInfo.removable = TRUE /\ "removable" \in DOMAIN dm[d].driveInfo
        BY <4>3
      <4> QED
        BY <4>4, Zenon DEF hasDriveInterface
    <3>6. SystemHints(dm[d]) = {FALSE}
      <4>1. b \in DOMAIN dm[d].blockDevices
        BY <3>3 DEF Put
      <4>2. \A c \in DOMAIN dm[d].blockDevices : dm[d].blockDevices[c].system = FALSE
        <5>1. \A c \in DOMAIN dm[d].blockDevices :
                DriveOf[c] = d /\ dm[d].blockDevices[c].system = (c \in SystemBlocks)
          BY <2>1, <3>1, <3>4 DEF DrivesTyped
        <5>2. ASSUME NEW c \in DOMAIN dm[d].blockDevices PROVE (c \in SystemBlocks) = FALSE
          <6>1. c \notin SystemBlocks
            BY <1>4, <5>1
          <6> QED
            BY <6>1
        <5> QED
          BY <5>1, <5>2, Zenon
      <4>3. dm[d].blockDevices # EmptyMap
        BY <4>1 DEF EmptyMap
      <4> QED
        BY <4>1, <4>2, <4>3 DEF SystemHints
    <3>7. MountableOn(s, dm) = {"blockAdded"}
      BY <1>1, <3>4, <3>5, <3>6 DEF MountableOn
    <3>8. Offer(g, s, "blockAdded")
      <4>1. {"blockAdded", "blockError"} \subseteq Subscribed
        BY SubscribedAssumption DEF DaemonChannels
      <4> QED
        BY <1>1, <1>6, <3>7, <4>1 DEF AddDevice, dm
    <3>9. Continue(g, [point |-> "blockAdded", event |-> s])
      BY <3>8 DEF Offer
    <3> QED
      BY <1>3, <3>9
  <2> QED
    BY <2>2, <2>3
<1>7. CASE Continue(g, [point |-> "formatCompleted", event |-> s])
  BY <1>3, <1>7
<1> QED
  BY <1>2, <1>6, <1>7 DEF EnterAdd

(* ... and a new file system to be mounted again, if its end was reported. *)
LEMMA EnteredFilesystem ==
  ASSUME TypedInv, FormatsInv, NEW g \in Goroutines, Watch(g), EnterAdd(g),
         NEW b \in Blocks \ early',
         at[g].event = Announcement(b, FALSE)
  PROVE  at'[g].point \in {"blockAdded", "formatCompleted"} /\ at'[g].event.path = b
<1> DEFINE s == Announcement(b, FALSE)
<1>1. /\ s.path = b /\ ~ s.props.block /\ isFilesystem(s.props)
      /\ at \in [Goroutines -> Where] /\ at[g].event = s /\ at[g].point = "add"
  <2>1. s.path = b /\ isFilesystem(s.props) /\ s.props.block = FALSE
    BY DEF Announcement, Added, isFilesystem
  <2>2. ~ s.props.block
    BY <2>1, Zenon
  <2>3. at \in [Goroutines -> Where] /\ at[g].event = s /\ at[g].point = "add"
    BY DEF TypedInv, WatcherInv, WatcherTyped, EnterAdd
  <2> QED
    BY <2>1, <2>2, <2>3, Zenon
<1> HIDE DEF s
<1>2. b \in pendingMounts
  <2>1. EnteredByFilesystem(g) = {b}
    BY <1>1 DEF EnteredByFilesystem
  <2>2. b \in formatted
    BY <2>1 DEF Watch
  <2> QED
    BY <2>2 DEF FormatsInv
<1>3. Remounts(s)
  <2>1. b <= b
    BY BlocksAssumption
  <2> QED
    BY <1>1, <1>2, <2>1 DEF Remounts, SearchFinds
<1>4. Continue(g, [point |-> "formatCompleted", event |-> s])
  BY <1>1, <1>3 DEF EnterAdd
<1> QED
  BY <1>1, <1>4 DEF Continue

(* Adding a device leaves the other goroutine alone, and loses no entry. *)
LEMMA AddsDevice ==
  ASSUME at \in [Goroutines -> Where], NEW g \in Goroutines, NEW s, AddDevice(g, s)
  PROVE  /\ \A h \in Goroutines \ {g} : at'[h] = at[h]
         /\ DOMAIN drives \subseteq DOMAIN drives'
<1>1. \E channel : Offer(g, s, channel)
  BY DEF AddDevice
<1>2. \A h \in Goroutines \ {g} : at'[h] = at[h]
  BY <1>1 DEF Offer, Continue
<1>3. DOMAIN drives \subseteq DOMAIN addInterface(s)
  BY DEF addInterface, Put
<1> QED
  BY <1>2, <1>3 DEF AddDevice

(* One block device while processAddEvent starts on any. *)
LEMMA EnteredBlock ==
  ASSUME TypedInv, NEW g \in Goroutines, EnterAdd(g),
         UNCHANGED <<serviceVars, dispatcherVars, calls>>, NEW b \in Blocks
  PROVE  /\ CardOf(b) => CardOf(b)'
         /\ FormatOf(b) /\ (at[g].event = Announcement(b, FALSE) => MountComes(b)')
              => FormatOf(b)'
<1>1. /\ at[g].point = "add" /\ existing' = existing /\ Coming' = Coming
      /\ at \in [Goroutines -> Where]
  BY SameQueues DEF EnterAdd, TypedInv, WatcherInv, WatcherTyped
<1>2. /\ \A h \in Goroutines \ {g} : at'[h] = at[h]
      /\ DOMAIN drives \subseteq DOMAIN drives'
  <2>1. CASE AddDevice(g, at[g].event)
    BY <1>1, <2>1, AddsDevice
  <2>2. CASE UNCHANGED drives /\ \E where : Continue(g, where)
    BY <1>1, <2>2 DEF Continue
  <2> QED
    BY <2>1, <2>2 DEF EnterAdd
<1>3. UNCHANGED <<present, fs, asked, mounted, running>>
  BY DEF serviceVars
<1>4. MountComes(b) => MountComes(b)'
  <2>1. JobAt(b, MountFs) => JobAt(b, MountFs)'
    BY <1>3 DEF JobAt
  <2> QED
    BY <1>1, <1>2, <2>1, MountStays
<1>5. \A whole : Pending(b, whole) => Pending(b, whole)' \/ at[g].event = Announcement(b, whole)
  BY <1>1, <1>2, AnnouncementStays
<1>6. \A request : Waits(b, request)' <=> Waits(b, request)
  BY <1>3 DEF Waits, Wanted
<1>7. ASSUME CardOf(b) PROVE CardOf(b)'
  <2>1. SUFFICES ASSUME Waits(b, "none"), b \notin DOMAIN drives'
                 PROVE  (MountComes(b) \/ Pending(b, TRUE) \/ at["init"].point = "getManagedObjects")'
    BY <1>6 DEF CardOf
  <2>2. b \notin DOMAIN drives
    BY <1>2, <2>1
  <2>3. CASE at[g].event = Announcement(b, TRUE)
    <3>1. at'[g].point \in {"blockAdded", "formatCompleted"} /\ at'[g].event.path = b
      BY <2>1, <2>3, EnteredCard
    <3> QED
      BY <3>1 DEF MountComes
  <2>4. CASE at[g].event # Announcement(b, TRUE)
    <3>1. at["init"].point = "getManagedObjects" => at'["init"].point = "getManagedObjects"
      BY <1>1, <1>2, IsGoroutine
    <3> QED
      BY <1>4, <1>5, <1>7, <2>1, <2>2, <2>4, <3>1 DEF CardOf
  <2> QED
    BY <2>3, <2>4
<1>8. ASSUME FormatOf(b), at[g].event = Announcement(b, FALSE) => MountComes(b)'
      PROVE  FormatOf(b)'
  <2>1. JobAt(b, Mkfs)' <=> JobAt(b, Mkfs)
    BY <1>3 DEF JobAt
  <2> QED
    BY <1>4, <1>5, <1>6, <1>8, <2>1 DEF FormatOf
<1> QED
  BY <1>7, <1>8

(* The steps of the storage watcher between its channels. *)
LEMMA WatchCards ==
  ASSUME TypedInv, NEW X, CardsBut(X), NEW g \in Goroutines, Watch(g),
         UNCHANGED <<serviceVars, calls>>
  PROVE  CardsBut(X)' /\ (FormatsInv => FormatsInv')
<1>1. /\ UNCHANGED <<dispatcherVars, formatted>> /\ early \subseteq early'
      /\ UNCHANGED pendingMounts /\ Coming' = Coming
  <2>1. UNCHANGED dispatcherVars
    BY DEF Watch
  <2> QED
    BY <2>1, SameQueues DEF Watch, WatcherStep, EnterAdd, RemoveDevice, AddExisting
<1>2. IsABag(calls')
  BY DEF CardsBut
<1>3. CASE EnterAdd(g)
  <2>1. CardsBut(X)'
    <3>1. \A b \in Blocks : CardOf(b) => CardOf(b)'
      BY <1>1, <1>3, EnteredBlock
    <3> QED
      BY <1>2, <3>1, CardsRest
  <2>2. ASSUME FormatsInv PROVE FormatsInv'
    <3>1. ASSUME NEW b \in Blocks \ early' PROVE FormatOf(b)'
      <4>1. FormatOf(b)
        BY <1>1, <2>2, <3>1 DEF FormatsInv
      <4>2. at[g].event = Announcement(b, FALSE) => MountComes(b)'
        BY <1>3, <2>2, EnteredFilesystem DEF MountComes
      <4> QED
        BY <1>1, <1>3, <4>1, <4>2, EnteredBlock
    <3> QED
      BY <1>1, <2>2, <3>1 DEF FormatsInv
  <2> QED
    BY <2>1, <2>2
<1>4. CASE RemoveDevice \/ AddExisting
  <2>1. CardsBut(X)' /\ \A b \in Blocks : FormatOf(b) => FormatOf(b)'
    <3>1. CASE RemoveDevice
      <4>1. /\ at["loop"].point = "remove" /\ existing' = existing
            /\ \A h \in Goroutines \ {"loop"} : at'[h] = at[h]
        BY <3>1 DEF RemoveDevice, Continue, TypedInv, WatcherInv, WatcherTyped
      <4>2. DOMAIN drives \cap Blocks \subseteq DOMAIN drives'
        BY <3>1, PathsAssumption DEF RemoveDevice, Delete
      <4> QED
        BY <1>1, <1>2, <4>1, <4>2, CardsAside, IsGoroutine
    <3> QED
      BY <1>1, <1>4, <3>1, AddExistingCards
  <2> QED
    BY <1>1, <2>1 DEF FormatsInv
<1> QED
  BY <1>3, <1>4 DEF Watch, WatcherStep

(* A job manager's report is read: a format that is over is one to mount. *)
LEMMA PassReportCards ==
  ASSUME TypedInv, NEW X, CardsBut(X), PassReport, UNCHANGED <<serviceVars, calls>>
  PROVE  CardsBut(X)' /\ (FormatsInv => FormatsInv')
<1>1. /\ at["loop"].point = "select" /\ UNCHANGED <<existing, drives, early>>
      /\ \A h \in Goroutines \ {"loop"} : at'[h] = at[h]
  BY DEF PassReport, ReadReport, Selecting, Continue, TypedInv, WatcherInv, WatcherTyped
<1>2. Coming' = Coming
  BY SameQueues DEF PassReport
<1>3. CardsBut(X)' /\ \A b \in Blocks : FormatOf(b) => FormatOf(b)'
  BY <1>1, <1>2, CardsAside, IsGoroutine DEF CardsBut
<1>4. formatted \subseteq pendingMounts => formatted' \subseteq pendingMounts'
  BY DEF PassReport, ReadReport, Range
<1> QED
  BY <1>1, <1>3, <1>4 DEF FormatsInv

(* A step inside the udisks2 package. *)
LEMMA DeliverCards ==
  ASSUME AllDecodable, TypedInv, NEW X, CardsBut(X), Deliver
  PROVE  CardsBut(X)' /\ (FormatsInv => FormatsInv')
<1>1. ClientStep /\ UNCHANGED <<serviceVars, calls>> /\ IsABag(calls')
  BY DEF Deliver, ClientStep, daemonVars, CardsBut
<1>2. ASSUME CardsBut(X)' /\ \A b \in Blocks : FormatOf(b) => FormatOf(b)',
             UNCHANGED <<pendingMounts, clientHistory>>
      PROVE  CardsBut(X)' /\ (FormatsInv => FormatsInv')
  BY <1>2 DEF FormatsInv, clientHistory
<1>3. ASSUME NEW w \in Watches, Fetch(w) PROVE CardsBut(X)' /\ (FormatsInv => FormatsInv')
  <2>1. Coming' = Coming
    BY <1>3, FetchMoves DEF Fetch, TypedInv
  <2>2. UNCHANGED <<watcherVars, clientHistory>>
    BY <1>3 DEF Fetch
  <2>3. CardsBut(X)' /\ \A b \in Blocks : FormatOf(b) => FormatOf(b)'
    BY <1>1, <2>1, <2>2, CardsAside, IsGoroutine DEF watcherVars
  <2> QED
    BY <1>2, <2>2, <2>3 DEF watcherVars
<1>4. ASSUME NEW w \in Watches, DispatchJob(w) \/ DispatchDevice(w)
      PROVE  CardsBut(X)' /\ (FormatsInv => FormatsInv')
  <2>1. CardsBut(X)' /\ \A b \in Blocks : FormatOf(b) => FormatOf(b)'
    BY <1>1, <1>4, DispatchedCards
  <2>2. UNCHANGED <<pendingMounts, formatted, early>>
    BY <1>4 DEF DispatchJob, DispatchDevice, ReadAddition, ReadRemoval, watcherVars, clientHistory
  <2> QED
    BY <2>1, <2>2 DEF FormatsInv
<1>5. CASE AnswerManagedObjects
  <2>1. CardsBut(X)' /\ \A b \in Blocks : FormatOf(b) => FormatOf(b)'
    BY <1>1, <1>5, AnsweredCards DEF AnswerManagedObjects
  <2>2. UNCHANGED <<pendingMounts, clientHistory>>
    BY <1>5 DEF AnswerManagedObjects, ListExisting
  <2> QED
    BY <1>2, <2>1, <2>2
<1>6. CASE AnswerMountpoints
  <2>1. /\ at["loop"].point = "mountpointsForPath"
        /\ NextPath /\ UNCHANGED <<existing, pendingMounts, dispatcherVars, clientHistory>>
        /\ DOMAIN drives \cap Blocks \subseteq DOMAIN drives'
    BY <1>6 DEF AnswerMountpoints, MountFinished
  <2>2. \A h \in Goroutines \ {"loop"} : at'[h] = at[h]
    BY <2>1 DEF NextPath, Continue, TypedInv, WatcherInv, WatcherTyped
  <2>3. Coming' = Coming
    BY <2>1, SameQueues
  <2>4. CardsBut(X)' /\ \A b \in Blocks : FormatOf(b) => FormatOf(b)'
    BY <1>1, <2>1, <2>2, <2>3, CardsAside, IsGoroutine
  <2> QED
    BY <1>2, <2>1, <2>4
<1> QED
  BY <1>1, <1>3, <1>4, <1>5, <1>6, PassReportCards, WatchCards DEF ClientStep

-----------------------------------------------------------------------------
(* The cards and the daemon *)

(* The daemon reads that a card can be mounted, and calls UDisks2. *)
LEMMA CalledCards ==
  ASSUME TypedInv, NEW X, CardsBut(X), UNCHANGED <<serviceVars, dispatcherVars, existing>>,
         NEW g \in Goroutines, at[g].point \in {"blockAdded", "formatCompleted"},
         Mount(at[g].event.path),
         \A h \in Goroutines \ {g} : at'[h] = at[h],
         DOMAIN drives \subseteq DOMAIN drives'
  PROVE  CardsBut(X)' /\ \A b \in Blocks : FormatOf(b) => FormatOf(b)'
<1>1. /\ IsABag(calls') /\ BagToSet(calls) \subseteq BagToSet(calls')
      /\ ANewCall(at[g].event.path) \in BagToSet(calls')
  BY CallMade DEF CardsBut
<1>2. Coming' = Coming /\ UNCHANGED <<present, fs, asked, mounted, running>>
  BY SameQueues DEF serviceVars
<1>3. \A b : ANewCall(b)' = ANewCall(b)
  BY DEF ANewCall
<1>4. ASSUME NEW b \in Blocks
      PROVE  (CardOf(b) => CardOf(b)') /\ (FormatOf(b) => FormatOf(b)')
  <2>1. MountComes(b) => MountComes(b)'
    <3>1. JobAt(b, MountFs) => JobAt(b, MountFs)'
      BY <1>2 DEF JobAt
    <3>2. CASE at[g].event.path = b
      BY <1>1, <1>3, <3>2 DEF MountComes
    <3>3. CASE at[g].event.path # b
      BY <1>1, <3>1, <3>3, MountStays
    <3> QED
      BY <3>2, <3>3
  <2>2. \A whole : Pending(b, whole) => Pending(b, whole)'
    BY <1>2, AnnouncementStays
  <2>3. at["init"].point = "getManagedObjects" => at'["init"].point = "getManagedObjects"
    BY IsGoroutine
  <2> QED
    BY <1>2, <2>1, <2>2, <2>3, CardsKept
<1> QED
  BY <1>1, <1>4, CardsRest

(* A goroutine of main.go reads a channel, or goes on. *)
LEMMA ListenCards ==
  ASSUME TypedInv, NEW X, CardsBut(X), NEW l \in Listeners, Listen(l)
  PROVE  CardsBut(X)' /\ (FormatsInv => FormatsInv')
<1> DEFINE Kept == CardsBut(X)' /\ \A b \in Blocks : FormatOf(b) => FormatOf(b)'
<1>1. at \in [Goroutines -> Where] /\ IsABag(calls)
  BY DEF TypedInv, WatcherInv, WatcherTyped, CardsBut
<1>2. ASSUME NEW g \in Goroutines, ListenBlockAdded(g) PROVE Kept
  <2>1. /\ at[g].point = "blockAdded" /\ Mount(at[g].event.path)
        /\ UNCHANGED <<serviceVars, dispatcherVars, existing, drives>>
        /\ \E channel : Offer(g, at[g].event, channel)
    BY <1>2 DEF ListenBlockAdded, SendBlock, Quietly
  <2>2. \A h \in Goroutines \ {g} : at'[h] = at[h]
    BY <1>1, <2>1 DEF Offer, Continue
  <2> QED
    BY <2>1, <2>2, CalledCards
<1>3. ASSUME NEW g \in Goroutines, ListenFormatCompleted(g) PROVE Kept
  <2>1. /\ at[g].point = "formatCompleted" /\ Mount(at[g].event.path)
        /\ UNCHANGED <<serviceVars, dispatcherVars, existing>>
        /\ AddDevice(g, at[g].event)
    BY <1>3 DEF ListenFormatCompleted, SendFormatCompleted, Quietly
  <2> QED
    BY <1>1, <2>1, AddsDevice, CalledCards
<1>4. ASSUME UNCHANGED <<serviceVars, dispatcherVars, existing, drives, calls>>,
             NEW g \in Goroutines, \A h \in Goroutines \ {g} : at'[h] = at[h],
             at[g].point \in {"blockError", "mountRemoved", "umountCompleted"} \/ UNCHANGED at
      PROVE  Kept
  <2>1. Coming' = Coming
    BY <1>4, SameQueues
  <2> QED
    BY <1>1, <1>4, <2>1, CardsAside
<1>5. ASSUME NEW g \in Goroutines, ListenBlockError(g) PROVE Kept
  <2>1. /\ at[g].point = "blockError"
        /\ UNCHANGED <<serviceVars, dispatcherVars, existing, drives, calls>>
        /\ \E channel : Offer(g, at[g].event, channel)
    BY <1>5 DEF ListenBlockError, SendBlock, Quietly
  <2>2. \A h \in Goroutines \ {g} : at'[h] = at[h]
    BY <1>1, <2>1 DEF Offer, Continue
  <2> QED
    BY <1>4, <2>1, <2>2
<1>6. ASSUME ListenMountRemoved \/ ListenUmountCompleted PROVE Kept
  <2>1. /\ at["loop"].point \in {"mountRemoved", "umountCompleted"}
        /\ UNCHANGED <<serviceVars, dispatcherVars, existing, drives, calls>>
        /\ \E where : Continue("loop", where)
    BY <1>6 DEF ListenMountRemoved, ListenUmountCompleted, SendMountRemoved, SendUmountCompleted,
                NextPath, Quietly
  <2>2. \A h \in Goroutines \ {"loop"} : at'[h] = at[h]
    BY <1>1, <2>1 DEF Continue
  <2> QED
    BY <1>4, <2>1, <2>2, IsGoroutine
<1>7. ASSUME NEW e, ListenMountCompleted(e) PROVE Kept
  BY <1>4, <1>7, IsGoroutine DEF ListenMountCompleted, SendMountCompleted, Quietly
<1>8. ASSUME NEW c, ReadMountError(c) PROVE Kept
  <2>1. UNCHANGED <<serviceVars, clientVars>>
    BY <1>8 DEF ReadMountError
  <2>2. /\ IsABag(calls')
        /\ \A b : ANewCall(b) \in BagToSet(calls) => ANewCall(b) \in BagToSet(calls')
    <3>1. \A b : ANewCall(b) # c
      BY <1>8 DEF ReadMountError, ANewCall
    <3>2. (\E state : Move(c, state)) \/ End(c)
      BY <1>8 DEF ReadMountError
    <3> QED
      BY <1>1, <3>1, <3>2, CallAnswered
  <2>3. Coming' = Coming
    BY <2>1, SameQueues DEF clientVars, packageVars
  <2> QED
    BY <2>1, <2>2, <2>3, CardsAside, IsGoroutine DEF clientVars, packageVars, watcherVars
<1>9. ASSUME Notified(l) PROVE Kept
  BY <1>4, <1>9, IsGoroutine DEF Notified, clientVars, packageVars, watcherVars
<1>10. Kept
  BY <1>2, <1>3, <1>5, <1>6, <1>7, <1>8, <1>9 DEF Listen
<1>11. UNCHANGED <<pendingMounts, formatted, early>>
  BY DEF Listen, ListenBlockAdded, ListenBlockError, ListenMountRemoved, ListenMountCompleted,
         ListenUmountCompleted, ReadMountError, ListenFormatCompleted, Notified, SendBlock,
         SendMountRemoved, SendMountCompleted, SendUmountCompleted, SendFormatCompleted,
         Quietly, clientVars, packageVars, watcherVars, clientHistory
<1> QED
  BY <1>10, <1>11 DEF FormatsInv

(* The process is gone: the next one asks for all that exists. *)
LEMMA RestartCards ==
  ASSUME NEW X, CardsBut(X), Restart
  PROVE  CardsBut(X)'
<1>1. UNCHANGED serviceVars /\ calls' = EmptyBag
  BY DEF Restart
<1>2. at'["init"].point = "getManagedObjects"
  BY DEF Restart, ClientRestarts, Goroutines
<1> QED
  BY <1>1, <1>2, EmptyBagFacts, CardsRest DEF CardOf

(* The check of the free space, and a step of nobody. *)
LEMMA AsideCards ==
  ASSUME NEW X, CardsBut(X), CheckFreeSpace \/ UNCHANGED vars
  PROVE  CardsBut(X)' /\ \A b \in Blocks : FormatOf(b) => FormatOf(b)'
<1>1. UNCHANGED <<serviceVars, dispatcherVars, at, existing, drives, calls>>
  BY DEF CheckFreeSpace, vars, daemonVars, clientVars, packageVars, watcherVars
<1>2. Coming' = Coming
  BY <1>1, SameQueues
<1> QED
  BY <1>1, <1>2, CardsAside, IsGoroutine DEF CardsBut

(* Nothing is wanted of UDisks2 at the start, and what exists has yet to be
   asked for. *)
LEMMA InitCards ==
  ASSUME Init
  PROVE  unlisted \subseteq present /\ CardsBut(unlisted) /\ FormatsInv
<1>1. /\ mounted \subseteq present /\ DOMAIN running = {} /\ unprobed = {}
      /\ asked = [b \in Blocks |-> "none"]
      /\ calls = EmptyBag /\ formatted = {} /\ unlisted = {}
      /\ at["init"].point = "getManagedObjects"
  BY DEF Init, ServiceInit, ClientInit, WatcherInit, DaemonInit, EmptyMap, Goroutines
<1>2. RequestsInv
  BY <1>1 DEF RequestsInv
<1>3. \A b \in Blocks : CardOf(b) /\ FormatOf(b)
  BY <1>1 DEF CardOf, FormatOf, Waits
<1> QED
  BY <1>1, <1>2, <1>3, EmptyBagFacts DEF CardsBut, FormatsInv

(* The cards through every step in which no query fails; the formatted ones
   unless the process is restarted, which forgets what it has to mount
   again. *)
LEMMA StepCards ==
  ASSUME AllDecodable, TypedInv, NEW X, CardsBut(X), Step \/ UNCHANGED vars
  PROVE  CardsBut(X)' /\ (FormatsInv /\ ~ crashed' => FormatsInv')
<1>1. ASSUME CardsBut(X)' /\ \A b \in Blocks : FormatOf(b) => FormatOf(b)',
             UNCHANGED <<pendingMounts, clientHistory>>
      PROVE  CardsBut(X)' /\ (FormatsInv /\ ~ crashed' => FormatsInv')
  BY <1>1 DEF FormatsInv, clientHistory
<1>2. CASE ServiceStep \/ JobStep
  <2>1. UNCHANGED <<pendingMounts, clientHistory>>
    BY <1>2 DEF ServiceStep, JobStep, ServiceFinishesJob, Rests, watcherVars
  <2> QED
    BY <1>1, <1>2, <2>1, ServiceStepCards, JobStepCards
<1>3. ASSUME NEW c \in BagToSet(calls), MountAccepted(c) \/ MountRefused(c) \/ ArgsOfNoReply(c)
      PROVE  CardsBut(X)' /\ (FormatsInv /\ ~ crashed' => FormatsInv')
  <2>1. UNCHANGED <<pendingMounts, clientHistory>>
    BY <1>3 DEF MountAccepted, MountRefused, ArgsOfNoReply, Rests, watcherVars
  <2> QED
    BY <1>1, <1>3, <2>1, CallStepCards
<1>4. CASE Restart
  BY <1>4, RestartCards DEF Restart
<1>5. CASE CheckFreeSpace \/ UNCHANGED vars
  <2>1. UNCHANGED <<pendingMounts, clientHistory>>
    BY <1>5 DEF CheckFreeSpace, vars, clientVars, packageVars, watcherVars
  <2> QED
    BY <1>1, <1>5, <2>1, AsideCards
<1>6. CASE Deliver
  BY <1>6, DeliverCards
<1>7. ASSUME NEW l \in Listeners, Listen(l)
      PROVE  CardsBut(X)' /\ (FormatsInv /\ ~ crashed' => FormatsInv')
  BY <1>7, ListenCards
<1> QED
  BY <1>2, <1>3, <1>4, <1>5, <1>6, <1>7
    DEF Step, CallStep, Crash, RacingMapAccess, NoManagedObjects

(* A query that fails tells of no card: after GetManagedObjects every card
   that is there is excepted. *)
LEMMA UnansweredCards ==
  ASSUME TypedInv, unlisted \subseteq present, CardsBut(unlisted), Unanswered
  PROVE  /\ unlisted' \subseteq present' /\ CardsBut(unlisted)'
         /\ FormatsInv => FormatsInv'
<1>1. UNCHANGED <<serviceVars, present, fs, asked, mounted, running, calls>> /\ IsABag(calls')
  BY DEF Unanswered, daemonVars, serviceVars, CardsBut
<1>2. CASE RefuseMountpoints /\ UNCHANGED unlisted
  <2>1. PICK X : X = unlisted
    OBVIOUS
  <2>2. /\ at["loop"].point = "mountpointsForPath"
        /\ NextPath /\ UNCHANGED <<existing, pendingMounts, dispatcherVars, clientHistory>>
        /\ DOMAIN drives \cap Blocks \subseteq DOMAIN drives'
    BY <1>2 DEF RefuseMountpoints, MountFinished
  <2>3. \A h \in Goroutines \ {"loop"} : at'[h] = at[h]
    BY <2>2 DEF NextPath, Continue, TypedInv, WatcherInv, WatcherTyped
  <2>4. Coming' = Coming
    BY <2>2, SameQueues
  <2>5. CardsBut(X)' /\ \A b \in Blocks : FormatOf(b) => FormatOf(b)'
    BY <1>1, <2>1, <2>2, <2>3, <2>4, CardsAside, IsGoroutine
  <2>6. FormatsInv => FormatsInv'
    BY <2>2, <2>5 DEF FormatsInv, clientHistory
  <2> QED
    BY <1>1, <1>2, <2>1, <2>5, <2>6 DEF CardsBut
<1>3. CASE RefuseManagedObjects /\ unlisted' = unlisted \cup (Blocks \cap present)
  <2>1. /\ at["init"].point = "getManagedObjects"
        /\ UNCHANGED <<drives, pendingMounts, dispatcherVars, clientHistory>>
    BY <1>3 DEF RefuseManagedObjects, ListExisting
  <2>2. \A h \in Goroutines \ {"init"} : at'[h] = at[h]
    BY <1>3 DEF RefuseManagedObjects, ListExisting, Continue, TypedInv, WatcherInv, WatcherTyped
  <2>3. ASSUME NEW b \in Blocks \ unlisted' PROVE CardOf(b)'
    BY <1>1, <1>3 DEF CardOf, Waits, Wanted
  <2>4. ASSUME NEW b \in Blocks, FormatOf(b) PROVE FormatOf(b)'
    <3>1. Waits(b, "format")' <=> Waits(b, "format")
      BY <1>1 DEF Waits, Wanted
    <3>2. \A o : JobAt(b, o)' <=> JobAt(b, o)
      BY <1>1 DEF JobAt
    <3>3. Pending(b, FALSE) => Pending(b, FALSE)'
      <4>1. Announcement(b, FALSE)' = Announcement(b, FALSE) /\ Coming' = Coming
        BY <2>1, AnnouncementFacts, SameQueues
      <4> QED
        BY <2>1, <2>2, <4>1, IsGoroutine DEF Pending
    <3>4. MountComes(b) => MountComes(b)'
      BY <1>1, <2>1, <2>2, <3>2, MountStays, IsGoroutine
    <3> QED
      BY <2>4, <3>1, <3>2, <3>3, <3>4 DEF FormatOf
  <2>5. RequestsInv'
    BY <1>1 DEF CardsBut, RequestsInv, serviceVars
  <2>6. FormatsInv => FormatsInv'
    BY <2>1, <2>4 DEF FormatsInv, clientHistory
  <2> QED
    BY <1>1, <1>3, <2>3, <2>5, <2>6 DEF CardsBut
<1> QED
  BY <1>2, <1>3 DEF Unanswered

(* The cards that are not excepted, through every step. *)
LEMMA NextCards ==
  ASSUME AllDecodable, TypedInv, unlisted \subseteq present, CardsBut(unlisted), [Next]_vars
  PROVE  /\ unlisted' \subseteq present' /\ CardsBut(unlisted)'
         /\ FormatsInv /\ ~ crashed' => FormatsInv'
<1>1. CASE Step /\ Remember
  <2>1. PICK X : X = unlisted
    OBVIOUS
  <2>2. CardsBut(X)' /\ (FormatsInv /\ ~ crashed' => FormatsInv')
    BY <1>1, <2>1, StepCards
  <2>3. unlisted' = X \cap present'
    BY <1>1, <2>1 DEF Remember
  <2>4. ASSUME NEW b \in Blocks, b \notin present' PROVE CardOf(b)'
    BY <2>4 DEF CardOf, Waits, Wanted
  <2> QED
    BY <2>2, <2>3, <2>4 DEF CardsBut
<1>2. CASE UNCHANGED vars
  <2>1. PICK X : X = unlisted
    OBVIOUS
  <2>2. CardsBut(X)' /\ (FormatsInv /\ ~ crashed' => FormatsInv')
    BY <1>2, <2>1, StepCards
  <2>3. UNCHANGED <<unlisted, present>>
    BY <1>2 DEF vars, untold, serviceVars
  <2> QED
    BY <2>1, <2>2, <2>3 DEF CardsBut
<1> QED
  BY <1>1, <1>2, UnansweredCards DEF Next

(* Nothing is on its way when the daemon and UDisks2 are at rest. *)
LEMMA QuietCards ==
  ASSUME Quiet, NEW b \in Blocks
  PROVE  /\ ~ MountComes(b) /\ \A o : ~ JobAt(b, o)
         /\ \A whole : ~ Pending(b, whole)
         /\ at["init"].point # "getManagedObjects"
<1>1. Coming = <<>> /\ existing = <<>> /\ running = EmptyMap /\ calls = EmptyBag
  <2>1. held["additions"] = <<>> /\ watch["additions"] = <<>>
    BY DEF Quiet, ClientQuiet, Watches
  <2> QED
    BY <2>1 DEF Quiet, ClientQuiet, Coming
<1>2. \A g \in Goroutines : at[g].point \in {"select", "existing"}
  BY DEF Quiet, ClientQuiet, Rest
<1>3. \A o : ~ JobAt(b, o)
  BY <1>1 DEF JobAt, EmptyMap
<1>4. \A e : ~ Has(Coming, e) /\ ~ Has(existing, e)
  BY <1>1 DEF Has
<1> QED
  BY <1>1, <1>2, <1>3, <1>4, EmptyBagFacts, IsGoroutine DEF MountComes, Pending

(* A removable card with a supported file system, of a drive without system
   devices, ends up mounted unless somebody unmounts or formats it: whether it
   was there before the daemon (udisks2.go:389-412), was put in while the daemon
   looked around or later (udisks2.go:459-504), and also when the process is
   restarted, if every signal can be decoded.  It is not claimed of a card that
   has an entry of its own among the drives (udisks2.go:684-687), nor of one
   that was there when GetManagedObjects failed (udisks2.go:419-427). *)
THEOREM CardsMounted ==
  ASSUME AllDecodable
  PROVE  Spec => []CardsAreMounted
<1> DEFINE Inv == TypedInv /\ unlisted \subseteq present /\ CardsBut(unlisted)
<1>1. Init => Inv
  BY InitTyped, InitCards
<1>2. Inv /\ [Next]_vars => Inv'
  BY NextTyped, NextCards
<1>3. Inv => CardsAreMounted
  <2> SUFFICES ASSUME CardsBut(unlisted), Quiet, NEW b \in Blocks \ unlisted,
                      Wanted(b), asked[b] = "none", b \notin DOMAIN drives
               PROVE  b \in mounted
    BY DEF CardsAreMounted
  <2>1. CardOf(b)
    BY DEF CardsBut
  <2> QED
    BY <2>1, QuietCards DEF CardOf, Waits
<1> QED
  BY <1>1, <1>2, <1>3, PTL DEF Spec

(* A card that somebody formatted is mounted again (udisks2.go:328-332,
   459-463), unless the process is restarted in between or the daemon comes to
   the new file system before it reads the end of the job that made it: a card
   is looked for in pendingMounts just once. *)
THEOREM FormatsRemounted ==
  ASSUME AllDecodable
  PROVE  Spec => []RemountedAfterFormat
<1> DEFINE Inv == /\ TypedInv /\ unlisted \subseteq present /\ CardsBut(unlisted)
                  /\ ~ crashed => FormatsInv
<1>1. Init => Inv
  BY InitTyped, InitCards
<1>2. Inv /\ [Next]_vars => Inv'
  <2> SUFFICES ASSUME Inv, [Next]_vars PROVE Inv'
    OBVIOUS
  <2>1. TypedInv' /\ unlisted' \subseteq present' /\ CardsBut(unlisted)'
    BY NextTyped, NextCards
  <2>2. ASSUME ~ crashed' PROVE FormatsInv'
    BY <2>2, NotYetCrashed, NextCards
  <2> QED
    BY <2>1, <2>2
<1>3. Inv => RemountedAfterFormat
  <2> SUFFICES ASSUME FormatsInv, Quiet, NEW b \in Blocks \ early,
                      Wanted(b), asked[b] = "format"
               PROVE  b \in mounted
    BY DEF RemountedAfterFormat
  <2>1. FormatOf(b)
    BY DEF FormatsInv
  <2> QED
    BY <2>1, QuietCards DEF FormatOf, Waits
<1> QED
  BY <1>1, <1>2, <1>3, PTL DEF Spec

-----------------------------------------------------------------------------
(* Mounts, from the Mount method to the mountwatch.  UDisks2 is only asked to
   mount a card that one of the drives lists, unless the card is one that
   MountedCardsAreWatched excepts; what the storage watcher takes as mounted
   is then sent to the daemon once for each of the drives that list it. *)

Excused(b) == b \in forgotten \cup DOMAIN drives
Listed(b) == b \in Held(drives) \/ Excused(b)

(* The daemon is about to be told of b, with nothing more to be done before. *)
Ordering(b) ==
  \E g \in Goroutines :
    /\ at[g].point \in {"blockAdded", "formatCompleted"} /\ at[g].event.path = b
    /\ at[g].point = "blockAdded" \/ at[g].event.props.block = FALSE

(* Somebody knows of a mount of b, still to come, under way or finished. *)
MountKnown(b) ==
  \/ Ordering(b)
  \/ ANewCall(b) \in BagToSet(calls)
  \/ \E p \in JobPaths : JobIs(p, MountFs, b)
  \/ Reporting(MountFs, b)
  \/ LoopAt("mountpointsForPath", b)

ListedInv == \A b \in Blocks : MountKnown(b) => Listed(b)

Arriving(b) == \E e \in BagToSet(arriving) : e.mountpoint = MountpointOf[b]

(* A mount that the storage watcher knows has reached the mountwatch, or has a
   goroutine that waits for it. *)
SeenOf(b) ==
  b \in DOMAIN mountpoints => Watched(MountpointOf[b]) \/ Arriving(b) \/ Excused(b)

(* What is mounted is mounted in its place, and what the loop announces as
   gone is not there any more. *)
PlacesInv ==
  /\ \A b \in DOMAIN mountpoints : mountpoints[b] = MountpointOf[b]
  /\ at["loop"].point = "mountRemoved" =>
       /\ at["loop"].path \notin DOMAIN mountpoints
       /\ at["loop"].mountpoint = MountpointOf[at["loop"].path]

SeenInv == IsABag(arriving) /\ PlacesInv /\ \A b \in Blocks : SeenOf(b)

-----------------------------------------------------------------------------
(* What the drives list *)

(* An announced block device is listed, or has an entry of its own; none is
   lost by it. *)
LEMMA DeviceListed ==
  ASSUME DrivesTyped, NEW s \in DeviceAdditions, drives' = addInterface(s)
  PROVE  /\ isBlockDevice(s) => s.path \in Held(drives') \cup DOMAIN drives'
         /\ s.path \in Blocks => Held(drives) \subseteq Held(drives')
<1>1. CASE /\ s.path \in Blocks /\ s.props.block /\ s.props.drive \in DOMAIN drives
           /\ drives' = [drives EXCEPT ![s.props.drive].blockDevices = Put(@, s.path, s.props),
                                       ![s.props.drive].mounted = isMounted(s.props)]
  <2> DEFINE d == s.props.drive
             r == [drives[d] EXCEPT !.blockDevices = Put(@, s.path, s.props),
                                    !.mounted = isMounted(s.props)]
  <2>1. /\ DOMAIN drives' = DOMAIN drives /\ \A c \in DOMAIN drives \ {d} : drives'[c] = drives[c]
        /\ DOMAIN drives'[d].blockDevices = DOMAIN drives[d].blockDevices \cup {s.path}
    <3>1. drives[d] \in [blockDevices : {drives[d].blockDevices},
                         driveInfo : DriveProps \cup BlockProps, mounted : BOOLEAN]
      BY <1>1 DEF DrivesTyped, IsDrive
    <3>2. r.blockDevices = Put(drives[d].blockDevices, s.path, s.props)
      BY <3>1
    <3>3. DOMAIN r.blockDevices = DOMAIN drives[d].blockDevices \cup {s.path}
      BY <3>2 DEF Put
    <3>4. /\ DOMAIN drives' = DOMAIN drives /\ drives'[d] = r
          /\ \A c \in DOMAIN drives \ {d} : drives'[c] = drives[c]
      BY <1>1
    <3> HIDE DEF r
    <3> QED
      BY <3>3, <3>4
  <2>2. d \in DOMAIN drives
    BY <1>1
  <2> HIDE DEF d, r
  <2> QED
    BY <2>1, <2>2 DEF Held
<1>2. CASE s.path \in Blocks /\ drives' = Put(drives, s.path, newDrive(s))
  <2>1. /\ DOMAIN drives' = DOMAIN drives \cup {s.path}
        /\ \A c \in DOMAIN drives \ {s.path} : drives'[c] = drives[c]
    BY <1>2 DEF Put
  <2>2. s.path \in DOMAIN drives => DOMAIN drives[s.path].blockDevices = {}
    BY <1>2 DEF DrivesTyped
  <2> QED
    BY <2>1, <2>2 DEF Held
<1>3. CASE drives' = drives /\ ~ isBlockDevice(s)
  BY <1>3
<1>4. s.path \in Drives => s.path \notin Blocks
  BY PathsAssumption
<1> QED
  BY <1>1, <1>2, <1>3, <1>4 DEF addInterface, isBlockDevice

(* What is listed or excused stays so, as long as the process lives. *)
LEMMA ListedStays ==
  ASSUME TypedInv, [Next]_vars, ~ Restart, NEW b \in Blocks
  PROVE  (Excused(b) => Excused(b)') /\ (Listed(b) => Listed(b)')
<1>1. DrivesTyped /\ at \in [Goroutines -> Where]
  BY DEF TypedInv, WatcherInv, WatcherTyped
<1>2. ASSUME DOMAIN drives \cap Blocks \subseteq DOMAIN drives', forgotten \subseteq forgotten',
             Held(drives) \subseteq Held(drives') \cup forgotten'
      PROVE  (Excused(b) => Excused(b)') /\ (Listed(b) => Listed(b)')
  <2>1. Held(drives)' = Held(drives')
    BY DEF Held
  <2> QED
    BY <1>2, <2>1 DEF Excused, Listed
<1>3. CASE UNCHANGED <<drives, forgotten>>
  BY <1>2, <1>3
<1>4. ASSUME NEW g \in Goroutines, Watch(g)
      PROVE  (Excused(b) => Excused(b)') /\ (Listed(b) => Listed(b)')
  <2>1. DOMAIN drives \cap Blocks \subseteq DOMAIN drives'
    <3>1. CASE EnterAdd(g)
      BY <1>1, <3>1, AddsDevice DEF EnterAdd
    <3>2. CASE RemoveDevice
      BY <3>2, PathsAssumption DEF RemoveDevice, Delete
    <3>3. CASE AddExisting
      BY <3>3 DEF AddExisting
    <3> QED
      BY <1>4, <3>1, <3>2, <3>3 DEF Watch, WatcherStep
  <2>2. forgotten \cup (Held(drives) \ Held(drives')) \subseteq forgotten'
    BY <1>4 DEF Watch
  <2> QED
    BY <1>2, <2>1, <2>2
<1>5. CASE AnswerMountpoints
  <2>1. /\ DOMAIN drives' = DOMAIN drives /\ UNCHANGED forgotten
        /\ \A d \in DOMAIN drives : drives'[d].blockDevices = drives[d].blockDevices
    <3>1. \A d \in DOMAIN drives :
            drives[d] \in [blockDevices : {drives[d].blockDevices},
                           driveInfo : DriveProps \cup BlockProps, mounted : BOOLEAN]
      BY <1>1 DEF DrivesTyped, IsDrive
    <3> QED
      BY <1>5, <3>1 DEF AnswerMountpoints, MountFinished, clientHistory
  <2>2. Held(drives') = Held(drives)
    BY <2>1 DEF Held
  <2> QED
    BY <1>2, <2>1, <2>2
<1>6. ASSUME NEW g \in Goroutines, ListenFormatCompleted(g)
      PROVE  (Excused(b) => Excused(b)') /\ (Listed(b) => Listed(b)')
  <2> DEFINE s == at[g].event
  <2>1. /\ s \in BlockAdditions /\ AddDevice(g, s) /\ UNCHANGED forgotten
    BY <1>1, <1>6, WhereFacts
      DEF ListenFormatCompleted, SendFormatCompleted, Sending, Quietly, clientHistory
  <2> HIDE DEF s
  <2>2. s \in DeviceAdditions /\ s.path \in Blocks
    BY <2>1 DEF BlockAdditions, DeviceAdditions
  <2>3. DOMAIN drives \subseteq DOMAIN drives' /\ Held(drives) \subseteq Held(drives')
    BY <1>1, <2>1, <2>2, AddsDevice, DeviceListed DEF AddDevice
  <2> QED
    BY <1>2, <2>1, <2>3
<1>7. CASE ServiceStep \/ JobStep \/ CallStep \/ CheckFreeSpace \/ UNCHANGED vars
  <2>1. UNCHANGED <<drives, forgotten>>
    BY <1>7 DEF ServiceStep, JobStep, ServiceFinishesJob, CallStep, MountAccepted, MountRefused,
                ArgsOfNoReply, Crash, CheckFreeSpace, Rests, vars, clientVars, packageVars,
                watcherVars, clientHistory
  <2> QED
    BY <1>3, <2>1
<1>8. CASE Deliver
  <2>1. ASSUME \/ \E w \in Watches : Fetch(w) \/ DispatchJob(w) \/ DispatchDevice(w)
               \/ PassReport \/ AnswerManagedObjects
        PROVE  UNCHANGED <<drives, forgotten>>
    BY <2>1 DEF Fetch, DispatchJob, DispatchDevice, ReadAddition, ReadRemoval, PassReport,
                ReadReport, AnswerManagedObjects, ListExisting, watcherVars, clientHistory
  <2> QED
    BY <1>3, <1>4, <1>5, <1>8, <2>1 DEF Deliver, ClientStep
<1>9. ASSUME NEW l \in Listeners, Listen(l)
      PROVE  (Excused(b) => Excused(b)') /\ (Listed(b) => Listed(b)')
  <2>1. UNCHANGED <<drives, forgotten>> \/ \E g \in Goroutines : ListenFormatCompleted(g)
    BY <1>9 DEF Listen, ListenBlockAdded, ListenBlockError, ListenMountRemoved,
                ListenMountCompleted, ListenUmountCompleted, ReadMountError, Notified, SendBlock,
                SendMountRemoved, SendMountCompleted, SendUmountCompleted, Quietly, clientVars,
                packageVars, watcherVars, clientHistory
  <2> QED
    BY <1>3, <1>6, <2>1
<1>10. CASE Unanswered
  <2>1. UNCHANGED <<drives, forgotten>>
    BY <1>10 DEF Unanswered, RefuseManagedObjects, RefuseMountpoints, ListExisting, MountFinished,
                 clientHistory
  <2> QED
    BY <1>3, <2>1
<1> QED
  BY <1>7, <1>8, <1>9, <1>10 DEF Next, Step, RacingMapAccess, NoManagedObjects

-----------------------------------------------------------------------------
(* Who knows of a mount.  First the storage watcher and its announcements. *)

(* Adding a device announces none but the block device itself. *)
LEMMA AddsOrder ==
  ASSUME at \in [Goroutines -> Where], NEW g \in Goroutines, NEW s, AddDevice(g, s), NEW b
  PROVE  /\ Ordering(b)' => Ordering(b) \/ (isBlockDevice(s) /\ s.path = b)
         /\ at'[g].point # "mountpointsForPath"
<1>1. PICK channel \in Channels : Offer(g, s, channel) /\ (channel # "none" => isBlockDevice(s))
  <2>1. \A dm : MountableOn(s, dm) \subseteq Channels
    BY DEF MountableOn, Channels
  <2> QED
    BY <2>1 DEF AddDevice, Channels
<1>2. /\ \A h \in Goroutines \ {g} : at'[h] = at[h]
      /\ \/ channel # "none" /\ at'[g] = [point |-> channel, event |-> s]
         \/ at'[g] = [point |-> "blockDevice", added |-> TRUE]
         \/ at'[g] = Rest(g)
  BY <1>1 DEF Offer, Continue
<1>3. at'[g].point # "formatCompleted" /\ at'[g].point # "mountpointsForPath"
  BY <1>2 DEF Channels, Rest
<1>4. at'[g].point = "blockAdded" => at'[g].event = s /\ isBlockDevice(s)
  BY <1>1, <1>2 DEF Rest
<1> QED
  BY <1>2, <1>3, <1>4 DEF Ordering

(* What is known of b after a step that announces nothing and asks nothing. *)
LEMMA KnownBefore ==
  ASSUME NEW b \in Blocks, NEW g \in Goroutines, \A h \in Goroutines \ {g} : at'[h] = at[h],
         \/ UNCHANGED at[g]
         \/ at'[g].point \notin {"blockAdded", "formatCompleted", "mountpointsForPath"},
         ANewCall(b) \in BagToSet(calls') => MountKnown(b),
         \A p \in JobPaths : JobIs(p, MountFs, b)' => MountKnown(b),
         Reporting(MountFs, b)' => MountKnown(b)
  PROVE  MountKnown(b)' => MountKnown(b)
<1>1. Ordering(b)' => Ordering(b)
  BY DEF Ordering
<1>2. LoopAt("mountpointsForPath", b)' => LoopAt("mountpointsForPath", b)
  BY IsGoroutine DEF LoopAt
<1>3. ANewCall(b)' = ANewCall(b)
  BY DEF ANewCall
<1> QED
  BY <1>1, <1>2, <1>3 DEF MountKnown

(* The jobs are as known as they were if no mount job has been announced. *)
LEMMA JobsBefore ==
  ASSUME NEW b, UNCHANGED jobManagerVars,
         \A p \in JobPaths :
           Has(Coming', JobAddition(p, MountFs, b)) => Has(Coming, JobAddition(p, MountFs, b))
  PROVE  /\ \A p \in JobPaths : JobIs(p, MountFs, b)' => MountKnown(b)
         /\ Reporting(MountFs, b)' => MountKnown(b)
<1>1. \A p \in JobPaths : JobIs(p, MountFs, b)' => JobIs(p, MountFs, b)
  BY DEF JobIs, Known, jobManagerVars
<1>2. Reporting(MountFs, b)' => Reporting(MountFs, b)
  BY DEF Reporting, jobManagerVars
<1> QED
  BY <1>1, <1>2 DEF MountKnown

(* The signals say nothing of a mount job that they did not say before. *)
NoMountAnnounced ==
  \A p \in JobPaths, b \in Blocks :
    Has(Coming', JobAddition(p, MountFs, b)) => Has(Coming, JobAddition(p, MountFs, b))

LEMMA Announces ==
  ASSUME DispatcherTyped, NEW e,
         \/ e \in DriveAdditions \cup BlockAdditions /\ Signal("additions", e)
         \/ e \in DeviceRemovals \cup JobRemovals /\ Signal("removals", e)
         \/ /\ \E p \in JobPaths, op \in JobOperations \ {MountFs}, b \in Blocks :
                 e = JobAddition(p, op, b)
            /\ Signal("additions", e)
  PROVE  NoMountAnnounced
<1>1. Coming \in Seq(Signals("additions"))
  BY Queues
<1>2. ASSUME e \in Signals("additions"), Signal("additions", e),
             \A p \in JobPaths, b \in Blocks : e # JobAddition(p, MountFs, b)
      PROVE  NoMountAnnounced
  <2>1. Coming' = Append(Coming, e)
    BY <1>2, ServiceSignals, SignalMoves
  <2>2. \A x : Has(Coming', x) <=> Has(Coming, x) \/ x = e
    BY <1>1, <1>2, <2>1, AboutAppended
  <2> QED
    BY <1>2, <2>2 DEF NoMountAnnounced
<1>3. CASE e \in DriveAdditions \cup BlockAdditions /\ Signal("additions", e)
  <2>1. e.path \notin JobPaths
    BY <1>3, DevicePaths DEF DeviceAdditions
  <2> QED
    BY <1>2, <1>3, <2>1, ServiceSignals, JobAdditionsDiffer
<1>4. CASE e \in DeviceRemovals \cup JobRemovals /\ Signal("removals", e)
  <2>1. Coming' = Coming
    BY <1>4, ServiceSignals, SignalMoves
  <2> QED
    BY <2>1 DEF NoMountAnnounced
<1>5. ASSUME NEW p \in JobPaths, NEW op \in JobOperations \ {MountFs}, NEW b \in Blocks,
             e = JobAddition(p, op, b), Signal("additions", e)
      PROVE  NoMountAnnounced
  <2>1. e \in JobAdditions
    BY <1>5 DEF JobAdditions
  <2>2. \A q \in JobPaths, c \in Blocks : e # JobAddition(q, MountFs, c)
    BY <1>5, JobAdditionsDiffer
  <2> QED
    BY <1>2, <1>5, <2>1, <2>2, ServiceSignals
<1> QED
  BY <1>3, <1>4, <1>5

(* A call made or answered. *)
LEMMA CallsMove ==
  ASSUME NEW c
  PROVE  /\ End(c) => BagToSet(calls') \subseteq BagToSet(calls)
         /\ \A state : Move(c, state) =>
              BagToSet(calls') \subseteq BagToSet(calls) \cup {[c EXCEPT !.state = state]}
         /\ \A b : Mount(b) => BagToSet(calls') = BagToSet(calls) \cup {ANewCall(b)}
<1>1. BagToSet(calls (-) SetToBag({c})) \subseteq BagToSet(calls)
  BY OneLess
<1>2. ASSUME NEW state, Move(c, state)
      PROVE  BagToSet(calls') \subseteq BagToSet(calls) \cup {[c EXCEPT !.state = state]}
  <2> DEFINE B == calls (-) SetToBag({c})
             d == [c EXCEPT !.state = state]
  <2>1. calls' = B (+) SetToBag({d})
    BY <1>2 DEF Move
  <2> HIDE DEF B, d
  <2>2. BagToSet(calls') = BagToSet(B) \cup {d}
    BY <2>1, OneMore
  <2> QED
    BY <1>1, <2>2 DEF B, d
<1>3. ASSUME NEW b, Mount(b) PROVE BagToSet(calls') = BagToSet(calls) \cup {ANewCall(b)}
  <2> DEFINE d == ANewCall(b)
  <2>1. calls' = calls (+) SetToBag({d})
    BY <1>3 DEF Mount
  <2> HIDE DEF d
  <2> QED
    BY <2>1, OneMore DEF d
<1> QED
  BY <1>1, <1>2, <1>3 DEF End

(* So is no call of Mount made but by Mount. *)
LEMMA NoCallMade ==
  ASSUME BagToSet(calls) \subseteq Call, NEW c \in Call, NEW b,
         \/ UNCHANGED calls
         \/ End(c)
         \/ \E state \in {"mounting", "failed", "noReply", "failedAgain"} : Move(c, state)
  PROVE  ANewCall(b) \in BagToSet(calls') => ANewCall(b) \in BagToSet(calls)
<1>1. ASSUME NEW state \in {"mounting", "failed", "noReply", "failedAgain"}
      PROVE  [c EXCEPT !.state = state] # ANewCall(b)
  <2>1. [c EXCEPT !.state = state].state = state /\ ANewCall(b).state = "calling"
    BY DEF Call, ANewCall
  <2> QED
    BY <2>1
<1> HIDE DEF ANewCall
<1> QED
  BY <1>1, CallsMove

-----------------------------------------------------------------------------
(* Who knows of a mount, through the steps of UDisks2 *)

(* A mount that is known after the step was known, or the card is listed. *)
LEMMA OutsideKnown ==
  ASSUME NEW b \in Blocks, UNCHANGED <<at, jobManagerVars>>, NoMountAnnounced,
         ANewCall(b) \in BagToSet(calls') => ANewCall(b) \in BagToSet(calls)
  PROVE  MountKnown(b)' => MountKnown(b)
<1>1. ANewCall(b) \in BagToSet(calls') => MountKnown(b)
  BY DEF MountKnown
<1> QED
  BY <1>1, JobsBefore, KnownBefore, IsGoroutine DEF NoMountAnnounced

LEMMA StartsOtherJob ==
  ASSUME DispatcherTyped, NEW op \in JobOperations \ {MountFs}, NEW b \in Blocks, StartJob(op, b)
  PROVE  NoMountAnnounced
<1>1. PICK p \in JobPaths : Signal("additions", JobAddition(p, op, b))
  BY DEF StartJob, JobAddition
<1> QED
  BY <1>1, Announces

LEMMA ServiceStepKnown ==
  ASSUME TypedInv, ServiceStep, NEW b \in Blocks
  PROVE  MountKnown(b)' => MountKnown(b)
<1>1. UNCHANGED <<at, jobManagerVars, calls>>
  BY DEF ServiceStep, Rests, watcherVars
<1>2. NoMountAnnounced
  <2>1. DispatcherTyped /\ ServiceTyped
    BY DEF TypedInv
  <2>2. ASSUME NEW d \in Drives, InsertDrive(d) \/ RemoveDrive(d) PROVE NoMountAnnounced
    BY <2>1, <2>2, AnnouncedDevices, Announces DEF InsertDrive, RemoveDrive
  <2>3. ASSUME NEW c \in Blocks, InsertBlock(c) \/ RemoveBlock(c) PROVE NoMountAnnounced
    BY <2>1, <2>3, AnnouncedDevices, Announces DEF InsertBlock, RemoveBlock
  <2>4. ASSUME NEW c \in Blocks, StartUnmount(c) \/ StartFormat(c) PROVE NoMountAnnounced
    <3>1. StartJob(UnmountFs, c) \/ StartJob(Mkfs, c)
      BY <2>4 DEF StartUnmount, StartFormat, AcceptUnmount, AcceptFormat
    <3>2. {UnmountFs, Mkfs} \subseteq JobOperations \ {MountFs}
      BY DEF JobOperations, UnmountFs, Mkfs, MountFs
    <3> QED
      BY <2>1, <3>1, <3>2, StartsOtherJob
  <2> QED
    BY <2>2, <2>3, <2>4 DEF ServiceStep
<1> QED
  BY <1>1, <1>2, OutsideKnown

LEMMA JobStepKnown ==
  ASSUME TypedInv, JobStep, NEW b \in Blocks
  PROVE  MountKnown(b)' => MountKnown(b)
<1>1. DispatcherTyped /\ ServiceTyped /\ BagToSet(calls) \subseteq Call
  BY DEF TypedInv, DaemonTyped
<1>2. ASSUME NEW p \in JobPaths, Wipe(p), UNCHANGED <<calls, Rests>>
      PROVE  MountKnown(b)' => MountKnown(b)
  <2>1. running[p].block \in Blocks
    BY <1>1, <1>2 DEF Wipe, JobOn, ServiceTyped
  <2>2. NoMountAnnounced
    BY <1>1, <1>2, <2>1, AnnouncedDevices, Announces DEF Wipe
  <2> QED
    BY <1>2, <2>2, OutsideKnown DEF Rests, watcherVars
<1>3. ASSUME NEW c \in Blocks, AnnounceFilesystem(c), UNCHANGED <<calls, Rests>>
      PROVE  MountKnown(b)' => MountKnown(b)
  <2>1. NoMountAnnounced
    BY <1>1, <1>3, AnnouncedDevices, Announces DEF AnnounceFilesystem
  <2> QED
    BY <1>3, <2>1, OutsideKnown DEF Rests, watcherVars
<1>4. ASSUME NEW p \in JobPaths, ServiceFinishesJob(p)
      PROVE  MountKnown(b)' => MountKnown(b)
  <2>1. FinishJob(p) /\ UNCHANGED Rests
    BY <1>4 DEF ServiceFinishesJob
  <2>2. NoMountAnnounced
    <3>1. Removed(p, {JobIface}) \in JobRemovals
      BY DEF JobRemovals
    <3> QED
      BY <1>1, <2>1, <3>1, Announces DEF FinishJob
  <2>3. ANewCall(b) \in BagToSet(calls') => ANewCall(b) \in BagToSet(calls)
    <3> DEFINE c == [path |-> running[p].block, state |-> "mounting"]
    <3>1. c \in Call
      BY <1>1, <2>1 DEF FinishJob, ServiceTyped, Call
    <3>2. UNCHANGED calls \/ End(c) \/ Move(c, "failed")
      BY <1>4 DEF ServiceFinishesJob
    <3> HIDE DEF c
    <3> QED
      BY <1>1, <3>1, <3>2, NoCallMade
  <2> QED
    BY <2>1, <2>2, <2>3, OutsideKnown DEF Rests, watcherVars
<1> QED
  BY <1>2, <1>3, <1>4 DEF JobStep

(* A mount job starts because of a call. *)
LEMMA CallStepKnown ==
  ASSUME TypedInv, NEW c \in BagToSet(calls),
         MountAccepted(c) \/ MountRefused(c) \/ ArgsOfNoReply(c), NEW b \in Blocks
  PROVE  MountKnown(b)' => MountKnown(b)
<1>1. DispatcherTyped /\ BagToSet(calls) \subseteq Call /\ c \in Call
  BY DEF TypedInv, DaemonTyped
<1>2. UNCHANGED <<at, jobManagerVars>>
  BY DEF MountAccepted, MountRefused, ArgsOfNoReply, Rests, watcherVars
<1>3. ANewCall(b) \in BagToSet(calls') => ANewCall(b) \in BagToSet(calls)
  <2>1. \E state \in {"mounting", "failed", "failedAgain"} : Move(c, state)
    BY DEF MountAccepted, MountRefused, ArgsOfNoReply
  <2> QED
    BY <1>1, <2>1, NoCallMade
<1>4. CASE MountAccepted(c)
  <2>1. PICK p \in JobPaths : Signal("additions", JobAddition(p, MountFs, c.path))
    BY <1>4 DEF MountAccepted, StartMount, StartJob, JobAddition
  <2>2. c.path \in Blocks /\ c = ANewCall(c.path)
    BY <1>1, <1>4 DEF MountAccepted, Call, ANewCall
  <2> DEFINE e == JobAddition(p, MountFs, c.path)
  <2>3. e \in Signals("additions")
    <3>1. MountFs \in JobOperations
      BY DEF JobOperations
    <3>2. e \in JobAdditions
      BY <2>2, <3>1 DEF JobAdditions
    <3> QED
      BY <3>2, ServiceSignals
  <2>4. \A x : Has(Coming', x) <=> Has(Coming, x) \/ x = e
    <3>1. Coming' = Append(Coming, e) /\ Coming \in Seq(Signals("additions"))
      BY <1>1, <2>1, <2>3, ServiceSignals, SignalMoves, Queues
    <3> QED
      BY <2>3, <3>1, AboutAppended
  <2>5. CASE b = c.path
    BY <2>2, <2>5 DEF MountKnown
  <2>6. CASE b # c.path
    <3>1. \A q \in JobPaths : e # JobAddition(q, MountFs, b)
      BY <2>6, JobAdditionsDiffer
    <3>2. ANewCall(b) \in BagToSet(calls') => MountKnown(b)
      BY <1>3 DEF MountKnown
    <3> QED
      BY <1>2, <2>4, <3>1, <3>2, JobsBefore, KnownBefore, IsGoroutine
  <2> QED
    BY <2>5, <2>6
<1>5. CASE MountRefused(c) \/ ArgsOfNoReply(c)
  <2>1. UNCHANGED <<watch, held>>
    BY <1>5 DEF MountRefused, ArgsOfNoReply, Rests
  <2>2. NoMountAnnounced
    BY <2>1, SameQueues DEF NoMountAnnounced, dispatcherVars
  <2> QED
    BY <1>2, <1>3, <2>2, OutsideKnown
<1> QED
  BY <1>4, <1>5

-----------------------------------------------------------------------------
(* Who knows of a mount, through the steps of the package *)

(* A signal that is handed over is on its way no more. *)
LEMMA HandedOver ==
  ASSUME DispatcherTyped, NEW w \in Watches, NEW c, held[w] # <<>>, Send(w, c, held[w][1])
  PROVE  /\ \A x : Has(Coming', x) => Has(Coming, x)
         /\ w = "additions" => Has(Coming, held[w][1])
<1>1. Coming \in Seq(Signals("additions"))
  BY Queues
<1>2. CASE w = "additions"
  <2>1. Coming # <<>> /\ Head(Coming) = held[w][1] /\ Coming' = Tail(Coming)
    BY <1>2, SendMoves
  <2> QED
    BY <1>1, <2>1, AboutTail
<1>3. CASE w = "removals"
  BY <1>3, SendMoves
<1> QED
  BY <1>2, <1>3 DEF Watches

(* A signal about a job reaches the job manager: what it makes of the start of
   a mount job was on its way, and what it reports of the end it knew. *)
LEMMA DispatchJobKnown ==
  ASSUME TypedInv, NEW w \in Watches, DispatchJob(w), UNCHANGED calls, NEW b \in Blocks
  PROVE  MountKnown(b)' => MountKnown(b)
<1> DEFINE e == held[w][1]
<1>1. /\ DispatcherTyped /\ JobsTyped /\ held[w] # <<>>
      /\ Send(w, "Jobs", e) /\ ReadJob(e) /\ UNCHANGED at
  BY DEF DispatchJob, TypedInv, watcherVars
<1>2. e \in Signals(w) /\ e.path \in JobPaths
  <2>1. e \in Signals(w) /\ "Jobs" = Channel(w, e)
    BY <1>1, SendStep
  <2> QED
    BY <2>1 DEF Channel
<1>3. /\ \A x : Has(Coming', x) => Has(Coming, x)
      /\ w = "additions" => Has(Coming, e)
  BY <1>1, HandedOver
<1> HIDE DEF e
<1>4. ANewCall(b) \in BagToSet(calls') => MountKnown(b)
  BY DEF MountKnown
<1>5. SUFFICES /\ \A p \in JobPaths : JobIs(p, MountFs, b)' => MountKnown(b)
               /\ Reporting(MountFs, b)' => MountKnown(b)
  BY <1>1, <1>4, <1>5, KnownBefore, IsGoroutine
<1>6. CASE processAdditionEvent(e)
  <2>1. w = "additions"
    BY <1>2, <1>6 DEF processAdditionEvent, isRemovalEvent, Signals, DeviceRemovals, JobRemovals,
                      Removed, Watches
  <2>2. PICK q \in JobPaths, op \in JobOperations, c \in Blocks : e = JobAddition(q, op, c)
    BY <1>2, <2>1, DevicePaths DEF Signals, JobAdditions
  <2>3. e.path = q /\ NewJob(e).operation = op /\ NewJob(e).paths = <<c>>
    BY <2>2 DEF JobAddition, Added, NewJob, getFormattedPaths, JobOperations
  <2>4. ~ Reporting(MountFs, b)'
    <3>1. \A j : Starting(j) # <<>> => Starting(j)[1].operation # MountFs
      BY DEF Starting, Erase, Mkfs, UnmountFs, MountFs
    <3> QED
      BY <1>6, <3>1 DEF Reporting, processAdditionEvent
  <2>5. ASSUME NEW p \in JobPaths, JobIs(p, MountFs, b)', ~ JobIs(p, MountFs, b)
        PROVE  JobIs(p, MountFs, b) \/ Has(Coming, JobAddition(p, MountFs, b))
    <3>1. /\ p \in DOMAIN onGoingJobs' /\ onGoingJobs'[p].operation = MountFs
          /\ onGoingJobs'[p].paths = <<b>>
      BY <1>3, <2>5 DEF JobIs, Known
    <3>2. onGoingJobs' = Put(onGoingJobs, q, NewJob(e)) /\ p = q
      BY <1>6, <2>3, <2>5, <3>1 DEF processAdditionEvent, JobIs, Known, Put
    <3>3. onGoingJobs'[q] = NewJob(e)
      BY <3>2 DEF Put
    <3>4. op = MountFs /\ c = b
      BY <2>3, <3>1, <3>2, <3>3
    <3> QED
      BY <1>3, <2>1, <2>2, <3>2, <3>4
  <2> QED
    BY <2>4, <2>5 DEF MountKnown, JobIs
<1>7. CASE processRemovalEvent(e)
  <2>1. /\ \A p \in DOMAIN onGoingJobs' : p \in DOMAIN onGoingJobs /\ onGoingJobs'[p] = onGoingJobs[p]
        /\ \/ UNCHANGED report
           \/ Known(e.path) /\ report' = <<Completed(onGoingJobs[e.path])>>
    BY <1>7 DEF processRemovalEvent, Delete
  <2>2. \A p \in JobPaths : JobIs(p, MountFs, b)' => JobIs(p, MountFs, b)
    BY <1>3, <2>1 DEF JobIs, Known
  <2>3. ASSUME Known(e.path), report' = <<Completed(onGoingJobs[e.path])>>, Reporting(MountFs, b)'
        PROVE  JobIs(e.path, MountFs, b)
    <3>1. onGoingJobs[e.path] \in Jobs
      BY <1>1, <2>3 DEF Known, JobsTyped
    <3> QED
      BY <2>3, <3>1, CompletedJob DEF Reporting, JobIs
  <2>4. UNCHANGED report => (Reporting(MountFs, b)' => Reporting(MountFs, b))
    BY DEF Reporting
  <2> QED
    BY <1>2, <2>1, <2>2, <2>3, <2>4 DEF MountKnown
<1> QED
  BY <1>1, <1>6, <1>7 DEF ReadJob

(* A signal about a device reaches the loop. *)
LEMMA DispatchDeviceKnown ==
  ASSUME TypedInv, NEW w \in Watches, DispatchDevice(w), UNCHANGED calls, NEW b \in Blocks
  PROVE  MountKnown(b)' => MountKnown(b)
<1>1. /\ DispatcherTyped /\ UNCHANGED jobManagerVars /\ held[w] # <<>>
      /\ \E c : Send(w, c, held[w][1])
      /\ at \in [Goroutines -> Where] /\ "loop" \in Goroutines
  BY IsGoroutine DEF DispatchDevice, TypedInv, WatcherInv, WatcherTyped
<1>2. NoMountAnnounced
  BY <1>1, HandedOver DEF NoMountAnnounced
<1>3. /\ \A h \in Goroutines \ {"loop"} : at'[h] = at[h]
      /\ at'["loop"].point \in {"add", "remove", "mountRemoved", "select"}
  BY <1>1 DEF DispatchDevice, ReadAddition, ReadRemoval, Continue, Rest
<1>4. ANewCall(b) \in BagToSet(calls') => MountKnown(b)
  BY DEF MountKnown
<1> QED
  BY <1>1, <1>2, <1>3, <1>4, JobsBefore, KnownBefore DEF NoMountAnnounced

(* The loop reads a report, and asks where the block device is mounted. *)
LEMMA PassReportKnown ==
  ASSUME TypedInv, PassReport, UNCHANGED calls, NEW b \in Blocks
  PROVE  MountKnown(b)' => MountKnown(b)
<1>1. /\ at \in [Goroutines -> Where] /\ "loop" \in Goroutines /\ report # <<>> /\ report' = <<>>
      /\ ReadReport(report[1]) /\ UNCHANGED dispatcherVars
      /\ \A p \in DOMAIN onGoingJobs' : p \in DOMAIN onGoingJobs /\ onGoingJobs'[p] = onGoingJobs[p]
  BY IsGoroutine DEF PassReport, Forward, Delete, TypedInv, WatcherInv, WatcherTyped
<1>2. Coming' = Coming
  BY <1>1, SameQueues
<1>3. \A p \in JobPaths : JobIs(p, MountFs, b)' => JobIs(p, MountFs, b)
  BY <1>1, <1>2 DEF JobIs, Known
<1>4. ~ Reporting(MountFs, b)'
  BY <1>1 DEF Reporting
<1>5. /\ \A h \in Goroutines \ {"loop"} : at'[h] = at[h]
      /\ \/ at'["loop"].point \in {"select", "umountCompleted"}
         \/ /\ report[1].wasCompleted /\ report[1].operation = MountFs
            /\ at'["loop"].paths = report[1].paths /\ at'["loop"].point = "mountpointsForPath"
  BY <1>1 DEF ReadReport, Continue, Rest
<1>6. LoopAt("mountpointsForPath", b)' => Reporting(MountFs, b)
  BY <1>1, <1>5 DEF LoopAt, Reporting
<1>7. Ordering(b)' => Ordering(b)
  BY <1>5 DEF Ordering
<1>8. ANewCall(b)' = ANewCall(b)
  BY DEF ANewCall
<1> QED
  BY <1>3, <1>4, <1>6, <1>7, <1>8 DEF MountKnown

(* processAddEvent comes to a block device, and to a file system that the
   drives do not list yet: then it is forgotten. *)
LEMMA WatchKnown ==
  ASSUME TypedInv, NEW g \in Goroutines, Watch(g), UNCHANGED calls, NEW b \in Blocks
  PROVE  MountKnown(b)' => MountKnown(b) \/ Listed(b)'
<1>1. /\ at \in [Goroutines -> Where] /\ DrivesTyped
      /\ UNCHANGED <<dispatcherVars, jobManagerVars>>
  BY DEF Watch, TypedInv, WatcherInv, WatcherTyped
<1>2. /\ \A p \in JobPaths : JobIs(p, MountFs, b)' => MountKnown(b)
      /\ Reporting(MountFs, b)' => MountKnown(b)
      /\ ANewCall(b) \in BagToSet(calls') => MountKnown(b)
      /\ ANewCall(b)' = ANewCall(b)
  <2>1. Coming' = Coming
    BY <1>1, SameQueues
  <2> QED
    BY <1>1, <2>1, JobsBefore DEF MountKnown, ANewCall
<1>3. Held(drives)' = Held(drives')
  BY DEF Held
<1>4. CASE EnterAdd(g)
  <2> DEFINE s == at[g].event
  <2>1. s \in DeviceAdditions /\ at[g].point = "add"
    BY <1>1, <1>4, WhereFacts DEF EnterAdd
  <2>2. /\ Ordering(b)' => Ordering(b) \/ Listed(b)'
        /\ \A h \in Goroutines \ {g} : at'[h] = at[h]
        /\ at'[g].point # "mountpointsForPath"
    <3>1. CASE Remounts(s) /\ Continue(g, [point |-> "formatCompleted", event |-> s]) /\ UNCHANGED drives
      <4>1. /\ at'[g] = [point |-> "formatCompleted", event |-> s]
            /\ \A h \in Goroutines \ {g} : at'[h] = at[h]
        BY <1>1, <3>1 DEF Continue
      <4>2. ASSUME s.path = b, s.props.block = FALSE PROVE Listed(b)'
        <5>1. EnteredByFilesystem(g) = {b}
          BY <2>1, <4>2 DEF EnteredByFilesystem
        <5>2. b \in Held(drives) \cup forgotten'
          BY <5>1 DEF Watch
        <5> QED
          BY <1>3, <3>1, <5>2 DEF Listed, Excused
      <4>3. Ordering(b)' => Ordering(b) \/ (s.path = b /\ s.props.block = FALSE)
        <5> HIDE DEF s
        <5>1. at'[g].point = "formatCompleted" /\ at'[g].event = s
          BY <4>1
        <5> QED
          BY <4>1, <5>1 DEF Ordering
      <4>4. at'[g].point # "mountpointsForPath"
        BY <4>1
      <4> HIDE DEF s
      <4> QED
        BY <4>1, <4>2, <4>3, <4>4
    <3>2. CASE AddDevice(g, s)
      <4>1. isBlockDevice(s) /\ s.path = b => Listed(b)'
        BY <1>1, <1>3, <2>1, <3>2, DeviceListed DEF AddDevice, Listed, Excused
      <4> HIDE DEF s
      <4> QED
        BY <1>1, <3>2, <4>1, AddsDevice, AddsOrder
    <3> QED
      BY <1>4, <3>1, <3>2 DEF EnterAdd
  <2>3. LoopAt("mountpointsForPath", b)' => LoopAt("mountpointsForPath", b)
    BY <2>2, IsGoroutine DEF LoopAt
  <2> QED
    BY <1>2, <2>2, <2>3 DEF MountKnown
<1>5. CASE (g = "loop" /\ RemoveDevice) \/ (g = "init" /\ AddExisting)
  <2>1. /\ \A h \in Goroutines \ {g} : at'[h] = at[h]
        /\ at'[g].point \in {"select", "blockDevice", "add"}
    BY <1>1, <1>5 DEF RemoveDevice, AddExisting, Continue, Rest
  <2> QED
    BY <1>2, <2>1, KnownBefore
<1> QED
  BY <1>4, <1>5 DEF Watch, WatcherStep

(* A step inside the udisks2 package. *)
LEMMA DeliverKnown ==
  ASSUME AllDecodable, TypedInv, Deliver, NEW b \in Blocks
  PROVE  MountKnown(b)' => MountKnown(b) \/ Listed(b)'
<1>1. ClientStep /\ UNCHANGED calls /\ at \in [Goroutines -> Where] /\ WatcherInv
  BY DEF Deliver, daemonVars, TypedInv, WatcherInv, WatcherTyped
<1>2. ASSUME UNCHANGED jobManagerVars, Coming' = Coming, NEW g \in Goroutines,
             \A h \in Goroutines \ {g} : at'[h] = at[h],
             UNCHANGED at[g] \/ at'[g].point \in {"select", "existing"}
      PROVE  MountKnown(b)' => MountKnown(b)
  <2>1. ANewCall(b) \in BagToSet(calls') => MountKnown(b)
    BY <1>1 DEF MountKnown
  <2> QED
    BY <1>2, <2>1, JobsBefore, KnownBefore
<1>3. ASSUME NEW w \in Watches, Fetch(w) PROVE MountKnown(b)' => MountKnown(b)
  <2>1. Coming' = Coming
    BY <1>3, FetchMoves DEF Fetch, TypedInv
  <2> QED
    BY <1>2, <1>3, <2>1, IsGoroutine DEF Fetch, watcherVars
<1>4. CASE AnswerManagedObjects
  <2>1. Coming' = Coming
    BY <1>4, SameQueues DEF AnswerManagedObjects
  <2>2. /\ at'["init"].point = "existing"
        /\ \A h \in Goroutines \ {"init"} : at'[h] = at[h]
    BY <1>1, <1>4, IsGoroutine DEF AnswerManagedObjects, ListExisting, Continue, Rest
  <2> QED
    BY <1>2, <1>4, <2>1, <2>2, IsGoroutine DEF AnswerManagedObjects
<1>5. CASE AnswerMountpoints
  <2>1. Coming' = Coming
    BY <1>5, SameQueues DEF AnswerMountpoints
  <2>2. Continue("loop", Rest("loop"))
    BY <1>1, <1>5, NextPathRests DEF AnswerMountpoints, MountFinished
  <2>3. /\ at'["loop"].point = "select"
        /\ \A h \in Goroutines \ {"loop"} : at'[h] = at[h]
    BY <1>1, <2>2, IsGoroutine DEF Continue, Rest
  <2> QED
    BY <1>2, <1>5, <2>1, <2>3, IsGoroutine DEF AnswerMountpoints
<1> QED
  BY <1>1, <1>3, <1>4, <1>5, DispatchJobKnown, DispatchDeviceKnown, PassReportKnown, WatchKnown
    DEF ClientStep

(* Nor does anybody know of one more when a query fails. *)
LEMMA UnansweredKnown ==
  ASSUME TypedInv, Unanswered, NEW b \in Blocks
  PROVE  MountKnown(b)' => MountKnown(b)
<1>1. UNCHANGED calls /\ at \in [Goroutines -> Where] /\ WatcherInv
  BY DEF Unanswered, daemonVars, TypedInv, WatcherInv, WatcherTyped
<1>2. UNCHANGED <<dispatcherVars, jobManagerVars>> /\ Coming' = Coming
  BY SameQueues DEF Unanswered, RefuseManagedObjects, RefuseMountpoints
<1>3. ASSUME NEW g \in Goroutines, \A h \in Goroutines \ {g} : at'[h] = at[h],
             at'[g].point \in {"select", "existing"}
      PROVE  MountKnown(b)' => MountKnown(b)
  <2>1. ANewCall(b) \in BagToSet(calls') => MountKnown(b)
    BY <1>1 DEF MountKnown
  <2> QED
    BY <1>2, <1>3, <2>1, JobsBefore, KnownBefore
<1>4. CASE RefuseManagedObjects
  <2>1. /\ at'["init"].point = "existing"
        /\ \A h \in Goroutines \ {"init"} : at'[h] = at[h]
    BY <1>1, <1>4, IsGoroutine DEF RefuseManagedObjects, ListExisting, Continue, Rest
  <2> QED
    BY <1>3, <2>1, IsGoroutine
<1>5. CASE RefuseMountpoints
  <2>1. Continue("loop", Rest("loop"))
    BY <1>1, <1>5, NextPathRests DEF RefuseMountpoints, MountFinished
  <2>2. /\ at'["loop"].point = "select"
        /\ \A h \in Goroutines \ {"loop"} : at'[h] = at[h]
    BY <1>1, <2>1, IsGoroutine DEF Continue, Rest
  <2> QED
    BY <1>3, <2>2, IsGoroutine
<1> QED
  BY <1>4, <1>5 DEF Unanswered

-----------------------------------------------------------------------------
(* Who knows of a mount, through the steps of the daemon *)

(* The daemon reads that a card can be mounted, and calls UDisks2. *)
LEMMA ListenKnown ==
  ASSUME TypedInv, NEW l \in Listeners, Listen(l), NEW b \in Blocks
  PROVE  MountKnown(b)' => MountKnown(b) \/ Listed(b)'
<1>1. /\ at \in [Goroutines -> Where] /\ DrivesTyped /\ BagToSet(calls) \subseteq Call
      /\ "loop" \in Goroutines
  BY IsGoroutine DEF TypedInv, WatcherInv, WatcherTyped, DaemonTyped
<1>2. /\ \A p \in JobPaths : JobIs(p, MountFs, b)' => MountKnown(b)
      /\ Reporting(MountFs, b)' => MountKnown(b)
  <2>1. UNCHANGED <<dispatcherVars, jobManagerVars>>
    BY DEF Listen, ListenBlockAdded, ListenBlockError, ListenMountRemoved, ListenMountCompleted,
           ListenUmountCompleted, ReadMountError, ListenFormatCompleted, Notified, Quietly,
           clientVars, packageVars
  <2>2. Coming' = Coming
    BY <2>1, SameQueues
  <2> QED
    BY <2>1, <2>2, JobsBefore
<1>3. ASSUME NEW g \in Goroutines, \A h \in Goroutines \ {g} : at'[h] = at[h],
             \/ UNCHANGED at[g]
             \/ at'[g].point \notin {"blockAdded", "formatCompleted", "mountpointsForPath"},
             ANewCall(b) \in BagToSet(calls') => MountKnown(b)
      PROVE  MountKnown(b)' => MountKnown(b)
  BY <1>2, <1>3, KnownBefore
<1>4. UNCHANGED calls => (ANewCall(b) \in BagToSet(calls') => MountKnown(b))
  BY DEF MountKnown
<1>5. ASSUME NEW g \in Goroutines, Offer(g, at[g].event, "none")
      PROVE  /\ \A h \in Goroutines \ {g} : at'[h] = at[h]
             /\ at'[g].point \in {"blockDevice", "select", "existing"}
  BY <1>1, <1>5 DEF Offer, Continue, Rest
<1>6. ASSUME NEW g \in Goroutines, ListenBlockAdded(g) PROVE MountKnown(b)' => MountKnown(b)
  <2>1. /\ at[g].point = "blockAdded" /\ Mount(at[g].event.path)
        /\ Offer(g, at[g].event, "none")
    BY <1>6 DEF ListenBlockAdded, SendBlock
  <2>2. ANewCall(b) \in BagToSet(calls') => MountKnown(b)
    <3>1. BagToSet(calls') = BagToSet(calls) \cup {ANewCall(at[g].event.path)}
      BY <2>1, CallsMove
    <3>2. ANewCall(at[g].event.path) = ANewCall(b) => at[g].event.path = b
      BY DEF ANewCall
    <3> HIDE DEF ANewCall
    <3> QED
      BY <2>1, <3>1, <3>2 DEF MountKnown, Ordering
  <2> QED
    BY <1>3, <1>5, <2>1, <2>2
<1>7. ASSUME NEW g \in Goroutines, ListenFormatCompleted(g)
      PROVE  MountKnown(b)' => MountKnown(b) \/ Listed(b)'
  <2> DEFINE s == at[g].event
  <2>1. /\ at[g].point = "formatCompleted" /\ Mount(s.path) /\ AddDevice(g, s)
        /\ s \in BlockAdditions
    BY <1>1, <1>7, WhereFacts DEF ListenFormatCompleted, SendFormatCompleted, Sending
  <2>2. s \in DeviceAdditions /\ s.path \in Blocks /\ s.props.block \in BOOLEAN
    BY <2>1 DEF BlockAdditions, DeviceAdditions, BlockProps
  <2>3. isBlockDevice(s) /\ s.path = b => Listed(b)'
    <3>1. Held(drives)' = Held(drives')
      BY DEF Held
    <3> HIDE DEF s
    <3> QED
      BY <1>1, <2>1, <2>2, <3>1, DeviceListed DEF AddDevice, Listed, Excused
  <2>4. s.path = b => isBlockDevice(s) \/ Ordering(b)
    <3>1. s.props.block = TRUE => isBlockDevice(s)
      BY <2>2 DEF isBlockDevice
    <3>2. s.path = b /\ s.props.block = FALSE => Ordering(b)
      BY <2>1 DEF Ordering
    <3> HIDE DEF s
    <3> QED
      BY <2>2, <3>1, <3>2
  <2>5. ANewCall(b) \in BagToSet(calls') => ANewCall(b) \in BagToSet(calls) \/ s.path = b
    <3>1. BagToSet(calls') = BagToSet(calls) \cup {ANewCall(s.path)}
      BY <2>1, CallsMove
    <3>2. ANewCall(s.path) = ANewCall(b) => s.path = b
      BY DEF ANewCall
    <3> HIDE DEF ANewCall, s
    <3> QED
      BY <3>1, <3>2
  <2> HIDE DEF s
  <2>6. /\ Ordering(b)' => Ordering(b) \/ (isBlockDevice(s) /\ s.path = b)
        /\ LoopAt("mountpointsForPath", b)' => LoopAt("mountpointsForPath", b)
    BY <1>1, <2>1, AddsOrder, AddsDevice DEF LoopAt
  <2>7. ANewCall(b)' = ANewCall(b)
    BY DEF ANewCall
  <2> QED
    BY <1>2, <2>3, <2>4, <2>5, <2>6, <2>7 DEF MountKnown
<1>8. ASSUME NEW g \in Goroutines, ListenBlockError(g) PROVE MountKnown(b)' => MountKnown(b)
  BY <1>3, <1>4, <1>5, <1>8 DEF ListenBlockError, SendBlock
<1>9. ASSUME ListenMountRemoved PROVE MountKnown(b)' => MountKnown(b)
  <2>1. /\ \A h \in Goroutines \ {"loop"} : at'[h] = at[h]
        /\ at'["loop"].point = "remove" /\ UNCHANGED calls
    BY <1>1, <1>9 DEF ListenMountRemoved, SendMountRemoved, Continue
  <2> QED
    BY <1>1, <1>3, <1>4, <2>1
<1>10. ASSUME ListenUmountCompleted PROVE MountKnown(b)' => MountKnown(b)
  <2>1. Continue("loop", Rest("loop")) /\ UNCHANGED calls
    BY <1>10, NextPathRests DEF ListenUmountCompleted, SendUmountCompleted, TypedInv
  <2>2. /\ \A h \in Goroutines \ {"loop"} : at'[h] = at[h]
        /\ at'["loop"].point = "select"
    BY <1>1, <2>1 DEF Continue, Rest
  <2> QED
    BY <1>1, <1>3, <1>4, <2>1, <2>2
<1>11. ASSUME NEW e, ListenMountCompleted(e) PROVE MountKnown(b)' => MountKnown(b)
  BY <1>1, <1>3, <1>4, <1>11 DEF ListenMountCompleted, SendMountCompleted
<1>12. ASSUME NEW c \in BagToSet(calls), ReadMountError(c) PROVE MountKnown(b)' => MountKnown(b)
  <2>1. UNCHANGED at
    BY <1>12 DEF ReadMountError, clientVars, packageVars, watcherVars
  <2>2. ANewCall(b) \in BagToSet(calls') => ANewCall(b) \in BagToSet(calls)
    <3>1. c \in Call /\ (End(c) \/ Move(c, "noReply"))
      BY <1>1, <1>12 DEF ReadMountError
    <3> QED
      BY <1>1, <3>1, NoCallMade
  <2>3. ANewCall(b) \in BagToSet(calls') => MountKnown(b)
    BY <2>2 DEF MountKnown
  <2> QED
    BY <1>1, <1>3, <2>1, <2>3
<1>13. ASSUME Notified(l) PROVE MountKnown(b)' => MountKnown(b)
  BY <1>1, <1>3, <1>4, <1>13 DEF Notified, clientVars, packageVars, watcherVars
<1> QED
  BY <1>6, <1>7, <1>8, <1>9, <1>10, <1>11, <1>12, <1>13 DEF Listen

(* So a mount that is known is one of a card that is listed. *)
LEMMA NextListed ==
  ASSUME AllDecodable, TypedInv, ListedInv, [Next]_vars, ~ Restart
  PROVE  ListedInv'
<1>1. SUFFICES ASSUME NEW b \in Blocks PROVE MountKnown(b)' => MountKnown(b) \/ Listed(b)'
  BY <1>1, ListedStays DEF ListedInv
<1>2. CASE CheckFreeSpace \/ UNCHANGED vars
  <2>1. UNCHANGED <<dispatcherVars, jobManagerVars, at, calls>>
    BY <1>2 DEF CheckFreeSpace, vars, daemonVars, clientVars, packageVars, watcherVars
  <2>2. NoMountAnnounced
    BY <2>1, SameQueues DEF NoMountAnnounced
  <2> QED
    BY <2>1, <2>2, OutsideKnown
<1>3. CASE CallStep
  BY <1>3, CallStepKnown DEF CallStep, Crash
<1> QED
  BY <1>2, <1>3, ServiceStepKnown, JobStepKnown, DeliverKnown, ListenKnown, UnansweredKnown
    DEF Next, Step, RacingMapAccess, NoManagedObjects

-----------------------------------------------------------------------------
(* What the storage watcher takes as mounted, and the mountwatch *)

(* Nothing is lost while the map of mount points stays. *)
LEMMA SeenKept ==
  ASSUME SeenInv, \A b \in Blocks : Excused(b) => Excused(b)',
         DOMAIN mw \subseteq DOMAIN mw', BagToSet(arriving) \subseteq BagToSet(arriving'),
         IsABag(arriving'), UNCHANGED mountpoints,
         UNCHANGED at["loop"] \/ at'["loop"].point # "mountRemoved"
  PROVE  SeenInv'
<1>1. PlacesInv'
  BY DEF SeenInv, PlacesInv
<1>2. ASSUME NEW b \in Blocks PROVE SeenOf(b)'
  BY <1>2 DEF SeenInv, SeenOf, Watched, Arriving
<1> QED
  BY <1>1, <1>2 DEF SeenInv

(* A block device goes: if it was mounted, its mount point is sent next. *)
LEMMA DispatchDeviceSeen ==
  ASSUME TypedInv, SeenInv, NEW w \in Watches, DispatchDevice(w), UNCHANGED mw,
         \A b \in Blocks : Excused(b) => Excused(b)'
  PROVE  SeenInv'
<1> DEFINE e == held[w][1]
<1>1. at \in [Goroutines -> Where] /\ "loop" \in Goroutines /\ UNCHANGED arriving
  BY IsGoroutine DEF TypedInv, WatcherInv, WatcherTyped, DispatchDevice, ReadAddition, ReadRemoval
<1>2. CASE ReadAddition(e)
  <2>1. at'["loop"].point = "add"
    BY <1>1, <1>2 DEF ReadAddition, Continue
  <2> QED
    BY <1>1, <1>2, <2>1, SeenKept DEF SeenInv, ReadAddition
<1>3. CASE ReadRemoval(e)
  <2> HIDE DEF e
  <2>1. /\ DOMAIN mountpoints' = DOMAIN mountpoints \ {e.path}
        /\ \A b \in DOMAIN mountpoints' : mountpoints'[b] = mountpoints[b]
    BY <1>3 DEF ReadRemoval, Delete
  <2>2. at'["loop"].point = "mountRemoved" =>
          /\ e.path \in DOMAIN mountpoints
          /\ at'["loop"].path = e.path /\ at'["loop"].mountpoint = mountpoints[e.path]
    BY <1>1, <1>3 DEF ReadRemoval, Continue, Rest
  <2>3. PlacesInv'
    BY <2>1, <2>2 DEF SeenInv, PlacesInv
  <2>4. ASSUME NEW b \in Blocks PROVE SeenOf(b)'
    BY <1>1, <2>1, <2>4 DEF SeenInv, SeenOf, Watched, Arriving
  <2> QED
    BY <1>1, <2>3, <2>4 DEF SeenInv
<1> QED
  BY <1>2, <1>3 DEF DispatchDevice

(* A finished mount is waited for by the drives that list the card. *)
LEMMA AnswerMountpointsSeen ==
  ASSUME TypedInv, ListedInv, SeenInv, AnswerMountpoints, UNCHANGED mw,
         \A b \in Blocks : Excused(b) => Excused(b)'
  PROVE  SeenInv'
<1> DEFINE p == Head(at["loop"].paths)
<1>1. /\ at["loop"].point = "mountpointsForPath"
      /\ MountFinished(IF p \in mounted THEN MountpointOf[p] ELSE None)
      /\ WatcherInv
  BY DEF AnswerMountpoints, TypedInv
<1>2. p \in Blocks /\ at["loop"].paths = <<p>> /\ Continue("loop", Rest("loop"))
  BY <1>1, NextPathRests DEF MountFinished
<1>3. at'["loop"].point = "select"
  BY <1>1, <1>2, IsGoroutine DEF Continue, Rest, WatcherInv, WatcherTyped
<1>4. LoopAt("mountpointsForPath", p)
  BY <1>1, <1>2 DEF LoopAt
<1>5. MountpointOf[p] # None
  BY <1>2, MountpointOfAssumption
<1> HIDE DEF p
<1>6. CASE p \notin mounted
  <2>1. UNCHANGED <<mountpoints, arriving>>
    BY <1>1, <1>6 DEF MountFinished
  <2> QED
    BY <1>3, <2>1, SeenKept DEF SeenInv
<1>7. CASE p \in mounted
  <2> DEFINE S == MountsOf(p, MountpointOf[p])
  <2>1. /\ mountpoints' = Put(mountpoints, p, MountpointOf[p])
        /\ arriving' = arriving (+) SetToBag(S)
    BY <1>1, <1>2, <1>5, <1>7 DEF MountFinished, p
  <2>2. /\ DOMAIN mountpoints' = DOMAIN mountpoints \cup {p}
        /\ mountpoints'[p] = MountpointOf[p]
        /\ \A b \in DOMAIN mountpoints \ {p} : mountpoints'[b] = mountpoints[b]
    BY <2>1 DEF Put
  <2>3. Excused(p) \/ \E e \in S : e.mountpoint = MountpointOf[p]
    <3>1. Excused(p) \/ p \in Held(drives)
      BY <1>2, <1>4 DEF ListedInv, MountKnown, Listed
    <3>2. ASSUME p \in Held(drives) PROVE \E e \in S : e.mountpoint = MountpointOf[p]
      <4>1. PICK d \in DOMAIN drives : p \in DOMAIN drives[d].blockDevices
        BY <3>2 DEF Held
      <4>2. [path |-> d, mountpoint |-> MountpointOf[p]] \in S
        BY <4>1 DEF MountsOf, HoldersOf
      <4> HIDE DEF S
      <4> QED
        BY <4>2
    <3> QED
      BY <3>1, <3>2
  <2> HIDE DEF S
  <2>4. BagToSet(arriving') = BagToSet(arriving) \cup S /\ IsABag(arriving')
    BY <2>1, SomeMore DEF SeenInv
  <2>5. PlacesInv'
    BY <1>3, <2>2 DEF SeenInv, PlacesInv
  <2>6. ASSUME NEW b \in Blocks PROVE SeenOf(b)'
    <3>1. CASE b = p
      BY <1>2, <2>3, <2>4, <3>1 DEF SeenOf, Arriving
    <3>2. CASE b # p
      BY <2>2, <2>4, <2>6, <3>2 DEF SeenInv, SeenOf, Watched, Arriving
    <3> QED
      BY <3>1, <3>2
  <2> QED
    BY <2>4, <2>5, <2>6 DEF SeenInv
<1> QED
  BY <1>6, <1>7

(* A step inside the udisks2 package. *)
LEMMA DeliverSeen ==
  ASSUME TypedInv, ListedInv, SeenInv, Deliver, \A b \in Blocks : Excused(b) => Excused(b)'
  PROVE  SeenInv'
<1>1. ClientStep /\ UNCHANGED mw /\ at \in [Goroutines -> Where] /\ IsABag(arriving)
  BY DEF Deliver, mountwatchVars, TypedInv, WatcherInv, WatcherTyped, SeenInv
<1>2. ASSUME UNCHANGED <<mountpoints, arriving>>,
             UNCHANGED at["loop"] \/ at'["loop"].point # "mountRemoved"
      PROVE  SeenInv'
  BY <1>1, <1>2, SeenKept
<1>3. ASSUME NEW w \in Watches, Fetch(w) \/ DispatchJob(w) PROVE SeenInv'
  BY <1>2, <1>3 DEF Fetch, DispatchJob, watcherVars
<1>4. CASE PassReport
  <2>1. at'["loop"].point # "mountRemoved"
    BY <1>1, <1>4, IsGoroutine DEF PassReport, ReadReport, Continue, Rest
  <2> QED
    BY <1>2, <1>4, <2>1 DEF PassReport, ReadReport
<1>5. ASSUME NEW g \in Goroutines, Watch(g) PROVE SeenInv'
  <2>1. UNCHANGED <<mountpoints, arriving>>
    BY <1>5 DEF Watch, WatcherStep, EnterAdd, RemoveDevice, AddExisting
  <2>2. /\ \A h \in Goroutines \ {g} : at'[h] = at[h]
        /\ at'[g].point # "mountRemoved"
    <3>1. ASSUME NEW s, AddDevice(g, s)
          PROVE  /\ \A h \in Goroutines \ {g} : at'[h] = at[h]
                 /\ at'[g].point # "mountRemoved"
      <4>1. PICK channel \in Channels : Offer(g, s, channel)
        <5>1. \A dm : MountableOn(s, dm) \subseteq Channels
          BY DEF MountableOn, Channels
        <5> QED
          BY <3>1, <5>1 DEF AddDevice, Channels
      <4> QED
        BY <1>1, <4>1 DEF Offer, Continue, Channels, Rest
    <3>2. CASE ~ EnterAdd(g)
      BY <1>1, <1>5, <3>2 DEF Watch, WatcherStep, RemoveDevice, AddExisting, Continue, Rest
    <3>3. CASE Continue(g, [point |-> "formatCompleted", event |-> at[g].event])
      BY <1>1, <3>3 DEF Continue
    <3> QED
      BY <3>1, <3>2, <3>3 DEF EnterAdd
  <2> QED
    BY <1>2, <2>1, <2>2, IsGoroutine
<1>6. CASE AnswerManagedObjects
  <2>1. UNCHANGED at["loop"]
    BY <1>1, <1>6, IsGoroutine DEF AnswerManagedObjects, ListExisting, Continue, Goroutines
  <2> QED
    BY <1>2, <1>6, <2>1 DEF AnswerManagedObjects, ListExisting
<1> QED
  BY <1>1, <1>3, <1>4, <1>5, <1>6, DispatchDeviceSeen, AnswerMountpointsSeen DEF ClientStep

(* A goroutine of main.go reads a channel: the mountwatch gains the mount that
   has arrived, and loses the mount point of a device that is gone, or the
   path of a device, which is no mount point. *)
LEMMA ListenSeen ==
  ASSUME TypedInv, SeenInv, NEW l \in Listeners, Listen(l),
         \A b \in Blocks : Excused(b) => Excused(b)'
  PROVE  SeenInv'
<1>1. at \in [Goroutines -> Where] /\ "loop" \in Goroutines /\ IsABag(arriving) /\ WatcherInv
  BY IsGoroutine DEF TypedInv, WatcherInv, WatcherTyped, SeenInv
<1>2. ASSUME UNCHANGED <<mw, mountpoints, arriving>>,
             UNCHANGED at["loop"] \/ at'["loop"].point # "mountRemoved"
      PROVE  SeenInv'
  BY <1>1, <1>2, SeenKept
<1>3. ASSUME NEW g \in Goroutines, NEW s, NEW channel \in Channels, Offer(g, s, channel)
      PROVE  UNCHANGED at["loop"] \/ at'["loop"].point # "mountRemoved"
  BY <1>1, <1>3 DEF Offer, Continue, Channels, Rest
<1>4. ASSUME NEW g \in Goroutines, ListenBlockAdded(g) \/ ListenBlockError(g) PROVE SeenInv'
  <2>1. Offer(g, at[g].event, "none") /\ UNCHANGED <<mw, mountpoints, arriving>>
    BY <1>4 DEF ListenBlockAdded, ListenBlockError, SendBlock, mountwatchVars
  <2> QED
    BY <1>2, <1>3, <2>1 DEF Channels
<1>5. ASSUME NEW g \in Goroutines, ListenFormatCompleted(g) PROVE SeenInv'
  <2>1. AddDevice(g, at[g].event) /\ UNCHANGED <<mw, mountpoints, arriving>>
    BY <1>5 DEF ListenFormatCompleted, SendFormatCompleted, mountwatchVars
  <2>2. \E channel \in Channels : Offer(g, at[g].event, channel)
    <3>1. \A s, dm : MountableOn(s, dm) \subseteq Channels
      BY DEF MountableOn, Channels
    <3> QED
      BY <2>1, <3>1 DEF AddDevice, Channels
  <2> QED
    BY <1>2, <1>3, <2>1, <2>2
<1>6. ASSUME NEW e, ListenMountCompleted(e) PROVE SeenInv'
  <2>1. /\ DOMAIN mw' = DOMAIN mw \cup {e.mountpoint}
        /\ UNCHANGED <<mountpoints, at>> /\ arriving' = arriving (-) SetToBag({e})
    BY <1>6 DEF ListenMountCompleted, SendMountCompleted, set, Put
  <2>2. IsABag(arriving') /\ \A x \in BagToSet(arriving) : x # e => x \in BagToSet(arriving')
    BY <1>1, <2>1, OneLess
  <2>3. PlacesInv'
    BY <2>1 DEF SeenInv, PlacesInv
  <2>4. ASSUME NEW b \in Blocks PROVE SeenOf(b)'
    BY <2>1, <2>2, <2>4 DEF SeenInv, SeenOf, Watched, Arriving
  <2> QED
    BY <2>2, <2>3, <2>4 DEF SeenInv
<1>7. ASSUME ListenMountRemoved PROVE SeenInv'
  <2> DEFINE p == at["loop"].path
  <2>1. /\ at["loop"].point = "mountRemoved"
        /\ DOMAIN mw' = DOMAIN mw \ {at["loop"].mountpoint}
        /\ UNCHANGED <<mountpoints, arriving>> /\ at'["loop"].point = "remove"
    BY <1>1, <1>7 DEF ListenMountRemoved, SendMountRemoved, remove, Delete, Continue
  <2>2. p \in Blocks /\ p \notin DOMAIN mountpoints /\ at["loop"].mountpoint = MountpointOf[p]
    BY <1>1, <2>1, WhereFacts DEF SeenInv, PlacesInv
  <2> HIDE DEF p
  <2>3. PlacesInv'
    BY <2>1 DEF SeenInv, PlacesInv
  <2>4. ASSUME NEW b \in Blocks PROVE SeenOf(b)'
    <3>1. b \in DOMAIN mountpoints => MountpointOf[b] # MountpointOf[p]
      BY <2>2, MountpointOfAssumption
    <3> QED
      BY <2>1, <2>2, <2>4, <3>1 DEF SeenInv, SeenOf, Watched, Arriving
  <2> QED
    BY <1>1, <2>1, <2>3, <2>4 DEF SeenInv
<1>8. ASSUME ListenUmountCompleted PROVE SeenInv'
  <2> DEFINE p == Head(at["loop"].paths)
  <2>1. /\ at["loop"].point = "umountCompleted" /\ NextPath
        /\ DOMAIN mw' = DOMAIN mw \ {p}
        /\ mountpoints' = Delete(mountpoints, p) /\ UNCHANGED arriving
    BY <1>8 DEF ListenUmountCompleted, SendUmountCompleted, remove, Delete
  <2>2. p \in Blocks /\ at'["loop"].point = "select"
    BY <1>1, <2>1, NextPathRests DEF Continue, Rest
  <2> HIDE DEF p
  <2>3. /\ DOMAIN mountpoints' = DOMAIN mountpoints \ {p}
        /\ \A b \in DOMAIN mountpoints' : mountpoints'[b] = mountpoints[b]
    BY <2>1 DEF Delete
  <2>4. PlacesInv'
    BY <2>2, <2>3 DEF SeenInv, PlacesInv
  <2>5. ASSUME NEW b \in Blocks PROVE SeenOf(b)'
    <3>1. MountpointOf[b] # p
      BY <2>2, MountpointOfAssumption
    <3> QED
      BY <2>1, <2>3, <2>5, <3>1 DEF SeenInv, SeenOf, Watched, Arriving
  <2> QED
    BY <1>1, <2>1, <2>4, <2>5 DEF SeenInv
<1>9. ASSUME Notified(l) \/ \E c : ReadMountError(c) PROVE SeenInv'
  BY <1>2, <1>9 DEF Notified, ReadMountError, clientVars, packageVars, watcherVars, mountwatchVars
<1> QED
  BY <1>4, <1>5, <1>6, <1>7, <1>8, <1>9 DEF Listen

LEMMA NextSeen ==
  ASSUME TypedInv, ListedInv, SeenInv, [Next]_vars, ~ Restart
  PROVE  SeenInv'
<1>1. \A b \in Blocks : Excused(b) => Excused(b)'
  BY ListedStays
<1>2. CASE UNCHANGED <<watcherVars>> /\ DOMAIN mw \subseteq DOMAIN mw'
  BY <1>1, <1>2, SeenKept DEF watcherVars, SeenInv
<1>3. CASE ServiceStep \/ JobStep \/ CallStep
  BY <1>2, <1>3 DEF ServiceStep, JobStep, ServiceFinishesJob, CallStep, MountAccepted, MountRefused,
                    ArgsOfNoReply, Crash, Rests, mountwatchVars
<1>4. CASE CheckFreeSpace \/ UNCHANGED vars
  <2>1. UNCHANGED watcherVars
    BY <1>4 DEF CheckFreeSpace, vars, clientVars, packageVars
  <2>2. DOMAIN mw \subseteq DOMAIN mw'
    BY <1>4 DEF CheckFreeSpace, vars, mountwatchVars, StartCheck, CheckFails, CheckFindsSpace,
                CheckFindsLow, WarningSent, WarningFails, set, Put
  <2> QED
    BY <1>2, <2>1, <2>2
<1>5. CASE Unanswered
  <2>1. UNCHANGED <<mw, mountpoints, arriving>> /\ at \in [Goroutines -> Where]
    BY <1>5 DEF Unanswered, RefuseManagedObjects, RefuseMountpoints, ListExisting, MountFinished,
                mountwatchVars, TypedInv, WatcherInv, WatcherTyped
  <2>2. UNCHANGED at["loop"] \/ at'["loop"].point # "mountRemoved"
    <3>1. CASE RefuseManagedObjects
      BY <2>1, <3>1, IsGoroutine DEF RefuseManagedObjects, ListExisting, Continue, Goroutines
    <3>2. CASE RefuseMountpoints
      BY <2>1, <3>2, IsGoroutine DEF RefuseMountpoints, MountFinished, NextPath, Continue, Rest
    <3> QED
      BY <1>5, <3>1, <3>2 DEF Unanswered
  <2> QED
    BY <1>1, <2>1, <2>2, SeenKept DEF SeenInv
<1> QED
  BY <1>1, <1>3, <1>4, <1>5, DeliverSeen, ListenSeen
    DEF Next, Step, RacingMapAccess, NoManagedObjects

(* Nothing is known at the start. *)
LEMMA InitSeen ==
  ASSUME Init
  PROVE  ListedInv /\ SeenInv
<1>1. /\ calls = EmptyBag /\ arriving = EmptyBag /\ DOMAIN mountpoints = {} /\ report = <<>>
      /\ DOMAIN onGoingJobs = {} /\ Coming = <<>>
      /\ \A g \in Goroutines : at[g].point \in {"select", "getManagedObjects"}
  BY DEF Init, ClientInit, WatcherInit, DaemonInit, JobManagerInit, DispatcherInit, EmptyMap,
         Watches, Coming, Rest
<1>2. \A b \in Blocks : ~ MountKnown(b)
  BY <1>1, EmptyBagFacts, IsGoroutine
    DEF MountKnown, Ordering, JobIs, Known, Has, Reporting, LoopAt
<1> QED
  BY <1>1, <1>2, EmptyBagFacts, IsGoroutine DEF ListedInv, SeenInv, PlacesInv, SeenOf

(* Every card that UDisks2 has mounted is in the mountwatch, under its mount
   point (main.go:238-252, udisks2.go:281-367), once all that UDisks2 said has
   been handled and as long as the process has not been restarted, if every
   signal can be decoded.  It is not claimed of a block device that
   - MountpointsMatch leaves out: one with a job whose removal overtook its
     announcement, one that is mounted since before the daemon first started
     (udisks2.go:569), or one whose mount points could not be read when it was
     mounted (udisks2.go:261-274);
   - has an entry of its own among the drives (udisks2.go:684-687), or was
     lost by its drive's entry when the drive was announced again (675-678), or
     whose new file system was found before its drive listed it: its mount is
     announced to nobody (359-362). *)
THEOREM CardsWatched ==
  ASSUME AllDecodable
  PROVE  Spec => []MountedCardsAreWatched
<1> DEFINE Inv == TypedInv /\ (~ crashed => ListedInv /\ SeenInv)
<1>1. Init => Inv
  BY InitTyped, InitSeen
<1>2. Inv /\ [Next]_vars => Inv'
  <2> SUFFICES ASSUME Inv, [Next]_vars PROVE Inv'
    OBVIOUS
  <2>1. TypedInv'
    BY NextTyped
  <2>2. ASSUME ~ crashed' PROVE ListedInv' /\ SeenInv'
    <3>1. ~ crashed /\ ~ Restart
      BY <2>2, NotYetCrashed DEF Restart
    <3> QED
      BY <3>1, NextListed, NextSeen
  <2> QED
    BY <2>1, <2>2
<1>3. Inv /\ MountpointsMatchUDisks2 => MountedCardsAreWatched
  <2> SUFFICES ASSUME SeenInv, MountpointsMatchUDisks2, Quiet, ~ crashed,
                      NEW b \in Blocks \ (overtaken \cup unseen \cup forgotten \cup DOMAIN drives),
                      b \in mounted
               PROVE  Watched(MountpointOf[b])
    BY DEF MountedCardsAreWatched
  <2>1. b \in DOMAIN mountpoints
    BY DEF MountpointsMatchUDisks2
  <2>2. BagToSet(arriving) = {}
    BY EmptyBagFacts DEF Quiet, ClientQuiet
  <2> QED
    BY <2>1, <2>2 DEF SeenInv, SeenOf, Arriving, Excused
<1> QED
  BY <1>1, <1>2, <1>3, MountpointsMatch, PTL DEF Spec

=============================================================================
