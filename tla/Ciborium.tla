------------------------------ MODULE Ciborium ------------------------------
(***************************************************************************)
(* The daemon, cmd/ciborium/main.go, on top of the udisks2 package and of  *)
(* the UDisks2 service: three goroutines read the channels of the storage  *)
(* watcher two or three at a time, ask UDisks2 to mount what is found,     *)
(* keep the mountwatch, and notify the user over D-Bus, which takes time.  *)
(* A failed Mount takes the process down; upstart starts it again.         *)
(***************************************************************************)
EXTENDS StorageClient, Mountwatch

CONSTANT MaxChecks      \* bound: free space checks started

VARIABLES listener,    \* what each goroutine of main is doing
          calls,       \* the Mount calls on their way, a bag
          checks,      \* what MaxChecks counts
          crashed,     \* history: has the daemon been restarted?
          unseen,      \* history: mounted block devices the daemon was not told are
          unlisted     \* history: block devices GetManagedObjects did not tell of

daemonVars == <<listener, calls>>
bounds == <<checks, crashed>>
untold == <<unseen, unlisted>>
vars == <<serviceVars, clientVars, mountwatchVars, daemonVars, bounds, untold>>

Listeners == {"blocks", "mounts", "formats"}

(* The channels main subscribes to: all but blockDevice. *)
DaemonChannels ==
  {"blockAdded", "blockError", "formatCompleted", "formatErrors",
   "umountCompleted", "unmountErrors", "mountCompleted", "mountErrors", "mountRemoved"}

ASSUME SubscribedAssumption == Subscribed = DaemonChannels

DaemonInit ==
  /\ listener = [l \in Listeners |-> "select"]
  /\ calls = EmptyBag

(* Some block devices may be mounted before the daemon first starts: their
   announcements, in the list of what exists, say so, and processAddEvent
   leaves them alone (udisks2.go:569). *)
Init ==
  /\ \E s \in Sessions : ServiceInit(s)
  /\ ClientInit
  /\ MountwatchInit /\ DaemonInit
  /\ checks = 0
  /\ crashed = FALSE
  /\ unseen = mounted /\ unlisted = {}

Listens(l) == listener[l] = "select" /\ (l = "blocks" => NoCheck)

Notify(l) == listener' = [listener EXCEPT ![l] = "notify"]

(* Send returns, with or without an error: either is logged only. *)
Notified(l) ==
  /\ listener[l] = "notify"
  /\ listener' = [listener EXCEPT ![l] = "select"]
  /\ UNCHANGED <<serviceVars, clientVars, mountwatchVars, calls, bounds>>

-----------------------------------------------------------------------------
(* UDisks2.Mount: a goroutine calls UDisks2 and waits for the answer.  A
   refused or failed call is reported on mountErrors; the code then goes on
   to read a reply that is not there. *)

ANewCall(b) == [path |-> b, state |-> "calling"]

Mount(b) == calls' = calls (+) SetToBag({ANewCall(b)})

Move(c, state) ==
  calls' = (calls (-) SetToBag({c})) (+) SetToBag({[c EXCEPT !.state = state]})

End(c) == calls' = calls (-) SetToBag({c})

Rests == <<held, jobManagerVars, watcherVars, clientHistory, mountwatchVars, listener, bounds>>

MountAccepted(c) ==
  /\ c.state = "calling"
  /\ StartMount(c.path)
  /\ Move(c, "mounting")
  /\ UNCHANGED Rests

MountRefused(c) ==
  /\ c.state = "calling"
  /\ ~ Mountable(c.path)
  /\ Move(c, "failed")
  /\ UNCHANGED <<serviceVars, watch, Rests>>

(* The end of a mount job is also the answer to the call that started it. *)
ServiceFinishesJob(p) ==
  /\ FinishJob(p)
  /\ LET b == running[p].block
         c == [path |-> b, state |-> "mounting"]
     IN  IF running[p].op = MountFs /\ BagIn(c, calls)
         THEN IF b \in present THEN End(c) ELSE Move(c, "failed")
         ELSE UNCHANGED calls
  /\ UNCHANGED Rests

(* The listener of mounts reads mountErrors. *)
ReadMountError(c) ==
  /\ c.state \in {"failed", "failedAgain"}
  /\ Listens("mounts")
  /\ Notify("mounts")
  /\ IF c.state = "failed" THEN Move(c, "noReply") ELSE End(c)
  /\ UNCHANGED <<serviceVars, clientVars, mountwatchVars, bounds>>

(* reply.Args without a reply: an error once more, if the library bears it. *)
ArgsOfNoReply(c) ==
  /\ c.state = "noReply"
  /\ Move(c, "failedAgain")
  /\ UNCHANGED <<serviceVars, watch, Rests>>

(* The process is gone, and upstart's next one starts with nothing but what
   UDisks2 tells it. *)
Restart ==
  /\ ClientRestarts
  /\ mw' = Put(EmptyMap, Home, TRUE) /\ checking' = {} /\ warning' = None
  /\ listener' = [l \in Listeners |-> "select"] /\ calls' = EmptyBag
  /\ crashed' = TRUE
  /\ UNCHANGED <<serviceVars, checks>>

(* ... or a nil dereference. *)
Crash(c) == c.state = "noReply" /\ Restart

RacingMapAccess == MapAccessRaces(Listens("formats")) /\ Restart

(* GetManagedObjects fails without a reply, which is then read. *)
NoManagedObjects == left.failing /\ at["init"].point = "getManagedObjects" /\ Restart

-----------------------------------------------------------------------------
(* The goroutine of block devices *)

Quietly == UNCHANGED <<serviceVars, dispatcherVars, jobManagerVars, clientHistory, bounds>>

ListenBlockAdded(g) ==
  /\ at[g].point = "blockAdded"
  /\ Listens("blocks")
  /\ SendBlock(g, "blockAdded", at[g].event)
  /\ Mount(at[g].event.path)
  /\ UNCHANGED <<mountwatchVars, listener>> /\ Quietly

ListenBlockError(g) ==
  /\ at[g].point = "blockError"
  /\ Listens("blocks")
  /\ SendBlock(g, "blockError", at[g].event)
  /\ Notify("blocks")
  /\ UNCHANGED <<mountwatchVars, calls>> /\ Quietly

ListenMountRemoved ==
  /\ at["loop"].point = "mountRemoved"
  /\ Listens("blocks")
  /\ SendMountRemoved(at["loop"].mountpoint)
  /\ remove(at["loop"].mountpoint)
  /\ Notify("blocks")
  /\ UNCHANGED <<checking, warning, calls>> /\ Quietly

CheckFreeSpace ==
  /\ listener["blocks"] = "select"
  /\ \/ StartCheck /\ checks < MaxChecks /\ checks' = checks + 1
     \/ /\ \/ \E m \in checking : CheckFails(m) \/ CheckFindsSpace(m) \/ CheckFindsLow(m)
           \/ WarningSent \/ WarningFails
        /\ UNCHANGED checks
  /\ UNCHANGED <<serviceVars, clientVars, daemonVars, crashed>>

-----------------------------------------------------------------------------
(* The goroutine of mounts *)

(* Mutant of ListenMountCompleted: the drive's path instead of the mount
   point. *)
ListenMountOfDrive(e) ==
  /\ Listens("mounts")
  /\ SendMountCompleted(e)
  /\ set(e.path, TRUE)
  /\ Notify("mounts")
  /\ UNCHANGED <<checking, warning, calls>> /\ Quietly

ListenMountCompleted(e) ==
  /\ Listens("mounts")
  /\ SendMountCompleted(e)
  /\ set(e.mountpoint, TRUE)
  /\ Notify("mounts")
  /\ UNCHANGED <<checking, warning, calls>> /\ Quietly

(* What is removed from the mountwatch is the path that was sent. *)
ListenUmountCompleted ==
  /\ at["loop"].point = "umountCompleted"
  /\ Listens("mounts")
  /\ SendUmountCompleted(Head(at["loop"].paths))
  /\ remove(Head(at["loop"].paths))
  /\ Notify("mounts")
  /\ UNCHANGED <<checking, warning, calls>> /\ Quietly

-----------------------------------------------------------------------------
(* The goroutine of formats *)

ListenFormatCompleted(g) ==
  /\ at[g].point = "formatCompleted"
  /\ Listens("formats")
  /\ SendFormatCompleted(g, at[g].event)
  /\ Mount(at[g].event.path)
  /\ UNCHANGED <<mountwatchVars, listener>> /\ Quietly

-----------------------------------------------------------------------------
ServiceStep ==
  /\ \/ \E d \in Drives : InsertDrive(d) \/ RemoveDrive(d)
     \/ \E b \in Blocks : \/ InsertBlock(b) \/ RemoveBlock(b)
                          \/ StartUnmount(b) \/ StartFormat(b)
  /\ UNCHANGED <<calls, Rests>>

JobStep ==
  \/ \E p \in JobPaths : Wipe(p) /\ UNCHANGED <<calls, Rests>>
  \/ \E p \in JobPaths : ServiceFinishesJob(p)
  \/ \E b \in Blocks : AnnounceFilesystem(b) /\ UNCHANGED <<calls, Rests>>

CallStep ==
  \E c \in BagToSet(calls) :
    MountAccepted(c) \/ MountRefused(c) \/ ArgsOfNoReply(c) \/ Crash(c)

Listen(l) ==
  \/ l = "blocks" /\ \/ \E g \in Goroutines : ListenBlockAdded(g) \/ ListenBlockError(g)
                     \/ ListenMountRemoved
  \/ l = "mounts" /\ \/ \E e \in BagToSet(arriving) : ListenMountCompleted(e)
                     \/ ListenUmountCompleted
                     \/ \E c \in BagToSet(calls) : ReadMountError(c)
  \/ l = "formats" /\ \E g \in Goroutines : ListenFormatCompleted(g)
  \/ Notified(l)

Deliver == ClientStep /\ UNCHANGED <<mountwatchVars, daemonVars, bounds>>

Step ==
  \/ ServiceStep \/ JobStep \/ CallStep
  \/ RacingMapAccess \/ NoManagedObjects
  \/ Deliver
  \/ \E l \in Listeners : Listen(l)
  \/ CheckFreeSpace

(* What is not mounted, or not there, any more can be told of again. *)
Remember ==
  /\ unseen' = unseen \cap mounted'
  /\ unlisted' = unlisted \cap present'

(* A query fails: what it would have told stays untold. *)
Unanswered ==
  /\ \/ /\ RefuseMountpoints
        /\ unseen' = unseen \cup ({Head(at["loop"].paths)} \cap mounted)
        /\ UNCHANGED unlisted
     \/ /\ RefuseManagedObjects
        /\ unlisted' = unlisted \cup (Blocks \cap present)
        /\ UNCHANGED unseen
  /\ UNCHANGED <<serviceVars, mountwatchVars, daemonVars, bounds>>

Next == (Step /\ Remember) \/ Unanswered

Spec == Init /\ [][Next]_vars

(* UDisks2 finishes its jobs and answers calls, a goroutine that can run
   runs, and every notification returns.  Nobody has to plug, pull, unmount
   or format anything, no query has to fail, and no free space check has to
   start.  One of the goroutines of a group at a time is enough: their number
   is finite and each comes to wait for another group. *)
Fairness ==
  /\ WF_vars(JobStep /\ Remember) /\ WF_vars(CallStep /\ Remember)
  /\ WF_vars(Deliver /\ Remember)
  /\ WF_vars((\E l \in Listeners : Listen(l)) /\ Remember)
  /\ WF_vars(CheckFreeSpace /\ UNCHANGED checks /\ Remember)

FairSpec == Spec /\ Fairness

-----------------------------------------------------------------------------
TypeOK ==
  /\ ClientTypeOK
  /\ \A m \in DOMAIN mw : mw[m] \in BOOLEAN
  /\ listener \in [Listeners -> {"select", "notify"}]

(* Nothing left to do for the daemon, nor for UDisks2 unless asked. *)
Quiet ==
  /\ ClientQuiet
  /\ calls = EmptyBag
  /\ \A l \in Listeners : Listens(l)

(* One system device on a drive may hide the others: hasSystemBlockDevices
   looks at whichever it comes across first (udisks2.go:597-606). *)
Wanted(b) ==
  /\ b \in present /\ DriveOf[b] \in Removable
  /\ \A c \in SystemBlocks : DriveOf[c] # DriveOf[b]
  /\ fs[b] = "vfat"

(* A card with a supported file system that nobody has unmounted or
   formatted ends up mounted, whether it was there before the daemon, was
   put in while the daemon looked around or later, and also when the daemon
   was restarted.  Two exceptions: a card that was announced while its
   drive was unknown, which has an entry of its own among the drives
   (udisks2.go:684-687) and is never offered, and a card that was there when
   GetManagedObjects failed (udisks2.go:419-427). *)
CardsAreMounted ==
  Quiet =>
    \A b \in Blocks \ unlisted :
      Wanted(b) /\ asked[b] = "none" /\ b \notin DOMAIN drives => b \in mounted

(* What the storage watcher believes mounted is what UDisks2 has mounted.
   The exceptions: a daemon that was restarted, which knows of no mount
   before that; a block device whose job's end overtook its start; and one that
   is mounted since before the daemon first started (udisks2.go:569), or
   whose mount points could not be read when its mount was done
   (udisks2.go:261-274), until it is not mounted any more. *)
MountpointsMatchUDisks2 ==
  Quiet /\ ~ crashed =>
    \A b \in Blocks \ (overtaken \cup unseen) : b \in DOMAIN mountpoints <=> b \in mounted

(* The free space of every mounted card is watched.  The exceptions are
   those of MountpointsMatchUDisks2 and these: the card has an entry of its
   own among the drives, a second announcement of its drive made the storage
   watcher forget the card (udisks2.go:675-678), or its new file system was
   found before its drive listed it: its mount is then announced to nobody
   (udisks2.go:359-362). *)
MountedCardsAreWatched ==
  Quiet /\ ~ crashed =>
    \A b \in Blocks \ (overtaken \cup unseen \cup forgotten \cup DOMAIN drives) :
      b \in mounted => Watched(MountpointOf[b])

(* "we want to make sure that we always react" (main.go:174-177): when the
   world outside comes to rest, the daemon has handled everything and all
   its goroutines are back at their channels. *)
AlwaysReacts == <>[]Quiet

(* A card that was formatted ends up mounted, unless its new file system
   was handled before the end of the job that made it, which comes another
   way (udisks2.go:459-463, 328-332), or the daemon was restarted. *)
RemountedAfterFormat ==
  Quiet /\ ~ crashed =>
    \A b \in Blocks \ early :
      Wanted(b) /\ asked[b] = "format" => b \in mounted

(* "Ensure that we remount the drives after we format them"
   (debian/changelog:116). *)
FormattedCardsAreRemounted ==
  Quiet => \A b \in Blocks : Wanted(b) /\ asked[b] = "format" => b \in mounted
=============================================================================
