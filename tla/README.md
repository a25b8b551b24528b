# Ciborium, in TLA+

Ciborium manages SD cards on a phone. It is a client of UDisks2: a daemon
(`cmd/ciborium`) mounts the cards that appear, tells the user, and warns when
space gets low; a settings application (`cmd/ciborium-ui`) lists, formats and
unmounts them. Both are built on the `udisks2` package, which turns the D-Bus
signals of UDisks2 into Go channels. The application's window is QML, reached
through the bridge in `qml.v1`, which the repository carries with it. This directory holds TLA+ models of that
system, the TLC runs that check them and TLAPS proofs about them. Paths below
are those of the repository.

## The system

| Part | Code | State it keeps | What it does | Model |
|---|---|---|---|---|
| dispatcher | `udisks2/dispatcher.go` | two signal watches, one event being sent per goroutine | decodes `InterfacesAdded` and `InterfacesRemoved`, hands each event to `Jobs`, `Additions` or `Removals` | `Dispatcher` |
| job manager | `udisks2/jobs.go` | `onGoingJobs`, one job being forwarded | remembers running jobs, forwards their start and their end to the channel of their operation | `JobManager` |
| properties | `udisks2/properties.go` | none | predicates on the properties of an event | `Events` |
| storage watcher | `udisks2/udisks2.go` | `drives`, `mountpoints`, `pendingMounts`, `mapLock` | the event loop, the walk over existing devices, the announcements to the application; `Format`, `Unmount`, `ExternalDrives` | `StorageWatcher`, `DriveRequests` |
| daemon | `cmd/ciborium/main.go` | what each of three goroutines is doing, Mount calls on their way | mounts, notifies | `Ciborium` |
| mountwatch | `cmd/ciborium/main.go` | mount point -> warn | the free space check | `Mountwatch` |
| notifications | `notifications/` | none | a D-Bus call that takes time and may fail | a step of `Ciborium` and `Mountwatch` |
| driveControl | `cmd/ciborium-ui/main.go` | `ExternalDrives`, `Len`, four flags | refreshes the list, formats and unmounts for QML | `DriveControl`, `CiboriumUI` |
| QML dialogs | `share/ciborium/qml` | rows of the list, states of two dialogs | bound to the flags and the list | `DriveControl` |
| QML bridge: GUI thread | `qml.v1/bridge.go`, `cpp/idletimer.cpp` | `guiIdleRun`, `guiLock`, the idle timer, two shared channels | runs functions of goroutines on the GUI thread; `Lock`, `Unlock`, `Flush` | `GuiThread`, `GuiCalls` |
| QML bridge: value folds | `qml.v1/bridge.go`, `qml.go` | `engines`, a list of folds per engine and value, `typeNew`, `cgoFolds` | keeps Go values alive while QML has objects for them; `Changed`, `Init`, `Paint` | `ValueFolds` |
| QML bridge: resources | `qml.v1/resources.go` | a tree of files | packs files in the format Qt looks them up in | `Resources` |
| QML bridge: conversion, statistics, logging, C++ side | `qml.v1` | counters | Go values in C++ memory and back | no |
| gettext | `gettext/` | none | a C binding | no |
| UDisks2 | outside the repository | objects, mounts, jobs | | `UDisks2Service`, external |

How they interact. UDisks2 sends signals; the dispatcher's *additions* and
*removals* goroutines each read one kind and block on an unbuffered channel until
their event is taken. The job manager reads `Jobs` and blocks on one of four
channels until the storage watcher's loop takes the job. The loop reads all
six channels, and blocks on the channels the application subscribed to, in
places with `mapLock` held. Meanwhile the goroutine that called `Init` adds the
devices that exist already, through the same `processAddEvent`. The
daemon's three goroutines read the nine application channels two to four at a
time, and between two reads make a D-Bus call. The settings application is a process
of its own with the same package inside: its three goroutines set flags and start
refreshes, and wait in `qml.Changed` for the GUI thread, which runs QML and the
methods QML calls (`DriveFormat`, `DriveUnmount`). How they wait is the bridge's:
every goroutine hands its function to the one GUI thread over a channel that all of
them share, and a timer of Qt makes that thread look. Everything that is hard about
the system is in these hand-offs:

* *ordering*: a removal may overtake the addition it undoes, and the end of a
  format may come before or after the file system it made;
* *blocking*: a chain of unbuffered sends, one of them under a lock;
* *concurrency*: the start-up walk against the loop, the free space check against
  a mount, a goroutine that announces a mount up to 25 seconds late;
* *failure*: an undecodable message, a refused Mount (after which the code reads a
  reply that is not there and the process dies, or reports a second error), a query
  that fails or has no answer the code can read, a notification that fails, a restart by upstart;
* *reentrancy*: on the GUI thread Go calls QML and QML calls Go, any depth of it, while
  lists of folds are being walked or functions wait to be told that they are done.

What makes each part correct, in a sentence: the dispatcher keeps the order of
each signal and loses nothing; the job manager reports a completion only if it
is true, once, and after the start; the storage watcher agrees with UDisks2 about
what is mounted whenever nothing is in flight; the daemon mounts every card it
should and always comes back to its channels; the settings application shows
the list the storage watcher would give, and its dialogs end; the mountwatch warns once for
each reason, loses no mounted mount point and revives no removed one; the bridge runs each function once and
forgets no caller, its lists hold exactly the objects that live, and Qt finds every
file that was packed. `PROJECT.json` lists the
hazards, line by line, with the properties aimed at each.

## The modules

* `Events` — the vocabulary: object paths, interfaces, events, the predicates of
  `properties.go`, and Go maps as functions (`EmptyMap`, `Put`, `Delete`). Drive
  and job paths are model values. Block device paths and interface names are
  numbers, because the code *sorts and searches* them: `SearchFinds` is
  `sort.SearchStrings(a, x) != len(a)`, which is not membership.
* `EventStreams` — what the dispatcher promises: two queues, each delivered in order, on
  the channel its path selects, unordered between them.
* `Dispatcher` — the two goroutines: `Skip` (an undecodable message), `Take`, `Send`.
  `Send` is a rendezvous: it is conjoined with the action of the reader.
  `DispatcherSystem` closes it with any bus and any readers, and shows that it
  implements `EventStreams` with `pending[w] == held[w] \o watch[w]`.
* `JobManager` — `processAdditionEvent`, `processRemovalEvent`, and `Forward`, the
  rendezvous with the loop. `JobPipeline` puts it behind the dispatcher and
  in front of a loop that reads when it likes, with a UDisks2 that starts jobs,
  announces them again, withdraws other interfaces and ends them.
* `StorageWatcher` — the loop and the goroutine of `Init`, each at a *point*
  (`at[g]`) where it may have to wait: for the select, for `mapLock` (`add`,
  `remove`), for the reader of a channel (`formatCompleted`, `blockAdded`,
  `blockError`, `blockDevice`, `mountRemoved`, `umountCompleted`) or for a D-Bus
  reply (`mountpointsForPath`, `getManagedObjects`). What the code does from one
  point to the next is one action. `arriving` are the goroutines that
  wait for a mount point to appear.
* `Mountwatch` — `set`, `remove`, `warn`, and the check in the steps its lock
  makes: read, notify, write. `MountwatchSystem` surrounds it with what its two users do:
  mounts, which are announced late (`arriving`) and also of a mount point that is watched, being checked
  or warned about; unmounts, after which an object path is "removed", so that the mount point stays; removals of cards,
  which the goroutine that checks reads between two checks; and file systems that fill up and empty.
* `UDisks2Service` — external: cards come and go, jobs start and end, a format
  first takes the old file system away and the new one is announced only after
  the job. What may come from outside is a *session* (`IsSession`): the file
  systems and partitions of the cards there are, which block devices may be mounted before the client starts
  (`before`), how often each object is put in, how many
  unmounts and formats somebody else asks for, and whether queries may fail (`failing`); `left` is what of it has yet to come. Each
  behaviour is one session of the set `Sessions`, so a run explores several
  situations without their product. `SystemHints`, `managedDrives` and the order of the answer to
  `GetManagedObjects` are left open as the Go map iteration leaves them.
* `StorageClient` — the package as one process has it: dispatcher, job manager and
  storage watcher, their hand-offs to each other and UDisks2's answers, true ones
  (`AnswerMountpoints`, `AnswerManagedObjects`) or none (`RefuseMountpoints`, after which there are no mount points
  for the code, and `RefuseManagedObjects`, after which the walk ends). What the
  application reads is left to the module that extends it.
* `Ciborium` — the daemon: `StorageClient`, the mountwatch, and the goroutines of `main` as
  `listener`, and the Mount calls as the bag `calls`. `Crash` is the nil
  reply of `Mount`, `NoManagedObjects` that of `GetManagedObjects`, `RacingMapAccess` the Go runtime stopping the process when
  an unlocked walk over `drives`, or over what `formatCompleted` is sent for, meets a write, `Restart` the next process.
  `Next` is a `Step` after which the history is brought up to date (`Remember`), or a query that fails (`Unanswered`).
* `DriveRequests` — `Unmount` and `Format`: a goroutine per block device
  (`umounts`), and one per format (`formatters`), which unmounts, deletes partitions
  and formats, with an error path in each of its three loops. Those loops range over a Go map that others change:
  a block device that joins may be visited or not (`Visits`), and the deletion of a partition by UDisks2 and from the
  map are two steps (`PartitionDeleted`, `PartitionForgotten`). `ExternalDrives`
  returns structures that share their maps with the originals, so a copy
  sees block devices added later; `Dropped` and `Detach` give a copy its own
  map when the original is replaced or deleted, `BlocksOf` reads a copy.
* `DriveControl` — the list, its refreshes (ask, assign, take the length, tell QML; `refreshes` is the bag of
  what their goroutines do next, `answers` the lists not assigned yet), the four flags, the rows on the screen and the dialog that is open, whose state
  is what its bindings make of the flags each time they are told of a change.
* `CiboriumUI` — the application: `StorageClient`, `DriveControl` and the goroutines
  of `Watch`, with a user, UDisks2, and the daemon reduced to what the application
  can tell: somebody who may mount a block device. `Strand` is a
  send on a channel that is nil because its goroutine has not subscribed yet; `Dies`
  is an index out of range, or the Go runtime stopping the process. A session also says
  which dialogs the user opens, whether there is a daemon, whether the application is just
  starting (`Fresh`) or has been up for a while (`Settled`).
* `GuiCalls` — what `RunMain`, `Lock` and `Flush` promise: a function is asked for, begins once, ends,
  and its caller returns; functions nest only in a `Flush`; handlers run only while nothing
  is locked, or in a `Flush`.
* `GuiThread` — the steps of `RunMain` in a goroutine (`CountIn`, `idleTimerStart`, `Offer`, then waiting
  for any done), of `hookIdleTimer` (`TakeFunction`, `SignalDone`, `CountOut`, `HookReturns`) and
  of Qt's timer, whose C++ object belongs to the thread that first asked for it. `functions` is the stack of
  the GUI thread, which grows when a `Flush` has Qt process events. The abstract state is that of
  `GuiCalls` without the counter, timer and channels.
* `ValueFolds` — one list of folds per engine and value, and what links and unlinks them:
  `wrapGoValue` in front, `ensureEngine` (here `Attach`) at the end, `hookGoValueDestroyed`. `frames`
  are the Go functions in progress that may call QML: `Init`, `Paint` and `Changed`, the last with its place in its loops. While one
  is in progress any code may run that the code allows there. The memory of a fold that
  is gone is used again.
* `Resources` — `Add` and `Pack` as actions, the passes of the packer as operators that keep the code's
  order of visits and byte offsets; `findNode` is Qt's lookup, external. It uses `Bitwise` and
  `RECURSIVE` and is for TLC only.

The variables named *history* (`overtaken`, `forgotten`, `formatted`, `early`,
`crashed`, `unseen`, `unlisted`, `stale`, `stranded`, `inited`, `added`, and in `MountwatchSystem` `told` and the four counters)
are not in the code: they record what the properties
need to name an exception or to look back. `forgotten` has the block devices that the drives map has lost, and
those whose file system was found before a drive listed them; `unseen` the mounted ones that the daemon was
not told are: mounted before it first started, or with mount points that could not be read; `unlisted` those there were when
`GetManagedObjects` failed. A block device leaves `unseen` when it is not mounted any more and `unlisted` when it is gone. No guard reads them but the bound of
`added`.

A module that only composes adds no behaviour of its own; the mutants that stand
before a definition (`SkipReturns`, `OfferKeepsLock`, ...) are plausible
slips in that code, each shown to break a property, and are used nowhere else.

## The runs

The runs that must pass; three more are in the section on disagreements.

| Run | Shows | Bounds |
|---|---|---|
| `dispatcher` | `DeliversStreams`: the goroutines implement the streams. `EveryEventDelivered`: what decodes arrives, also behind what does not | three signals per watch: one held, one waiting, a broken one between |
| `job_pipeline` | completions are true (`ReportsAreTrue`), once and after the start (`ReportedOnceInOrder`), the map has the job while it is sent (`ForwardedJobIsKnown`), nothing leaks or is lost but jobs whose end overtook an announcement (`OngoingJobsMatchUDisks2`, `EndIsReported`) | two jobs of four kinds, one of them announced again or losing another interface, a block device in front |
| `mountwatch` | `WarnedOncePerEpisode`; `MountedAreWatched`: what is mounted and announced is watched; `RemovedStayOut`: no write of a check brings back what was removed | two cards and `/home`, two mounts each, checks until two notifications |
| `daemon` | `MountpointsMatchUDisks2`, `LockedOnlyWhileSending`, `RemountedAfterFormat`, `CardsAreMounted`, `MountedCardsAreWatched` | four sessions of one card, which may be pulled out at any moment: it holds a file system that cannot be mounted, and another process formats and unmounts it; the same, mounted before the daemon starts or not, is unmounted, and queries may fail; the card, mounted before or not, is put in a reader twice; reader and card, mounted before or not, are put in, and queries may fail; three jobs; crashes and restarts |
| `reaction` | `AlwaysReacts`: `<>[]Quiet` | one card put in, or mounted before the daemon starts, one free space check; no query fails, to keep the liveness check short |
| `ui` | `RowsMatchList`, `ListIsCurrent`, `DialogsEnd` | four sessions, in which a card may be mounted before and queries may fail: the application starts while a reader comes and goes, or a card does; one card, two removals, one unmount by somebody else, the daemon mounting, the card pulled out at any moment; a disk with one partition, one format |
| `gui_thread` | `ImplementsCalls`, `NoLostWakeup`, `EveryCallReturns` | three goroutines, one of them that of `Run`, and a handler, with two or three calls each: locks that nest and add up, an `Unlock` too many, flushes inside flushes, calls before `Run` |
| `value_folds` | `ListsHoldLiveFolds`, `OwnedFoldIsFirst`, `EngineKeptWhileNeeded`, `ChangedReachesAll`, `InitBeforeUse`, `InitOnce` | two engines, three folds of one value, two Go functions inside each other |
| `resources` | `FindsWhatWasAdded`, `ParsesBack`, `PendingFits`, `NeverReplaced` | every way to add up to three of six paths, two names with one hash and three levels among them, three sizes of data |

The bounds of the daemon's runs are small because each action of the environment
multiplies the hand-offs in flight: a session with one card and one request has all
of the goroutines at work against each other (up to three jobs, the listeners,
the start-up walk and a restart). A single card is enough for what those
properties say, which is about one card at a time, and not for what is said
of several (`SafeToRemove` has two block devices). Larger sessions were tried once, one block device put in twice with an unmount
(5.2 million states) and, by simulation, with a format as well: no counterexample to `MountpointsMatchUDisks2`, `CardsAreMounted`
and `RemountedAfterFormat`
came up, nor, in simulation (a card put in twice and formatted; and unmounted as well), to `MountedCardsAreWatched`. No
session of the run has both a second insertion and a format. All
four are proved below for sessions of any size. The bounds are the sessions
(`Sessions`, defined in `MCCiborium` and `MCCiboriumUI`) and the scripts (`Scripts`, `MCGuiThread`), and guards: `MaxChecks` of `Ciborium`,
`MaxSignals`, `MaxDisturbed`, `MaxMounts`, `MaxWarnings` of the system modules,
`Folds` and `MaxFrames` of `ValueFolds`, `Paths`, `Sizes` and `MaxAdded` of `Resources`; the
code itself has none. Three folds make a list with a first, a middle and a last one, or a list in each engine and a fold without one;
two frames are a function and what QML calls while it is in progress. `CHECK_DEADLOCK FALSE` is set because, with
bounded requests, the system rightly comes to rest. Symmetry is used
in `value_folds` only, for engines and folds, which nothing there tells apart; block devices are ordered.

*The user* acts once the goroutines of `Watch` run, opens as many dialogs as
the session says, and never leaves one that is busy, which QML does not allow.

*Fairness.* Goroutines that can run do run (`WF` on the dispatcher's steps, the
loop and the listeners). In `JobPipeline` a hand-off to the job manager is
strongly fair, since two goroutines queue on one channel and Go serves senders in
order. UDisks2 is assumed to end its jobs and to answer, and a
notification to return. Nobody has to plug, pull or ask for anything, no query has to fail, and a
free space check that has started goes on but none has to start.
The application's runs check safety only: `DialogsEnd` is about states
in which nothing is under way. In `GuiThread` goroutines that can go on do, the Qt event loop handles
its events, and the hook its select; a function ends, strongly fair, since the processing of
events in a `Flush` comes to an end even if the timer fires in it again and again. No fairness is
needed for the caller's side of the two channels, where the GUI thread is the one that waits, and none is assumed of handlers.
In `Ciborium` fairness is stated for groups of actions, which assumes less
than for each action alone.

### Where the code and its documents disagree

Three runs check a property taken from the repository's own words, and
TLC finds it violated:

* `format_race` — `debian/changelog:116`, "Ensure that we remount the drives after
  we format them": the new file system may be handled before the end of its
  job, and later nothing looks. `RemountedAfterFormat` is what holds.
* `ui_two_blocks` — `SafeRemoval.qml:92`, "You can now safely remove the device":
  every block device of a drive is unmounted by a goroutine of its own, and
  the first report clears the only flag.
* `resources_names` — `qml.v1/resources.go:110`, "Add adds a resource with the provided data under
  "qrc:///"+path": the length of a name is written in bytes (line 271) and its runes in 16 bit
  units, so Qt reads a name with an accent together with what follows. `FindsWhatWasAdded` is the property for ASCII names.

The models also contain these behaviours, which the passing properties state as
their exceptions or leave aside; they are places where the code is weaker than
one would like:

* `jobs.go:77-78`: losing any interface that sorts behind Job's completes a job, since
  the test is for an insertion point. `job_pipeline` loses earlier ones.
* `udisks2.go:459-460`: again an insertion point, so a block device that sorts before a
  formatted one is reported formatted.
* `udisks2.go:684-687`: a card the loop hears of before its drive is known becomes an
  entry of its own and is never offered (the exception of `CardsAreMounted`).
* `udisks2.go:675-678`: a drive announced again forgets its block devices (`forgotten`).
* `cmd/ciborium-ui/main.go:182-187`: of two refreshes that overlap, the one that asked
  first may write last (`stale` in `ListIsCurrent`).
* `cmd/ciborium-ui/main.go:134-177`: the goroutines of `Watch` make their channels after `Init`
  may have started to send; a send before that never ends (`Strand`).
* `udisks2.go:168`: `Unmount` of a drive that is not known to be mounted sends its error
  on the GUI thread, whose reader may be waiting for the GUI thread. Such a
  state is not `Quiet`, and the passing properties say nothing of it.
* `udisks2.go:163`: the disk of a partitioned card has nothing to unmount: a removal
  shows its error although the partition was unmounted.
* `cmd/ciborium-ui/main.go:205`: the error of one removal is still set when the next starts.
* `udisks2.go:359, 462`: a card formatted while the daemon starts is remounted before the start-up
  walk or the announcement of its drive has listed it, and the mount is announced to nobody (excepted in
  `MountedCardsAreWatched` by `forgotten`).
* `udisks2.go:569`: a card that is mounted before the daemon first starts is taken for one that needs nothing: it is never
  recorded as mounted, and its space is never watched (`unseen`, excepted in `MountpointsMatchUDisks2` and `MountedCardsAreWatched`).
* `udisks2.go:261-274`: when the mount points of a card cannot be read, there are none: the mount that just ended goes
  unrecorded (`unseen`), and `Format` takes the block device for unmounted and does not unmount it first.
* `udisks2.go:419-427`: when `GetManagedObjects` fails, what exists is not asked for again (`unlisted`, excepted in `CardsAreMounted`);
  when it fails without a reply, the process dies (`NoManagedObjects`).
* `cmd/ciborium/main.go:252`: an unmount removes an object path from a map of mount points, so the mount point of an
  unmounted card stays watched until the card is pulled out while it is known to be mounted.
* `udisks2.go:365`: a mount announced up to 25 seconds late may come after the removal of its card and puts the
  mount point back into the mountwatch, where nothing takes it out (`RemovedStayOut` speaks of the writes of a check).
* `cmd/ciborium/main.go:363`: a mount announced while its mount point is being warned about sets the mark that the end of
  the warning clears: the new card gets no warning of its own until there was space (`WarnedOncePerEpisode` says at most once).
* `qml.v1/bridge.go:82-90`: a goroutine other than that of `Run` that calls before `Run` makes
  the timer an object of its own thread, which has no event loop, and no function is run any more
  (`timerThread = "other"`).
* `bridge.go:126, 193`: a `Flush` runs the hook inside a function, and all callers wait on one channel: the caller of a
  `Flush` may be told that it is done by the end of another's function. `GuiCalls` allows this to `Flush` only.
* `bridge.go:97-100, 187`: a `Flush` beside a `Lock` of another goroutine may freeze both, of which the comment
  of `Lock` warns; no script does both.
* `bridge.go:657-662`: `Init` counts as called when it has returned, so one that uses its own object is
  called again inside itself (the exception of `InitOnce`).
* `bridge.go:623-626`: a value of a registered type first used while its destroyed engine waits to be
  deleted panics ("unknown engine pointer").
* `resources.go:137-142`: a path through a file that was added buries its data (`Buried`); a file without data may be added again.

## The proofs

Proved by TLAPS for every value of the constants that the named assumptions allow:

* `Dispatcher_proofs`: `TypeCorrect` (`[]TypeOK`) and `Refinement`
  (`DeliversStreams`). `TypeOK` is inductive, and is what the refinement
  needs: it says a goroutine holds at most one message and never one that cannot
  be decoded. A step maps to `Announce`, `Deliver` or `Drop`, and
  `Take` to a stutter, since `<<e>> \o s` is the queue it took `e` from
  (lemmas `ConsFacts`, `ConcatAppend`, `PendingFacts`, `PendingChange`).
  Assumptions: `PathsAssumption`, `MessagesAssumption`.
* `JobPipeline_proofs`: `Invariance` of `JobInv`, from it `TypeCorrect` and
  `ForwardsKnownJobs` (`[]ForwardedJobIsKnown`). That what is forwarded is in the map
  is not inductive alone: a completed job must equal the map's entry but for the
  mark, so the map must hold every job under its own path and unmarked, which
  holds because the code completes a copy.
  Assumptions: `PathsAssumption`, `BlocksAssumption`, `AnnouncedAssumption`.
  On top of it: `ReportedOnce` (`[]ReportedOnceInOrder`), `TrueReports` (`[]ReportsAreTrue`) and
  `MapMatches` (`[]OngoingJobsMatchUDisks2`), on top of `JobInv`. What each job reports depends on what the two goroutines
  still carry about it, so the invariant is about the sequences `Pending(w) == held[w] \o watch[w]`:
  `SignalsInv` (each job has at most one end on its way, sent only when UDisks2 ended it), `OnceInv`
  (a completion, made or under way, means that the end was read), `TruthInv` (until then the job is in the map as it was
  announced first, or the first announcement of it on its way says so) and `MapInv` (a job whose end was read is in the map,
  or will be, only if the end overtook an announcement). What they do with an event that goes in at one
  end or out at the other is in `AppendedEvent` and the lemmas after it.
  Hypotheses of the theorems, beside the constants' assumptions, each one a state of affairs the code depends on:
  `OnlyEarlierLosses` (what a job path loses besides Job sorts before Job, as `SearchString` takes any later one for it;
  all three), `AnnouncementsDecode` (otherwise a second announcement passes for the first; `TrueReports`), `JobsDecode` (an end
  that cannot be decoded leaves its job in the map; `MapMatches`). The run `job_pipeline` meets all three.
* `Mountwatch_proofs`: `Invariance` of `MountwatchInv`, from it `TypeCorrect`, `WarnsOncePerEpisode`,
  `WatchesWhatIsMounted` (`[]MountedAreWatched`) and `RemovedAreOut` (`[]RemovedStayOut`). The strengthening says that a check only holds
  mount points that are watched (removals are read by the goroutine that checks); that the one being
  warned about is still marked, which no mount announced meanwhile changes; that a mark is a warning that is due and was not
  given; and that what is mounted is watched or its announcement is still to come.
  Assumption: `MountpointsAssumption`, by which mount points are not object paths: what an unmount removes is none of them.
* `GuiThread_proofs`: `Invariance` of `GuiInv` and `Counted`, from them `TypeCorrect`, `Refinement`
  (`ImplementsCalls`) and, with `WakeInv`, `WakesUp` (`[]NoLostWakeup`). `GuiInv` says that every function on the
  stack but the innermost is a `Flush`, which is what makes a done that goes to a wrong caller harmless;
  and that while QML is locked the stack or the hook holds the GUI thread. `Counted` is what the
  counter counts: callers outside, their functions on the stack, and the one whose done has yet to be counted.
  `WakeInv`: if the count is above zero, the timer is on, or its start is queued, or somebody is about to queue it.
  Assumptions: `CallersAssumption`, `ScriptsAssumption`.

* `ValueFolds_proofs`: `ShapeInvariance` of `ShapeInv`, from it `TypeCorrect` and `ListsAreWhole` (`[]ListsHoldLiveFolds`).
  The property follows the links from the first fold; the invariant says instead that there is a sequence without
  repetition, a *chain*, that enumerates the live folds of an engine and a value and agrees with the links both ways
  (`IsChain`), which is a statement without recursion. The four lemmas on chains
  (`KeptChain`, `PrependedChain`, `AppendedChain`, `RemovedChain`) are about any links; `wrapGoValue`, `ensureEngine` and
  `hookGoValueDestroyed` are one of them each. `FramesInv` is the part about the Go functions in progress: what each holds is
  still live, which is so because C++ destroys nothing that is in progress.
  On top of it: `EnginesAreKept` (`[]EngineKeptWhileNeeded`) and `OwnedIsFirst` (`[]OwnedFoldIsFirst`) from `UseInv`,
  `InitInTime` (`[]InitBeforeUse`) and `InitIsCalledOnce` (`InitOnce`) from `InitDueInv`, and `ReachesAll`
  (`[]ChangedReachesAll`) from `ReachInv`. The last says for a `Changed` in progress where every fold that is due
  and was not reached is going to be met (`Pending`): put off, in the list of an engine to be visited, or further on in the chain
  (`Walk`). It is kept by whatever runs inside a notification because lists only gain folds in front or at the end
  while it is in progress (`AllGrow`), and fails without the `while` over folds that have no engine yet.
  Assumption: `ValueFoldsAssumption`.

* `StorageClient_proofs`: lemmas about the package that the daemon and the application share; `Ciborium_proofs` and
  `CiboriumUI_proofs` extend it. It says of each variable what really gets there: which signals travel on which watch (`Signals`),
  that a job is about one block device, what a goroutine has in hand at each point (`Where`), what a drive may be (`IsDrive`), and
  `LockInv`: who has `mapLock` is at a point where it announces a block device, or waits for ever on a channel that is
  nil (`Stranded`, in the application only), and at no other. One lemma per step of the dispatcher, the job manager and the
  storage watcher; and the facts about bags that the goroutines without a number, which both have, keep needing.
* `Ciborium_proofs`, about the composed daemon, for any drives, block devices, sessions and job paths:
  `TypedAlways` (`[]TypedInv`), from it `TypeCorrect` (`[]TypeOK`) and `LockHeldWhileSending`
  (`[]LockedOnlyWhileSending`), and `MountpointsMatch` (`[]MountpointsMatchUDisks2`).
  `TypeOK` is not inductive; `TypedInv` is that of the package, with what the Mount calls and the listeners hold.
  `MatchBut(X)` is what the match needs while something is on its way, for all block devices but those of a set X, which
  is `unseen`. `JobsInv`: a job path is
  announced once and ended once, and is known to the job manager, or announced on the way, until its end
  has been read; one job runs per block device, and no format on a mounted one. `MatchOf(b)`, for a block device
  that is not `overtaken`: if b is mounted, the last of the removals on their way that concern its mount is the end of
  a mount job, or there are none and the report in hand, the loop or the map have b as mounted; if it is not, an
  end of an unmount or the removal of b is on its way, or the same three have it as not mounted.
  `Coming` and `Going` are the two queues (held and waiting), `About` and `LastAbout` what is said of them; how they
  change when a signal is sent or read is in `AboutAppended`, `AboutTail`, `SignalMoves` and `SendMoves`.
  A step is first shown to keep the formula for the set as it was. Then the set changes: a block device that leaves it is not
  mounted any more, and the step that unmounted it also put the end of the unmount, or the removal, on its way (`UnmountedIsTold`),
  so `MatchOf` holds of it again; a query that fails adds the one block device it was about (`UnansweredMatch`).
  All of it holds until a process dies and is claimed for `~ crashed` only, as is the property.
  `CardsMounted` (`[]CardsAreMounted`) and `FormatsRemounted` (`[]RemountedAfterFormat`) rest on `CardsBut(X)`, where X is `unlisted`, and `FormatsInv`: of a
  card that waits to be mounted there is always somebody left to tell. Either UDisks2 mounts it or is
  called to, or a goroutine is about to send it to a channel whose reader calls Mount (`MountComes`), or its addition is held
  or waits on the watch (`Pending`), or the start-up walk has yet to ask for the devices. `unlisted` is treated as `unseen` is: a card
  leaves it only by being pulled out, and a query that fails puts into it all there are (`UnansweredCards`). For a format the job may also still be running, and
  the card must not have left `pendingMounts` (`early`). `RequestsInv` says that UDisks2 does what was asked for, so that a file
  system that is not announced yet belongs to a request that someone made. `Wanted` must except drives with one system device among
  others, since `SystemHints` reads whichever block device comes first in the map (`udisks2.go:597-606`); `CardsAreMounted` excepts
  entries of their own and `unlisted`, `RemountedAfterFormat` excepts `early` and restarts.
  `CardsWatched` (`[]MountedCardsAreWatched`) follows a mount to the mountwatch. `ListedInv`: UDisks2 is only asked to mount a card
  that a drive lists, or that is excepted, so that the end of the mount finds its drive. `SeenInv`: what the storage watcher has as
  mounted is in the mountwatch, or a goroutine waits up to 25 seconds for it (`Arriving`), and what is removed from the mountwatch
  is the mount point of a device that is gone, or an object path, never the mount point of another (`PlacesInv`); with `MountpointsMatch`
  this is the property, which therefore has its exceptions too: `overtaken`, `unseen` and restarts, beside `forgotten` and entries of their own. Proving it showed that the exception the property had before was not enough: a new file system may be found
  before the announcement of the drive as well as before the start-up walk, which `forgotten` now says.
  Hypothesis of these four theorems: `AllDecodable`, that no message fails to decode; the code drops one that does, and with it
  a card or the end of a job. The run `daemon` meets it. Assumptions: `PathsAssumption`, `ServiceAssumption`,
  `GoroutinesAssumption`, `FiniteAssumption` (the answer to `GetManagedObjects` ends), `MountpointOfAssumption`
  (cards have mount points of their own, which are not object paths: UDisks2 gives them names under `/media`), `SubscribedAssumption`.
* `CiboriumUI_proofs`, about the settings application with its user, the daemon and UDisks2, for any drives, block devices and sessions:
  `TypedAlways` (`[]TypedInv`), from it `TypesAlways` (`[]TypeOK`), and `RowsAlwaysMatch` (`[]RowsMatchList`).
  `TypedInv` adds to the package's part that a copy of a drive whose map of block devices is shared (`blocks = None`) belongs to a
  drive the storage watcher still has, wherever the copy is: in the list, in an answer on its way, or with a goroutine that
  unmounts or formats. Without it `BlocksOf` would read a drive that is gone; it holds because `Dropped` and `Detach`
  reach every copy. It also says that an error is sent on the GUI thread for an open dialog only.
  `RowsInv`: the length differs from that of the list, or the rows from the length, only while a refresh has yet to
  take the length, or to tell QML; any refresh that is further back will do both, so their order does not matter.
  Assumptions: those of the package, `SharedAssumption`, `PartitionsAssumption`, `SessionsAssumption`.

Only model-checked: in the application `ListIsCurrent` and `DialogsEnd`, which relate the list and the dialog to everything that is
on its way in the package, and whose exceptions (`stale`, lost ends of jobs) TLC shows to be enough in the sessions of the run;
the liveness properties (`EveryEventDelivered`, `EndIsReported`, `AlwaysReacts`, `EveryCallReturns`), which
this prover does not reach; and `Resources`, whose operators are recursive.

## What is left out

* `go-dbus`: a watch is an unbounded queue, a call is answered or refused. The
  library is not part of the repository; a failed call that does return a
  reply and one that does not are both modelled, for `Mount` and for `GetManagedObjects`. A reply of which only a part can be read
  counts as one that cannot be read.
* Jobs that run in UDisks2 before the daemon first starts: there are mounts of before, but nothing is under way.
* `free`, `cleanDriveWatch` and the other finalizers: their objects are reachable
  for the life of the process.
* `createStandardHomeDirs`: file system work; its error is logged.
* `formatErrors` and `unmountErrors` have no sender in the daemon: `Format` and
  `Unmount` are called by the settings application, in its own process.
* Texts, icons, JSON, logging, locales.
* Time: the minute of the free space timer and the 25 seconds of a mount goroutine
  are "at any moment".
* In the application: `DriveModel` and `DriveAt`, which read only; texts and layout.
  The storage watcher's answers to the lists are taken when it is asked; of the lock
  `startLock` what is kept is that a list waits for the start-up walk. `hasPartition`
  and `isPartitionable` are constants, `Partitions` and `Partitionable`. The daemon
  does not react to the application's events in `CiboriumUI`: it mounts, or does not.
* Of the QML bridge: the conversion of values (`datatype.go` and the hooks that read and write
  fields), one step each by reflection and unsafe pointers, without a state; what they do to the folds is
  `Use`. Objects, windows, connections and registered types (`qml.go`) are calls into C++ through
  `RunMain`. Statistics are counters under a lock, logging is lines of text. The C++ side is glue with generated
  code, but for the idle timer, which is in `GuiThread`.
* `gettext`: a binding of the C library.

## Plan

1. (done) `Events`, `Dispatcher`, `JobManager`, `JobPipeline`, `StorageWatcher`, `Mountwatch`,
   `Ciborium`, their runs, and the first proofs.
2. (done) `StorageClient`, `DriveRequests`, `DriveControl`, `CiboriumUI`: the settings
   application on the same storage watcher.
3. (done) `GuiCalls`, `GuiThread` and its proofs, `ValueFolds`, `Resources`.
4. (done) Proofs of the reports of the job manager and of the value folds.
5. (done) Proofs about the composed daemon: types, the lock, and that it agrees with UDisks2 about what is mounted.
6. (done) Proofs of what the daemon does about cards (mounted, remounted after a format, watched), and of the
   application's types and rows.
7. Open: `ListIsCurrent`, for which something like `MatchBut` would have to be said of the drives map.
