----------------------------- MODULE GuiThread -----------------------------
(***************************************************************************)
(* How goroutines get functions run on the GUI thread (qml.v1/bridge.go    *)
(* with cpp/idletimer.cpp): a caller of RunMain counts itself in           *)
(* guiIdleRun, the first one asks Qt to start a timer, and the timer calls *)
(* hookIdleTimer, which takes functions off one unbuffered channel and     *)
(* tells that they are done on another.  Both channels are shared by all   *)
(* callers.  What a caller asks for is the kind of the function: some      *)
(* function of the application, Lock, Unlock or Flush.                     *)
(*                                                                         *)
(* Qt is external: it handles queued calls and timer events in any order,  *)
(* in its main loop and while Flush has it process events.  An event may   *)
(* be a QML handler that calls RunMain on the GUI thread itself.           *)
(***************************************************************************)
EXTENDS Integers, Sequences, FiniteSets

CONSTANTS Callers,    \* goroutines that call RunMain
          Runner,     \* the one that Run starts
          Handlers,   \* stands for the QML handlers, on the GUI thread
          Scripts     \* bound: what each of them calls, one after the other

Kinds == {"function", "Lock", "Unlock", "Flush"}

ASSUME CallersAssumption ==
  /\ IsFiniteSet(Callers)
  /\ Runner \in Callers
  /\ Handlers \notin Callers

(* Handlers do not lock: their Lock would hold up nobody before the next
   call of a goroutine, and then the thread that has to unlock. *)
ASSUME ScriptsAssumption ==
  \A s \in Scripts :
    /\ s \in [Callers \cup {Handlers} -> Seq(Kinds)]
    /\ s[Handlers] \in Seq({"function", "Flush"})

VARIABLES loop,        \* the event loop: before Run, running, left; panicked
          calls,       \* what each has yet to call, the call under way first
          stage,       \* where a caller is in RunMain
          guiIdleRun, guiLock,
          timer,       \* the idle timer: off, on, firing while its event is handled
          starts,      \* queued calls of IdleTimer::start
          timerThread, \* whose thread the IdleTimer singleton belongs to
          functions,   \* the functions on the GUI thread, each inside the one before
          hook         \* where the hookIdleTimer inside them all is, if there is one

callerVars == <<calls, stage>>
timerVars == <<timer, starts, timerThread>>
vars == <<loop, callerVars, guiIdleRun, guiLock, timerVars, functions, hook>>

Init ==
  /\ loop = "before"
  /\ calls \in Scripts
  /\ stage = [c \in Callers |-> "idle"]
  /\ guiIdleRun = 0
  /\ guiLock = 0
  /\ timer = "off"
  /\ starts = 0
  /\ timerThread = "none"
  /\ functions = <<>>
  /\ hook = "none"

-----------------------------------------------------------------------------
(* Run *)

(* The singleton is made by the thread that first asks for it. *)
SingletonOf(thread) == IF timerThread = "none" THEN thread ELSE timerThread

Run ==
  /\ loop = "before"
  /\ loop' = "running"
  /\ timerThread' = SingletonOf("gui")
  /\ UNCHANGED <<callerVars, guiIdleRun, guiLock, timer, starts, functions, hook>>

(* The goroutine of Run has called f to the end; the loop is left when what
   runs in it has returned. *)
Exit ==
  /\ loop = "running"
  /\ calls[Runner] = <<>>
  /\ functions = <<>> /\ hook = "none"
  /\ loop' = "left"
  /\ UNCHANGED <<callerVars, guiIdleRun, guiLock, timerVars, functions, hook>>

-----------------------------------------------------------------------------
(* RunMain, in a goroutine *)

Move(c, from, to) == stage[c] = from /\ stage' = [stage EXCEPT ![c] = to]

(* Mutant of CountIn: the counter is stored, not added to. *)
CountInStores(c) ==
  /\ calls[c] # <<>>
  /\ loop = "running" \/ (loop = "before" /\ c # Runner)
  /\ Move(c, "idle", IF guiIdleRun + 1 = 1 THEN "start" ELSE "send")
  /\ guiIdleRun' = 1
  /\ UNCHANGED <<loop, calls, guiLock, timerVars, functions, hook>>

CountIn(c) ==
  /\ calls[c] # <<>>
  /\ loop = "running" \/ (loop = "before" /\ c # Runner)
  /\ Move(c, "idle", IF guiIdleRun + 1 = 1 THEN "start" ELSE "send")
  /\ guiIdleRun' = guiIdleRun + 1
  /\ UNCHANGED <<loop, calls, guiLock, timerVars, functions, hook>>

idleTimerStart(c) ==
  /\ Move(c, "start", "send")
  /\ timerThread' = SingletonOf("other")
  /\ starts' = starts + 1
  /\ UNCHANGED <<loop, calls, guiIdleRun, guiLock, timer, functions, hook>>

(* The caller waits at guiFunc, where the hook's select sees it. *)
Offer(c) ==
  /\ Move(c, "send", "offer")
  /\ UNCHANGED <<loop, calls, guiIdleRun, guiLock, timerVars, functions, hook>>

-----------------------------------------------------------------------------
(* The GUI thread *)

Top == functions[Len(functions)]

(* Qt handles events in its main loop, and in a Flush that has it do so. *)
HandlesEvents ==
  /\ loop = "running"
  /\ hook = "none"
  /\ functions # <<>> => Top.kind = "Flush"

(* A queued call goes to the thread its object belongs to.  Starting the
   timer again makes it a new timer, which may fire while the old one does. *)
TimerStarts ==
  /\ HandlesEvents
  /\ starts > 0
  /\ timerThread = "gui"
  /\ starts' = starts - 1
  /\ timer' = "on"
  /\ UNCHANGED <<loop, callerVars, guiIdleRun, guiLock, timerThread, functions, hook>>

(* Mutant of TimerStops: the timer is stopped without a look at the count. *)
TimerStopsUnchecked ==
  /\ HandlesEvents
  /\ timer = "on"
  /\ timer' = "off"
  /\ UNCHANGED <<loop, callerVars, guiIdleRun, guiLock, starts, timerThread, functions, hook>>

TimerStops ==
  /\ HandlesEvents
  /\ timer = "on"
  /\ guiIdleRun <= 0
  /\ timer' = "off"
  /\ UNCHANGED <<loop, callerVars, guiIdleRun, guiLock, starts, timerThread, functions, hook>>

TimerFires ==
  /\ HandlesEvents
  /\ timer = "on"
  /\ guiIdleRun > 0
  /\ timer' = "firing"
  /\ hook' = "select"
  /\ UNCHANGED <<loop, callerVars, guiIdleRun, guiLock, starts, timerThread, functions>>

Begin(c) == functions' = Append(functions, [of |-> c, kind |-> Head(calls[c])])

(* hookIdleTimer takes a function from any caller that waits with one. *)
TakeFunction(c) ==
  /\ hook = "select"
  /\ Move(c, "offer", "wait")
  /\ Begin(c)
  /\ hook' = "none"
  /\ UNCHANGED <<loop, calls, guiIdleRun, guiLock, timerVars>>

(* Mutants of HookReturns: it returns while QML is locked, or stops the
   timer. *)
HookReturnsLocked ==
  /\ hook = "select"
  /\ \A c \in Callers : stage[c] # "offer"
  /\ hook' = "none"
  /\ timer' = IF timer = "firing" THEN "on" ELSE timer
  /\ UNCHANGED <<loop, callerVars, guiIdleRun, guiLock, starts, timerThread, functions>>

HookReturnsStops ==
  /\ hook = "select"
  /\ \A c \in Callers : stage[c] # "offer"
  /\ guiLock = 0
  /\ hook' = "none"
  /\ timer' = "off"
  /\ UNCHANGED <<loop, callerVars, guiIdleRun, guiLock, starts, timerThread, functions>>

(* Nobody waits with a function: the hook returns, unless QML is locked. *)
HookReturns ==
  /\ hook = "select"
  /\ \A c \in Callers : stage[c] # "offer"
  /\ guiLock = 0
  /\ hook' = "none"
  /\ timer' = IF timer = "firing" THEN "on" ELSE timer
  /\ UNCHANGED <<loop, callerVars, guiIdleRun, guiLock, starts, timerThread, functions>>

(* A function ends, to go back to the hook or to the handler it came from. *)
FunctionEnds ==
  /\ hook = "none" /\ functions # <<>>
  /\ functions' = SubSeq(functions, 1, Len(functions) - 1)
  /\ hook' = IF Top.of = Handlers THEN "none" ELSE "done"
  /\ \/ /\ Top.kind = "Unlock" /\ guiLock = 0
        /\ loop' = "panicked"
        /\ UNCHANGED guiLock
     \/ /\ Top.kind = "Unlock" /\ guiLock > 0
        /\ guiLock' = guiLock - 1
        /\ UNCHANGED loop
     \/ /\ Top.kind # "Unlock"
        /\ guiLock' = IF Top.kind = "Lock" THEN guiLock + 1 ELSE guiLock
        /\ UNCHANGED loop
  /\ UNCHANGED <<callerVars, guiIdleRun, timerVars>>

(* guiDone goes to any caller that waits for it. *)
SignalDone(c) ==
  /\ hook = "done"
  /\ hook' = "count"
  /\ Move(c, "wait", "idle")
  /\ calls' = [calls EXCEPT ![c] = Tail(@)]
  /\ UNCHANGED <<loop, guiIdleRun, guiLock, timerVars, functions>>

CountOut ==
  /\ hook = "count"
  /\ hook' = "select"
  /\ guiIdleRun' = guiIdleRun - 1
  /\ UNCHANGED <<loop, callerVars, guiLock, timerVars, functions>>

(* A QML handler calls RunMain on the GUI thread: the function runs at once. *)
HandlerCalls ==
  /\ HandlesEvents
  /\ calls[Handlers] # <<>>
  /\ Begin(Handlers)
  /\ calls' = [calls EXCEPT ![Handlers] = Tail(@)]
  /\ UNCHANGED <<loop, stage, guiIdleRun, guiLock, timerVars, hook>>

CallerStep(c) == CountIn(c) \/ idleTimerStart(c) \/ Offer(c)
QtStep == TimerStarts \/ TimerStops \/ TimerFires
HookStep ==
  HookReturns \/ CountOut \/ \E c \in Callers : TakeFunction(c) \/ SignalDone(c)

Next ==
  \/ Run \/ Exit
  \/ \E c \in Callers : CallerStep(c)
  \/ QtStep \/ HookStep \/ FunctionEnds \/ HandlerCalls

Spec == Init /\ [][Next]_vars

(* A goroutine goes on and Qt handles its events; an event, and the events a
   Flush processes, come to an end even while the timer goes on firing. *)
Fairness ==
  /\ WF_vars(Run)
  /\ \A c \in Callers : WF_vars(CallerStep(c))
  /\ WF_vars(QtStep)
  /\ WF_vars(HookStep)
  /\ SF_vars(FunctionEnds)

FairSpec == Spec /\ Fairness

-----------------------------------------------------------------------------
TypeOK ==
  /\ loop \in {"before", "running", "left", "panicked"}
  /\ calls \in [Callers \cup {Handlers} -> Seq(Kinds)]
  /\ stage \in [Callers -> {"idle", "start", "send", "offer", "wait"}]
  /\ guiIdleRun \in Nat
  /\ guiLock \in Nat
  /\ timer \in {"off", "on", "firing"}
  /\ starts \in Nat
  /\ timerThread \in {"none", "gui", "other"}
  /\ functions \in Seq([of : Callers \cup {Handlers}, kind : Kinds])
  /\ hook \in {"none", "select", "done", "count"}

(* The calls of RunMain, as their callers and QML see them: hidden are the
   counter, the timer and the two channels. *)
Calls == INSTANCE GuiCalls WITH
  phase <- [c \in Callers |-> CASE stage[c] = "idle" -> "idle"
                                [] stage[c] = "wait" -> "waiting"
                                [] OTHER             -> "asked"],
  locked <- guiLock

(* Every function runs once, on one thread, one inside another only in a
   Flush; Lock keeps handlers away; only a Flush is not waited for. *)
ImplementsCalls == Calls!Spec

(* A caller that waits with a function will be seen: unless the hook is
   about to look, the timer is on, or its start queued on the GUI thread, or
   the first of the callers is about to queue it (bridge.go:82, the count
   and the timer's stop being separate).  The exception is a call before
   Run, which makes the timer an object of a thread without an event loop. *)
NoLostWakeup ==
  (loop = "running" /\ timerThread # "other" /\ \E c \in Callers : stage[c] \in {"send", "offer"})
    => \/ timer # "off"
       \/ starts > 0 /\ timerThread = "gui"
       \/ \E c \in Callers : stage[c] = "start"

(* Every call returns, unless the application left its event loop or
   panicked, or some goroutine called before Run (bridge.go:82-90). *)
EveryCallReturns ==
  \A c \in Callers :
    stage[c] # "idle"
      ~> (stage[c] = "idle" \/ loop \in {"left", "panicked"} \/ timerThread = "other")
=============================================================================
