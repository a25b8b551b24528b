----------------------------- MODULE ValueFolds -----------------------------
(***************************************************************************)
(* How Go values live in QML (qml.v1/bridge.go, engines in qml.go).  Each  *)
(* C++ object that stands for a Go value has a fold; an engine has, for    *)
(* each value, the list of its folds.  A fold is made when Go hands a      *)
(* value to QML (wrapGoValue), or when QML makes an object of a registered *)
(* type; then its engine is learnt, and Init called, at its first use.     *)
(*                                                                         *)
(* All of it runs on the GUI thread.  The frames are the Go functions in   *)
(* progress there that call QML, which may come back to Go meanwhile.  Qt  *)
(* is external: it runs QML, paints, and destroys objects, from its event  *)
(* loop only, that is with no Go function in progress.                     *)
(***************************************************************************)
EXTENDS Integers, Sequences, FiniteSets

CONSTANTS Engines, NoEngine,
          Values,         \* Go values
          ZeroSized,      \* those of a type without size: all instances are one value
          Folds,          \* bound: the memory for folds, used again when they are gone
          nil,
          MaxFrames       \* bound: Go functions in progress, one inside the other

ASSUME ValueFoldsAssumption ==
  /\ NoEngine \notin Engines
  /\ ZeroSized \subseteq Values
  /\ nil \notin Folds
  /\ MaxFrames \in Nat

VARIABLES qmlEngines,  \* external: the C++ engines that exist
          engines,     \* those with an entry in the map engines
          destroyed,   \* those Destroy was called on
          values,      \* the values map of each engine: the first fold of a list, or nil
          folds,       \* the folds there are: those of C++, and those Init is due for
          cgoFolds,    \* the folds C++ holds a reference to
          typeNew,
          frames,      \* the innermost last
          scheduled,   \* folds with a goroutine that has yet to call Init
          panicked,
          inited       \* history: the folds Init was called for

engineVars == <<qmlEngines, engines, destroyed>>
foldVars == <<values, folds, cgoFolds, typeNew>>
vars == <<engineVars, foldVars, frames, scheduled, panicked, inited>>

Ids == DOMAIN folds

Init ==
  /\ qmlEngines = {} /\ engines = {} /\ destroyed = {}
  /\ values = [e \in Engines |-> [v \in Values |-> nil]]
  /\ folds = <<>> /\ cgoFolds = {} /\ typeNew = {}
  /\ frames = <<>>
  /\ scheduled = {}
  /\ panicked = "no"
  /\ inited = {}

-----------------------------------------------------------------------------
(* The GUI thread *)

Top == frames[Len(frames)]
InLoop == frames = <<>> /\ panicked = "no"
Painting == frames # <<>> /\ Top.kind = "Paint"

(* Go or QML code may use values: in an event, a function of RunMain, a
   Paint method, an Init, or a binding that Changed made QML evaluate. *)
CodeRuns ==
  /\ panicked = "no"
  /\ frames # <<>> /\ Top.kind = "Changed" => Top.at # nil

Call(frame) == Len(frames) < MaxFrames /\ frames' = Append(frames, frame)
Become(frame) == frames' = [frames EXCEPT ![Len(frames)] = frame]
Return == frames' = SubSeq(frames, 1, Len(frames) - 1)

(* hookGoValuePaint recovers. *)
Panics(message) ==
  /\ IF Painting THEN Return /\ UNCHANGED panicked
                 ELSE panicked' = message /\ UNCHANGED frames
  /\ UNCHANGED <<engineVars, foldVars, scheduled, inited>>

-----------------------------------------------------------------------------
(* Engines *)

NewEngine(e) ==
  /\ CodeRuns
  /\ e \notin qmlEngines \cup destroyed
  /\ qmlEngines' = qmlEngines \cup {e}
  /\ engines' = engines \cup {e}
  /\ UNCHANGED <<destroyed, foldVars, frames, scheduled, panicked, inited>>

DestroyForgetsValues(e) ==
  /\ CodeRuns
  /\ e \in qmlEngines \ destroyed
  /\ destroyed' = destroyed \cup {e}
  /\ engines' = engines \ {e}
  /\ UNCHANGED <<qmlEngines, foldVars, frames, scheduled, panicked, inited>>

HasValues(e, vs) == \E v \in Values : vs[e][v] # nil

Destroy(e) ==
  /\ CodeRuns
  /\ e \in qmlEngines \ destroyed
  /\ destroyed' = destroyed \cup {e}
  /\ engines' = IF HasValues(e, values) THEN engines ELSE engines \ {e}
  /\ UNCHANGED <<qmlEngines, foldVars, frames, scheduled, panicked, inited>>

(* Qt deletes the engine later, with the objects it is the parent of. *)
EngineDeleted(e) ==
  /\ InLoop
  /\ e \in qmlEngines \cap destroyed
  /\ \A f \in cgoFolds : folds[f].engine = e => folds[f].owner # "cppOwner"
  /\ qmlEngines' = qmlEngines \ {e}
  /\ UNCHANGED <<engines, destroyed, foldVars, frames, scheduled, panicked, inited>>

-----------------------------------------------------------------------------
(* New folds *)

(* The Go collector takes what C++ and goroutines no longer hold. *)
Without(f, fs) == [g \in DOMAIN fs \ {f} |-> fs[g]]

NewFold(f, e, v, owner, typed, next) ==
  /\ f \in Folds \ Ids
  /\ cgoFolds' = cgoFolds \cup {f}
  /\ folds' = [g \in Ids \cup {f} |->
       IF g = f
       THEN [engine |-> e, gvalue |-> v, owner |-> owner, init |-> typed,
             prev |-> nil, next |-> next]
       ELSE IF g = next THEN [folds[g] EXCEPT !.prev = f] ELSE folds[g]]
  /\ inited' = inited \ {f}

(* Go hands a value over while the engine is in use; QML is handed one by
   the field or the method of a value of the engine. *)
MayWrap(e, owner) ==
  /\ e \in qmlEngines
  /\ \/ e \notin destroyed
     \/ owner = "jsOwner" /\ \E f \in cgoFolds : folds[f].engine = e

ReusableInPaint(first) == first # nil /\ Painting

(* An owned fold may be used again, one of QML only while painting. *)
Reusable(first) ==
  first # nil /\ (folds[first].owner = "cppOwner" \/ Painting)

(* The new fold comes first. *)
wrapGoValue(f, e, v, owner) ==
  /\ CodeRuns
  /\ MayWrap(e, owner)
  /\ ~Reusable(values[e][v])
  /\ \/ Painting /\ Panics("cannot allocate new objects while painting")
     \/ /\ ~Painting
        /\ NewFold(f, e, v, owner, FALSE, values[e][v])
        /\ values' = [values EXCEPT ![e][v] = f]
        /\ UNCHANGED <<engineVars, typeNew, frames, scheduled, panicked>>

(* QML makes an object of a registered type: its value is a new one. *)
hookGoValueTypeNew(f, v) ==
  /\ CodeRuns
  /\ qmlEngines # {}
  /\ ~Painting
  /\ v \in ZeroSized \/ \A g \in Ids : folds[g].gvalue # v
  /\ NewFold(f, NoEngine, v, "jsOwner", TRUE, nil)
  /\ typeNew' = typeNew \cup {f}
  /\ UNCHANGED <<engineVars, values, frames, scheduled, panicked>>

-----------------------------------------------------------------------------
(* The use of a value: a field is read or written, a method called, a list
   property asked for *)

Last(first) == CHOOSE f \in cgoFolds :
  /\ folds[f].engine = folds[first].engine /\ folds[f].gvalue = folds[first].gvalue
  /\ folds[f].next = nil

AttachKeepsTypeNew(f, e) ==
  LET first == values[e][folds[f].gvalue]
      last == IF first = nil THEN nil ELSE Last(first) IN
  /\ values' = IF first = nil THEN [values EXCEPT ![e][folds[f].gvalue] = f] ELSE values
  /\ typeNew' = IF first = nil THEN typeNew \ {f} ELSE typeNew
  /\ folds' = [g \in Ids |->
       IF g = f THEN [folds[f] EXCEPT !.engine = e, !.prev = last]
       ELSE IF g = last THEN [folds[g] EXCEPT !.next = f] ELSE folds[g]]

(* A fold of a registered type joins its engine's list, as the last. *)
Attach(f, e) ==
  LET first == values[e][folds[f].gvalue]
      last == IF first = nil THEN nil ELSE Last(first) IN
  /\ values' = IF first = nil THEN [values EXCEPT ![e][folds[f].gvalue] = f] ELSE values
  /\ typeNew' = typeNew \ {f}
  /\ folds' = [g \in Ids |->
       IF g = f THEN [folds[f] EXCEPT !.engine = e, !.prev = last]
       ELSE IF g = last THEN [folds[g] EXCEPT !.next = f] ELSE folds[g]]

_initGoTypeUnchecked(f) ==
  /\ Call([kind |-> "Init", fold |-> f])
  /\ inited' = inited \cup {f}

InInit(f) == \E i \in DOMAIN frames : frames[i].kind = "Init" /\ frames[i].fold = f

_initGoType(f) ==
  IF folds[f].init
  THEN /\ Call([kind |-> "Init", fold |-> f])
       /\ inited' = inited \cup {f}
  ELSE UNCHANGED <<frames, inited>>

initGoTypeNotInPaint(f) ==
  IF Painting THEN UNCHANGED <<frames, inited, scheduled>>
  ELSE _initGoType(f) /\ UNCHANGED scheduled

(* Init is called at once, but in a goroutine when the GUI thread paints. *)
initGoType(f) ==
  IF Painting
  THEN scheduled' = scheduled \cup {f} /\ UNCHANGED <<frames, inited>>
  ELSE _initGoType(f) /\ UNCHANGED scheduled

(* The engine is the one of the C++ object.  It may have no entry any more
   when it was destroyed and Qt has yet to delete it. *)
ensureEngine(f, e) ==
  \/ /\ folds[f].engine = e /\ folds[f].init
     /\ initGoType(f)
     /\ UNCHANGED <<engineVars, foldVars, panicked>>
  \/ /\ folds[f].engine = NoEngine /\ e \in engines
     /\ Attach(f, e)
     /\ initGoType(f)
     /\ UNCHANGED <<engineVars, cgoFolds, panicked>>
  \/ /\ folds[f].engine = NoEngine /\ e \notin engines
     /\ Panics("unknown engine pointer")

Use(f, e) ==
  /\ CodeRuns
  /\ f \in cgoFolds /\ e \in qmlEngines
  /\ ensureEngine(f, e)

(* Paint is called for a value that had its Init; for another one Init is
   scheduled, to have it painted once more. *)
hookGoValuePaint(f, e) ==
  /\ InLoop
  /\ f \in cgoFolds /\ e \in qmlEngines
  /\ \/ /\ folds[f].engine = e /\ ~folds[f].init
        /\ Call([kind |-> "Paint"])
        /\ UNCHANGED <<foldVars, scheduled>>
     \/ /\ folds[f].init
        /\ \/ folds[f].engine = e /\ UNCHANGED <<values, folds, typeNew>>
           \/ folds[f].engine = NoEngine /\ e \in engines /\ Attach(f, e)
        /\ scheduled' = scheduled \cup {f}
        /\ UNCHANGED <<cgoFolds, frames>>
  /\ UNCHANGED <<engineVars, panicked, inited>>

PaintReturns ==
  /\ panicked = "no" /\ Painting
  /\ Return
  /\ UNCHANGED <<engineVars, foldVars, scheduled, panicked, inited>>

(* The goroutine has its function run on the GUI thread.  Several of one
   fold are as one: those that come late find nothing to do. *)
ScheduledInit(f) ==
  /\ InLoop
  /\ f \in scheduled
  /\ _initGoType(f)
  /\ scheduled' = scheduled \ {f}
  /\ folds' = IF f \in cgoFolds \/ folds[f].init THEN folds ELSE Without(f, folds)
  /\ UNCHANGED <<engineVars, values, cgoFolds, typeNew, panicked>>

InitReturns ==
  /\ panicked = "no"
  /\ frames # <<>> /\ Top.kind = "Init"
  /\ Return
  /\ folds' = IF Top.fold \in cgoFolds THEN [folds EXCEPT ![Top.fold].init = FALSE]
              ELSE Without(Top.fold, folds)
  /\ UNCHANGED <<engineVars, values, cgoFolds, typeNew, scheduled, panicked, inited>>

-----------------------------------------------------------------------------
(* The end of an object *)

UnlinkedForwards(f) ==
  [g \in Ids |->
     IF g = folds[f].prev THEN [folds[g] EXCEPT !.next = folds[f].next] ELSE folds[g]]

(* What the switch of hookGoValueDestroyed makes of the neighbours. *)
Unlinked(f) ==
  [g \in Ids |->
     IF g = folds[f].prev THEN [folds[g] EXCEPT !.next = folds[f].next]
     ELSE IF g = folds[f].next THEN [folds[g] EXCEPT !.prev = folds[f].prev]
     ELSE folds[g]]

(* Go keeps what a goroutine still has; nobody reads its links again. *)
destroyRef(f, fs) ==
  /\ cgoFolds' = cgoFolds \ {f}
  /\ folds' = IF f \in scheduled THEN [fs EXCEPT ![f].prev = nil, ![f].next = nil]
              ELSE Without(f, fs)

hookGoValueDestroyed(f) ==
  LET e == folds[f].engine
      v == folds[f].gvalue IN
  /\ InLoop
  /\ f \in cgoFolds
  /\ folds[f].owner = "cppOwner" => e \in destroyed
  /\ \/ /\ e = NoEngine
        /\ typeNew' = typeNew \ {f}
        /\ destroyRef(f, folds)
        /\ UNCHANGED <<engineVars, values, frames, scheduled, panicked, inited>>
     \/ /\ e \in Engines \ engines
        /\ Panics("engine was released while its values were still alive")
     \/ /\ e \in engines
        /\ destroyRef(f, Unlinked(f))
        /\ values' = IF folds[f].prev = nil
                     THEN [values EXCEPT ![e][v] = folds[f].next] ELSE values
        /\ engines' = IF e \in destroyed /\ ~HasValues(e, values')
                      THEN engines \ {e} ELSE engines
        /\ UNCHANGED <<qmlEngines, destroyed, typeNew, frames, scheduled, panicked, inited>>

-----------------------------------------------------------------------------
(* Changed: every object of the value is told, engine by engine along its
   list, and those without an engine at the end *)

WithValue(v, fs) == {f \in fs : folds[f].gvalue = v}

(* due and reached, and the engines it found, are history.  The loop goes
   over a Go map: an engine that is gone is not visited, one made meanwhile
   may be. *)
Changed(v) ==
  /\ CodeRuns
  /\ ~Painting
  /\ engines # {}
  /\ Call([kind |-> "Changed", value |-> v, walked |-> {}, at |-> nil, later |-> {},
           listed |-> FALSE,
           due |-> WithValue(v, cgoFolds), reached |-> {}, found |-> engines])
  /\ UNCHANGED <<engineVars, foldVars, scheduled, panicked, inited>>

InChanged == panicked = "no" /\ frames # <<>> /\ Top.kind = "Changed"

GoToThenTypeNew(fold, frame) ==
  IF fold = nil
  THEN [frame EXCEPT !.at = nil, !.listed = FALSE,
                     !.later = IF engines \subseteq frame.walked
                               THEN WithValue(frame.value, typeNew) ELSE @]
  ELSE [frame EXCEPT !.at = fold, !.listed = TRUE, !.reached = @ \cup {fold}]

(* At the end of a list the folds without an engine are put off. *)
GoTo(fold, frame) ==
  IF fold = nil
  THEN [frame EXCEPT !.at = nil, !.listed = FALSE,
                     !.later = @ \cup WithValue(frame.value, typeNew)]
  ELSE [frame EXCEPT !.at = fold, !.listed = TRUE, !.reached = @ \cup {fold}]

ChangedNextEngine(e) ==
  /\ InChanged
  /\ Top.at = nil
  /\ e \in engines \ Top.walked
  /\ Become(GoTo(values[e][Top.value], [Top EXCEPT !.walked = @ \cup {e}]))
  /\ UNCHANGED <<engineVars, foldVars, scheduled, panicked, inited>>

ChangedNextFold ==
  /\ InChanged
  /\ Top.listed
  /\ Become(GoTo(folds[Top.at].next, Top))
  /\ UNCHANGED <<engineVars, foldVars, scheduled, panicked, inited>>

EnginesDone == ~Top.listed /\ Top.found \cap engines \subseteq Top.walked

ChangedDeferred(f) ==
  /\ InChanged
  /\ EnginesDone
  /\ f \in Top.later
  /\ Become([Top EXCEPT !.at = f, !.later = @ \ {f}, !.reached = @ \cup {f}])
  /\ UNCHANGED <<engineVars, foldVars, scheduled, panicked, inited>>

ChangedReturns ==
  /\ InChanged
  /\ EnginesDone
  /\ Top.later = {}
  /\ Return
  /\ UNCHANGED <<engineVars, foldVars, scheduled, panicked, inited>>

ChangedStep ==
  \/ \E e \in Engines : ChangedNextEngine(e)
  \/ ChangedNextFold
  \/ \E f \in Ids : ChangedDeferred(f)
  \/ ChangedReturns

Next ==
  \/ \E e \in Engines : NewEngine(e) \/ Destroy(e) \/ EngineDeleted(e)
  \/ \E f \in Folds, v \in Values :
       \/ hookGoValueTypeNew(f, v)
       \/ \E e \in Engines, owner \in {"cppOwner", "jsOwner"} : wrapGoValue(f, e, v, owner)
  \/ \E f \in Ids, e \in Engines : Use(f, e) \/ hookGoValuePaint(f, e)
  \/ \E f \in Ids : ScheduledInit(f) \/ hookGoValueDestroyed(f)
  \/ \E v \in Values : Changed(v)
  \/ InitReturns \/ PaintReturns \/ ChangedStep

Spec == Init /\ [][Next]_vars

-----------------------------------------------------------------------------
Frame ==
  [kind : {"Init"}, fold : Ids] \cup [kind : {"Paint"}] \cup
  [kind : {"Changed"}, value : Values, walked : SUBSET Engines, at : Ids \cup {nil},
   later : SUBSET Ids, listed : BOOLEAN, due : SUBSET Ids, reached : SUBSET Ids,
   found : SUBSET Engines]

TypeOK ==
  /\ qmlEngines \subseteq Engines /\ engines \subseteq Engines
  /\ destroyed \subseteq Engines
  /\ values \in [Engines -> [Values -> Ids \cup {nil}]]
  /\ \A f \in Ids :
       folds[f] \in [engine : Engines \cup {NoEngine}, gvalue : Values,
                     owner : {"cppOwner", "jsOwner"}, init : BOOLEAN,
                     prev : Ids \cup {nil}, next : Ids \cup {nil}]
  /\ Ids \subseteq Folds
  /\ Ids = cgoFolds \cup scheduled \cup {f \in Folds : InInit(f)}
  /\ typeNew \subseteq cgoFolds
  /\ \A i \in DOMAIN frames : frames[i] \in Frame
  /\ panicked \in {"no", "unknown engine pointer",
                   "engine was released while its values were still alive"}
  /\ inited \subseteq Folds

LiveFolds(e, v) == {f \in cgoFolds : folds[f].engine = e /\ folds[f].gvalue = v}

IsList(s, n, first) ==
  /\ first = IF n = 0 THEN nil ELSE s[1]
  /\ \A i \in 1 .. n : /\ folds[s[i]].prev = IF i = 1 THEN nil ELSE s[i - 1]
                       /\ folds[s[i]].next = IF i = n THEN nil ELSE s[i + 1]
  /\ \A i, j \in 1 .. n : s[i] = s[j] => i = j

(* The list of an engine and a value has each of its living folds once, and
   is the same read backwards; folds without an engine are in typeNew
   (bridge.go:286-291, 361-383, 627-642: three places that link and
   unlink). *)
ListsHoldLiveFolds ==
  /\ typeNew = {f \in cgoFolds : folds[f].engine = NoEngine}
  /\ \A e \in Engines, v \in Values :
       LET live == LiveFolds(e, v)
           n == Cardinality(live) IN
       \E s \in [1 .. n -> live] : IsList(s, n, values[e][v])

(* "the single cppOwner, if any, is always the first entry" (bridge.go:289). *)
OwnedFoldIsFirst ==
  \A f \in cgoFolds :
    folds[f].owner = "cppOwner" => values[folds[f].engine][folds[f].gvalue] = f

(* "The engine holds memory references that C++ depends on": it stays in the
   global list while one of its values is alive, and, once destroyed, no
   longer (bridge.go:357-383, qml.go:66-73). *)
EngineKeptWhileNeeded ==
  /\ \A f \in cgoFolds \ typeNew : folds[f].engine \in engines
  /\ \A e \in engines \cap destroyed : HasValues(e, values)
  /\ panicked \in {"no", "unknown engine pointer"}

(* Changed reaches every object its value had when it was called, whatever
   the QML it wakes does meanwhile: move a fold from typeNew to a list in
   front of it or behind it, put new folds first, have engines made or
   destroyed.  Only the list of an engine made meanwhile may be missed
   (bridge.go:155-172). *)
ChangedReachesAll ==
  (InChanged /\ EnginesDone /\ Top.later = {})
    => \A f \in Top.due \ Top.reached : folds[f].engine \in Engines \ Top.found

CallsInit(f) ==
  Len(frames') > Len(frames) /\ frames'[Len(frames')] = [kind |-> "Init", fold |-> f]

(* Init is called for "a newly created *CustomType" (qml.go:984): once, also
   when a painting finds the value before QML does.  The exception is an
   Init that uses its own object, or has QML use it: it is called again,
   inside itself, as it counts as called only when it returns
   (bridge.go:657-662). *)
InitOnce == [][\A f \in inited : CallsInit(f) => InInit(f)]_vars

(* No value is used without Init having been called, or being on its way
   from a painting (bridge.go:611-666). *)
InitBeforeUse ==
  \A f \in cgoFolds \ typeNew : folds[f].init => f \in scheduled \/ InInit(f)
=============================================================================
