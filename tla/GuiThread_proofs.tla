-------------------------- MODULE GuiThread_proofs --------------------------
(***************************************************************************)
(* For any goroutines and any calls they make: the functions they hand to  *)
(* the GUI thread run as GuiCalls promises, and no caller that waits with  *)
(* one is forgotten by the idle timer.                                     *)
(***************************************************************************)
EXTENDS GuiThread, SequenceTheorems, FiniteSetTheorems, TLAPS

Function == [of : Callers \cup {Handlers}, kind : Kinds]

(* Functions on the stack lie inside a Flush, and so does a hook: only the
   innermost function, with no hook in it, is anything else. *)
NestedInFlush ==
  \A i \in 1..Len(functions) :
    i < Len(functions) \/ hook # "none" => functions[i].kind = "Flush"

(* While QML is locked the GUI thread is in a hook, or in a function that a
   hook took, and a handler has neither locked nor unlocked it. *)
Frozen ==
  guiLock > 0 => hook # "none" \/ \E i \in 1..Len(functions) : functions[i].of \in Callers

HandlersDoNotLock ==
  /\ calls[Handlers] \in Seq({"function", "Flush"})
  /\ \A i \in 1..Len(functions) :
       functions[i].of = Handlers => functions[i].kind \in {"function", "Flush"}

CallUnderWay == \A c \in Callers : stage[c] # "idle" => calls[c] # <<>>

GuiInv == TypeOK /\ NestedInFlush /\ Frozen /\ HandlersDoNotLock /\ CallUnderWay

(* guiIdleRun counts the callers whose function has not been taken, the
   functions of callers on the stack, and the one whose end the hook tells. *)
Outside == {c \in Callers : stage[c] \in {"start", "send", "offer"}}
Taken == {i \in 1..Len(functions) : functions[i].of \in Callers}
Telling == IF hook \in {"done", "count"} THEN 1 ELSE 0
Counted == guiIdleRun = Cardinality(Outside) + Cardinality(Taken) + Telling

-----------------------------------------------------------------------------
(* The stack of functions. *)

LEMMA PushFacts ==
  ASSUME NEW S, NEW s \in Seq(S), NEW e \in S
  PROVE  /\ Append(s, e) \in Seq(S)
         /\ Append(s, e) # <<>>
         /\ Len(s) \in Nat
         /\ Len(Append(s, e)) = Len(s) + 1
         /\ \A i \in 1..Len(s) : Append(s, e)[i] = s[i]
         /\ Append(s, e)[Len(s) + 1] = e
  BY AppendProperties

LEMMA PopFacts ==
  ASSUME NEW S, NEW s \in Seq(S), s # <<>>
  PROVE  /\ SubSeq(s, 1, Len(s) - 1) \in Seq(S)
         /\ Len(s) \in Nat \ {0}
         /\ Len(SubSeq(s, 1, Len(s) - 1)) = Len(s) - 1
         /\ \A i \in 1..(Len(s) - 1) : SubSeq(s, 1, Len(s) - 1)[i] = s[i]
         /\ s[Len(s)] \in S
<1> DEFINE n == Len(s) - 1
           t == SubSeq(s, 1, n)
<1>1. Len(s) \in Nat \ {0} /\ s[Len(s)] \in S
  OBVIOUS
<1>2. n \in Nat /\ \A i \in 1..n : s[i] \in S
  BY <1>1
<1>3. /\ t \in Seq(S)
      /\ Len(t) = IF 1 <= n THEN n - 1 + 1 ELSE 0
      /\ \A i \in 1 .. n - 1 + 1 : t[i] = s[1 + i - 1]
  <2> HIDE DEF n
  <2> QED
    BY <1>2, SubSeqProperties
<1> HIDE DEF t, n
<1>4. Len(t) = n /\ \A i \in 1..n : t[i] = s[i]
  BY <1>2, <1>3
<1> QED
  BY <1>1, <1>3, <1>4 DEF t, n

LEMMA InitInv == Init => GuiInv
<1> SUFFICES ASSUME Init PROVE GuiInv
  OBVIOUS
<1>1. calls \in [Callers \cup {Handlers} -> Seq(Kinds)]
      /\ calls[Handlers] \in Seq({"function", "Flush"})
  BY ScriptsAssumption DEF Init
<1> QED
  BY <1>1 DEF Init, GuiInv, TypeOK, NestedInFlush, Frozen, HandlersDoNotLock, CallUnderWay

(* Steps that leave the stack and the lock alone, and the hook too or open
   one where Qt handles events. *)
LEMMA QuietStep ==
  ASSUME GuiInv, TypeOK',
         UNCHANGED <<calls, functions, guiLock>>,
         hook' = hook \/ HandlesEvents,
         hook # "none" => hook' # "none" \/ guiLock = 0,
         \A c \in Callers : stage'[c] # "idle" => stage[c] # "idle" \/ calls[c] # <<>>
  PROVE  GuiInv'
<1> USE DEF GuiInv
<1>1. CallUnderWay' /\ HandlersDoNotLock'
  BY DEF CallUnderWay, HandlersDoNotLock
<1>2. NestedInFlush'
  <2>1. CASE hook' = hook
    BY <2>1 DEF NestedInFlush
  <2>2. CASE HandlesEvents
    BY <2>2 DEF NestedInFlush, HandlesEvents, Top, TypeOK
  <2> QED
    BY <2>1, <2>2
<1>3. Frozen'
  BY DEF Frozen, TypeOK
<1> QED
  BY <1>1, <1>2, <1>3

LEMMA BeginInv ==
  ASSUME GuiInv, NEW c \in Callers \cup {Handlers}, Begin(c),
         calls[c] # <<>>, hook # "none" \/ HandlesEvents
  PROVE  /\ functions' \in Seq(Function)
         /\ Len(functions') = Len(functions) + 1
         /\ functions'[Len(functions')] = [of |-> c, kind |-> Head(calls[c])]
         /\ \A i \in 1..Len(functions) :
              functions'[i] = functions[i] /\ functions[i].kind = "Flush"
<1>1. [of |-> c, kind |-> Head(calls[c])] \in Function
  <2>1. calls[c] \in Seq(Kinds)
    BY DEF GuiInv, TypeOK
  <2> QED
    BY <2>1, HeadTailProperties DEF Function
<1>2. functions \in Seq(Function)
  BY DEF GuiInv, TypeOK, Function
<1>3. \A i \in 1..Len(functions) : functions[i].kind = "Flush"
  BY <1>2 DEF GuiInv, NestedInFlush, HandlesEvents, Top
<1> QED
  BY <1>1, <1>2, <1>3, PushFacts DEF Begin

LEMMA FiniteCounts ==
  ASSUME GuiInv
  PROVE  /\ IsFiniteSet(Outside) /\ IsFiniteSet(Taken)
         /\ Cardinality(Outside) \in Nat /\ Cardinality(Taken) \in Nat
<1>1. IsFiniteSet(Outside)
  BY CallersAssumption, FS_Subset DEF Outside
<1>2. IsFiniteSet(1..Len(functions))
  BY FS_Interval DEF GuiInv, TypeOK
<1>3. IsFiniteSet(Taken)
  BY <1>2, FS_Subset DEF Taken
<1> QED
  BY <1>1, <1>3, FS_CardinalityType

(* What is left of the stack when the innermost function ends. *)
LEMMA EndInv ==
  ASSUME GuiInv, FunctionEnds
  PROVE  /\ functions \in Seq(Function) /\ functions' \in Seq(Function)
         /\ Len(functions) \in Nat \ {0} /\ Len(functions') = Len(functions) - 1
         /\ \A i \in 1..Len(functions') :
              functions'[i] = functions[i] /\ functions[i].kind = "Flush"
         /\ Top \in Function /\ Top = functions[Len(functions)]
<1>1. functions \in Seq(Function) /\ functions # <<>>
  BY DEF GuiInv, TypeOK, Function, FunctionEnds
<1>2. functions' = SubSeq(functions, 1, Len(functions) - 1)
  BY DEF FunctionEnds
<1>3. \A i \in 1..(Len(functions) - 1) : functions[i].kind = "Flush"
  BY <1>1 DEF GuiInv, NestedInFlush
<1> QED
  BY <1>1, <1>2, <1>3, PopFacts DEF Top

LEMMA StepInv == GuiInv /\ Counted /\ [Next]_vars => GuiInv'
<1> SUFFICES ASSUME GuiInv, Counted, [Next]_vars PROVE GuiInv'
  OBVIOUS
<1> USE DEF GuiInv
<1>1. CASE Run \/ Exit
  <2>1. TypeOK'
    BY <1>1 DEF TypeOK, Run, Exit, SingletonOf, callerVars, timerVars
  <2> QED
    BY <1>1, <2>1, QuietStep DEF Run, Exit, callerVars, timerVars
<1>2. ASSUME NEW c \in Callers, CallerStep(c) PROVE GuiInv'
  <2>1. TypeOK'
    <3>1. CASE CountIn(c)
      BY <3>1 DEF TypeOK, CountIn, Move, timerVars
    <3>2. CASE idleTimerStart(c)
      BY <3>2 DEF TypeOK, idleTimerStart, Move, SingletonOf
    <3>3. CASE Offer(c)
      BY <3>3 DEF TypeOK, Offer, Move, timerVars
    <3> QED
      BY <1>2, <3>1, <3>2, <3>3 DEF CallerStep
  <2>2. \A x \in Callers : stage'[x] # "idle" => stage[x] # "idle" \/ calls[x] # <<>>
    BY <1>2 DEF TypeOK, CallerStep, CountIn, idleTimerStart, Offer, Move
  <2>3. UNCHANGED <<calls, functions, guiLock, hook>>
    BY <1>2 DEF CallerStep, CountIn, idleTimerStart, Offer, callerVars, timerVars
  <2> QED
    BY <2>1, <2>2, <2>3, QuietStep
<1>3. CASE QtStep
  <2>1. TypeOK'
    BY <1>3 DEF TypeOK, QtStep, TimerStarts, TimerStops, TimerFires, callerVars, timerVars
  <2>2. UNCHANGED <<calls, stage, functions, guiLock>> /\ HandlesEvents
    BY <1>3 DEF QtStep, TimerStarts, TimerStops, TimerFires, callerVars, timerVars
  <2>3. hook = "none"
    BY <2>2 DEF HandlesEvents
  <2> QED
    BY <2>1, <2>2, <2>3, QuietStep
<1>4. CASE HookReturns
  <2>1. TypeOK'
    BY <1>4 DEF TypeOK, HookReturns, callerVars, timerVars
  <2>2. /\ UNCHANGED <<calls, stage, functions, guiLock>>
        /\ hook = "select" /\ hook' = "none" /\ guiLock = 0
    BY <1>4 DEF HookReturns, callerVars, timerVars
  <2> QED
    BY <2>1, <2>2 DEF NestedInFlush, Frozen, HandlersDoNotLock, CallUnderWay
<1>5. CASE CountOut
  <2>1. TypeOK'
    <3>1. guiIdleRun \in Nat \ {0}
      BY <1>5, FiniteCounts DEF CountOut, Counted, Telling, TypeOK
    <3> QED
      BY <1>5, <3>1 DEF TypeOK, CountOut, callerVars, timerVars
  <2>2. /\ UNCHANGED <<calls, stage, functions, guiLock>>
        /\ hook = "count" /\ hook' = "select"
    BY <1>5 DEF CountOut, callerVars, timerVars
  <2> QED
    BY <2>1, <2>2 DEF NestedInFlush, Frozen, HandlersDoNotLock, CallUnderWay
<1>6. ASSUME NEW c \in Callers, TakeFunction(c) PROVE GuiInv'
  <2>1. stage[c] = "offer" /\ hook = "select" /\ hook' = "none" /\ Begin(c)
        /\ stage' = [stage EXCEPT ![c] = "wait"]
        /\ UNCHANGED <<loop, calls, guiIdleRun, guiLock, timer, starts, timerThread>>
    BY <1>6 DEF TakeFunction, Move, timerVars
  <2>2. calls[c] # <<>> /\ c # Handlers
    BY <2>1, CallersAssumption DEF CallUnderWay
  <2>3. /\ functions' \in Seq(Function)
        /\ Len(functions') = Len(functions) + 1
        /\ functions'[Len(functions')] = [of |-> c, kind |-> Head(calls[c])]
        /\ \A i \in 1..Len(functions) :
              functions'[i] = functions[i] /\ functions[i].kind = "Flush"
    BY <2>1, <2>2, BeginInv
  <2>4. functions \in Seq(Function) /\ Len(functions) \in Nat
    BY DEF TypeOK, Function
  <2>5. TypeOK'
    BY <2>1, <2>3 DEF TypeOK, Function
  <2>6. NestedInFlush'
    BY <2>1, <2>3, <2>4 DEF NestedInFlush
  <2>7. Frozen'
    BY <2>2, <2>3, <2>4 DEF Frozen
  <2>8. HandlersDoNotLock'
    BY <2>1, <2>2, <2>3, <2>4 DEF HandlersDoNotLock
  <2>9. CallUnderWay'
    BY <2>1, <2>2 DEF CallUnderWay, TypeOK
  <2> QED
    BY <2>5, <2>6, <2>7, <2>8, <2>9
<1>7. CASE HandlerCalls
  <2>1. HandlesEvents /\ hook = "none" /\ hook' = hook /\ Begin(Handlers) /\ calls[Handlers] # <<>>
        /\ calls' = [calls EXCEPT ![Handlers] = Tail(@)]
        /\ UNCHANGED <<loop, stage, guiIdleRun, guiLock, timer, starts, timerThread>>
    BY <1>7 DEF HandlerCalls, HandlesEvents, timerVars
  <2>2. /\ functions' \in Seq(Function)
        /\ Len(functions') = Len(functions) + 1
        /\ functions'[Len(functions')] = [of |-> Handlers, kind |-> Head(calls[Handlers])]
        /\ \A i \in 1..Len(functions) :
              functions'[i] = functions[i] /\ functions[i].kind = "Flush"
    BY <2>1, BeginInv
  <2>3. functions \in Seq(Function) /\ Len(functions) \in Nat
    BY DEF TypeOK, Function
  <2>4. /\ Head(calls[Handlers]) \in {"function", "Flush"}
        /\ Tail(calls[Handlers]) \in Seq({"function", "Flush"})
    BY <2>1, HeadTailProperties DEF HandlersDoNotLock
  <2>5. Tail(calls[Handlers]) \in Seq(Kinds)
    BY <2>4 DEF Kinds
  <2>6. TypeOK'
    BY <2>1, <2>2, <2>5 DEF TypeOK, Function
  <2>7. NestedInFlush'
    BY <2>1, <2>2, <2>3 DEF NestedInFlush
  <2>8. Frozen'
    BY <2>1, <2>2, <2>3 DEF Frozen
  <2>9. HandlersDoNotLock'
    <3>1. calls'[Handlers] = Tail(calls[Handlers])
      BY <2>1 DEF TypeOK
    <3>2. \A i \in 1..Len(functions') :
            functions'[i].of = Handlers => functions'[i].kind \in {"function", "Flush"}
      BY <2>2, <2>3, <2>4
    <3> QED
      BY <2>4, <3>1, <3>2 DEF HandlersDoNotLock
  <2>10. CallUnderWay'
    BY <2>1, CallersAssumption DEF CallUnderWay, TypeOK
  <2> QED
    BY <2>6, <2>7, <2>8, <2>9, <2>10
<1>8. CASE FunctionEnds
  <2>1. /\ functions \in Seq(Function) /\ functions' \in Seq(Function)
        /\ Len(functions) \in Nat \ {0} /\ Len(functions') = Len(functions) - 1
        /\ \A i \in 1..Len(functions') :
              functions'[i] = functions[i] /\ functions[i].kind = "Flush"
        /\ Top \in Function /\ Top = functions[Len(functions)]
    BY <1>8, EndInv
  <2>2. /\ UNCHANGED <<calls, stage, guiIdleRun, timer, starts, timerThread>>
        /\ hook = "none" /\ hook' = IF Top.of = Handlers THEN "none" ELSE "done"
    BY <1>8 DEF FunctionEnds, callerVars, timerVars
  <2>3. TypeOK'
    BY <1>8, <2>1, <2>2 DEF TypeOK, FunctionEnds, Function
  <2>4. NestedInFlush' /\ CallUnderWay'
    BY <2>1, <2>2 DEF NestedInFlush, CallUnderWay
  <2>5. HandlersDoNotLock'
    BY <2>1, <2>2 DEF HandlersDoNotLock
  <2>6. Frozen'
    <3>1. CASE Top.of # Handlers
      BY <2>2, <3>1 DEF Frozen
    <3>2. CASE Top.of = Handlers
      <4>1. Top.kind \in {"function", "Flush"}
        BY <2>1, <3>2 DEF HandlersDoNotLock
      <4>2. guiLock' = guiLock
        BY <1>8, <4>1 DEF FunctionEnds
      <4>3. guiLock > 0 => \E i \in 1..Len(functions') : functions[i].of \in Callers
        BY <2>1, <2>2, <3>2, CallersAssumption DEF Frozen
      <4> QED
        BY <2>1, <4>2, <4>3 DEF Frozen
    <3> QED
      BY <3>1, <3>2
  <2> QED
    BY <2>3, <2>4, <2>5, <2>6
<1>9. ASSUME NEW c \in Callers, SignalDone(c) PROVE GuiInv'
  <2>1. /\ stage[c] = "wait" /\ stage' = [stage EXCEPT ![c] = "idle"]
        /\ hook = "done" /\ hook' = "count"
        /\ calls' = [calls EXCEPT ![c] = Tail(@)]
        /\ UNCHANGED <<loop, guiIdleRun, guiLock, timer, starts, timerThread, functions>>
    BY <1>9 DEF SignalDone, Move, timerVars
  <2>2. calls[c] \in Seq(Kinds) /\ calls[c] # <<>> /\ c # Handlers
    BY <2>1, CallersAssumption DEF CallUnderWay, TypeOK
  <2>3. Tail(calls[c]) \in Seq(Kinds)
    BY <2>2, HeadTailProperties
  <2>4. TypeOK'
    BY <2>1, <2>3 DEF TypeOK
  <2>5. NestedInFlush' /\ Frozen'
    BY <2>1 DEF NestedInFlush, Frozen
  <2>6. HandlersDoNotLock' /\ CallUnderWay'
    BY <2>1, <2>2 DEF HandlersDoNotLock, CallUnderWay, TypeOK
  <2> QED
    BY <2>4, <2>5, <2>6
<1>10. CASE UNCHANGED vars
  BY <1>10 DEF vars, callerVars, timerVars, TypeOK, NestedInFlush, Frozen, HandlersDoNotLock,
               CallUnderWay
<1> QED
  BY <1>1, <1>2, <1>3, <1>4, <1>5, <1>6, <1>7, <1>8, <1>9, <1>10 DEF Next, HookStep

LEMMA CountStep == GuiInv /\ Counted /\ [Next]_vars => Counted'
<1> SUFFICES ASSUME GuiInv, Counted, [Next]_vars PROVE Counted'
  OBVIOUS
<1> USE DEF GuiInv
<1>0. /\ IsFiniteSet(Outside) /\ IsFiniteSet(Taken)
      /\ Cardinality(Outside) \in Nat /\ Cardinality(Taken) \in Nat
      /\ guiIdleRun = Cardinality(Outside) + Cardinality(Taken) + Telling
  BY FiniteCounts DEF Counted
<1>1. ASSUME UNCHANGED <<stage, functions, guiIdleRun>>, Telling' = Telling PROVE Counted'
  BY <1>0, <1>1 DEF Counted, Outside, Taken
<1>2. CASE Run \/ Exit \/ QtStep \/ HookReturns \/ UNCHANGED vars
  BY <1>1, <1>2 DEF Run, Exit, QtStep, TimerStarts, TimerStops, TimerFires, HookReturns,
                    HandlesEvents, Telling, vars, callerVars, timerVars
<1>3. ASSUME NEW c \in Callers, CallerStep(c) PROVE Counted'
  <2>1. CASE CountIn(c)
    <3>1. Outside' = Outside \cup {c} /\ c \notin Outside
      BY <2>1 DEF CountIn, Move, Outside, TypeOK
    <3>2. Cardinality(Outside') = Cardinality(Outside) + 1
      BY <1>0, <3>1, FS_AddElement
    <3> QED
      BY <1>0, <2>1, <3>2 DEF CountIn, Counted, Taken, Telling
  <2>2. CASE idleTimerStart(c) \/ Offer(c)
    <3>1. Outside' = Outside
      BY <2>2 DEF idleTimerStart, Offer, Move, Outside, TypeOK
    <3> QED
      BY <1>0, <2>2, <3>1 DEF idleTimerStart, Offer, Counted, Taken, Telling
  <2> QED
    BY <1>3, <2>1, <2>2 DEF CallerStep
<1>4. CASE CountOut
  <2>1. UNCHANGED <<stage, functions>> /\ guiIdleRun' = guiIdleRun - 1
        /\ Telling = 1 /\ Telling' = 0
    BY <1>4 DEF CountOut, callerVars, Telling
  <2> QED
    BY <1>0, <2>1 DEF Counted, Outside, Taken
<1>5. ASSUME NEW c \in Callers, TakeFunction(c) PROVE Counted'
  <2>1. /\ stage[c] = "offer" /\ stage' = [stage EXCEPT ![c] = "wait"] /\ Begin(c)
        /\ hook = "select" /\ hook' = "none" /\ UNCHANGED guiIdleRun
    BY <1>5 DEF TakeFunction, Move
  <2>2. Outside' = Outside \ {c} /\ c \in Outside
    BY <2>1 DEF Outside, TypeOK
  <2>3. Cardinality(Outside') = Cardinality(Outside) - 1
    BY <1>0, <2>2, FS_RemoveElement
  <2>4. /\ Len(functions') = Len(functions) + 1 /\ Len(functions) \in Nat
        /\ functions'[Len(functions')].of = c
        /\ \A i \in 1..Len(functions) : functions'[i] = functions[i]
    <3>1. calls[c] # <<>> /\ hook # "none"
      BY <2>1 DEF CallUnderWay
    <3>2. /\ Len(functions') = Len(functions) + 1
          /\ functions'[Len(functions')] = [of |-> c, kind |-> Head(calls[c])]
          /\ \A i \in 1..Len(functions) : functions'[i] = functions[i]
      BY <2>1, <3>1, BeginInv
    <3> QED
      BY <3>2 DEF TypeOK
  <2>5. Taken' = Taken \cup {Len(functions) + 1} /\ Len(functions) + 1 \notin Taken
    BY <2>4 DEF Taken
  <2>6. Cardinality(Taken') = Cardinality(Taken) + 1
    BY <1>0, <2>5, FS_AddElement
  <2> QED
    BY <1>0, <2>1, <2>3, <2>6 DEF Counted, Telling
<1>6. CASE HandlerCalls
  <2>1. /\ HandlesEvents /\ Begin(Handlers) /\ calls[Handlers] # <<>>
        /\ UNCHANGED <<stage, hook, guiIdleRun>>
    BY <1>6 DEF HandlerCalls
  <2>2. /\ Len(functions') = Len(functions) + 1 /\ Len(functions) \in Nat
        /\ functions'[Len(functions')].of = Handlers
        /\ \A i \in 1..Len(functions) : functions'[i] = functions[i]
    <3>1. /\ Len(functions') = Len(functions) + 1
          /\ functions'[Len(functions')] = [of |-> Handlers, kind |-> Head(calls[Handlers])]
          /\ \A i \in 1..Len(functions) : functions'[i] = functions[i]
      BY <2>1, BeginInv
    <3> QED
      BY <3>1 DEF TypeOK
  <2>3. Taken' = Taken
    BY <2>2, CallersAssumption DEF Taken
  <2> QED
    BY <1>0, <2>1, <2>3 DEF Counted, Outside, Telling
<1>7. CASE FunctionEnds
  <2>1. /\ Len(functions) \in Nat \ {0} /\ Len(functions') = Len(functions) - 1
        /\ \A i \in 1..Len(functions') : functions'[i] = functions[i]
        /\ Top \in Function /\ Top = functions[Len(functions)]
    BY <1>7, EndInv
  <2>2. /\ UNCHANGED <<stage, guiIdleRun>>
        /\ hook = "none" /\ hook' = IF Top.of = Handlers THEN "none" ELSE "done"
    BY <1>7 DEF FunctionEnds, callerVars
  <2>3. CASE Top.of = Handlers
    <3>1. Taken' = Taken
      BY <2>1, <2>3, CallersAssumption DEF Taken
    <3> QED
      BY <1>0, <2>2, <2>3, <3>1 DEF Counted, Outside, Telling
  <2>4. CASE Top.of # Handlers
    <3>1. Top.of \in Callers
      BY <2>1, <2>4 DEF Function
    <3>2. Taken' = Taken \ {Len(functions)} /\ Len(functions) \in Taken
      BY <2>1, <3>1 DEF Taken
    <3>3. Cardinality(Taken') = Cardinality(Taken) - 1
      BY <1>0, <3>2, FS_RemoveElement
    <3> QED
      BY <1>0, <2>2, <2>4, <3>3 DEF Counted, Outside, Telling
  <2> QED
    BY <2>3, <2>4
<1>8. ASSUME NEW c \in Callers, SignalDone(c) PROVE Counted'
  <2>1. /\ stage[c] = "wait" /\ stage' = [stage EXCEPT ![c] = "idle"]
        /\ hook = "done" /\ hook' = "count" /\ UNCHANGED <<guiIdleRun, functions>>
    BY <1>8 DEF SignalDone, Move
  <2>2. Outside' = Outside
    BY <2>1 DEF Outside, TypeOK
  <2> QED
    BY <1>0, <2>1, <2>2 DEF Counted, Taken, Telling
<1> QED
  BY <1>2, <1>3, <1>4, <1>5, <1>6, <1>7, <1>8 DEF Next, HookStep

LEMMA InitCounted == Init => Counted
<1> SUFFICES ASSUME Init PROVE Counted
  OBVIOUS
<1>1. Outside = {} /\ Taken = {} /\ Telling = 0 /\ guiIdleRun = 0
  BY DEF Init, Outside, Taken, Telling
<1> QED
  BY <1>1, FS_EmptySet DEF Counted

(* What the theorems that follow rest on: how functions nest, who may have
   locked QML, and what guiIdleRun counts. *)
THEOREM Invariance == Spec => [](GuiInv /\ Counted)
  BY InitInv, InitCounted, StepInv, CountStep, PTL DEF Spec

(* Every variable of the hand-off stays in its type whatever is called; in
   particular guiIdleRun never falls below zero. *)
THEOREM TypeCorrect == Spec => []TypeOK
  BY Invariance, PTL DEF GuiInv

-----------------------------------------------------------------------------
(* The refinement: counting, the timer and the channels are stutters. *)

PhaseOf(s) == CASE s = "idle" -> "idle" [] s = "wait" -> "waiting" [] OTHER -> "asked"

Phases == [c \in Callers |-> PhaseOf(stage[c])]

LEMMA PhasesMove ==
  ASSUME GuiInv, NEW c \in Callers, NEW s, stage' = [stage EXCEPT ![c] = s]
  PROVE  Phases' = [Phases EXCEPT ![c] = PhaseOf(s)]
  BY DEF GuiInv, TypeOK, Phases

LEMMA InitRefines == Init => Calls!Init
  BY DEF Init, Calls!Init

LEMMA StepRefines == GuiInv /\ [Next]_vars => [Calls!Next]_(Calls!vars)
<1> SUFFICES ASSUME GuiInv, [Next]_vars PROVE Calls!Next \/ UNCHANGED Calls!vars
  OBVIOUS
<1> USE DEF Calls!vars
<1>0. [c \in Callers |-> CASE stage[c] = "idle" -> "idle"
                           [] stage[c] = "wait" -> "waiting"
                           [] OTHER             -> "asked"] = Phases
  BY DEF Phases, PhaseOf
<1>1. ASSUME UNCHANGED <<calls, functions, guiLock, stage>> PROVE UNCHANGED Calls!vars
  BY <1>1
<1>2. CASE Run \/ Exit \/ QtStep \/ HookReturns \/ CountOut
  BY <1>1, <1>2 DEF Run, Exit, QtStep, TimerStarts, TimerStops, TimerFires, HookReturns,
                    CountOut, callerVars, timerVars
<1>3. ASSUME NEW c \in Callers, CallerStep(c)
      PROVE  Calls!Next \/ UNCHANGED Calls!vars
  <2>1. CASE CountIn(c)
    <3>1. PICK s \in {"start", "send"} : stage[c] = "idle" /\ stage' = [stage EXCEPT ![c] = s]
      BY <2>1 DEF CountIn, Move
    <3>2. Phases' = [Phases EXCEPT ![c] = "asked"] /\ Phases[c] = "idle"
      BY <3>1, PhasesMove DEF PhaseOf, Phases
    <3>3. calls[c] # <<>> /\ UNCHANGED <<calls, functions, guiLock>>
      BY <2>1 DEF CountIn, timerVars
    <3>4. Calls!Ask(c)
      BY <1>0, <3>2, <3>3 DEF Calls!Ask, Calls!Move, Phases, PhaseOf
    <3> QED
      BY <3>4 DEF Calls!Next
  <2>2. CASE idleTimerStart(c) \/ Offer(c)
    <3>1. PICK s \in {"send", "offer"} :
            stage[c] \in {"start", "send"} /\ stage' = [stage EXCEPT ![c] = s]
      BY <2>2 DEF idleTimerStart, Offer, Move
    <3>2. Phases' = [Phases EXCEPT ![c] = "asked"] /\ Phases[c] = "asked"
      BY <3>1, PhasesMove DEF PhaseOf, Phases
    <3>3. UNCHANGED <<calls, functions, guiLock, Phases>>
      BY <2>2, <3>2 DEF idleTimerStart, Offer, timerVars, Phases
    <3> QED
      BY <1>0, <3>3 DEF Phases, PhaseOf
  <2> QED
    BY <1>3, <2>1, <2>2 DEF CallerStep
<1>4. ASSUME NEW c \in Callers, TakeFunction(c) PROVE Calls!Next
  <2>1. /\ hook = "select" /\ stage[c] = "offer" /\ stage' = [stage EXCEPT ![c] = "wait"]
        /\ Begin(c) /\ UNCHANGED <<calls, guiLock>>
    BY <1>4 DEF TakeFunction, Move, timerVars
  <2>2. Phases' = [Phases EXCEPT ![c] = "waiting"] /\ Phases[c] = "asked"
    BY <2>1, PhasesMove DEF PhaseOf, Phases
  <2>3. functions = <<>> \/ Calls!InFlush
    BY <2>1 DEF GuiInv, TypeOK, NestedInFlush, Calls!InFlush
  <2>4. Calls!FunctionBegins(c)
    BY <1>0, <2>1, <2>2, <2>3
    DEF Calls!FunctionBegins, Calls!Move, Calls!Begin, Begin, Phases, PhaseOf
  <2> QED
    BY <2>4 DEF Calls!Next
<1>5. CASE FunctionEnds
  <2>1. /\ functions # <<>> /\ functions' = SubSeq(functions, 1, Len(functions) - 1)
        /\ UNCHANGED <<calls, stage>>
    BY <1>5 DEF FunctionEnds, callerVars
  <2>2. /\ guiLock' \in {guiLock - 1, guiLock, guiLock + 1} \cap Nat
        /\ guiLock' > guiLock => Top.kind = "Lock"
        /\ guiLock' < guiLock => Top.kind = "Unlock"
    BY <1>5 DEF FunctionEnds, GuiInv, TypeOK
  <2>3. Calls!FunctionEnds
    BY <2>1, <2>2 DEF Calls!FunctionEnds, Top
  <2> QED
    BY <2>3 DEF Calls!Next
<1>6. ASSUME NEW c \in Callers, SignalDone(c) PROVE Calls!Next
  <2>1. /\ hook = "done" /\ stage[c] = "wait" /\ stage' = [stage EXCEPT ![c] = "idle"]
        /\ calls' = [calls EXCEPT ![c] = Tail(@)] /\ UNCHANGED <<functions, guiLock>>
    BY <1>6 DEF SignalDone, Move, timerVars
  <2>2. Phases' = [Phases EXCEPT ![c] = "idle"] /\ Phases[c] = "waiting"
    BY <2>1, PhasesMove DEF PhaseOf, Phases
  <2>3. \A i \in DOMAIN functions : functions[i].kind = "Flush"
    BY <2>1 DEF GuiInv, TypeOK, NestedInFlush
  <2>4. Calls!Return(c)
    BY <1>0, <2>1, <2>2, <2>3 DEF Calls!Return, Calls!Move, Phases, PhaseOf
  <2> QED
    BY <2>4 DEF Calls!Next
<1>7. CASE HandlerCalls
  <2>1. /\ HandlesEvents /\ calls[Handlers] # <<>> /\ Begin(Handlers)
        /\ calls' = [calls EXCEPT ![Handlers] = Tail(@)] /\ UNCHANGED <<stage, guiLock>>
    BY <1>7 DEF HandlerCalls
  <2>2. (functions = <<>> /\ guiLock = 0) \/ Calls!InFlush
    BY <2>1 DEF HandlesEvents, GuiInv, TypeOK, Frozen, Calls!InFlush, Top
  <2>3. Calls!HandlerCalls
    BY <2>1, <2>2 DEF Calls!HandlerCalls, Calls!Begin, Begin
  <2> QED
    BY <2>3 DEF Calls!Next
<1>8. CASE UNCHANGED vars
  BY <1>1, <1>8 DEF vars, callerVars
<1> QED
  BY <1>2, <1>3, <1>4, <1>5, <1>6, <1>7, <1>8 DEF Next, HookStep

(* Every function runs once, one inside another only in a Flush, handlers
   are kept away by a Lock, and only a Flush is not waited for. *)
THEOREM Refinement == Spec => ImplementsCalls
<1>1. Init => Calls!Init
  BY InitRefines
<1>2. GuiInv /\ [Next]_vars => [Calls!Next]_(Calls!vars)
  BY StepRefines
<1> QED
  BY <1>1, <1>2, Invariance, PTL DEF Spec, ImplementsCalls, Calls!Spec

-----------------------------------------------------------------------------
(* The idle timer. *)

WakeInv ==
  /\ loop = "before" => functions = <<>> /\ hook = "none"
  /\ timerThread # "other" =>
       /\ guiIdleRun > 0 => timer # "off" \/ starts > 0 \/ \E c \in Callers : stage[c] = "start"
       /\ timerThread = IF loop = "before" THEN "none" ELSE "gui"

LEMMA WakeStep ==
  GuiInv /\ WakeInv /\ [Next]_vars => WakeInv'
<1> SUFFICES ASSUME GuiInv, WakeInv, [Next]_vars PROVE WakeInv'
  OBVIOUS
<1> USE DEF GuiInv, WakeInv
<1>1. CASE Run \/ Exit
  BY <1>1 DEF Run, Exit, SingletonOf, callerVars, timerVars
<1>2. ASSUME NEW c \in Callers, CallerStep(c) PROVE WakeInv'
  <2>1. CASE CountIn(c)
    <3>1. /\ guiIdleRun' = guiIdleRun + 1
          /\ stage[c] = "idle"
          /\ stage' = [stage EXCEPT ![c] = IF guiIdleRun + 1 = 1 THEN "start" ELSE "send"]
          /\ UNCHANGED <<loop, timer, starts, timerThread, functions, hook>>
      BY <2>1 DEF CountIn, Move, timerVars
    <3>2. CASE guiIdleRun = 0
      <4>1. stage'[c] = "start"
        BY <3>1, <3>2 DEF TypeOK
      <4> QED
        BY <3>1, <4>1
    <3>3. CASE guiIdleRun # 0
      <4>1. \A x \in Callers : stage[x] = "start" => stage'[x] = "start"
        BY <3>1 DEF TypeOK
      <4>2. guiIdleRun > 0
        BY <3>3 DEF TypeOK
      <4> QED
        BY <3>1, <4>1, <4>2
    <3> QED
      BY <3>2, <3>3
  <2>2. CASE idleTimerStart(c)
    BY <2>2 DEF idleTimerStart, Move, SingletonOf, TypeOK
  <2>3. CASE Offer(c)
    BY <2>3 DEF Offer, Move, timerVars, TypeOK
  <2> QED
    BY <1>2, <2>1, <2>2, <2>3 DEF CallerStep
<1>3. CASE QtStep
  BY <1>3 DEF QtStep, TimerStarts, TimerStops, TimerFires, HandlesEvents, callerVars, TypeOK
<1>4. CASE HookReturns
  BY <1>4 DEF HookReturns, callerVars, TypeOK
<1>5. CASE CountOut
  BY <1>5 DEF CountOut, callerVars, timerVars, TypeOK
<1>6. ASSUME NEW c \in Callers, TakeFunction(c) PROVE WakeInv'
  BY <1>6 DEF TakeFunction, Move, timerVars, TypeOK
<1>7. ASSUME NEW c \in Callers, SignalDone(c) PROVE WakeInv'
  BY <1>7 DEF SignalDone, Move, timerVars, TypeOK
<1>8. CASE FunctionEnds
  <2>1. UNCHANGED <<stage, guiIdleRun, timer, starts, timerThread>>
    BY <1>8 DEF FunctionEnds, callerVars, timerVars
  <2>2. loop # "before" /\ loop' # "before"
    BY <1>8 DEF FunctionEnds
  <2> QED
    BY <2>1, <2>2
<1>9. CASE HandlerCalls
  BY <1>9 DEF HandlerCalls, HandlesEvents, timerVars
<1>10. CASE UNCHANGED vars
  BY <1>10 DEF vars, callerVars, timerVars
<1> QED
  BY <1>1, <1>2, <1>3, <1>4, <1>5, <1>6, <1>7, <1>8, <1>9, <1>10 DEF Next, HookStep

(* If nobody called before Run, a caller that waits with a function is not
   forgotten: the timer is on, or will be. *)
THEOREM WakesUp == Spec => []NoLostWakeup
<1>1. Init => WakeInv
  BY DEF Init, WakeInv
<1>2. GuiInv /\ Counted /\ WakeInv => NoLostWakeup
  <2> SUFFICES ASSUME GuiInv, Counted, WakeInv, loop = "running", timerThread # "other",
                      NEW c \in Callers, stage[c] \in {"send", "offer"}
               PROVE  timer # "off" \/ (starts > 0 /\ timerThread = "gui")
                        \/ \E x \in Callers : stage[x] = "start"
    BY DEF NoLostWakeup
  <2>1. Outside # {}
    BY DEF Outside
  <2>2. Cardinality(Outside) > 0
    BY <2>1, FiniteCounts, FS_EmptySet
  <2>3. guiIdleRun > 0
    BY <2>2, FiniteCounts DEF Counted, Telling
  <2> QED
    BY <2>3 DEF WakeInv
<1>3. GuiInv /\ WakeInv /\ [Next]_vars => WakeInv'
  BY WakeStep
<1> QED
  BY <1>1, <1>2, <1>3, Invariance, PTL DEF Spec
=============================================================================
