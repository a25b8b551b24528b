------------------------------ MODULE GuiCalls ------------------------------
(***************************************************************************)
(* What RunMain, Lock and Flush promise their callers (the comments of     *)
(* qml.v1/bridge.go): every function that is asked for runs once, on one   *)
(* thread, and while QML is locked no QML handler runs unless a Flush asks *)
(* for it.  A call returns after its function has, except that a Flush may *)
(* return while its function is still at work.                             *)
(***************************************************************************)
EXTENDS Integers, Sequences

CONSTANTS Callers, Handlers, Scripts

VARIABLES calls,     \* what each has yet to call, the call under way first
          phase,     \* a caller is idle, has asked, or waits for its function
          functions, \* the functions that run, each inside the one before
          locked     \* how many Locks are held

vars == <<calls, phase, functions, locked>>

Init ==
  /\ calls \in Scripts
  /\ phase = [c \in Callers |-> "idle"]
  /\ functions = <<>>
  /\ locked = 0

InFlush == functions # <<>> /\ functions[Len(functions)].kind = "Flush"

Move(c, from, to) == phase[c] = from /\ phase' = [phase EXCEPT ![c] = to]

Begin(c) == functions' = Append(functions, [of |-> c, kind |-> Head(calls[c])])

Ask(c) ==
  /\ calls[c] # <<>>
  /\ Move(c, "idle", "asked")
  /\ UNCHANGED <<calls, functions, locked>>

FunctionBegins(c) ==
  /\ functions = <<>> \/ InFlush
  /\ Move(c, "asked", "waiting")
  /\ Begin(c)
  /\ UNCHANGED <<calls, locked>>

FunctionEnds ==
  /\ functions # <<>>
  /\ functions' = SubSeq(functions, 1, Len(functions) - 1)
  /\ locked' \in {locked - 1, locked, locked + 1} \cap Nat
  /\ locked' > locked => functions[Len(functions)].kind = "Lock"
  /\ locked' < locked => functions[Len(functions)].kind = "Unlock"
  /\ UNCHANGED <<calls, phase>>

Return(c) ==
  /\ \A i \in DOMAIN functions : functions[i].of = c => functions[i].kind = "Flush"
  /\ Move(c, "waiting", "idle")
  /\ calls' = [calls EXCEPT ![c] = Tail(@)]
  /\ UNCHANGED <<functions, locked>>

HandlerCalls ==
  /\ calls[Handlers] # <<>>
  /\ (functions = <<>> /\ locked = 0) \/ InFlush
  /\ Begin(Handlers)
  /\ calls' = [calls EXCEPT ![Handlers] = Tail(@)]
  /\ UNCHANGED <<phase, locked>>

Next ==
  \/ \E c \in Callers : Ask(c) \/ FunctionBegins(c) \/ Return(c)
  \/ FunctionEnds
  \/ HandlerCalls

Spec == Init /\ [][Next]_vars
=============================================================================
