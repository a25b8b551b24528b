----------------------------- MODULE Dispatcher -----------------------------
(***************************************************************************)
(* udisks2/dispatcher.go: two goroutines, one per D-Bus signal watch, take *)
(* the messages of their watch one at a time, decode them and hand them to *)
(* whoever reads the channel that the object path selects.  The channels   *)
(* are unbuffered: a goroutine holds its event, and takes nothing more     *)
(* from its watch, until that hand-off happens.                            *)
(***************************************************************************)
EXTENDS Events

CONSTANT Undecodable    \* messages msg.Args cannot decode

VARIABLES watch,   \* the channel C of each signal watch, oldest first
          held     \* the event each goroutine is sending: <<>> or <<e>>

dispatcherVars == <<watch, held>>

Watches == {"additions", "removals"}

DispatcherInit ==
  /\ watch = [w \in Watches |-> <<>>]
  /\ held = [w \in Watches |-> <<>>]

(* The bus delivers a signal to the watch that matches its member. *)
Signal(w, e) ==
  /\ watch' = [watch EXCEPT ![w] = Append(@, e)]
  /\ UNCHANGED held

(* The head of the range loop: only a goroutine that is not sending takes
   a message. *)
Waiting(w) == held[w] = <<>> /\ watch[w] # <<>>

(* Mutant of Skip: return instead of continue, what is queued is lost. *)
SkipReturns(w) ==
  /\ Waiting(w)
  /\ Head(watch[w]) \in Undecodable
  /\ watch' = [watch EXCEPT ![w] = <<>>]
  /\ UNCHANGED held

(* msg.Args fails: the goroutine logs the error and continues. *)
Skip(w) ==
  /\ Waiting(w)
  /\ Head(watch[w]) \in Undecodable
  /\ watch' = [watch EXCEPT ![w] = Tail(@)]
  /\ UNCHANGED held

(* Mutant of Take: the error of msg.Args is logged and forgotten. *)
TakeUnchecked(w) ==
  /\ Waiting(w)
  /\ watch' = [watch EXCEPT ![w] = Tail(@)]
  /\ held' = [held EXCEPT ![w] = <<Head(watch[w])>>]

(* msg.Args succeeds: processAddition or processRemoval starts to send. *)
Take(w) ==
  /\ Waiting(w)
  /\ Head(watch[w]) \notin Undecodable
  /\ watch' = [watch EXCEPT ![w] = Tail(@)]
  /\ held' = [held EXCEPT ![w] = <<Head(watch[w])>>]

(* Mutant of Channel: only additions are looked at for jobs. *)
ChannelOfAdditionsOnly(w, e) ==
  IF w = "removals" THEN "Removals"
  ELSE IF e.path \in JobPaths THEN "Jobs" ELSE "Additions"

(* The channel the event goes to, from its path and its goroutine. *)
Channel(w, e) ==
  IF e.path \in JobPaths THEN "Jobs"
  ELSE IF w = "additions" THEN "Additions" ELSE "Removals"

(* The hand-off of e on channel c to a reader; who that is, the modules
   that compose this one say. *)
Send(w, c, e) ==
  /\ held[w] = <<e>>
  /\ c = Channel(w, e)
  /\ held' = [held EXCEPT ![w] = <<>>]
  /\ UNCHANGED watch

(* The steps of the goroutine of watch w that no other goroutine takes
   part in. *)
DispatcherStep(w) == Skip(w) \/ Take(w)
=============================================================================
