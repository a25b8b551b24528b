-------------------------- MODULE Dispatcher_proofs --------------------------
(***************************************************************************)
(* For any messages and any number of signals, the two goroutines of the   *)
(* dispatcher implement the event streams.                                 *)
(***************************************************************************)
EXTENDS DispatcherSystem, SequenceTheorems, TLAPS

LEMMA InitType == Init => TypeOK
  BY DEF Init, DispatcherInit, TypeOK

LEMMA StepType == TypeOK /\ [Next]_vars => TypeOK'
<1> SUFFICES ASSUME TypeOK, [Next]_vars PROVE TypeOK'
  OBVIOUS
<1> USE DEF TypeOK
<1>1. ASSUME NEW w \in Watches, NEW e \in Messages[w], Announce(w, e)
      PROVE  TypeOK'
  <2>1. e \in AllMessages
    BY DEF AllMessages, Watches
  <2>2. Append(watch[w], e) \in Seq(AllMessages)
    BY <2>1
  <2> QED
    BY <1>1, <2>2 DEF Announce, Signal
<1>2. ASSUME NEW w \in Watches, Step(w) PROVE TypeOK'
  <2>1. watch[w] # <<>> /\ watch[w] \in Seq(AllMessages)
    BY <1>2 DEF Step, DispatcherStep, Skip, Take, Waiting
  <2>2. Head(watch[w]) \in AllMessages /\ Tail(watch[w]) \in Seq(AllMessages)
    BY <2>1
  <2>3. CASE Skip(w)
    BY <1>2, <2>2, <2>3 DEF Step, Skip
  <2>4. CASE Take(w)
    BY <1>2, <2>2, <2>4 DEF Step, Take
  <2> QED
    BY <1>2, <2>3, <2>4 DEF Step, DispatcherStep
<1>3. ASSUME NEW w \in Watches, Read(w) PROVE TypeOK'
  <2>1. PICK c \in {"Jobs", "Additions", "Removals"}, e \in Messages[w] :
          /\ Send(w, c, e)
          /\ delivered' = [delivered EXCEPT ![w] = Append(@, <<c, e>>)]
          /\ UNCHANGED <<announced, sent>>
    BY <1>3 DEF Read
  <2>2. e \in AllMessages
    BY DEF AllMessages, Watches
  <2>3. Append(delivered[w], <<c, e>>)
          \in Seq({"Jobs", "Additions", "Removals"} \X AllMessages)
    BY <2>2
  <2> QED
    BY <2>1, <2>3 DEF Send
<1>4. CASE UNCHANGED vars
  BY <1>4 DEF vars
<1> QED
  BY <1>1, <1>2, <1>3, <1>4 DEF Next

THEOREM TypeCorrect == Spec => []TypeOK
  BY InitType, StepType, PTL DEF Spec

-----------------------------------------------------------------------------
(* The refinement mapping keeps the order: what is being sent is the oldest
   of what is pending. *)

LEMMA ConsFacts ==
  ASSUME NEW S, NEW e \in S, NEW q \in Seq(S)
  PROVE  /\ <<e>> \o q \in Seq(S)
         /\ <<e>> \o q # <<>>
         /\ Head(<<e>> \o q) = e
         /\ Tail(<<e>> \o q) = q
<1>1. <<e>> \in Seq(S) /\ Len(<<e>>) = 1 /\ <<e>>[1] = e
  OBVIOUS
<1>2. /\ Len(<<e>> \o q) = 1 + Len(q)
      /\ \A i \in 1..Len(q) : (<<e>> \o q)[i + 1] = q[i]
      /\ (<<e>> \o q)[1] = e
      /\ <<e>> \o q \in Seq(S)
  BY <1>1, Z3
<1>3. <<e>> \o q # <<>> /\ Head(<<e>> \o q) = e
  BY <1>2
<1>4. Tail(<<e>> \o q) = q
  BY <1>2, <1>3, Z3
<1> QED
  BY <1>2, <1>3, <1>4

(* Appending on the right of what is held and what waits. *)
LEMMA ConcatAppend ==
  ASSUME NEW S, NEW p \in Seq(S), NEW q \in Seq(S), NEW e \in S
  PROVE  p \o Append(q, e) = Append(p \o q, e)
  BY Z3

(* The pending events of a goroutine that waits, and of one that sends. *)
LEMMA PendingFacts ==
  ASSUME TypeOK, NEW w \in Watches
  PROVE  /\ pending[w] \in Seq(AllMessages)
         /\ held[w] = <<>> => pending[w] = watch[w]
         /\ \A e \in AllMessages :
              held[w] = <<e>> =>
                /\ pending[w] # <<>>
                /\ Head(pending[w]) = e
                /\ Tail(pending[w]) = watch[w]
<1>1. watch[w] \in Seq(AllMessages) /\ pending[w] = held[w] \o watch[w]
  BY DEF TypeOK, pending
<1>2. CASE held[w] = <<>>
  BY <1>1, <1>2, ConcatEmptySeq
<1>3. CASE held[w] # <<>>
  <2>1. PICK e \in AllMessages : held[w] = <<e>>
    BY <1>3 DEF TypeOK
  <2> QED
    BY <1>1, <2>1, ConsFacts
<1> QED
  BY <1>2, <1>3

(* A step of the goroutine of w changes what is pending there only. *)
LEMMA PendingChange ==
  ASSUME TypeOK, TypeOK', NEW w \in Watches,
         NEW x \in Seq(AllMessages), NEW y \in Seq(AllMessages),
         watch' = [watch EXCEPT ![w] = x],
         held' = [held EXCEPT ![w] = y]
  PROVE  /\ watch'[w] = x /\ held'[w] = y
         /\ pending' = [pending EXCEPT ![w] = y \o x]
<1>1. watch'[w] = x /\ held'[w] = y
  BY DEF TypeOK
<1>2. \A v \in Watches \ {w} : watch'[v] = watch[v] /\ held'[v] = held[v]
  BY DEF TypeOK
<1>3. \A v \in Watches :
        held'[v] \o watch'[v] = IF v = w THEN y \o x ELSE held[v] \o watch[v]
  <2> TAKE v \in Watches
  <2> DEFINE h == held'[v]
             t == watch'[v]
  <2>1. CASE v = w
    <3>1. h = y /\ t = x
      BY <1>1, <2>1
    <3> HIDE DEF h, t
    <3>2. h \o t = y \o x
      BY <3>1
    <3> QED
      BY <2>1, <3>2 DEF h, t
  <2>2. CASE v # w
    <3>1. h = held[v] /\ t = watch[v]
      BY <1>2, <2>2
    <3> HIDE DEF h, t
    <3>2. h \o t = held[v] \o watch[v]
      BY <3>1
    <3> QED
      BY <2>2, <3>2 DEF h, t
  <2> QED
    BY <2>1, <2>2
<1>4. pending' = [v \in Watches |-> IF v = w THEN y \o x ELSE held[v] \o watch[v]]
  BY <1>3 DEF pending
<1>5. [pending EXCEPT ![w] = y \o x]
        = [v \in Watches |-> IF v = w THEN y \o x ELSE held[v] \o watch[v]]
  BY DEF pending
<1> QED
  BY <1>1, <1>4, <1>5

LEMMA InitStreams == Init => Streams!Init
<1> SUFFICES ASSUME Init PROVE Streams!Init
  OBVIOUS
<1>1. \A w \in Watches : held[w] \o watch[w] = <<>>
  BY ConcatEmptySeq, EmptySeq DEF Init, DispatcherInit
<1>2. pending = [w \in Watches |-> <<>>]
  BY <1>1 DEF pending
<1> QED
  BY <1>2 DEF Streams!Init, Streams!Streams, Watches, Init

(* Taking a message into the hand changes nothing for the reader: it is
   still the next event.  The other steps are steps of the streams. *)
LEMMA StepStreams == TypeOK /\ TypeOK' /\ [Next]_vars => [Streams!Next]_(Streams!vars)
<1> SUFFICES ASSUME TypeOK, TypeOK', [Next]_vars
             PROVE  [Streams!Next]_(Streams!vars)
  OBVIOUS
<1> USE DEF Streams!Streams
<1>0. ASSUME NEW w \in Watches
      PROVE  watch[w] \in Seq(AllMessages) /\ held[w] \in Seq(AllMessages)
  <2>1. CASE held[w] = <<>>
    BY <2>1 DEF TypeOK
  <2>2. CASE held[w] # <<>>
    <3>1. PICK e \in AllMessages : held[w] = <<e>>
      BY <2>2 DEF TypeOK
    <3> QED
      BY <3>1 DEF TypeOK
  <2> QED
    BY <2>1, <2>2
<1>1. ASSUME NEW w \in Watches, NEW e \in Messages[w], Announce(w, e)
      PROVE  Streams!Announce(w, e) /\ e \in AllMessages
  <2>1. e \in AllMessages
    BY DEF AllMessages, Watches
  <2>2. /\ watch' = [watch EXCEPT ![w] = Append(watch[w], e)]
        /\ held' = [held EXCEPT ![w] = held[w]]
    BY <1>1 DEF Announce, Signal, TypeOK
  <2>3. pending' = [pending EXCEPT ![w] = held[w] \o Append(watch[w], e)]
    <3>1. Append(watch[w], e) \in Seq(AllMessages)
      BY <1>0, <2>1
    <3> QED
      BY <1>0, <2>2, <3>1, PendingChange
  <2>4. held[w] \o Append(watch[w], e) = Append(held[w] \o watch[w], e)
    <3> DEFINE h == held[w]
               t == watch[w]
    <3>1. h \in Seq(AllMessages) /\ t \in Seq(AllMessages)
      BY <1>0
    <3> HIDE DEF h, t
    <3>2. h \o Append(t, e) = Append(h \o t, e)
      BY <2>1, <3>1, ConcatAppend
    <3> QED
      BY <3>2 DEF h, t
  <2>5. pending[w] = held[w] \o watch[w]
    BY DEF pending
  <2> QED
    BY <1>1, <2>1, <2>3, <2>4, <2>5 DEF Announce, Streams!Announce
<1>2. ASSUME NEW w \in Watches, Step(w), Skip(w) PROVE Streams!Drop(w)
  <2>1. held[w] = <<>> /\ watch[w] # <<>> /\ held' = [held EXCEPT ![w] = <<>>]
    BY <1>2 DEF Skip, Waiting, TypeOK
  <2>2. pending[w] = watch[w]
    BY <2>1, PendingFacts
  <2>3. pending' = [pending EXCEPT ![w] = <<>> \o Tail(watch[w])]
    <3>1. Tail(watch[w]) \in Seq(AllMessages) /\ <<>> \in Seq(AllMessages)
      BY <1>0, <2>1
    <3> QED
      BY <1>2, <2>1, <3>1, PendingChange DEF Skip
  <2>4. <<>> \o Tail(watch[w]) = Tail(watch[w])
    BY <1>0, <2>1, ConcatEmptySeq
  <2> QED
    BY <1>2, <2>1, <2>2, <2>3, <2>4 DEF Skip, Step, Streams!Drop
<1>3. ASSUME NEW w \in Watches, Step(w), Take(w) PROVE UNCHANGED <<pending, delivered>>
  <2>1. held[w] = <<>> /\ watch[w] # <<>>
    BY <1>3 DEF Take, Waiting
  <2>2. pending' = [pending EXCEPT ![w] = <<Head(watch[w])>> \o Tail(watch[w])]
    <3>1. /\ Tail(watch[w]) \in Seq(AllMessages)
          /\ <<Head(watch[w])>> \in Seq(AllMessages)
      BY <1>0, <2>1
    <3> QED
      BY <1>3, <3>1, PendingChange DEF Take
  <2>3. <<Head(watch[w])>> \o Tail(watch[w]) = watch[w]
    BY <1>0, <2>1, HeadTailProperties, ConcatProperties, Z3
  <2>4. pending[w] = watch[w]
    BY <2>1, PendingFacts
  <2> QED
    BY <1>3, <2>2, <2>3, <2>4 DEF Step, pending
<1>4. ASSUME NEW w \in Watches, Read(w) PROVE Streams!Deliver(w)
  <2>1. PICK c \in {"Jobs", "Additions", "Removals"}, e \in Messages[w] :
          /\ Send(w, c, e)
          /\ delivered' = [delivered EXCEPT ![w] = Append(@, <<c, e>>)]
    BY <1>4 DEF Read
  <2>2. held[w] = <<e>>
    BY <2>1 DEF Send
  <2>3. e \in AllMessages /\ e \notin Undecodable
    <3>1. <<e>> # <<>>
      OBVIOUS
    <3>2. PICK f \in AllMessages \ Undecodable : held[w] = <<f>>
      BY <2>2, <3>1 DEF TypeOK
    <3> QED
      BY <2>2, <3>2
  <2>4. /\ pending[w] # <<>> /\ Head(pending[w]) = e /\ Tail(pending[w]) = watch[w]
    BY <2>2, <2>3, PendingFacts
  <2>5. pending' = [pending EXCEPT ![w] = <<>> \o watch[w]]
    <3>1. /\ watch' = [watch EXCEPT ![w] = watch[w]]
          /\ held' = [held EXCEPT ![w] = <<>>]
      BY <2>1 DEF Send, TypeOK
    <3>2. <<>> \in Seq(AllMessages)
      OBVIOUS
    <3> QED
      BY <1>0, <3>1, <3>2, PendingChange
  <2>6. <<>> \o watch[w] = watch[w]
    BY <1>0, ConcatEmptySeq
  <2>7. Streams!ChannelFor(w, e) = c
    BY <2>1 DEF Send, Channel, Streams!ChannelFor, Watches
  <2> QED
    BY <2>1, <2>3, <2>4, <2>5, <2>6, <2>7 DEF Streams!Deliver
<1>5. CASE UNCHANGED vars
  BY <1>5 DEF vars, Streams!vars, pending
<1> QED
  BY <1>1, <1>2, <1>3, <1>4, <1>5
  DEF Next, Step, DispatcherStep, Streams!Next, Streams!vars, Watches

(* Nothing is lost, repeated or put out of order between a signal watch and
   the readers, for any messages, broken ones included. *)
THEOREM Refinement == Spec => DeliversStreams
<1>1. Init => Streams!Init
  BY InitStreams
<1>2. TypeOK /\ TypeOK' /\ [Next]_vars => [Streams!Next]_(Streams!vars)
  BY StepStreams
<1> QED
  BY <1>1, <1>2, TypeCorrect, PTL DEF Spec, DeliversStreams, Streams!Spec
=============================================================================
