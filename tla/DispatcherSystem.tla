-------------------------- MODULE DispatcherSystem --------------------------
(***************************************************************************)
(* The dispatcher closed by its two neighbours: a bus that may announce    *)
(* any event on either signal, and readers that may take whatever is       *)
(* offered on a channel at any time.                                       *)
(***************************************************************************)
EXTENDS Dispatcher

CONSTANTS Messages,      \* what the bus may send each watch, broken messages included
          MaxSignals     \* bound: signals announced per watch

AllMessages == Messages["additions"] \cup Messages["removals"]

ASSUME MessagesAssumption ==
  /\ DOMAIN Messages = Watches
  /\ Undecodable \subseteq AllMessages
  /\ AllMessages \ Undecodable \subseteq Event

ASSUME MaxSignalsAssumption == MaxSignals \in Nat

VARIABLES announced,   \* history: how many messages each watch was sent that decode
          delivered,   \* history: <<channel, event>> taken from each goroutine
          sent         \* how many messages each watch was sent

vars == <<watch, held, announced, delivered, sent>>

Init ==
  /\ DispatcherInit
  /\ announced = [w \in Watches |-> 0]
  /\ sent = [w \in Watches |-> 0]
  /\ delivered = [w \in Watches |-> <<>>]

Announce(w, e) ==
  /\ sent[w] < MaxSignals
  /\ Signal(w, e)
  /\ sent' = [sent EXCEPT ![w] = @ + 1]
  /\ announced' = IF e \in Undecodable THEN announced
                  ELSE [announced EXCEPT ![w] = @ + 1]
  /\ UNCHANGED delivered

Read(w) ==
  \E c \in {"Jobs", "Additions", "Removals"}, e \in Messages[w] :
    /\ Send(w, c, e)
    /\ delivered' = [delivered EXCEPT ![w] = Append(@, <<c, e>>)]
    /\ UNCHANGED <<announced, sent>>

Step(w) == DispatcherStep(w) /\ UNCHANGED <<announced, delivered, sent>>

Next ==
  \E w \in Watches :
    \/ \E e \in Messages[w] : Announce(w, e)
    \/ Step(w)
    \/ Read(w)

Fairness == \A w \in Watches : WF_vars(Step(w)) /\ WF_vars(Read(w))

Spec == Init /\ [][Next]_vars

FairSpec == Spec /\ Fairness

-----------------------------------------------------------------------------
TypeOK ==
  /\ watch \in [Watches -> Seq(AllMessages)]
  /\ held \in [Watches -> {<<>>} \cup {<<e>> : e \in AllMessages \ Undecodable}]
  /\ announced \in [Watches -> Nat]
  /\ sent \in [Watches -> Nat]
  /\ delivered \in [Watches -> Seq({"Jobs", "Additions", "Removals"} \X AllMessages)]

(* An event is pending from the moment it reaches the watch until its
   reader has it: the one being sent is ahead of those still in the watch. *)
pending == [w \in Watches |-> held[w] \o watch[w]]

Streams == INSTANCE EventStreams WITH Event <- AllMessages

(* The two goroutines of Init deliver each signal's events in order, each
   once and on the right channel, and drop nothing but what cannot be
   decoded (dispatcher.go:96-170). *)
DeliversStreams == Streams!Spec

(* What can be decoded is delivered, also behind a message that cannot be
   (the continue of dispatcher.go:103 and 116 resumes with the next one). *)
EveryEventDelivered ==
  \A w \in Watches, n \in 1..MaxSignals :
    announced[w] = n ~> Len(delivered[w]) >= n
=============================================================================
