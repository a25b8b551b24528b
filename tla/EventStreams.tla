---------------------------- MODULE EventStreams ----------------------------
(***************************************************************************)
(* What the dispatcher promises: two streams of events, one for the        *)
(* InterfacesAdded signals and one for the InterfacesRemoved signals.      *)
(* Each is delivered in the order in which it was announced, every event   *)
(* once, on the channel its path and its stream select.  Nothing orders    *)
(* one stream relative to the other.                                       *)
(***************************************************************************)
EXTENDS Sequences

CONSTANTS Event, JobPaths, Undecodable

VARIABLES pending,    \* announced and not yet delivered, per stream
          delivered   \* what the readers got: <<channel, event>> per stream

vars == <<pending, delivered>>

Streams == {"additions", "removals"}

(* The channel an event of a stream must come out of. *)
ChannelFor(s, e) ==
  CASE e.path \in JobPaths -> "Jobs"
    [] e.path \notin JobPaths /\ s = "additions" -> "Additions"
    [] e.path \notin JobPaths /\ s = "removals"  -> "Removals"

Init ==
  /\ pending = [s \in Streams |-> <<>>]
  /\ delivered = [s \in Streams |-> <<>>]

Announce(s, e) ==
  /\ pending' = [pending EXCEPT ![s] = Append(@, e)]
  /\ UNCHANGED delivered

Deliver(s) ==
  /\ pending[s] # <<>>
  /\ Head(pending[s]) \notin Undecodable
  /\ pending' = [pending EXCEPT ![s] = Tail(@)]
  /\ delivered' = [delivered EXCEPT ![s] =
                     Append(@, <<ChannelFor(s, Head(pending[s])), Head(pending[s])>>)]

(* A message whose arguments cannot be decoded is dropped, alone. *)
Drop(s) ==
  /\ pending[s] # <<>>
  /\ Head(pending[s]) \in Undecodable
  /\ pending' = [pending EXCEPT ![s] = Tail(@)]
  /\ UNCHANGED delivered

Next ==
  \E s \in Streams :
    \/ \E e \in Event : Announce(s, e)
    \/ Deliver(s)
    \/ Drop(s)

Spec == Init /\ [][Next]_vars
=============================================================================
