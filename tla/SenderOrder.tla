------------------------------ MODULE SenderOrder ------------------------------
(***************************************************************************)
(* Order among messages that carry their sender and its count: what both   *)
(* queues of the system (event bus, shards) have to keep.                  *)
(***************************************************************************)
EXTENDS Naturals, Sequences

\* e comes before f, if the order of the two matters at all.
Before(e, f) == e.from = f.from => e.num < f.num

\* Every sender's messages in the order it sent them, and none of them twice.
InSequence(s) == \A i, j \in 1..Len(s) : i < j => Before(s[i], s[j])

EventsIn(s) == {s[i] : i \in 1..Len(s)}

AllBefore(s, t) == \A e \in EventsIn(s) : \A f \in EventsIn(t) : Before(e, f)

\* What is finished comes before what is at work before what is queued.
LineInOrder(finished, atWork, queued) ==
    /\ InSequence(finished) /\ InSequence(queued)
    /\ AllBefore(finished, atWork)
    /\ AllBefore(finished, queued)
    /\ AllBefore(atWork, queued)
==============================================================================
