------------------------------ MODULE LossyFifo ------------------------------
(***************************************************************************)
(* What the event bus promises for ordered events, with no word of how it  *)
(* keeps the promise: a channel that may lose events but never invents,    *)
(* duplicates or reorders them, and whose receiver keeps receiving.        *)
(***************************************************************************)
EXTENDS Naturals, Sequences

CONSTANT Messages       \* every message that may ever be offered

VARIABLES offered,      \* messages whose sender has had its answer
          chan,         \* messages in transit, oldest first
          out           \* messages received, in the order of their arrival

vars == <<offered, chan, out>>

Init == offered = {} /\ chan = <<>> /\ out = <<>>

\* The channel without its i-th message.
Without(i) == SubSeq(chan, 1, i - 1) \o SubSeq(chan, i + 1, Len(chan))

\* A message is offered at most once: it joins the end of the channel ...
Send(m) == /\ m \notin offered
           /\ offered' = offered \cup {m}
           /\ chan' = Append(chan, m)
           /\ UNCHANGED out

\* ... or the channel refuses it.
Refuse(m) == /\ m \notin offered
             /\ offered' = offered \cup {m}
             /\ UNCHANGED <<chan, out>>

\* A message in transit is lost.
Lose(i) == /\ chan' = Without(i)
           /\ UNCHANGED <<offered, out>>

\* The oldest message in transit arrives.
Receive == /\ chan # <<>>
           /\ out' = Append(out, Head(chan))
           /\ chan' = Tail(chan)
           /\ UNCHANGED offered

Next == \/ \E m \in Messages : Send(m) \/ Refuse(m)
        \/ \E i \in 1..Len(chan) : Lose(i)
        \/ Receive

Spec == Init /\ [][Next]_vars

FairSpec == Spec /\ WF_vars(Receive)
==============================================================================
