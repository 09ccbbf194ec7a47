------------------------------- MODULE EventBus -------------------------------
(***************************************************************************)
(* The ordered half of ai-architecture/event_bus.py: network_event frames  *)
(* go through one bounded queue.Queue.  emit() runs on the thread of its   *)
(* caller (a capture thread, the attack engine, one thread per remote      *)
(* attacker), each queue operation is atomic and nothing holds the queue   *)
(* between two of them, so the steps of several emit() calls interleave    *)
(* with one another and with the single dispatch thread.                   *)
(***************************************************************************)
EXTENDS Naturals, Sequences, FiniteSets, SenderOrder

CONSTANTS Producers,    \* threads that call emit("network_event", ...)
          Callbacks,    \* handlers that may subscribe to network_event
          Capacity,     \* maxsize of the queue
          MaxEmits      \* bound: emit() calls per producer

ASSUME BusAssumption == /\ Producers # {}
                        /\ Capacity \in Nat \ {0}
                        /\ MaxEmits \in Nat

VARIABLES queue,        \* _queue: frames waiting for the dispatch thread
          pc,           \* where each producer is inside emit()
          sent,         \* number of emit() calls each producer has begun
          subs,         \* _subscribers["network_event"], in subscription order
          dispatched,   \* the frames of _history (its cap of 200 left out)
          next,         \* 0, or the index in subs of the callback to call next
          seen,         \* the frames each callback has been called with
          lost          \* frames dropped by emit()

vars == <<queue, pc, sent, subs, dispatched, next, seen, lost>>

\* A frame is known by its producer and its number among that one's frames.
Frame == [from : Producers, num : Nat]

\* The frame a producer inside emit() is carrying.
Carried(p) == [from |-> p, num |-> sent[p]]

HasRoom == Len(queue) < Capacity

Subscribed == {subs[i] : i \in 1..Len(subs)}

Current == dispatched[Len(dispatched)]

Init == /\ queue = <<>>
        /\ pc = [p \in Producers |-> "idle"]
        /\ sent = [p \in Producers |-> 0]
        /\ subs = <<>>
        /\ dispatched = <<>>
        /\ next = 0
        /\ seen = [c \in Callbacks |-> <<>>]
        /\ lost = {}

------------------------------------------------------------------------------
(* emit(): put_nowait; on Full get_nowait, then put_nowait once more.       *)

\* The first put_nowait either finds room or raises Full.
Emit(p) ==
    /\ pc[p] = "idle"
    /\ sent[p] < MaxEmits
    /\ sent' = [sent EXCEPT ![p] = @ + 1]
    /\ \/ /\ HasRoom
          /\ queue' = Append(queue, [from |-> p, num |-> sent[p] + 1])
          /\ UNCHANGED pc
       \/ /\ ~HasRoom
          /\ pc' = [pc EXCEPT ![p] = "evict"]
          /\ UNCHANGED queue
    /\ UNCHANGED <<subs, dispatched, next, seen, lost>>

\* Slip: the oldest frame is counted out but not removed.
EvictPeek(p) ==
    /\ pc[p] = "evict"
    /\ pc' = [pc EXCEPT ![p] = "retry"]
    /\ lost' = lost \cup {queue[i] : i \in 1..(IF queue = <<>> THEN 0 ELSE 1)}
    /\ UNCHANGED <<queue, sent, subs, dispatched, next, seen>>

\* get_nowait: the oldest frame goes, whoever sent it; Empty is ignored.
Evict(p) ==
    /\ pc[p] = "evict"
    /\ pc' = [pc EXCEPT ![p] = "retry"]
    /\ \/ /\ queue # <<>>
          /\ lost' = lost \cup {Head(queue)}
          /\ queue' = Tail(queue)
       \/ /\ queue = <<>>
          /\ UNCHANGED <<queue, lost>>
    /\ UNCHANGED <<sent, subs, dispatched, next, seen>>

\* Slip: the frame takes the place of the evicted one, at the head.
RetryAtFront(p) ==
    /\ pc[p] = "retry"
    /\ pc' = [pc EXCEPT ![p] = "idle"]
    /\ IF HasRoom THEN queue' = <<Carried(p)>> \o queue /\ UNCHANGED lost
                  ELSE lost' = lost \cup {Carried(p)} /\ UNCHANGED queue
    /\ UNCHANGED <<sent, subs, dispatched, next, seen>>

\* The second put_nowait: if the room was taken meanwhile, the new frame goes.
Retry(p) ==
    /\ pc[p] = "retry"
    /\ pc' = [pc EXCEPT ![p] = "idle"]
    /\ \/ /\ HasRoom
          /\ queue' = Append(queue, Carried(p))
          /\ UNCHANGED lost
       \/ /\ ~HasRoom
          /\ lost' = lost \cup {Carried(p)}
          /\ UNCHANGED queue
    /\ UNCHANGED <<sent, subs, dispatched, next, seen>>

------------------------------------------------------------------------------
(* The dispatch thread.                                                     *)

\* get() returns a frame.  With no subscriber list yet the loop that follows
\* iterates over a fresh [] and ends at once.
Take ==
    /\ next = 0
    /\ queue # <<>>
    /\ dispatched' = Append(dispatched, Head(queue))
    /\ queue' = Tail(queue)
    /\ next' = IF subs = <<>> THEN 0 ELSE 1
    /\ UNCHANGED <<pc, sent, subs, seen, lost>>

\* Slip: an exception leaves the loop over the callbacks.
RaiseEndsLoop(outcome) == IF outcome = "raise" THEN Len(subs) + 1 ELSE next + 1

\* A callback returns or raises; both except clauses go on with the loop.
NextCallback(outcome) == next + 1

\* cb(data) for the next callback of the live list.
Call(outcome) ==
    /\ next \in 1..Len(subs)
    /\ seen' = [seen EXCEPT ![subs[next]] = Append(@, Current)]
    /\ next' = NextCallback(outcome)
    /\ UNCHANGED <<queue, pc, sent, subs, dispatched, lost>>

\* Slip: the loop waits for one callback more than there are.
EndLoopLate ==
    /\ next > Len(subs) + 1
    /\ next' = 0
    /\ UNCHANGED <<queue, pc, sent, subs, dispatched, seen, lost>>

EndLoop ==
    /\ next > Len(subs)
    /\ next' = 0
    /\ UNCHANGED <<queue, pc, sent, subs, dispatched, seen, lost>>

\* subscribe() appends to the very list the loop may be iterating over.
Subscribe(c) ==
    /\ c \notin Subscribed
    /\ subs' = Append(subs, c)
    /\ UNCHANGED <<queue, pc, sent, dispatched, next, seen, lost>>

Producer(p) == Emit(p) \/ Evict(p) \/ Retry(p)

Dispatcher == Take \/ (\E o \in {"return", "raise"} : Call(o)) \/ EndLoop

Next == \/ \E p \in Producers : Producer(p)
        \/ Dispatcher
        \/ \E c \in Callbacks : Subscribe(c)

Spec == Init /\ [][Next]_vars

\* A thread inside emit() is never blocked, and neither is the dispatch
\* thread as long as its callbacks return.  Nobody is obliged to emit or to
\* subscribe.
ProducerFairness == \A p \in Producers : WF_vars(Evict(p) \/ Retry(p))
DispatchFairness == WF_vars(Dispatcher)

FairSpec == Spec /\ ProducerFairness /\ DispatchFairness

------------------------------------------------------------------------------
(* Properties.                                                              *)

TypeOK == /\ queue \in Seq(Frame)
          /\ Len(queue) <= Capacity
          /\ pc \in [Producers -> {"idle", "evict", "retry"}]
          /\ sent \in [Producers -> Nat]
          /\ subs \in Seq(Callbacks)
          /\ dispatched \in Seq(Frame)
          /\ next \in 0..(Len(subs) + 1)
          /\ (next > 0 => dispatched # <<>>)
          /\ seen \in [Callbacks -> Seq(Frame)]
          /\ lost \in SUBSET Frame

\* "frame ordering is preserved" (event_bus.py:8): whatever overflows and
\* whoever races, every handler is called with each producer's frames in the
\* order that producer emitted them, and with none of them twice.
FramesInOrder == \A c \in Callbacks : InSequence(seen[c])

InTransit == {queue[i] : i \in 1..Len(queue)}
Done == {dispatched[i] : i \in 1..Len(dispatched)}

\* A frame emit() has accepted is in exactly one place: still carried by its
\* producer, waiting, dispatched, or dropped by an overflow.
Accounted ==
    \A p \in Producers : \A n \in 1..sent[p] :
        LET f == [from |-> p, num |-> n]
            carried == n = sent[p] /\ pc[p] # "idle"
        IN  /\ carried => f \notin InTransit \cup Done \cup lost
            /\ ~carried => /\ f \in InTransit \cup Done \cup lost
                           /\ f \notin InTransit \/ f \notin Done \cup lost
                           /\ f \notin Done \/ f \notin lost

\* A raising handler starves nobody: two handlers have been called with the
\* same frames since the later of them subscribed, except that the earlier one
\* may already have been called with the frame being dispatched.
HandlersAgree ==
    \A i, j \in 1..Len(subs) : i < j =>
        LET a == seen[subs[i]]
            b == seen[subs[j]]
            ahead == IF next \in (i + 1)..j THEN 1 ELSE 0
            skip == Len(a) - ahead - Len(b)
        IN  skip >= 0 /\ b = SubSeq(a, skip + 1, skip + Len(b))

\* Drop-oldest never costs a lone producer the frame it is emitting: the
\* eviction leaves room that only a put could take.
RetryFindsRoom == \A p \in Producers : pc[p] = "retry" => HasRoom

\* As long as callbacks return, every waiting frame is dispatched or displaced.
NothingWaitsForever ==
    \A p \in Producers : \A n \in 1..MaxEmits :
        LET f == [from |-> p, num |-> n]
        IN  f \in InTransit ~> f \in Done \cup lost

------------------------------------------------------------------------------
(* Why FramesInOrder holds: the strengthening that every step preserves.    *)

\* Frame f has left emit(): its producer is now carrying a later one, if any.
Settled(f) == /\ f.num <= sent[f.from]
              /\ pc[f.from] # "idle" => f.num < sent[f.from]

QueueInOrder == /\ InSequence(queue)
                /\ \A j \in 1..Len(queue) : Settled(queue[j])

\* Whatever a handler has seen was emitted before whatever is still waiting.
SeenBeforeQueue ==
    \A c \in Callbacks : \A i \in 1..Len(seen[c]) :
        /\ Settled(seen[c][i])
        /\ \A j \in 1..Len(queue) : Before(seen[c][i], queue[j])

\* The frame being dispatched lies between what was seen by the handlers that
\* are still to be called and what is waiting.
CurrentInOrder ==
    next > 0 =>
        /\ Settled(Current)
        /\ \A j \in 1..Len(queue) : Before(Current, queue[j])
        /\ \A k \in next..Len(subs) : \A i \in 1..Len(seen[subs[k]]) :
               Before(seen[subs[k]][i], Current)

SubscribedOnce ==
    /\ \A i, j \in 1..Len(subs) : i # j => subs[i] # subs[j]
    /\ \A c \in Callbacks \ Subscribed : seen[c] = <<>>

OrderInv == /\ TypeOK
            /\ QueueInOrder
            /\ FramesInOrder
            /\ SeenBeforeQueue
            /\ CurrentInOrder
            /\ SubscribedOnce

------------------------------------------------------------------------------
\* The bus is a lossy FIFO channel from the producers to the dispatch loop.
Offered == {[from |-> p, num |-> n] : p \in Producers, n \in 1..MaxEmits}
Answered == {f \in Offered : \/ f.num < sent[f.from]
                             \/ f.num = sent[f.from] /\ pc[f.from] = "idle"}

Channel == INSTANCE LossyFifo WITH Messages <- Offered, offered <- Answered,
                                   chan <- queue, out <- dispatched

ImplementsLossyFifo == Channel!Spec
ImplementsFairFifo == Channel!FairSpec
==============================================================================
