---------------------------- MODULE EventBusProofs ----------------------------
(***************************************************************************)
(* The event bus keeps frame order and is a lossy FIFO channel, for any    *)
(* number of producers, callbacks and emit() calls and any capacity.       *)
(***************************************************************************)
EXTENDS EventBus, SequenceTheorems, TLAPS

(* What a put and a get do to a queue. *)

\* What a put, and what a get, leaves in the queue.
LEMMA AppendFacts ==
    ASSUME NEW S, NEW s \in Seq(S), NEW e \in S
    PROVE  /\ Append(s, e) \in Seq(S)
           /\ Append(s, e) # <<>>
           /\ Len(Append(s, e)) = Len(s) + 1
           /\ \A i \in 1..Len(s) : Append(s, e)[i] = s[i]
           /\ Append(s, e)[Len(s) + 1] = e
BY AppendProperties

LEMMA HeadTailFacts ==
    ASSUME NEW S, NEW s \in Seq(S), s # <<>>
    PROVE  /\ Len(s) \in Nat \ {0}
           /\ Head(s) = s[1]
           /\ Head(s) \in S
           /\ Tail(s) \in Seq(S)
           /\ Len(Tail(s)) = Len(s) - 1
           /\ \A i \in 1..Len(Tail(s)) : Tail(s)[i] = s[i + 1]
BY HeadTailProperties, EmptySeq

\* What comes after everything may be appended.
LEMMA AppendOrdered ==
    ASSUME NEW S, NEW s \in Seq(S), NEW f \in S, InSequence(s),
           \A i \in 1..Len(s) : Before(s[i], f)
    PROVE  InSequence(Append(s, f))
<1> SUFFICES ASSUME NEW i \in 1..Len(Append(s, f)),
                    NEW j \in 1..Len(Append(s, f)), i < j
             PROVE  Before(Append(s, f)[i], Append(s, f)[j])
  BY DEF InSequence
<1>1. /\ Len(Append(s, f)) = Len(s) + 1
      /\ Append(s, f)[Len(s) + 1] = f
      /\ \A k \in 1..Len(s) : Append(s, f)[k] = s[k]
      /\ Len(s) \in Nat
  BY AppendFacts, LenProperties
<1>2. i \in 1..Len(s) /\ Append(s, f)[i] = s[i]
  BY <1>1
<1>3. CASE j = Len(s) + 1
  BY <1>1, <1>2, <1>3
<1>4. CASE j \in 1..Len(s)
  BY <1>1, <1>2, <1>4 DEF InSequence
<1> QED BY <1>1, <1>3, <1>4

\* The head of an ordered sequence comes before the rest, which stays ordered.
LEMMA TailOrdered ==
    ASSUME NEW S, NEW s \in Seq(S), s # <<>>, InSequence(s)
    PROVE  /\ InSequence(Tail(s))
           /\ \A j \in 1..Len(Tail(s)) : Before(Head(s), Tail(s)[j])
<1>1. /\ Len(s) \in Nat \ {0}
      /\ Head(s) = s[1]
      /\ Len(Tail(s)) = Len(s) - 1
      /\ \A i \in 1..Len(Tail(s)) : Tail(s)[i] = s[i + 1]
  BY HeadTailFacts
<1>2. ASSUME NEW j \in 1..Len(Tail(s)) PROVE Before(Head(s), Tail(s)[j])
  <2>1. j + 1 \in 1..Len(s) /\ 1 \in 1..Len(s) /\ 1 < j + 1
    BY <1>1
  <2> QED BY <1>1, <2>1 DEF InSequence
<1>3. ASSUME NEW i \in 1..Len(Tail(s)), NEW j \in 1..Len(Tail(s)), i < j
      PROVE  Before(Tail(s)[i], Tail(s)[j])
  <2>1. i + 1 \in 1..Len(s) /\ j + 1 \in 1..Len(s) /\ i + 1 < j + 1
    BY <1>1, <1>3
  <2> QED BY <1>1, <2>1 DEF InSequence
<1> QED BY <1>2, <1>3 DEF InSequence

\* What is in a queue after a put and after a get.
LEMMA EventsFacts ==
    ASSUME NEW S, NEW s \in Seq(S)
    PROVE  /\ EventsIn(s) \subseteq S
           /\ \A e \in S : EventsIn(Append(s, e)) = EventsIn(s) \cup {e}
           /\ \A e \in S : EventsIn(<<e>>) = {e}
           /\ EventsIn(<<>>) = {}
           /\ s # <<>> => Head(s) \in EventsIn(s) /\ EventsIn(Tail(s)) \subseteq EventsIn(s)
<1>1. EventsIn(s) \subseteq S
  BY ElementOfSeq DEF EventsIn
<1>2. ASSUME NEW e \in S PROVE EventsIn(Append(s, e)) = EventsIn(s) \cup {e}
  <2>1. /\ Len(Append(s, e)) = Len(s) + 1 /\ Append(s, e)[Len(s) + 1] = e
        /\ \A i \in 1..Len(s) : Append(s, e)[i] = s[i]
        /\ Len(s) \in Nat
    BY AppendFacts, LenProperties
  <2>2. 1..Len(Append(s, e)) = 1..Len(s) \cup {Len(s) + 1}
    BY <2>1
  <2> QED BY <2>1, <2>2 DEF EventsIn
<1>3. ASSUME NEW e \in S PROVE EventsIn(<<e>>) = {e}
  <2>1. Len(<<e>>) = 1 /\ <<e>>[1] = e
    OBVIOUS
  <2> QED BY <2>1 DEF EventsIn
<1>4. EventsIn(<<>>) = {}
  BY EmptySeq DEF EventsIn
<1>5. ASSUME s # <<>>
      PROVE  Head(s) \in EventsIn(s) /\ EventsIn(Tail(s)) \subseteq EventsIn(s)
  <2>1. /\ Len(s) \in Nat \ {0} /\ Head(s) = s[1] /\ Len(Tail(s)) = Len(s) - 1
        /\ \A i \in 1..Len(Tail(s)) : Tail(s)[i] = s[i + 1]
    BY <1>5, HeadTailFacts
  <2>2. 1 \in 1..Len(s) /\ \A i \in 1..Len(Tail(s)) : i + 1 \in 1..Len(s)
    BY <2>1
  <2> QED BY <2>1, <2>2 DEF EventsIn
<1> QED BY <1>1, <1>2, <1>3, <1>4, <1>5

LEMMA TailInSequence ==
    ASSUME NEW S, NEW s \in Seq(S), s # <<>>, InSequence(s)
    PROVE  /\ InSequence(Tail(s))
           /\ \A e \in EventsIn(Tail(s)) : Before(Head(s), e)
BY TailOrdered DEF EventsIn

------------------------------------------------------------------------------

LEMMA TypeInductive == TypeOK /\ [Next]_vars => TypeOK'
<1> SUFFICES ASSUME TypeOK, [Next]_vars PROVE TypeOK'
  OBVIOUS
<1>q. queue \in Seq(Frame) /\ Len(queue) <= Capacity /\ Capacity \in Nat
  BY BusAssumption DEF BusAssumption, TypeOK
<1>1. ASSUME NEW p \in Producers, Emit(p) PROVE TypeOK'
  <2>1. [from |-> p, num |-> sent[p] + 1] \in Frame
    BY DEF Frame, TypeOK
  <2>2. queue' \in Seq(Frame) /\ Len(queue') <= Capacity
    BY <1>1, <1>q, <2>1, AppendFacts DEF Emit, HasRoom
  <2>3. /\ pc' \in [Producers -> {"idle", "evict", "retry"}]
        /\ sent' \in [Producers -> Nat]
    <3>1. /\ sent' = [sent EXCEPT ![p] = @ + 1]
          /\ pc' = pc \/ pc' = [pc EXCEPT ![p] = "evict"]
      BY <1>1 DEF Emit
    <3>2. pc \in [Producers -> {"idle", "evict", "retry"}]
          /\ sent \in [Producers -> Nat]
      BY DEF TypeOK
    <3>3. pc' \in [Producers -> {"idle", "evict", "retry"}]
      BY <3>1, <3>2
    <3>4. sent' \in [Producers -> Nat]
      BY <3>1, <3>2
    <3> QED BY <3>3, <3>4
  <2>4. UNCHANGED <<subs, dispatched, next, seen, lost>>
    BY <1>1 DEF Emit
  <2> QED BY <2>2, <2>3, <2>4 DEF TypeOK
<1>2. ASSUME NEW p \in Producers, Evict(p) PROVE TypeOK'
  <2>1. queue' \in Seq(Frame) /\ Len(queue') <= Capacity
    <3>1. CASE queue = <<>>
      BY <3>1, <1>2, <1>q DEF Evict
    <3>2. CASE queue # <<>>
      <4>1. queue' = Tail(queue)
        BY <3>2, <1>2 DEF Evict
      <4> QED BY <3>2, <4>1, <1>q, HeadTailFacts
    <3> QED BY <3>1, <3>2
  <2>2. lost' \in SUBSET Frame
    BY <1>2, <1>q, HeadTailFacts DEF Evict, TypeOK
  <2> QED BY <1>2, <2>1, <2>2 DEF Evict, TypeOK
<1>3. ASSUME NEW p \in Producers, Retry(p) PROVE TypeOK'
  <2>1. Carried(p) \in Frame
    BY DEF Frame, Carried, TypeOK
  <2>2. queue' \in Seq(Frame) /\ Len(queue') <= Capacity
    BY <1>3, <1>q, <2>1, AppendFacts DEF Retry, HasRoom
  <2>3. lost' \in SUBSET Frame
    BY <1>3, <2>1 DEF Retry, TypeOK
  <2> QED BY <1>3, <2>2, <2>3 DEF Retry, TypeOK
<1>4. CASE Take
  <2>1. queue' \in Seq(Frame) /\ Len(queue') <= Capacity
    BY <1>4, <1>q, HeadTailFacts DEF Take
  <2>2. dispatched' \in Seq(Frame) /\ dispatched' # <<>>
    BY <1>4, <1>q, HeadTailFacts, AppendFacts DEF Take, TypeOK
  <2>3. next' \in 0..(Len(subs') + 1)
    BY <1>4 DEF Take, TypeOK
  <2> QED BY <1>4, <2>1, <2>2, <2>3 DEF Take, TypeOK
<1>5. ASSUME NEW o \in {"return", "raise"}, Call(o) PROVE TypeOK'
  <2>1. Current \in Frame /\ subs[next] \in Callbacks
    BY <1>5 DEF Call, Current, TypeOK
  <2>2. seen' \in [Callbacks -> Seq(Frame)]
    BY <1>5, <2>1 DEF Call, TypeOK
  <2> QED BY <1>5, <2>2 DEF Call, NextCallback, TypeOK
<1>6. CASE EndLoop
  BY <1>6 DEF EndLoop, TypeOK
<1>7. ASSUME NEW c \in Callbacks, Subscribe(c) PROVE TypeOK'
  <2>1. subs' \in Seq(Callbacks) /\ Len(subs') = Len(subs) + 1
    BY <1>7, AppendFacts DEF Subscribe, TypeOK
  <2> QED BY <1>7, <2>1 DEF Subscribe, TypeOK
<1>8. CASE UNCHANGED vars
  BY <1>8 DEF vars, TypeOK
<1> QED
  BY <1>1, <1>2, <1>3, <1>4, <1>5, <1>6, <1>7, <1>8
  DEF Next, Producer, Dispatcher

\* The variables keep their types, and the queue never exceeds its maxsize
\* although evictions and puts of different producers interleave.
THEOREM TypeCorrect == Spec => []TypeOK
<1>1. Init => TypeOK
  BY BusAssumption DEF BusAssumption, Init, TypeOK
<1> QED BY <1>1, TypeInductive, PTL DEF Spec

------------------------------------------------------------------------------
(* Frame order.                                                             *)

\* A frame that has left emit() stays out of it: no later step of a producer
\* makes it the carried frame again.
LEMMA SettledStable ==
    ASSUME TypeOK, NEW p \in Producers, Emit(p) \/ Evict(p) \/ Retry(p),
           NEW f \in Frame, Settled(f)
    PROVE  Settled(f)'
<1>1. /\ sent \in [Producers -> Nat]
      /\ pc \in [Producers -> {"idle", "evict", "retry"}]
      /\ f.from \in Producers /\ f.num \in Nat
  BY DEF TypeOK, Frame
<1>2. CASE Emit(p)
  <2>1. /\ pc[p] = "idle"
        /\ sent' = [sent EXCEPT ![p] = @ + 1]
        /\ pc' = pc \/ pc' = [pc EXCEPT ![p] = "evict"]
    BY <1>2 DEF Emit
  <2> QED BY <1>1, <2>1 DEF Settled
<1>3. CASE Evict(p) \/ Retry(p)
  <2>1. /\ pc[p] # "idle"
        /\ sent' = sent
        /\ \E v \in {"idle", "retry"} : pc' = [pc EXCEPT ![p] = v]
    BY <1>3 DEF Evict, Retry
  <2> QED BY <1>1, <2>1 DEF Settled
<1> QED BY <1>2, <1>3

\* What a producer step can do to the queue: nothing, take the head away, or
\* append the producer's frame, which is settled then and later than every
\* frame that was settled before.
LEMMA ProducerStep ==
    ASSUME TypeOK, NEW p \in Producers, Emit(p) \/ Evict(p) \/ Retry(p)
    PROVE  \/ queue' = queue
           \/ queue # <<>> /\ queue' = Tail(queue)
           \/ \E f \in Frame :
                /\ queue' = Append(queue, f)
                /\ Settled(f)'
                /\ \A g \in Frame : Settled(g) => Before(g, f)
<1>1. /\ sent \in [Producers -> Nat]
      /\ pc \in [Producers -> {"idle", "evict", "retry"}]
  BY DEF TypeOK
<1>2. CASE Emit(p)
  <2>0. [from |-> p, num |-> sent[p] + 1] \in Frame
    BY <1>1 DEF Frame
  <2>1. PICK f \in Frame : f = [from |-> p, num |-> sent[p] + 1]
    BY <2>0
  <2>f. f.from = p /\ f.num = sent[p] + 1
    BY <2>1
  <2>2. CASE queue' = queue
    BY <2>2
  <2>3. CASE queue' # queue
    <3>1. /\ queue' = Append(queue, f)
          /\ pc[p] = "idle" /\ pc' = pc
          /\ sent' = [sent EXCEPT ![p] = @ + 1]
      BY <1>2, <2>1, <2>3 DEF Emit
    <3>2. Settled(f)'
      BY <1>1, <2>f, <3>1 DEF Settled
    <3>3. ASSUME NEW g \in Frame, Settled(g) PROVE Before(g, f)
      BY <1>1, <2>f, <3>1, <3>3 DEF Settled, Before, Frame
    <3> QED BY <2>1, <3>1, <3>2, <3>3
  <2> QED BY <2>2, <2>3
<1>3. CASE Evict(p)
  BY <1>3 DEF Evict
<1>4. CASE Retry(p)
  <2>0. Carried(p) \in Frame
    BY <1>1 DEF Frame, Carried
  <2>1. PICK f \in Frame : f = Carried(p)
    BY <2>0
  <2>f. f.from = p /\ f.num = sent[p]
    BY <2>1 DEF Carried
  <2>2. CASE queue' = queue
    BY <2>2
  <2>3. CASE queue' # queue
    <3>1. /\ queue' = Append(queue, f)
          /\ pc[p] = "retry" /\ pc' = [pc EXCEPT ![p] = "idle"]
          /\ sent' = sent
      BY <1>4, <2>1, <2>3 DEF Retry
    <3>2. Settled(f)'
      BY <1>1, <2>f, <3>1 DEF Settled
    <3>3. ASSUME NEW g \in Frame, Settled(g) PROVE Before(g, f)
      BY <1>1, <2>f, <3>1, <3>3 DEF Settled, Before, Frame
    <3> QED BY <2>1, <3>1, <3>2, <3>3
  <2> QED BY <2>2, <2>3
<1> QED BY <1>2, <1>3, <1>4

\* A step of a producer preserves the order invariant.
LEMMA ProducerOrder ==
    ASSUME OrderInv, TypeOK', NEW p \in Producers, Emit(p) \/ Evict(p) \/ Retry(p)
    PROVE  OrderInv'
<1>1. /\ TypeOK /\ queue \in Seq(Frame) /\ seen \in [Callbacks -> Seq(Frame)]
      /\ Len(queue) \in Nat
  BY LenProperties DEF OrderInv, TypeOK
<1>2. UNCHANGED <<seen, subs, dispatched, next>>
  BY DEF Emit, Evict, Retry
<1>3. \A f \in Frame : Settled(f) => Settled(f)'
  BY <1>1, SettledStable
<1>4. /\ \A j \in 1..Len(queue) : queue[j] \in Frame
      /\ \A c \in Callbacks : \A i \in 1..Len(seen[c]) : seen[c][i] \in Frame
  BY <1>1, ElementOfSeq
<1>5. next > 0 => Current \in Frame
  BY ElementOfSeq DEF OrderInv, TypeOK, Current
\* Whatever is settled and lies before the whole queue still does.
<1>6. ASSUME NEW g \in Frame, Settled(g), \A j \in 1..Len(queue) : Before(g, queue[j])
      PROVE  \A j \in 1..Len(queue') : Before(g, queue'[j])
  <2>1. CASE queue' = queue
    BY <1>6, <2>1
  <2>2. CASE queue # <<>> /\ queue' = Tail(queue)
    <3>1. /\ Len(queue') = Len(queue) - 1
          /\ \A j \in 1..Len(queue') : queue'[j] = queue[j + 1]
      BY <1>1, <2>2, HeadTailFacts
    <3> QED BY <1>1, <1>6, <3>1
  <2>3. ASSUME NEW f \in Frame, queue' = Append(queue, f), Before(g, f)
        PROVE  \A j \in 1..Len(queue') : Before(g, queue'[j])
    <3>1. /\ Len(queue') = Len(queue) + 1
          /\ queue'[Len(queue) + 1] = f
          /\ \A j \in 1..Len(queue) : queue'[j] = queue[j]
      BY <1>1, <2>3, AppendFacts
    <3> QED BY <1>1, <1>6, <2>3, <3>1
  <2> QED BY <1>1, <1>6, <2>1, <2>2, <2>3, ProducerStep
<1>7. QueueInOrder'
  <2>1. /\ InSequence(queue)
        /\ \A j \in 1..Len(queue) : queue[j] \in Frame /\ Settled(queue[j])
    BY <1>4 DEF OrderInv, QueueInOrder
  <2>2. /\ InSequence(queue')
        /\ \A j \in 1..Len(queue') : \E f \in Frame : f = queue'[j] /\ Settled(f)'
    <3>1. CASE queue' = queue
      BY <1>3, <2>1, <3>1
    <3>2. CASE queue # <<>> /\ queue' = Tail(queue)
      <4>1. /\ Len(queue') = Len(queue) - 1
            /\ \A j \in 1..Len(queue') : queue'[j] = queue[j + 1]
        BY <1>1, <3>2, HeadTailFacts
      <4>2. InSequence(queue')
        BY <1>1, <2>1, <3>2, TailOrdered
      <4>3. \A j \in 1..Len(queue') : j + 1 \in 1..Len(queue)
        BY <1>1, <4>1
      <4> QED BY <1>3, <2>1, <4>1, <4>2, <4>3
    <3>3. ASSUME NEW f \in Frame, queue' = Append(queue, f), Settled(f)',
                 \A g \in Frame : Settled(g) => Before(g, f)
          PROVE  /\ InSequence(queue')
                 /\ \A j \in 1..Len(queue') :
                        \E g \in Frame : g = queue'[j] /\ Settled(g)'
      <4>1. /\ Len(queue') = Len(queue) + 1
            /\ queue'[Len(queue) + 1] = f
            /\ \A j \in 1..Len(queue) : queue'[j] = queue[j]
        BY <1>1, <3>3, AppendFacts
      <4>2. InSequence(queue')
        BY <1>1, <2>1, <3>3, AppendOrdered
      <4>3. \A j \in 1..Len(queue') : j = Len(queue) + 1 \/ j \in 1..Len(queue)
        BY <1>1, <4>1
      <4> QED BY <1>3, <2>1, <3>3, <4>1, <4>2, <4>3
    <3> QED BY <1>1, <3>1, <3>2, <3>3, ProducerStep
  <2> QED BY <2>2 DEF QueueInOrder, InSequence, Settled
<1>8. SeenBeforeQueue'
  <2> SUFFICES ASSUME NEW c \in Callbacks, NEW i \in 1..Len(seen[c])
               PROVE  /\ Settled(seen[c][i])'
                      /\ \A j \in 1..Len(queue') : Before(seen[c][i], queue'[j])
    BY <1>2 DEF SeenBeforeQueue, Before
  <2>1. PICK g \in Frame : g = seen[c][i]
    BY <1>4
  <2>2. Settled(g) /\ \A j \in 1..Len(queue) : Before(g, queue[j])
    BY <2>1 DEF OrderInv, SeenBeforeQueue
  <2>3. Settled(g)' /\ \A j \in 1..Len(queue') : Before(g, queue'[j])
    BY <1>3, <1>6, <2>2
  <2> QED BY <1>2, <2>1, <2>3 DEF Settled
<1>9. CurrentInOrder'
  <2> SUFFICES ASSUME next > 0
               PROVE  /\ Settled(Current)'
                      /\ \A j \in 1..Len(queue') : Before(Current, queue'[j])
    BY <1>2 DEF CurrentInOrder, OrderInv, Before, Current
  <2>1. PICK g \in Frame : g = Current
    BY <1>5
  <2>2. Settled(g) /\ \A j \in 1..Len(queue) : Before(g, queue[j])
    BY <2>1 DEF OrderInv, CurrentInOrder
  <2>3. Settled(g)' /\ \A j \in 1..Len(queue') : Before(g, queue'[j])
    BY <1>3, <1>6, <2>2
  <2> QED BY <1>2, <2>1, <2>3 DEF Settled, Current
<1>10. FramesInOrder' /\ SubscribedOnce'
  BY <1>2 DEF OrderInv, FramesInOrder, SubscribedOnce, Subscribed, InSequence, Before
<1> QED BY <1>7, <1>8, <1>9, <1>10 DEF OrderInv

\* Take moves the head of the queue, which precedes the rest of it.
LEMMA TakeOrder == ASSUME OrderInv, TypeOK', Take PROVE OrderInv'
<1>1. /\ TypeOK /\ queue \in Seq(Frame) /\ dispatched \in Seq(Frame)
      /\ queue # <<>> /\ queue' = Tail(queue)
      /\ dispatched' = Append(dispatched, Head(queue))
      /\ next' = IF subs = <<>> THEN 0 ELSE 1
      /\ UNCHANGED <<pc, sent, subs, seen, lost>>
      /\ InSequence(queue)
  BY DEF OrderInv, TypeOK, Take, QueueInOrder
<1>2. /\ Len(queue) \in Nat \ {0} /\ Len(queue') = Len(queue) - 1
      /\ Head(queue) = queue[1] /\ Head(queue) \in Frame
      /\ \A j \in 1..Len(queue') : queue'[j] = queue[j + 1]
      /\ \A j \in 1..Len(queue') : j + 1 \in 1..Len(queue)
      /\ 1 \in 1..Len(queue)
  BY <1>1, HeadTailFacts
<1>3. Current' = Head(queue)
  <2>1. /\ Len(dispatched') = Len(dispatched) + 1
        /\ dispatched'[Len(dispatched) + 1] = Head(queue)
    BY <1>1, <1>2, AppendFacts
  <2> QED BY <2>1 DEF Current
<1>4. QueueInOrder'
  <2>1. InSequence(queue')
    BY <1>1, TailOrdered
  <2> QED BY <1>1, <1>2, <2>1 DEF OrderInv, QueueInOrder, Settled, InSequence
<1>5. SeenBeforeQueue'
  BY <1>1, <1>2 DEF OrderInv, SeenBeforeQueue, Settled, Before
<1>6. CurrentInOrder'
  <2>1. \A j \in 1..Len(queue') : Before(Head(queue), queue'[j])
    BY <1>1, TailOrdered
  <2>2. Settled(Head(queue))
    BY <1>2 DEF OrderInv, QueueInOrder
  <2>3. \A k \in 1..Len(subs) : subs[k] \in Callbacks
    BY ElementOfSeq DEF OrderInv, TypeOK
  <2>4. \A c \in Callbacks : \A i \in 1..Len(seen[c]) : Before(seen[c][i], Head(queue))
    BY <1>2 DEF OrderInv, SeenBeforeQueue
  <2>5. \A k \in 1..Len(subs) : \A i \in 1..Len(seen[subs[k]]) :
            Before(seen[subs[k]][i], Head(queue))
    BY <2>3, <2>4
  <2>6. Settled(Current)'
    BY <1>1, <1>3, <2>2 DEF Settled
  <2>7. next' > 0 => next' = 1
    BY <1>1
  <2> QED BY <1>1, <1>3, <2>1, <2>5, <2>6, <2>7 DEF CurrentInOrder
<1>7. FramesInOrder' /\ SubscribedOnce'
  BY <1>1 DEF OrderInv, FramesInOrder, SubscribedOnce, Subscribed, InSequence, Before
<1> QED BY <1>4, <1>5, <1>6, <1>7 DEF OrderInv

\* Call appends the current frame to what one handler has seen.
LEMMA CallOrder ==
    ASSUME OrderInv, TypeOK', NEW o, Call(o) PROVE OrderInv'
<1>1. /\ TypeOK /\ subs \in Seq(Callbacks) /\ seen \in [Callbacks -> Seq(Frame)]
      /\ next \in 1..Len(subs) /\ next' = next + 1
      /\ seen' = [seen EXCEPT ![subs[next]] = Append(@, Current)]
      /\ UNCHANGED <<queue, pc, sent, subs, dispatched, lost>>
  BY DEF OrderInv, TypeOK, Call, NextCallback
<1>2. PICK c \in Callbacks : c = subs[next]
  BY <1>1, ElementOfSeq
<1>3. PICK f \in Frame : f = Current
  <2>1. dispatched \in Seq(Frame) /\ dispatched # <<>>
    BY <1>1 DEF TypeOK
  <2>2. Len(dispatched) \in 1..Len(dispatched)
    BY <2>1, EmptySeq
  <2>3. Current \in Frame
    BY <2>1, <2>2, ElementOfSeq DEF Current
  <2> QED BY <2>3
<1>4. /\ Settled(f)
      /\ \A j \in 1..Len(queue) : Before(f, queue[j])
      /\ \A k \in next..Len(subs) : \A i \in 1..Len(seen[subs[k]]) :
             Before(seen[subs[k]][i], f)
  BY <1>1, <1>3 DEF OrderInv, CurrentInOrder
<1>5. /\ seen'[c] = Append(seen[c], f)
      /\ \A d \in Callbacks : d # c => seen'[d] = seen[d]
  BY <1>1, <1>2, <1>3
<1>6. /\ Len(seen[c]) \in Nat
      /\ Len(seen'[c]) = Len(seen[c]) + 1
      /\ seen'[c][Len(seen[c]) + 1] = f
      /\ \A i \in 1..Len(seen[c]) : seen'[c][i] = seen[c][i]
  <2>1. seen[c] \in Seq(Frame)
    BY <1>1
  <2> QED BY <1>5, <2>1, AppendFacts, LenProperties
<1>7. QueueInOrder'
  BY <1>1 DEF OrderInv, QueueInOrder, Settled, InSequence, Before
<1>8. FramesInOrder'
  <2>1. \A i \in 1..Len(seen[c]) : Before(seen[c][i], f)
    BY <1>1, <1>2, <1>4
  <2>2. InSequence(seen'[c])
    BY <1>1, <1>5, <2>1, AppendOrdered DEF OrderInv, FramesInOrder
  <2> QED BY <1>5, <2>2 DEF OrderInv, FramesInOrder, InSequence
<1>9. SeenBeforeQueue'
  <2>1. ASSUME NEW d \in Callbacks, NEW i \in 1..Len(seen'[d])
        PROVE  /\ Settled(seen'[d][i])
               /\ \A j \in 1..Len(queue) : Before(seen'[d][i], queue[j])
    <3>1. CASE d = c /\ i = Len(seen[c]) + 1
      BY <1>4, <1>6, <3>1
    <3>2. CASE d = c /\ i \in 1..Len(seen[c])
      BY <1>6, <3>2 DEF OrderInv, SeenBeforeQueue
    <3>3. CASE d # c
      BY <1>5, <3>3 DEF OrderInv, SeenBeforeQueue
    <3> QED BY <1>6, <3>1, <3>2, <3>3
  <2> QED BY <1>1, <2>1 DEF SeenBeforeQueue, Settled
<1>10. CurrentInOrder'
  <2>1. /\ \A k \in next'..Len(subs) : subs[k] # c /\ subs[k] \in Callbacks
        /\ \A k \in next'..Len(subs) : k \in next..Len(subs)
    BY <1>1, <1>2, ElementOfSeq DEF OrderInv, SubscribedOnce
  <2>2. \A k \in next'..Len(subs) : seen'[subs[k]] = seen[subs[k]]
    BY <1>5, <2>1
  <2>3. \A k \in next'..Len(subs) : \A i \in 1..Len(seen'[subs[k]]) :
            Before(seen'[subs[k]][i], f)
    BY <1>4, <2>1, <2>2
  <2> QED BY <1>1, <1>3, <1>4, <2>3 DEF CurrentInOrder, Current, Settled
<1>11. SubscribedOnce'
  <2>1. c \in Subscribed
    BY <1>1, <1>2 DEF Subscribed
  <2> QED BY <1>1, <1>5, <2>1 DEF OrderInv, SubscribedOnce, Subscribed
<1> QED BY <1>7, <1>8, <1>9, <1>10, <1>11 DEF OrderInv

\* A new subscriber has seen nothing.
LEMMA SubscribeOrder ==
    ASSUME OrderInv, TypeOK', NEW c \in Callbacks, Subscribe(c) PROVE OrderInv'
<1>1. /\ TypeOK /\ subs \in Seq(Callbacks) /\ c \notin Subscribed
      /\ subs' = Append(subs, c) /\ Len(subs) \in Nat
      /\ UNCHANGED <<queue, pc, sent, dispatched, next, seen, lost>>
      /\ seen[c] = <<>>
  BY LenProperties DEF OrderInv, TypeOK, Subscribe, SubscribedOnce
<1>2. /\ Len(subs') = Len(subs) + 1
      /\ subs'[Len(subs) + 1] = c
      /\ \A k \in 1..Len(subs) : subs'[k] = subs[k]
  BY <1>1, AppendFacts
<1>3. CurrentInOrder'
  <2>1. ASSUME next > 0, NEW k \in next..Len(subs'), NEW i \in 1..Len(seen[subs'[k]])
        PROVE  Before(seen[subs'[k]][i], Current)
    <3>1. k # Len(subs) + 1
      BY <1>1, <1>2, EmptySeq, <2>1
    <3>2. k \in next..Len(subs) /\ k \in 1..Len(subs)
      <4>1. next \in Nat
        BY <1>1 DEF TypeOK
      <4> QED BY <1>1, <1>2, <2>1, <3>1, <4>1
    <3> QED BY <1>2, <2>1, <3>2 DEF OrderInv, CurrentInOrder
  <2> QED BY <1>1, <2>1 DEF OrderInv, CurrentInOrder, Current, Settled
<1>4. SubscribedOnce'
  <2>1. \A k \in 1..Len(subs) : subs[k] # c
    BY <1>1 DEF Subscribed
  <2>2. \A i, j \in 1..Len(subs') : i # j => subs'[i] # subs'[j]
    BY <1>1, <1>2, <2>1 DEF OrderInv, SubscribedOnce
  <2>3. Subscribed \subseteq Subscribed'
    BY <1>1, <1>2 DEF Subscribed
  <2> QED BY <1>1, <2>2, <2>3 DEF OrderInv, SubscribedOnce
<1>5. QueueInOrder' /\ FramesInOrder' /\ SeenBeforeQueue'
  BY <1>1 DEF OrderInv, QueueInOrder, FramesInOrder, SeenBeforeQueue, Settled
<1> QED BY <1>3, <1>4, <1>5 DEF OrderInv

\* Steps that leave queue, seen, subs, sent and pc alone, the end of the
\* dispatch loop among them.
LEMMA QuietOrder ==
    ASSUME OrderInv, TypeOK', EndLoop \/ UNCHANGED vars PROVE OrderInv'
<1>1. /\ UNCHANGED <<queue, pc, sent, subs, dispatched, seen, lost>>
      /\ next' = 0 \/ next' = next
  BY DEF EndLoop, vars
<1>2. CurrentInOrder'
  BY <1>1 DEF OrderInv, CurrentInOrder, Current, Settled
<1>3. QueueInOrder' /\ FramesInOrder' /\ SeenBeforeQueue' /\ SubscribedOnce'
  BY <1>1 DEF OrderInv, QueueInOrder, FramesInOrder, SeenBeforeQueue,
              SubscribedOnce, Subscribed, Settled
<1> QED BY <1>2, <1>3 DEF OrderInv

THEOREM OrderInvariant == Spec => []OrderInv
<1>1. Init => OrderInv
  <2> SUFFICES ASSUME Init PROVE OrderInv
    OBVIOUS
  <2>1. TypeOK
    BY BusAssumption DEF BusAssumption, Init, TypeOK
  <2>2. /\ queue = <<>> /\ subs = <<>> /\ next = 0
        /\ \A c \in Callbacks : seen[c] = <<>>
        /\ 1..Len(<<>>) = {}
    BY DEF Init
  <2>3. QueueInOrder /\ FramesInOrder
    <3>1. InSequence(<<>>)
      BY <2>2 DEF InSequence
    <3>2. QueueInOrder
      BY <2>2, <3>1 DEF QueueInOrder
    <3>3. FramesInOrder
      BY <2>2, <3>1 DEF FramesInOrder
    <3> QED BY <3>2, <3>3
  <2>4. SeenBeforeQueue /\ SubscribedOnce
    BY <2>2 DEF SeenBeforeQueue, SubscribedOnce
  <2>5. CurrentInOrder
    BY <2>2 DEF CurrentInOrder
  <2> QED BY <2>1, <2>3, <2>4, <2>5 DEF OrderInv
<1>2. OrderInv /\ [Next]_vars => OrderInv'
  <2> SUFFICES ASSUME OrderInv, [Next]_vars PROVE OrderInv'
    OBVIOUS
  <2>1. TypeOK'
    BY TypeInductive DEF OrderInv
  <2> QED
    BY <2>1, ProducerOrder, TakeOrder, CallOrder, SubscribeOrder, QuietOrder
    DEF Next, Producer, Dispatcher
<1> QED BY <1>1, <1>2, PTL DEF Spec

\* "frame ordering is preserved" (event_bus.py:8), for every value of the
\* constants.
THEOREM FramesKeepOrder == Spec => []FramesInOrder
<1>1. OrderInv => FramesInOrder
  BY DEF OrderInv
<1> QED BY <1>1, OrderInvariant, PTL

------------------------------------------------------------------------------
(* No frame is lost unnoticed.                                              *)

\* Every frame that has left emit() is in one of three places, and no other
\* frame is.
AccountInv ==
    LET waiting == EventsIn(queue)
        taken == EventsIn(dispatched)
    IN  /\ \A f \in Frame : Settled(f) /\ f.num > 0 => f \in waiting \cup taken \cup lost
        /\ \A f \in waiting \cup taken \cup lost : Settled(f)
        /\ waiting \cap taken = {} /\ waiting \cap lost = {} /\ taken \cap lost = {}

\* An ordered queue loses just its head.
LEMMA HeadLeaves ==
    ASSUME NEW q \in Seq(Frame), q # <<>>, InSequence(q)
    PROVE  /\ Head(q) \in EventsIn(q) /\ Head(q) \in Frame
           /\ EventsIn(Tail(q)) = EventsIn(q) \ {Head(q)}
<1>1. /\ Len(q) \in Nat \ {0} /\ Head(q) = q[1] /\ Head(q) \in Frame
      /\ Len(Tail(q)) = Len(q) - 1
      /\ \A i \in 1..Len(Tail(q)) : Tail(q)[i] = q[i + 1]
  BY HeadTailFacts
<1>2. Head(q) \in EventsIn(q) /\ EventsIn(Tail(q)) \subseteq EventsIn(q)
  BY EventsFacts
<1>3. Head(q) \notin EventsIn(Tail(q))
  <2>1. \A e \in EventsIn(Tail(q)) : Before(Head(q), e)
    BY TailInSequence
  <2>2. ~Before(Head(q), Head(q))
    BY <1>1 DEF Before, Frame
  <2> QED BY <2>1, <2>2
<1>4. ASSUME NEW e \in EventsIn(q), e # Head(q) PROVE e \in EventsIn(Tail(q))
  <2>1. PICK i \in 1..Len(q) : e = q[i]
    BY DEF EventsIn
  <2>2. i - 1 \in 1..Len(Tail(q)) /\ (i - 1) + 1 = i
    BY <1>1, <1>4, <2>1
  <2> QED BY <1>1, <2>1, <2>2 DEF EventsIn
<1> QED BY <1>1, <1>2, <1>3, <1>4

\* A step that lets one frame out of emit() into one place, or moves one.
LEMMA FrameSettles ==
    ASSUME AccountInv, NEW f \in Frame, ~Settled(f),
           \A g \in Frame : Settled(g)' <=> Settled(g) \/ g = f,
           EventsIn(queue) \cup EventsIn(dispatched) \cup lost \subseteq Frame,
           dispatched' = dispatched,
           \/ EventsIn(queue') = EventsIn(queue) \cup {f} /\ lost' = lost
           \/ queue' = queue /\ lost' = lost \cup {f}
    PROVE  AccountInv'
<1>1. f \notin EventsIn(queue) \cup EventsIn(dispatched) \cup lost
  BY DEF AccountInv
<1>2. EventsIn(queue)' = EventsIn(queue') /\ EventsIn(dispatched)' = EventsIn(dispatched)
  BY DEF EventsIn
<1>3. EventsIn(queue)' \cup EventsIn(dispatched)' \cup lost'
        = EventsIn(queue) \cup EventsIn(dispatched) \cup lost \cup {f}
  BY <1>2
<1>4. \A g \in EventsIn(queue) \cup EventsIn(dispatched) \cup lost : Settled(g)'
  BY DEF AccountInv
<1>5. \A g \in Frame : Settled(g)' /\ g.num > 0 =>
          g \in EventsIn(queue)' \cup EventsIn(dispatched)' \cup lost'
  BY <1>3 DEF AccountInv
<1>6. \A g \in EventsIn(queue)' \cup EventsIn(dispatched)' \cup lost' : Settled(g)'
  BY <1>3, <1>4
<1>7. /\ EventsIn(queue)' \cap EventsIn(dispatched)' = {}
      /\ EventsIn(queue)' \cap lost' = {}
      /\ EventsIn(dispatched)' \cap lost' = {}
  BY <1>1, <1>2 DEF AccountInv
<1> QED BY <1>5, <1>6, <1>7 DEF AccountInv

LEMMA HeadMoves ==
    ASSUME AccountInv, TypeOK, queue # <<>>, InSequence(queue), queue' = Tail(queue),
           \A g \in Frame : Settled(g)' <=> Settled(g),
           \/ /\ EventsIn(dispatched') = EventsIn(dispatched) \cup {Head(queue)}
              /\ lost' = lost
           \/ dispatched' = dispatched /\ lost' = lost \cup {Head(queue)}
    PROVE  AccountInv'
<1>1. /\ Head(queue) \in EventsIn(queue)
      /\ EventsIn(queue') = EventsIn(queue) \ {Head(queue)}
  BY HeadLeaves DEF TypeOK
<1>2. EventsIn(queue)' = EventsIn(queue') /\ EventsIn(dispatched)' = EventsIn(dispatched')
  BY DEF EventsIn
<1>3. EventsIn(queue)' \cup EventsIn(dispatched)' \cup lost'
        = EventsIn(queue) \cup EventsIn(dispatched) \cup lost
  BY <1>1, <1>2
<1>4. EventsIn(queue) \cup EventsIn(dispatched) \cup lost \subseteq Frame
  BY EventsFacts DEF TypeOK
<1>5. \A g \in Frame : Settled(g)' /\ g.num > 0 =>
          g \in EventsIn(queue)' \cup EventsIn(dispatched)' \cup lost'
  BY <1>3 DEF AccountInv
<1>6. \A g \in EventsIn(queue)' \cup EventsIn(dispatched)' \cup lost' : Settled(g)'
  BY <1>3, <1>4 DEF AccountInv
<1>7. /\ EventsIn(queue)' \cap EventsIn(dispatched)' = {}
      /\ EventsIn(queue)' \cap lost' = {}
      /\ EventsIn(dispatched)' \cap lost' = {}
  BY <1>1, <1>2 DEF AccountInv
<1> QED BY <1>5, <1>6, <1>7 DEF AccountInv

LEMMA AccountKept ==
    ASSUME AccountInv, TypeOK, UNCHANGED <<queue, dispatched, lost>>,
           \A g \in Frame : Settled(g)' <=> Settled(g)
    PROVE  AccountInv'
<1>1. EventsIn(queue) \cup EventsIn(dispatched) \cup lost \subseteq Frame
  BY EventsFacts DEF TypeOK
<1>2. EventsIn(queue)' = EventsIn(queue) /\ EventsIn(dispatched)' = EventsIn(dispatched)
  BY DEF EventsIn
<1>3. \A g \in Frame : Settled(g)' /\ g.num > 0 =>
          g \in EventsIn(queue)' \cup EventsIn(dispatched)' \cup lost'
  BY <1>2 DEF AccountInv
<1>4. \A g \in EventsIn(queue)' \cup EventsIn(dispatched)' \cup lost' : Settled(g)'
  BY <1>1, <1>2 DEF AccountInv
<1>5. /\ EventsIn(queue)' \cap EventsIn(dispatched)' = {}
      /\ EventsIn(queue)' \cap lost' = {}
      /\ EventsIn(dispatched)' \cap lost' = {}
  BY <1>2 DEF AccountInv
<1> QED BY <1>3, <1>4, <1>5 DEF AccountInv

LEMMA EmitAccounts ==
    ASSUME AccountInv, TypeOK, NEW p \in Producers, Emit(p) PROVE AccountInv'
<1>1. /\ sent \in [Producers -> Nat] /\ pc[p] = "idle"
      /\ pc \in [Producers -> {"idle", "evict", "retry"}]
      /\ sent' = [sent EXCEPT ![p] = @ + 1]
      /\ queue \in Seq(Frame)
      /\ UNCHANGED <<dispatched, lost>>
  BY DEF Emit, TypeOK
<1>0. [from |-> p, num |-> sent[p] + 1] \in Frame
  BY <1>1 DEF Frame
<1>2. PICK f \in Frame : f = [from |-> p, num |-> sent[p] + 1]
  BY <1>0
<1>f. f.from = p /\ f.num = sent[p] + 1
  BY <1>2
<1>s. EventsIn(queue) \cup EventsIn(dispatched) \cup lost \subseteq Frame
  BY EventsFacts DEF TypeOK
<1>3. CASE pc' = pc
  <2>1. queue' = Append(queue, f)
    BY <1>1, <1>2, <1>3 DEF Emit
  <2>2. EventsIn(queue') = EventsIn(queue) \cup {f}
    BY <1>1, <2>1, EventsFacts
  <2>3. ~Settled(f)
    BY <1>1, <1>f DEF Settled
  <2>4. ASSUME NEW g \in Frame PROVE Settled(g)' <=> Settled(g) \/ g = f
    <3>1. g.from \in Producers /\ g.num \in Nat /\ g = [from |-> g.from, num |-> g.num]
      BY DEF Frame
    <3>2. CASE g.from = p
      <4>1. Settled(g)' <=> g.num <= sent[p] + 1
        BY <1>1, <1>3, <3>1, <3>2 DEF Settled
      <4>2. Settled(g) <=> g.num <= sent[p]
        BY <1>1, <3>1, <3>2 DEF Settled
      <4>3. g = f <=> g.num = sent[p] + 1
        BY <1>2, <1>f, <3>1, <3>2
      <4> QED BY <1>1, <3>1, <4>1, <4>2, <4>3
    <3>3. CASE g.from # p
      BY <1>1, <1>3, <1>f, <3>1, <3>3 DEF Settled
    <3> QED BY <3>2, <3>3
  <2> QED BY <1>1, <1>s, <2>2, <2>3, <2>4, FrameSettles
<1>4. CASE pc' = [pc EXCEPT ![p] = "evict"]
  <2>1. queue' = queue
    BY <1>1, <1>4 DEF Emit
  <2>2. ASSUME NEW g \in Frame PROVE Settled(g)' <=> Settled(g)
    <3>1. g.from \in Producers /\ g.num \in Nat
      BY DEF Frame
    <3> QED BY <1>1, <1>4, <3>1 DEF Settled
  <2> QED BY <1>1, <2>1, <2>2, AccountKept
<1> QED BY <1>3, <1>4 DEF Emit

LEMMA EvictAccounts ==
    ASSUME AccountInv, TypeOK, InSequence(queue), NEW p \in Producers, Evict(p)
    PROVE  AccountInv'
<1>1. /\ pc[p] = "evict" /\ pc' = [pc EXCEPT ![p] = "retry"]
      /\ pc \in [Producers -> {"idle", "evict", "retry"}]
      /\ UNCHANGED <<sent, dispatched>>
  BY DEF Evict, TypeOK
<1>2. \A g \in Frame : Settled(g)' <=> Settled(g)
  BY <1>1 DEF Settled, Frame
<1>3. CASE UNCHANGED <<queue, lost>>
  BY <1>1, <1>2, <1>3, AccountKept
<1>4. CASE queue # <<>> /\ lost' = lost \cup {Head(queue)} /\ queue' = Tail(queue)
  BY <1>1, <1>2, <1>4, HeadMoves
<1> QED BY <1>3, <1>4 DEF Evict

LEMMA RetryAccounts ==
    ASSUME AccountInv, TypeOK, NEW p \in Producers, Retry(p) PROVE AccountInv'
<1>1. /\ sent \in [Producers -> Nat] /\ pc[p] = "retry"
      /\ pc \in [Producers -> {"idle", "evict", "retry"}]
      /\ pc' = [pc EXCEPT ![p] = "idle"]
      /\ queue \in Seq(Frame)
      /\ UNCHANGED <<sent, dispatched>>
  BY DEF Retry, TypeOK
<1>0. Carried(p) \in Frame
  BY <1>1 DEF Frame, Carried
<1>2. PICK f \in Frame : f = Carried(p)
  BY <1>0
<1>f. f.from = p /\ f.num = sent[p]
  BY <1>2 DEF Carried
<1>s. EventsIn(queue) \cup EventsIn(dispatched) \cup lost \subseteq Frame
  BY EventsFacts DEF TypeOK
<1>3. ~Settled(f)
  BY <1>1, <1>f DEF Settled
<1>4. ASSUME NEW g \in Frame PROVE Settled(g)' <=> Settled(g) \/ g = f
  <2>1. g.from \in Producers /\ g.num \in Nat /\ g = [from |-> g.from, num |-> g.num]
    BY DEF Frame
  <2>2. CASE g.from = p
    <3>1. Settled(g)' <=> g.num <= sent[p]
      BY <1>1, <2>1, <2>2 DEF Settled
    <3>2. Settled(g) <=> g.num < sent[p]
      BY <1>1, <2>1, <2>2 DEF Settled
    <3>3. g = f <=> g.num = sent[p]
      BY <1>2, <1>f, <2>1, <2>2 DEF Carried
    <3> QED BY <1>1, <2>1, <3>1, <3>2, <3>3
  <2>3. CASE g.from # p
    BY <1>1, <1>f, <2>1, <2>3 DEF Settled
  <2> QED BY <2>2, <2>3
<1>5. \/ EventsIn(queue') = EventsIn(queue) \cup {f} /\ lost' = lost
      \/ queue' = queue /\ lost' = lost \cup {f}
  BY <1>1, <1>2, EventsFacts DEF Retry
<1> QED BY <1>1, <1>s, <1>3, <1>4, <1>5, FrameSettles

LEMMA AccountInductive ==
    ASSUME AccountInv, OrderInv, [Next]_vars PROVE AccountInv'
<1>1. TypeOK /\ InSequence(queue)
  BY DEF OrderInv, QueueInOrder
<1>2. CASE Take
  <2>1. /\ queue # <<>> /\ queue' = Tail(queue)
        /\ dispatched' = Append(dispatched, Head(queue))
        /\ UNCHANGED <<pc, sent, lost>>
    BY <1>2 DEF Take
  <2>2. EventsIn(dispatched') = EventsIn(dispatched) \cup {Head(queue)}
    BY <1>1, <2>1, HeadLeaves, EventsFacts DEF TypeOK
  <2>3. \A g \in Frame : Settled(g)' <=> Settled(g)
    BY <2>1 DEF Settled
  <2> QED BY <1>1, <2>1, <2>2, <2>3, HeadMoves
<1>3. CASE UNCHANGED <<queue, pc, sent, dispatched, lost>>
  <2>1. \A g \in Frame : Settled(g)' <=> Settled(g)
    BY <1>3 DEF Settled
  <2> QED BY <1>1, <1>3, <2>1, AccountKept
<1> QED
  BY <1>1, <1>2, <1>3, EmitAccounts, EvictAccounts, RetryAccounts
  DEF Next, Producer, Dispatcher, Call, EndLoop, Subscribe, vars

\* Whatever overflows and whoever races, a frame emit() has accepted is still
\* carried, or it waits, or was dispatched, or was dropped by an overflow, and only
\* one of these (event_bus.py:46-56).
THEOREM FramesAreAccounted == Spec => []Accounted
<1>1. Init => AccountInv
  <2> SUFFICES ASSUME Init PROVE AccountInv
    OBVIOUS
  <2>1. EventsIn(queue) = {} /\ EventsIn(dispatched) = {} /\ lost = {}
    BY EmptySeq DEF Init, EventsIn
  <2>2. \A f \in Frame : Settled(f) => f.num = 0
    BY DEF Init, Settled, Frame
  <2>3. \A f \in Frame : ~(Settled(f) /\ f.num > 0)
    BY <2>2
  <2> QED BY <2>1, <2>3 DEF AccountInv
<1>2. AccountInv /\ OrderInv /\ [Next]_vars => AccountInv'
  BY AccountInductive
<1>3. AccountInv /\ OrderInv => Accounted
  <2> SUFFICES ASSUME AccountInv, OrderInv, NEW p \in Producers, NEW n \in 1..sent[p],
                      NEW f, f = [from |-> p, num |-> n]
               PROVE  LET carried == n = sent[p] /\ pc[p] # "idle"
                      IN  /\ carried => f \notin InTransit \cup Done \cup lost
                          /\ ~carried => /\ f \in InTransit \cup Done \cup lost
                                         /\ f \notin InTransit \/ f \notin Done \cup lost
                                         /\ f \notin Done \/ f \notin lost
    BY DEF Accounted
  <2>1. sent[p] \in Nat /\ f \in Frame /\ f.from = p /\ f.num = n /\ n > 0 /\ n <= sent[p]
    BY DEF OrderInv, TypeOK, Frame
  <2>2. Settled(f) <=> ~(n = sent[p] /\ pc[p] # "idle")
    BY <2>1 DEF Settled
  <2>3. InTransit = EventsIn(queue) /\ Done = EventsIn(dispatched)
    BY DEF InTransit, Done, EventsIn
  <2> QED BY <2>1, <2>2, <2>3 DEF AccountInv
<1> QED BY <1>1, <1>2, <1>3, OrderInvariant, PTL DEF Spec

------------------------------------------------------------------------------
(* Handlers agree.                                                          *)

\* b is the end of a without its last `ahead' frames, number by number.
Follows(a, b, ahead) ==
    /\ Len(b) + ahead <= Len(a)
    /\ \A m \in 1..Len(b) : b[m] = a[Len(a) - ahead - Len(b) + m]

Ahead(i, j) == IF next \in (i + 1)..j THEN 1 ELSE 0

\* A handler whose turn has passed has seen the current frame last.
SeenCurrent ==
    \A i \in 1..Len(subs) : i < next =>
        /\ Len(seen[subs[i]]) > 0
        /\ seen[subs[i]][Len(seen[subs[i]])] = Current

AgreeInv ==
    /\ SeenCurrent
    /\ \A i, j \in 1..Len(subs) : i < j => Follows(seen[subs[i]], seen[subs[j]], Ahead(i, j))

\* What has been seen since the later one subscribed is a subsequence.
LEMMA FollowsEnds ==
    ASSUME NEW a \in Seq(Frame), NEW b \in Seq(Frame), NEW ahead \in {0, 1}, Follows(a, b, ahead),
           NEW skip, skip = Len(a) - ahead - Len(b)
    PROVE  skip >= 0 /\ b = SubSeq(a, skip + 1, skip + Len(b))
<1>1. Len(a) \in Nat /\ Len(b) \in Nat /\ skip \in Nat /\ skip + Len(b) <= Len(a)
  BY LenProperties DEF Follows
<1>2. \A k \in (skip + 1)..(skip + Len(b)) : k \in 1..Len(a)
  BY <1>1
<1>3. \A k \in 1..Len(a) : a[k] \in Frame
  BY ElementOfSeq
<1>4. /\ SubSeq(a, skip + 1, skip + Len(b)) \in Seq(Frame)
      /\ Len(SubSeq(a, skip + 1, skip + Len(b))) = Len(b)
      /\ \A k \in 1..Len(b) : SubSeq(a, skip + 1, skip + Len(b))[k] = a[skip + 1 + k - 1]
  <2>1. skip + 1 \in Int /\ skip + Len(b) \in Int
    BY <1>1
  <2>2. \A k \in (skip + 1)..(skip + Len(b)) : a[k] \in Frame
    BY <1>2, <1>3
  <2>3. (IF skip + 1 <= skip + Len(b) THEN skip + Len(b) - (skip + 1) + 1 ELSE 0) = Len(b)
    BY <1>1
  <2>4. SubSeq(a, skip + 1, skip + Len(b)) \in Seq(Frame)
    BY <1>1, <1>2, <2>1, <2>2, SubSeqProperties
  <2>5. Len(SubSeq(a, skip + 1, skip + Len(b))) = Len(b)
    BY <1>1, <1>2, <2>1, <2>3, SubSeqProperties
  <2>6. \A k \in 1..Len(b) : SubSeq(a, skip + 1, skip + Len(b))[k] = a[skip + 1 + k - 1]
    BY <1>1, <1>2, <2>1, SubSeqProperties
  <2> QED BY <2>4, <2>5, <2>6
<1>5. \A k \in 1..Len(b) : skip + 1 + k - 1 = skip + k
  BY <1>1
<1>6. \A k \in 1..Len(b) : SubSeq(a, skip + 1, skip + Len(b))[k] = b[k]
  BY <1>4, <1>5 DEF Follows
<1>7. b = SubSeq(a, skip + 1, skip + Len(b))
  BY <1>1, <1>4, <1>6, SeqEqual
<1> QED BY <1>1, <1>7

\* The earlier handler is called with the current frame.
LEMMA EarlierSees ==
    ASSUME NEW a \in Seq(Frame), NEW b \in Seq(Frame), NEW f \in Frame, Follows(a, b, 0)
    PROVE  Follows(Append(a, f), b, 1)
<1> DEFINE c == Append(a, f)
<1>1. PICK x \in Nat, y \in Nat, z \in Nat : x = Len(a) /\ y = Len(b) /\ z = Len(c) /\ z = x + 1
  BY AppendFacts, LenProperties
<1>2. y <= x /\ \A m \in 1..y : b[m] = a[x - y + m]
  <2>1. y + 0 <= x /\ \A m \in 1..y : b[m] = a[x - 0 - y + m]
    BY <1>1 DEF Follows
  <2>2. \A m \in 1..y : x - 0 - y + m = x - y + m
    BY <1>1
  <2>3. y <= x
    BY <1>1, <2>1
  <2> QED BY <2>1, <2>2, <2>3
<1>3. \A k \in 1..x : c[k] = a[k]
  BY <1>1, AppendFacts
<1>4. \A m \in 1..y : x - y + m \in 1..x /\ z - 1 - y + m = x - y + m
  BY <1>1, <1>2
<1>5. \A m \in 1..y : b[m] = c[z - 1 - y + m]
  BY <1>2, <1>3, <1>4
<1>6. y + 1 <= z
  BY <1>1, <1>2
<1> QED BY <1>1, <1>5, <1>6 DEF Follows

\* The later handler is called with the frame the earlier one saw last.
LEMMA LaterSees ==
    ASSUME NEW a \in Seq(Frame), NEW b \in Seq(Frame), NEW f \in Frame, Follows(a, b, 1),
           a[Len(a)] = f
    PROVE  Follows(a, Append(b, f), 0)
<1> DEFINE c == Append(b, f)
<1>1. PICK x \in Nat, y \in Nat, z \in Nat : x = Len(a) /\ y = Len(b) /\ z = Len(c) /\ z = y + 1
  BY AppendFacts, LenProperties
<1>2. y + 1 <= x /\ \A m \in 1..y : b[m] = a[x - 1 - y + m]
  BY <1>1 DEF Follows
<1>3. (\A k \in 1..y : c[k] = b[k]) /\ c[y + 1] = f
  BY <1>1, AppendFacts
<1>4. ASSUME NEW m \in 1..z PROVE c[m] = a[x - 0 - z + m]
  <2>1. CASE m = y + 1
    <3>1. x - 0 - z + m = x
      BY <1>1, <2>1
    <3> QED BY <1>1, <1>3, <2>1, <3>1
  <2>2. CASE m # y + 1
    <3>1. m \in 1..y /\ x - 0 - z + m = x - 1 - y + m
      BY <1>1, <2>2
    <3> QED BY <1>2, <1>3, <3>1
  <2> QED BY <2>1, <2>2
<1>5. z + 0 <= x
  BY <1>1, <1>2
<1> QED BY <1>1, <1>4, <1>5 DEF Follows

LEMMA CallAgrees ==
    ASSUME AgreeInv, OrderInv, NEW o, Call(o) PROVE AgreeInv'
<1>1. /\ seen \in [Callbacks -> Seq(Frame)] /\ subs \in Seq(Callbacks) /\ Len(subs) \in Nat
      /\ next \in 1..Len(subs) /\ next' = next + 1 /\ UNCHANGED <<subs, dispatched>>
      /\ seen' = [seen EXCEPT ![subs[next]] = Append(@, Current)]
      /\ \A i, j \in 1..Len(subs) : i # j => subs[i] # subs[j]
  BY LenProperties DEF Call, NextCallback, OrderInv, TypeOK, SubscribedOnce
<1>2. Current \in Frame /\ Current' = Current
  BY <1>1, ElementOfSeq DEF OrderInv, TypeOK, Current
<1>3. \A i \in 1..Len(subs) : subs[i] \in Callbacks /\ seen[subs[i]] \in Seq(Frame)
                              /\ Len(seen[subs[i]]) \in Nat
  BY <1>1, ElementOfSeq, LenProperties
<1>4. \A i \in 1..Len(subs) : i # next => seen'[subs[i]] = seen[subs[i]]
  BY <1>1, <1>3
<1>5. seen'[subs[next]] = Append(seen[subs[next]], Current)
  BY <1>1, <1>3
<1>6. /\ Len(seen'[subs[next]]) = Len(seen[subs[next]]) + 1
      /\ seen'[subs[next]][Len(seen[subs[next]]) + 1] = Current
  BY <1>1, <1>2, <1>3, <1>5, AppendFacts
<1>7. SeenCurrent'
  <2> SUFFICES ASSUME NEW i \in 1..Len(subs), i < next + 1
               PROVE  /\ Len(seen'[subs[i]]) > 0
                      /\ seen'[subs[i]][Len(seen'[subs[i]])] = Current
    BY <1>1, <1>2 DEF SeenCurrent
  <2>1. CASE i = next
    BY <1>3, <1>6, <2>1
  <2>2. CASE i # next
    <3>1. i < next
      BY <1>1, <2>2
    <3> QED BY <1>4, <2>2, <3>1 DEF AgreeInv, SeenCurrent
  <2> QED BY <2>1, <2>2
<1>8. ASSUME NEW i \in 1..Len(subs), NEW j \in 1..Len(subs), i < j
      PROVE  Follows(seen'[subs[i]], seen'[subs[j]],
                     IF next' \in (i + 1)..j THEN 1 ELSE 0)
  <2>1. Follows(seen[subs[i]], seen[subs[j]], IF next \in (i + 1)..j THEN 1 ELSE 0)
    BY <1>8 DEF AgreeInv, Ahead
  <2>2. CASE i # next /\ j # next
    <3>1. next' \in (i + 1)..j <=> next \in (i + 1)..j
      BY <1>1, <2>2
    <3> QED BY <1>4, <2>1, <2>2, <3>1
  <2>3. CASE i = next
    <3>1. next \notin (i + 1)..j /\ next' \in (i + 1)..j /\ j # next
      BY <1>1, <1>8, <2>3
    <3>2. seen'[subs[j]] = seen[subs[j]]
      BY <1>4, <3>1
    <3>3. Follows(seen[subs[i]], seen[subs[j]], 0)
      BY <2>1, <3>1
    <3>4. Follows(Append(seen[subs[i]], Current), seen[subs[j]], 1)
      BY <1>2, <1>3, <3>3, EarlierSees
    <3> QED BY <1>5, <2>3, <3>1, <3>2, <3>4
  <2>4. CASE j = next
    <3>1. next \in (i + 1)..j /\ next' \notin (i + 1)..j /\ i # next /\ i < next
      BY <1>1, <1>8, <2>4
    <3>2. seen'[subs[i]] = seen[subs[i]]
      BY <1>4, <3>1
    <3>3. Follows(seen[subs[i]], seen[subs[j]], 1)
      BY <2>1, <3>1
    <3>4. seen[subs[i]][Len(seen[subs[i]])] = Current
      BY <3>1 DEF AgreeInv, SeenCurrent
    <3>5. Follows(seen[subs[i]], Append(seen[subs[j]], Current), 0)
      BY <1>2, <1>3, <3>3, <3>4, LaterSees
    <3> QED BY <1>5, <2>4, <3>1, <3>2, <3>5
  <2> QED BY <2>2, <2>3, <2>4
<1>9. \A i, j \in 1..Len(subs') : i < j =>
          Follows(seen'[subs'[i]], seen'[subs'[j]], IF next' \in (i + 1)..j THEN 1 ELSE 0)
  BY <1>1, <1>8
<1> QED BY <1>7, <1>9 DEF AgreeInv, Follows, Ahead

LEMMA SubscribeAgrees ==
    ASSUME AgreeInv, OrderInv, NEW c \in Callbacks, Subscribe(c) PROVE AgreeInv'
<1>1. /\ subs \in Seq(Callbacks) /\ Len(subs) \in Nat /\ next \in 0..(Len(subs) + 1)
      /\ subs' = Append(subs, c) /\ UNCHANGED <<seen, dispatched, next>>
      /\ seen[c] = <<>> /\ Len(<<>>) = 0
  BY LenProperties DEF Subscribe, OrderInv, TypeOK, SubscribedOnce
<1>2. /\ Len(subs') = Len(subs) + 1 /\ subs'[Len(subs) + 1] = c
      /\ \A i \in 1..Len(subs) : subs'[i] = subs[i]
  BY <1>1, AppendFacts
<1>3. SeenCurrent'
  BY <1>1, <1>2 DEF AgreeInv, SeenCurrent, Current
<1>4. ASSUME NEW i \in 1..Len(subs'), NEW j \in 1..Len(subs'), i < j
      PROVE  Follows(seen[subs'[i]], seen[subs'[j]], IF next \in (i + 1)..j THEN 1 ELSE 0)
  <2>1. i \in 1..Len(subs) /\ subs'[i] = subs[i]
    BY <1>1, <1>2, <1>4
  <2>2. CASE j \in 1..Len(subs)
    BY <1>2, <1>4, <2>1, <2>2 DEF AgreeInv, Ahead
  <2>3. CASE j = Len(subs) + 1
    <3>1. seen[subs'[j]] = <<>>
      BY <1>1, <1>2, <2>3
    <3>2. Len(seen[subs[i]]) \in Nat
      BY <1>1, <2>1, ElementOfSeq, LenProperties DEF OrderInv, TypeOK
    <3>3. CASE next \in (i + 1)..j
      <4>1. i < next
        BY <1>1, <2>1, <3>3
      <4>2. Len(seen[subs[i]]) > 0
        BY <2>1, <4>1 DEF AgreeInv, SeenCurrent
      <4>3. Follows(seen[subs[i]], <<>>, 1)
        BY <1>1, <3>2, <4>2 DEF Follows
      <4> QED BY <2>1, <3>1, <3>3, <4>3
    <3>4. CASE next \notin (i + 1)..j
      <4>1. Follows(seen[subs[i]], <<>>, 0)
        BY <1>1, <3>2 DEF Follows
      <4> QED BY <2>1, <3>1, <3>4, <4>1
    <3> QED BY <3>3, <3>4
  <2>4. j \in 1..Len(subs) \/ j = Len(subs) + 1
    BY <1>1, <1>2
  <2> QED BY <2>2, <2>3, <2>4
<1>5. \A i, j \in 1..Len(subs') : i < j =>
          Follows(seen'[subs'[i]], seen'[subs'[j]], IF next' \in (i + 1)..j THEN 1 ELSE 0)
  BY <1>1, <1>4
<1> QED BY <1>3, <1>5 DEF AgreeInv, Ahead, Follows

LEMMA AgreeInductive ==
    ASSUME AgreeInv, OrderInv, [Next]_vars PROVE AgreeInv'
<1>1. next \in 0..(Len(subs) + 1) /\ Len(subs) \in Nat /\ dispatched \in Seq(Frame)
  BY LenProperties DEF OrderInv, TypeOK
<1>2. ASSUME UNCHANGED <<subs, seen>>, next' \in {0, 1},
             \A i, j \in 1..Len(subs) : i < j => next \notin (i + 1)..j
      PROVE  AgreeInv'
  <2>1. SeenCurrent'
    BY <1>1, <1>2 DEF SeenCurrent
  <2>2. \A i, j \in 1..Len(subs) : next' \notin (i + 1)..j
    BY <1>1, <1>2
  <2>3. \A i, j \in 1..Len(subs) : i < j => Follows(seen[subs[i]], seen[subs[j]], 0)
    BY <1>2 DEF AgreeInv, Ahead
  <2>4. \A i, j \in 1..Len(subs') : i < j =>
            Follows(seen'[subs'[i]], seen'[subs'[j]], IF next' \in (i + 1)..j THEN 1 ELSE 0)
    BY <1>2, <2>2, <2>3
  <2> QED BY <2>1, <2>4 DEF AgreeInv, Follows, Ahead
<1>3. CASE Take
  <2>1. UNCHANGED <<subs, seen>> /\ next = 0 /\ next' \in {0, 1}
    BY <1>3 DEF Take
  <2>2. \A i, j \in 1..Len(subs) : next \notin (i + 1)..j
    BY <1>1, <2>1
  <2> QED BY <1>2, <2>1, <2>2
<1>4. CASE EndLoop
  <2>1. UNCHANGED <<subs, seen>> /\ next > Len(subs) /\ next' \in {0, 1}
    BY <1>4 DEF EndLoop
  <2>2. \A i, j \in 1..Len(subs) : next \notin (i + 1)..j
    BY <1>1, <2>1
  <2> QED BY <1>2, <2>1, <2>2
<1>5. CASE UNCHANGED <<subs, seen, next, dispatched>>
  <2>1. SeenCurrent'
    BY <1>5 DEF AgreeInv, SeenCurrent, Current
  <2>2. \A i, j \in 1..Len(subs') : i < j =>
            Follows(seen'[subs'[i]], seen'[subs'[j]], IF next' \in (i + 1)..j THEN 1 ELSE 0)
    BY <1>5 DEF AgreeInv, Ahead
  <2> QED BY <2>1, <2>2 DEF AgreeInv, Follows, Ahead
<1> QED
  BY <1>3, <1>4, <1>5, CallAgrees, SubscribeAgrees
  DEF Next, Producer, Dispatcher, Emit, Evict, Retry, vars

\* A handler that raises starves nobody (event_bus.py:90-99): any two handlers have
\* been called with the same frames since the later of them subscribed, but for
\* the one being dispatched.
THEOREM NobodyStarves == Spec => []HandlersAgree
<1>1. Init => AgreeInv
  BY DEF Init, AgreeInv, SeenCurrent
<1>2. AgreeInv /\ OrderInv /\ [Next]_vars => AgreeInv'
  BY AgreeInductive
<1>3. AgreeInv /\ OrderInv => HandlersAgree
  <2> SUFFICES ASSUME AgreeInv, OrderInv, NEW i \in 1..Len(subs), NEW j \in 1..Len(subs), i < j
               PROVE  LET skip == Len(seen[subs[i]]) - Ahead(i, j) - Len(seen[subs[j]])
                      IN  /\ skip >= 0
                          /\ seen[subs[j]] = SubSeq(seen[subs[i]], skip + 1,
                                                    skip + Len(seen[subs[j]]))
    BY DEF HandlersAgree, Ahead
  <2>1. seen[subs[i]] \in Seq(Frame) /\ seen[subs[j]] \in Seq(Frame)
    BY ElementOfSeq DEF OrderInv, TypeOK
  <2>2. Follows(seen[subs[i]], seen[subs[j]], Ahead(i, j)) /\ Ahead(i, j) \in {0, 1}
    BY DEF AgreeInv, Ahead
  <2> QED BY <2>1, <2>2, FollowsEnds
<1> QED BY <1>1, <1>2, <1>3, OrderInvariant, PTL DEF Spec

------------------------------------------------------------------------------
(* The bus implements the lossy FIFO channel.                               *)

\* A carried frame is one of those the bound admits.
SentInv == \A p \in Producers : /\ sent[p] <= MaxEmits
                                /\ pc[p] # "idle" => sent[p] > 0

LEMMA SentInductive ==
    ASSUME TypeOK, SentInv, [Next]_vars PROVE SentInv'
<1>1. /\ sent \in [Producers -> Nat] /\ MaxEmits \in Nat
      /\ pc \in [Producers -> {"idle", "evict", "retry"}]
  BY BusAssumption DEF BusAssumption, TypeOK
<1>2. ASSUME NEW p \in Producers, Emit(p) PROVE SentInv'
  <2>1. /\ sent[p] < MaxEmits
        /\ sent' = [sent EXCEPT ![p] = @ + 1]
        /\ pc' = pc \/ pc' = [pc EXCEPT ![p] = "evict"]
    BY <1>2 DEF Emit
  <2> QED BY <1>1, <2>1 DEF SentInv
<1>3. ASSUME NEW p \in Producers, Evict(p) \/ Retry(p) PROVE SentInv'
  <2>1. /\ pc[p] # "idle" /\ sent' = sent
        /\ \E v \in {"idle", "retry"} : pc' = [pc EXCEPT ![p] = v]
    BY <1>3 DEF Evict, Retry
  <2> QED BY <1>1, <2>1 DEF SentInv
<1>4. CASE UNCHANGED <<sent, pc>>
  BY <1>4 DEF SentInv
<1> QED
  BY <1>2, <1>3, <1>4
  DEF Next, Producer, Dispatcher, Take, Call, EndLoop, Subscribe, vars

\* Answering one more frame: what Send and Refuse do to the abstract channel.
LEMMA AnswerOne ==
    ASSUME TypeOK, SentInv, NEW p \in Producers, NEW n \in 1..MaxEmits,
           NEW f, f = [from |-> p, num |-> n],
           \/ /\ pc[p] = "idle" /\ n = sent[p] + 1
              /\ sent' = [sent EXCEPT ![p] = n] /\ pc' = pc
           \/ /\ pc[p] # "idle" /\ n = sent[p]
              /\ sent' = sent /\ pc' = [pc EXCEPT ![p] = "idle"]
    PROVE  f \in Offered /\ f \notin Answered /\ Answered' = Answered \cup {f}
<1>1. /\ sent \in [Producers -> Nat] /\ MaxEmits \in Nat
      /\ pc \in [Producers -> {"idle", "evict", "retry"}]
  BY BusAssumption DEF BusAssumption, TypeOK
<1>2. f \in Offered /\ f.from = p /\ f.num = n
  BY DEF Offered
<1>3. ASSUME NEW g \in Offered
      PROVE  /\ g.from \in Producers /\ g.num \in Nat
             /\ g # f => g.from # p \/ g.num # n
  BY <1>1 DEF Offered
<1>4. f \notin Answered
  BY <1>1, <1>2 DEF Answered
<1>5. ASSUME NEW g \in Offered PROVE g \in Answered' <=> g \in Answered \/ g = f
  <2>1. CASE g = f
    BY <1>1, <1>2, <2>1 DEF Answered, Offered
  <2>2. CASE g # f
    BY <1>1, <1>3, <2>2 DEF Answered, Offered
  <2> QED BY <2>1, <2>2
<1>6. Offered' = Offered /\ Answered \subseteq Offered /\ Answered' \subseteq Offered
  BY DEF Offered, Answered
<1> QED BY <1>2, <1>4, <1>5, <1>6

LEMMA StepImplements ==
    ASSUME TypeOK, SentInv, [Next]_vars
    PROVE  [Channel!Next]_(Channel!vars)
<1>1. /\ sent \in [Producers -> Nat] /\ MaxEmits \in Nat
      /\ pc \in [Producers -> {"idle", "evict", "retry"}]
      /\ queue \in Seq(Frame) /\ Len(queue) \in Nat
  BY BusAssumption, LenProperties DEF BusAssumption, TypeOK
<1>2. ASSUME NEW p \in Producers, Emit(p) PROVE [Channel!Next]_(Channel!vars)
  <2>1. /\ pc[p] = "idle" /\ sent[p] < MaxEmits
        /\ sent' = [sent EXCEPT ![p] = sent[p] + 1]
        /\ dispatched' = dispatched
    BY <1>2 DEF Emit
  <2>2. PICK f : f = [from |-> p, num |-> sent[p] + 1]
    OBVIOUS
  <2>3. CASE pc' = pc /\ queue' = Append(queue, f)
    <3>1. f \in Offered /\ f \notin Answered /\ Answered' = Answered \cup {f}
      <4>1. PICK n \in 1..MaxEmits : n = sent[p] + 1
        BY <1>1, <2>1
      <4>2. f = [from |-> p, num |-> n] /\ sent' = [sent EXCEPT ![p] = n]
        BY <2>1, <2>2, <4>1
      <4> QED BY <2>1, <2>3, <4>1, <4>2, AnswerOne
    <3> QED BY <2>1, <2>3, <3>1 DEF Channel!Next, Channel!Send
  <2>4. CASE pc' = [pc EXCEPT ![p] = "evict"] /\ queue' = queue
    <3>1. Answered' = Answered
      BY <1>1, <2>1, <2>4 DEF Answered, Offered
    <3> QED BY <2>1, <2>4, <3>1 DEF Channel!vars
  <2> QED BY <1>2, <2>2, <2>3, <2>4 DEF Emit
<1>3. ASSUME NEW p \in Producers, Evict(p) PROVE [Channel!Next]_(Channel!vars)
  <2>1. /\ pc[p] = "evict" /\ pc' = [pc EXCEPT ![p] = "retry"]
        /\ sent' = sent /\ dispatched' = dispatched
    BY <1>3 DEF Evict
  <2>2. Answered' = Answered
    BY <1>1, <2>1 DEF Answered, Offered
  <2>3. CASE queue' = queue
    BY <2>1, <2>2, <2>3 DEF Channel!vars
  <2>4. CASE queue # <<>> /\ queue' = Tail(queue)
    <3>1. Channel!Without(1) = Tail(queue)
      <4>1. 1 - 1 = 0 /\ 1 + 1 = 2 /\ SubSeq(queue, 1, 0) = <<>>
        BY SubSeqEmpty
      <4>2. SubSeq(queue, 2, Len(queue)) = Tail(queue)
        BY <1>1, <2>4, TailIsSubSeq
      <4>3. Tail(queue) \in Seq(Frame)
        BY <1>1, <2>4, HeadTailFacts
      <4> QED BY <4>1, <4>2, <4>3, ConcatEmptySeq DEF Channel!Without
    <3>2. 1 \in 1..Len(queue)
      BY <1>1, <2>4, EmptySeq
    <3> QED BY <2>1, <2>2, <2>4, <3>1, <3>2 DEF Channel!Next, Channel!Lose
  <2> QED BY <1>3, <2>3, <2>4 DEF Evict
<1>4. ASSUME NEW p \in Producers, Retry(p) PROVE [Channel!Next]_(Channel!vars)
  <2>1. /\ pc[p] = "retry" /\ pc' = [pc EXCEPT ![p] = "idle"]
        /\ sent' = sent /\ dispatched' = dispatched
    BY <1>4 DEF Retry
  <2>2. PICK f : f = [from |-> p, num |-> sent[p]]
    OBVIOUS
  <2>3. sent[p] \in 1..MaxEmits
    BY <1>1, <2>1 DEF SentInv
  <2>4. f \in Offered /\ f \notin Answered /\ Answered' = Answered \cup {f}
    BY <1>1, <2>1, <2>2, <2>3, AnswerOne
  <2>5. queue' = queue \/ queue' = Append(queue, f)
    BY <1>4, <2>2 DEF Retry, Carried
  <2> QED BY <2>1, <2>4, <2>5 DEF Channel!Next, Channel!Send, Channel!Refuse
<1>5. CASE Take
  <2>1. Answered' = Answered
    BY <1>5 DEF Take, Answered, Offered
  <2> QED BY <1>5, <2>1 DEF Take, Channel!Next, Channel!Receive
<1>6. CASE UNCHANGED <<queue, pc, sent, dispatched>>
  <2>1. Answered' = Answered
    BY <1>6 DEF Answered, Offered
  <2> QED BY <1>6, <2>1 DEF Channel!vars
<1> QED
  BY <1>2, <1>3, <1>4, <1>5, <1>6
  DEF Next, Producer, Dispatcher, Call, EndLoop, Subscribe, vars

\* Whatever overflows and whoever races, the bus as a whole is a channel that
\* loses frames but never invents, repeats or reorders one.
THEOREM BusImplementsLossyFifo == Spec => ImplementsLossyFifo
<1>1. Init => Channel!Init /\ SentInv
  <2> SUFFICES ASSUME Init PROVE Channel!Init /\ SentInv
    OBVIOUS
  <2>1. Answered = {}
    BY DEF Init, Answered, Offered
  <2> QED BY <2>1, BusAssumption DEF BusAssumption, Init, SentInv, Channel!Init
<1>2. TypeOK /\ SentInv /\ [Next]_vars => SentInv'
  BY SentInductive
<1>3. TypeOK /\ SentInv /\ [Next]_vars => [Channel!Next]_(Channel!vars)
  BY StepImplements
<1> QED BY <1>1, <1>2, <1>3, TypeCorrect, PTL DEF Spec, ImplementsLossyFifo, Channel!Spec

------------------------------------------------------------------------------
\* A lone producer's eviction always makes room for the frame it is emitting:
\* between its two queue operations the dispatch thread can only take frames.
THEOREM LoneProducerKeepsNewest ==
    ASSUME NEW p, Producers = {p}
    PROVE  Spec => []RetryFindsRoom
<1>1. Init => RetryFindsRoom
  BY DEF Init, RetryFindsRoom
<1>2. TypeOK /\ RetryFindsRoom /\ [Next]_vars => RetryFindsRoom'
  <2> SUFFICES ASSUME TypeOK, RetryFindsRoom, [Next]_vars PROVE RetryFindsRoom'
    OBVIOUS
  <2>1. /\ pc \in [Producers -> {"idle", "evict", "retry"}]
        /\ queue \in Seq(Frame) /\ Len(queue) \in Nat /\ Len(queue) <= Capacity
        /\ Capacity \in Nat \ {0}
    BY BusAssumption, LenProperties DEF BusAssumption, TypeOK
  <2>2. CASE Emit(p)
    <3>1. pc'[p] # "retry"
      BY <2>1, <2>2 DEF Emit
    <3> QED BY <3>1 DEF RetryFindsRoom
  <2>3. CASE Evict(p)
    <3>1. CASE queue = <<>>
      <4>1. queue' = <<>> /\ Len(<<>>) = 0
        BY <2>3, <3>1 DEF Evict
      <4> QED BY <2>1, <4>1 DEF RetryFindsRoom, HasRoom
    <3>2. CASE queue # <<>>
      <4>1. Len(queue') = Len(queue) - 1
        BY <2>1, <2>3, <3>2, HeadTailFacts DEF Evict
      <4> QED BY <2>1, <4>1 DEF RetryFindsRoom, HasRoom
    <3> QED BY <3>1, <3>2
  <2>4. CASE Retry(p)
    BY <2>1, <2>4 DEF Retry, RetryFindsRoom
  <2>5. CASE Take
    <3>1. Len(queue') = Len(queue) - 1 /\ pc' = pc
      BY <2>1, <2>5, HeadTailFacts DEF Take
    <3> QED BY <2>1, <3>1 DEF RetryFindsRoom, HasRoom
  <2>6. CASE UNCHANGED <<queue, pc>>
    BY <2>6 DEF RetryFindsRoom, HasRoom
  <2> QED
    BY <2>2, <2>3, <2>4, <2>5, <2>6
    DEF Next, Producer, Dispatcher, Call, EndLoop, Subscribe, vars
<1> QED BY <1>1, <1>2, TypeCorrect, PTL DEF Spec
==============================================================================
