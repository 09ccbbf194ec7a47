---------------------------- MODULE ShardedIDSProofs ----------------------------
(***************************************************************************)
(* A shard finishes every sender's events in order and none of them twice, *)
(* for any number of shards, producers and events, any routing, capacity   *)
(* and policy, and with a watchdog that restarts workers at any time; and  *)
(* none of them vanishes on the way, and what is dropped is counted.       *)
(***************************************************************************)
EXTENDS ShardedIDS, SequenceTheorems, FiniteSetTheorems, TLAPS

(* What a put and a get do to a queue. *)

\* What a put, and what a get, leaves in the queue.
LEMMA AppendFacts ==
    ASSUME NEW S, NEW s \in Seq(S), NEW e \in S
    PROVE  /\ Append(s, e) \in Seq(S)
           /\ Append(s, e) # <<>>
           /\ Len(Append(s, e)) = Len(s) + 1
           /\ \A i \in 1..Len(s) : Append(s, e)[i] = s[i]
           /\ Append(s, e)[Len(s) + 1] = e
BY AppendProperties

LEMMA HeadTailFacts ==
    ASSUME NEW S, NEW s \in Seq(S), s # <<>>
    PROVE  /\ Len(s) \in Nat \ {0}
           /\ Head(s) = s[1]
           /\ Head(s) \in S
           /\ Tail(s) \in Seq(S)
           /\ Len(Tail(s)) = Len(s) - 1
           /\ \A i \in 1..Len(Tail(s)) : Tail(s)[i] = s[i + 1]
BY HeadTailProperties, EmptySeq

\* What is in a queue after a put and after a get.
LEMMA EventsFacts ==
    ASSUME NEW S, NEW s \in Seq(S)
    PROVE  /\ EventsIn(s) \subseteq S
           /\ \A e \in S : EventsIn(Append(s, e)) = EventsIn(s) \cup {e}
           /\ \A e \in S : EventsIn(<<e>>) = {e}
           /\ EventsIn(<<>>) = {}
           /\ s # <<>> => Head(s) \in EventsIn(s) /\ EventsIn(Tail(s)) \subseteq EventsIn(s)
<1>1. EventsIn(s) \subseteq S
  BY ElementOfSeq DEF EventsIn
<1>2. ASSUME NEW e \in S PROVE EventsIn(Append(s, e)) = EventsIn(s) \cup {e}
  <2>1. /\ Len(Append(s, e)) = Len(s) + 1 /\ Append(s, e)[Len(s) + 1] = e
        /\ \A i \in 1..Len(s) : Append(s, e)[i] = s[i]
        /\ Len(s) \in Nat
    BY AppendFacts, LenProperties
  <2>2. 1..Len(Append(s, e)) = 1..Len(s) \cup {Len(s) + 1}
    BY <2>1
  <2> QED BY <2>1, <2>2 DEF EventsIn
<1>3. ASSUME NEW e \in S PROVE EventsIn(<<e>>) = {e}
  <2>1. Len(<<e>>) = 1 /\ <<e>>[1] = e
    OBVIOUS
  <2> QED BY <2>1 DEF EventsIn
<1>4. EventsIn(<<>>) = {}
  BY EmptySeq DEF EventsIn
<1>5. ASSUME s # <<>>
      PROVE  Head(s) \in EventsIn(s) /\ EventsIn(Tail(s)) \subseteq EventsIn(s)
  <2>1. /\ Len(s) \in Nat \ {0} /\ Head(s) = s[1] /\ Len(Tail(s)) = Len(s) - 1
        /\ \A i \in 1..Len(Tail(s)) : Tail(s)[i] = s[i + 1]
    BY <1>5, HeadTailFacts
  <2>2. 1 \in 1..Len(s) /\ \A i \in 1..Len(Tail(s)) : i + 1 \in 1..Len(s)
    BY <2>1
  <2> QED BY <2>1, <2>2 DEF EventsIn
<1> QED BY <1>1, <1>2, <1>3, <1>4, <1>5

\* An event that comes after a sequence may be appended to it.
LEMMA AppendInSequence ==
    ASSUME NEW S, NEW s \in Seq(S), NEW f \in S, InSequence(s),
           \A e \in EventsIn(s) : Before(e, f)
    PROVE  InSequence(Append(s, f))
<1> SUFFICES ASSUME NEW i \in 1..Len(Append(s, f)),
                    NEW j \in 1..Len(Append(s, f)), i < j
             PROVE  Before(Append(s, f)[i], Append(s, f)[j])
  BY DEF InSequence
<1>1. /\ Len(Append(s, f)) = Len(s) + 1
      /\ Append(s, f)[Len(s) + 1] = f
      /\ \A k \in 1..Len(s) : Append(s, f)[k] = s[k]
      /\ Len(s) \in Nat
  BY AppendFacts, LenProperties
<1>2. i \in 1..Len(s) /\ Append(s, f)[i] = s[i]
  BY <1>1
<1>3. CASE j = Len(s) + 1
  BY <1>1, <1>2, <1>3 DEF EventsIn
<1>4. CASE j \in 1..Len(s)
  BY <1>1, <1>2, <1>4 DEF InSequence
<1> QED BY <1>1, <1>3, <1>4

\* The head of an ordered sequence comes before the rest, which stays ordered.
LEMMA TailInSequence ==
    ASSUME NEW S, NEW s \in Seq(S), s # <<>>, InSequence(s)
    PROVE  /\ InSequence(Tail(s))
           /\ \A e \in EventsIn(Tail(s)) : Before(Head(s), e)
<1>1. /\ Len(s) \in Nat \ {0}
      /\ Head(s) = s[1]
      /\ Len(Tail(s)) = Len(s) - 1
      /\ \A i \in 1..Len(Tail(s)) : Tail(s)[i] = s[i + 1]
  BY HeadTailFacts
<1>2. ASSUME NEW j \in 1..Len(Tail(s)) PROVE Before(Head(s), Tail(s)[j])
  <2>1. j + 1 \in 1..Len(s) /\ 1 \in 1..Len(s) /\ 1 < j + 1
    BY <1>1
  <2> QED BY <1>1, <2>1 DEF InSequence
<1>3. ASSUME NEW i \in 1..Len(Tail(s)), NEW j \in 1..Len(Tail(s)), i < j
      PROVE  Before(Tail(s)[i], Tail(s)[j])
  <2>1. i + 1 \in 1..Len(s) /\ j + 1 \in 1..Len(s) /\ i + 1 < j + 1
    BY <1>1, <1>3
  <2> QED BY <1>1, <2>1 DEF InSequence
<1> QED BY <1>2, <1>3 DEF InSequence, EventsIn

------------------------------------------------------------------------------

LEMMA Constants ==
    /\ Capacity \in Nat \ {0} /\ SampleRate \in Nat \ {0} /\ MaxMissed \in Nat \ {0}
    /\ NShards \in Nat \ {0} /\ Shards = 1..NShards /\ ShardOf \in [Keys -> Shards]
    /\ Control \notin Producers /\ Control \notin Keys
BY ShardedAssumption DEF ShardedAssumption, Shards

\* A sequence of one event.
LEMMA Single == ASSUME NEW S, NEW e \in S
                PROVE  <<e>> \in Seq(S) /\ Len(<<e>>) = 1 /\ <<e>>[1] = e
OBVIOUS

------------------------------------------------------------------------------
(* Types.                                                                    *)

\* The operations on a queue that a step may do to a shard.
LEMMA QueueStays ==
    ASSUME NEW q \in [Shards -> Seq(Event)], \A s \in Shards : Len(q[s]) <= Capacity,
           NEW s \in Shards
    PROVE  /\ \A e \in Event : Len(q[s]) < Capacity =>
                 LET r == [q EXCEPT ![s] = Append(@, e)]
                 IN  r \in [Shards -> Seq(Event)] /\ \A x \in Shards : Len(r[x]) <= Capacity
           /\ q[s] # <<>> =>
                 LET r == [q EXCEPT ![s] = Tail(@)]
                 IN  r \in [Shards -> Seq(Event)] /\ \A x \in Shards : Len(r[x]) <= Capacity
           /\ \A e \in Event : q[s] # <<>> =>
                 LET r == [q EXCEPT ![s] = Append(Tail(@), e)]
                 IN  r \in [Shards -> Seq(Event)] /\ \A x \in Shards : Len(r[x]) <= Capacity
<1>1. q[s] \in Seq(Event) /\ Len(q[s]) \in Nat /\ Capacity \in Nat
  BY Constants, LenProperties
<1>2. ASSUME NEW e \in Event
      PROVE  Append(q[s], e) \in Seq(Event) /\ Len(Append(q[s], e)) = Len(q[s]) + 1
  BY <1>1, AppendFacts
<1>3. ASSUME q[s] # <<>>
      PROVE  Tail(q[s]) \in Seq(Event) /\ Len(Tail(q[s])) = Len(q[s]) - 1
  BY <1>1, <1>3, HeadTailFacts
<1>4. ASSUME NEW e \in Event, q[s] # <<>>
      PROVE  Append(Tail(q[s]), e) \in Seq(Event) /\ Len(Append(Tail(q[s]), e)) = Len(q[s])
  BY <1>1, <1>3, <1>4, AppendFacts
<1> QED BY <1>1, <1>2, <1>3, <1>4

LEMMA IngestTyped ==
    ASSUME TypeOK, NEW p \in Producers, NEW k \in Keys, Ingest(p, k) PROVE TypeOK'
<1>1. [from |-> p, num |-> sent[p] + 1, key |-> k] \in Ingested
  BY DEF Ingested, TypeOK, ProducerType, Senders
<1>2. PICK e \in Ingested : e = [from |-> p, num |-> sent[p] + 1, key |-> k]
  BY <1>1
<1>3. /\ hand' = [hand EXCEPT ![p] = <<e>>] /\ ppc' = [ppc EXCEPT ![p] = "push"]
      /\ sent' = [sent EXCEPT ![p] = @ + 1]
  BY <1>2 DEF Ingest
<1>4. ProducerType'
  <2>1. <<e>> \in Seq(Ingested) /\ Len(<<e>>) = 1
    BY Single
  <2>2. /\ ppc \in [Producers -> {"idle", "push", "count"}]
        /\ hand \in [Producers -> Seq(Ingested)]
        /\ \A q \in Producers : Len(hand[q]) = IF ppc[q] = "push" THEN 1 ELSE 0
        /\ sent \in [Senders -> Nat] /\ p \in Senders
        /\ total_dropped \in Nat /\ sample_counter \in 0..(SampleRate - 1)
    BY DEF TypeOK, ProducerType, Senders
  <2>3. /\ ppc' \in [Producers -> {"idle", "push", "count"}]
        /\ hand' \in [Producers -> Seq(Ingested)]
        /\ sent' \in [Senders -> Nat]
    BY <1>3, <2>1, <2>2
  <2>4. \A q \in Producers : Len(hand'[q]) = IF ppc'[q] = "push" THEN 1 ELSE 0
    BY <1>3, <2>1, <2>2
  <2>5. UNCHANGED <<total_dropped, sample_counter>>
    BY DEF Ingest
  <2> QED BY <2>2, <2>3, <2>4, <2>5 DEF ProducerType
<1>5. QueueType' /\ WorkerType' /\ ControlType'
  BY DEF Ingest, TypeOK, QueueType, WorkerType, ControlType, queues, workers, dog, control
<1> QED BY <1>4, <1>5 DEF TypeOK

\* A producer's event is in its hand while it pushes.
LEMMA InHand ==
    ASSUME ProducerType, NEW p \in Producers, ppc[p] = "push"
    PROVE  hand[p][1] \in Ingested /\ hand[p][1] \in Event
<1>1. hand[p][1] \in Ingested
  BY ElementOfSeq DEF ProducerType
<1> QED BY <1>1 DEF Ingested, Event, Senders

\* What Enqueue and Refuse do to the producer ...
LEMMA HandTyped ==
    ASSUME ProducerType, NEW p \in Producers, NEW s \in Shards, ppc[p] = "push",
           Enqueue(p, s) \/ Refuse(p, s, 0)
    PROVE  /\ ppc' \in [Producers -> {"idle", "push", "count"}]
           /\ hand' \in [Producers -> Seq(Ingested)]
           /\ \A q \in Producers : Len(hand'[q]) = IF ppc'[q] = "push" THEN 1 ELSE 0
<1>1. /\ hand' = [hand EXCEPT ![p] = <<>>]
      /\ ppc' = [ppc EXCEPT ![p] = "idle"] \/ ppc' = [ppc EXCEPT ![p] = "count"]
  <2>1. Push(p, s) \/ PushOut(p, s) \/ Refuse(p, s, 1) \/ Refuse(p, s, 0)
    BY DEF Enqueue
  <2> QED BY <2>1 DEF Push, PushOut, Refuse, Accept
<1>2. PICK v \in {"idle", "count"} : ppc' = [ppc EXCEPT ![p] = v]
  BY <1>1
<1>3. /\ ppc \in [Producers -> {"idle", "push", "count"}]
      /\ hand \in [Producers -> Seq(Ingested)]
      /\ \A q \in Producers : Len(hand[q]) = IF ppc[q] = "push" THEN 1 ELSE 0
  BY DEF ProducerType
<1>4. PICK none \in Seq(Ingested) : none = <<>> /\ Len(none) = 0
  BY EmptySeq
<1>5. hand' = [hand EXCEPT ![p] = none]
  BY <1>1, <1>4
<1>6. ppc' \in [Producers -> {"idle", "push", "count"}]
  BY <1>2, <1>3
<1>7. hand' \in [Producers -> Seq(Ingested)]
  BY <1>3, <1>5
<1>8. ASSUME NEW q \in Producers
      PROVE  Len(hand'[q]) = IF ppc'[q] = "push" THEN 1 ELSE 0
  <2>1. CASE q = p
    <3>1. hand'[q] = none /\ ppc'[q] = v
      BY <1>2, <1>3, <1>5, <2>1
    <3> QED BY <1>4, <3>1
  <2>2. CASE q # p
    <3>1. hand'[q] = hand[q] /\ ppc'[q] = ppc[q]
      BY <1>2, <1>3, <1>5, <2>2
    <3> QED BY <1>3, <3>1
  <2> QED BY <2>1, <2>2
<1> QED BY <1>6, <1>7, <1>8

\* ... and to the queues.
LEMMA PushTyped ==
    ASSUME QueueType, NEW p \in Producers, NEW s \in Shards,
           hand[p][1] \in Event, Enqueue(p, s) \/ Refuse(p, s, 0)
    PROVE  QueueType'
<1>1. PICK e \in Event : e = hand[p][1]
  OBVIOUS
<1>2. /\ queue \in [Shards -> Seq(Event)] /\ drops \in [Shards -> Nat]
      /\ \A x \in Shards : Len(queue[x]) <= Capacity
      /\ closed \in [Shards -> BOOLEAN]
      /\ refused \subseteq Event /\ evicted \in [Shards -> SUBSET Event]
  BY DEF QueueType
<1>3. queue[s] \in Seq(Event) /\ Len(queue[s]) \in Nat /\ Capacity \in Nat \ {0}
  BY <1>2, Constants, LenProperties
<1>4. CASE Push(p, s)
  <2>1. queue' = [queue EXCEPT ![s] = Append(@, e)] /\ Len(queue[s]) < Capacity
    BY <1>1, <1>4 DEF Push, HasRoom
  <2>2. /\ queue' \in [Shards -> Seq(Event)]
        /\ \A x \in Shards : Len(queue'[x]) <= Capacity
    BY <1>2, <2>1, QueueStays
  <2>3. /\ closed' = closed /\ drops' = drops /\ refused' = refused /\ evicted' = evicted
    BY <1>4 DEF Push
  <2> QED BY <1>2, <2>2, <2>3 DEF QueueType
<1>5. CASE PushOut(p, s)
  <2>1. /\ queue' = [queue EXCEPT ![s] = Append(Tail(@), e)]
        /\ ~(Len(queue[s]) < Capacity)
        /\ evicted' = [evicted EXCEPT ![s] = @ \cup {Head(queue[s])}]
    BY <1>1, <1>5 DEF PushOut, HasRoom
  <2>2. queue[s] # <<>>
    BY <1>3, <2>1, EmptySeq
  <2>3. /\ queue' \in [Shards -> Seq(Event)]
        /\ \A x \in Shards : Len(queue'[x]) <= Capacity
    BY <1>2, <2>1, <2>2, QueueStays
  <2>4. Head(queue[s]) \in Event
    BY <1>3, <2>2, HeadTailFacts
  <2>5. drops' = [drops EXCEPT ![s] = @ + 1] /\ closed' = closed /\ refused' = refused
    BY <1>5 DEF PushOut
  <2>6. drops' \in [Shards -> Nat] /\ evicted' \in [Shards -> SUBSET Event]
    BY <1>2, <2>1, <2>4, <2>5
  <2> QED BY <1>2, <2>1, <2>3, <2>4, <2>5, <2>6 DEF QueueType
<1>6. ASSUME NEW n \in {0, 1}, Refuse(p, s, n) PROVE QueueType'
  <2>1. /\ drops' = [drops EXCEPT ![s] = @ + n] /\ refused' = refused \cup {e}
        /\ queue' = queue /\ closed' = closed /\ evicted' = evicted
    BY <1>1, <1>6 DEF Refuse
  <2>2. drops' \in [Shards -> Nat]
    BY <1>2, <2>1
  <2> QED BY <1>2, <2>1, <2>2 DEF QueueType
<1> QED BY <1>4, <1>5, <1>6 DEF Enqueue

LEMMA RouteTyped == ASSUME TypeOK, NEW p \in Producers, Route(p) PROVE TypeOK'
<1>1. ppc[p] = "push" /\ QueueType /\ ProducerType
  BY DEF TypeOK, Route
<1>2. hand[p][1].key \in Keys
  BY <1>1, InHand DEF Ingested
<1>3. PICK s \in Shards : s = ShardOf[hand[p][1].key]
  BY <1>2, Constants
<1>4. /\ Enqueue(p, s) \/ Refuse(p, s, 0)
      /\ \/ sample_counter' = sample_counter
         \/ sample_counter' = (sample_counter + 1) % SampleRate
  BY <1>3 DEF Route
<1>5. sample_counter' \in 0..(SampleRate - 1)
  BY <1>1, <1>4, Constants DEF ProducerType
<1>6. QueueType' /\ ProducerType'
  <2>1. hand[p][1] \in Event
    BY <1>1, InHand
  <2>2. QueueType'
    BY <1>1, <1>4, <2>1, PushTyped
  <2>3. /\ ppc' \in [Producers -> {"idle", "push", "count"}]
        /\ hand' \in [Producers -> Seq(Ingested)]
        /\ \A q \in Producers : Len(hand'[q]) = IF ppc'[q] = "push" THEN 1 ELSE 0
    BY <1>1, <1>4, HandTyped
  <2>4. sent' = sent /\ total_dropped' = total_dropped
    BY DEF Route
  <2> QED BY <1>1, <1>5, <2>2, <2>3, <2>4 DEF ProducerType
<1>7. WorkerType' /\ ControlType'
  BY DEF Route, TypeOK, WorkerType, ControlType, workers, dog, control
<1> QED BY <1>6, <1>7 DEF TypeOK

LEMMA CountDropTyped == ASSUME TypeOK, NEW p \in Producers, CountDrop(p) PROVE TypeOK'
<1>1. ProducerType'
  BY DEF CountDrop, TypeOK, ProducerType
<1> QED
  BY <1>1 DEF CountDrop, TypeOK, QueueType, WorkerType, ControlType, queues, workers, dog, control

\* A worker's step: only Pop and Finish move an event.
LEMMA WorkerTyped == ASSUME TypeOK, NEW s \in Shards, Worker(s) PROVE TypeOK'
<1>1. /\ running \in [Shards -> BOOLEAN]
      /\ wpc \in [Shards -> {"test", "pop", "idle", "ingest", "gone"}]
      /\ busy \in [Shards -> Seq(Event)]
      /\ \A x \in Shards : Len(busy[x]) = IF wpc[x] = "ingest" THEN 1 ELSE 0
      /\ done \in [Shards -> Seq(Event)] /\ beaten \in [Shards -> BOOLEAN]
      /\ queue \in [Shards -> Seq(Event)]
      /\ \A x \in Shards : Len(queue[x]) <= Capacity
      /\ closed \in [Shards -> BOOLEAN] /\ drops \in [Shards -> Nat]
      /\ refused \subseteq Event /\ evicted \in [Shards -> SUBSET Event]
  BY DEF TypeOK, WorkerType, QueueType
<1>2. ProducerType' /\ ControlType'
  <2>1. TestLoop(s) \/ Pop(s) \/ PopTimesOut(s) \/ Idle(s) \/ Finish(s)
    BY DEF Worker
  <2>2. UNCHANGED <<policy, missed, producers, dog, control>>
    BY <2>1 DEF TestLoop, Pop, PopTimesOut, Idle, Finish
  <2> QED BY <2>2 DEF TypeOK, ProducerType, ControlType, producers, dog, control
\* A step that moves no event: the label changes between labels that hold none.
<1>3. ASSUME NEW l \in {"test", "pop", "idle", "gone"}, wpc[s] # "ingest",
             wpc' = [wpc EXCEPT ![s] = l], UNCHANGED <<busy, done, running>>,
             beaten' = beaten \/ beaten' = [beaten EXCEPT ![s] = TRUE]
      PROVE  WorkerType'
  <2>1. \A x \in Shards : wpc'[x] = "ingest" <=> wpc[x] = "ingest"
    BY <1>1, <1>3
  <2>2. beaten' \in [Shards -> BOOLEAN]
    BY <1>1, <1>3
  <2>3. wpc' \in [Shards -> {"test", "pop", "idle", "ingest", "gone"}]
    BY <1>1, <1>3
  <2> QED BY <1>1, <1>3, <2>1, <2>2, <2>3 DEF WorkerType
<1>4. CASE TestLoop(s) \/ PopTimesOut(s) \/ Idle(s)
  <2>1. WorkerType'
    BY <1>3, <1>4 DEF TestLoop, PopTimesOut, Idle, WGoto
  <2>2. UNCHANGED <<queue, closed, drops, refused, evicted>>
    BY <1>4 DEF TestLoop, PopTimesOut, Idle, queues, producers
  <2>3. QueueType'
    BY <1>1, <2>2 DEF QueueType
  <2> QED BY <1>2, <2>1, <2>3 DEF TypeOK
<1>5. CASE Pop(s)
  <2>1. queue[s] \in Seq(Event) /\ queue[s] # <<>>
    BY <1>1, <1>5 DEF Pop
  <2>2. PICK e \in Event : e = Head(queue[s])
    BY <2>1, HeadTailFacts
  <2>3. /\ busy' = [busy EXCEPT ![s] = <<e>>] /\ queue' = [queue EXCEPT ![s] = Tail(@)]
        /\ wpc' = [wpc EXCEPT ![s] = "ingest"]
        /\ UNCHANGED <<closed, drops, refused, evicted, running, done, beaten>>
    BY <1>5, <2>2 DEF Pop, WGoto, producers
  <2>4. /\ queue' \in [Shards -> Seq(Event)]
        /\ \A x \in Shards : Len(queue'[x]) <= Capacity
    BY <1>1, <2>1, <2>3, QueueStays
  <2>5. PICK held \in Seq(Event) : held = <<e>> /\ Len(held) = 1
    BY Single
  <2>6. busy' = [busy EXCEPT ![s] = held]
    BY <2>3, <2>5
  <2>7. \A x \in Shards : Len(busy'[x]) = IF wpc'[x] = "ingest" THEN 1 ELSE 0
    BY <1>1, <2>3, <2>5, <2>6
  <2>8. busy' \in [Shards -> Seq(Event)]
    BY <1>1, <2>6
  <2>9. wpc' \in [Shards -> {"test", "pop", "idle", "ingest", "gone"}]
    BY <1>1, <2>3
  <2>10. WorkerType'
    BY <1>1, <2>3, <2>7, <2>8, <2>9 DEF WorkerType
  <2>11. QueueType'
    BY <1>1, <2>3, <2>4 DEF QueueType
  <2> QED BY <1>2, <2>10, <2>11 DEF TypeOK
<1>6. CASE Finish(s)
  <2>1. PICK e \in Event : e = busy[s][1]
    <3>1. busy[s] \in Seq(Event) /\ Len(busy[s]) = 1
      BY <1>1, <1>6 DEF Finish
    <3> QED BY <3>1, ElementOfSeq
  <2>2. /\ done' = [done EXCEPT ![s] = Append(@, e)] /\ busy' = [busy EXCEPT ![s] = <<>>]
        /\ beaten' = [beaten EXCEPT ![s] = TRUE] /\ wpc' = [wpc EXCEPT ![s] = "test"]
        /\ UNCHANGED <<queue, closed, drops, refused, evicted, running>>
    BY <1>6, <2>1 DEF Finish, WGoto, queues, producers
  <2>3. PICK none \in Seq(Event) : none = <<>> /\ Len(none) = 0
    BY EmptySeq
  <2>4. busy' = [busy EXCEPT ![s] = none]
    BY <2>2, <2>3
  <2>5. \A x \in Shards : Len(busy'[x]) = IF wpc'[x] = "ingest" THEN 1 ELSE 0
    BY <1>1, <2>2, <2>3, <2>4
  <2>6. Append(done[s], e) \in Seq(Event)
    BY <1>1, AppendFacts
  <2>7. done' \in [Shards -> Seq(Event)]
    BY <1>1, <2>2, <2>6
  <2>8. /\ busy' \in [Shards -> Seq(Event)] /\ beaten' \in [Shards -> BOOLEAN]
        /\ wpc' \in [Shards -> {"test", "pop", "idle", "ingest", "gone"}]
    BY <1>1, <2>2, <2>4
  <2>9. WorkerType'
    BY <1>1, <2>2, <2>5, <2>7, <2>8 DEF WorkerType
  <2>10. QueueType'
    BY <1>1, <2>2 DEF QueueType
  <2> QED BY <1>2, <2>9, <2>10 DEF TypeOK
<1> QED BY <1>4, <1>5, <1>6 DEF Worker

LEMMA WatchdogTyped == ASSUME TypeOK, Watchdog PROVE TypeOK'
<1>1. /\ wd_at \in 1..NShards /\ NShards \in Nat \ {0} /\ MaxMissed \in Nat \ {0}
      /\ missed \in [Shards -> 0..(MaxMissed - 1)]
      /\ wd_at \in Shards /\ Shards = 1..NShards
      /\ running \in [Shards -> BOOLEAN] /\ beaten \in [Shards -> BOOLEAN]
      /\ wpc \in [Shards -> {"test", "pop", "idle", "ingest", "gone"}]
  BY Constants DEF TypeOK, ControlType, WorkerType
<1>2. /\ watchdog' \in {"off", "sleep", "check", "join"} /\ wd_at' \in Shards
      /\ missed' \in [Shards -> 0..(MaxMissed - 1)]
      /\ running' \in [Shards -> BOOLEAN] /\ beaten' \in [Shards -> BOOLEAN]
  <2>1. CASE WakeUp
    BY <1>1, <2>1 DEF WakeUp, workers
  <2>2. CASE Check
    <3>0. OnToNextShard => watchdog' \in {"off", "sleep", "check", "join"} /\ wd_at' \in Shards
      BY <1>1 DEF OnToNextShard
    <3>1. CASE beaten[wd_at]
      <4>1. /\ beaten' = [beaten EXCEPT ![wd_at] = FALSE]
            /\ missed' = [missed EXCEPT ![wd_at] = 0]
            /\ OnToNextShard /\ running' = running
        BY <2>2, <3>1 DEF Check
      <4> QED BY <1>1, <3>0, <4>1
    <3>2. CASE ~beaten[wd_at] /\ missed[wd_at] + 1 < MaxMissed
      <4>1. /\ missed' = [missed EXCEPT ![wd_at] = @ + 1]
            /\ OnToNextShard /\ beaten' = beaten /\ running' = running
        BY <2>2, <3>2 DEF Check
      <4>2. missed[wd_at] + 1 \in 0..(MaxMissed - 1)
        BY <1>1, <3>2
      <4> QED BY <1>1, <3>0, <4>1, <4>2
    <3>3. CASE ~beaten[wd_at] /\ ~(missed[wd_at] + 1 < MaxMissed)
      BY <1>1, <2>2, <3>3 DEF Check
    <3> QED BY <3>1, <3>2, <3>3
  <2>3. CASE Restart
    BY <1>1, <2>3 DEF Restart, OnToNextShard
  <2> QED BY <2>1, <2>2, <2>3 DEF Watchdog
<1>3. ControlType'
  <2>1. UNCHANGED <<policy, watchdog_running, ctl, ctl_at, before_shutdown>>
    BY DEF Watchdog, WakeUp, Check, Restart, control
  <2> QED BY <1>2, <2>1 DEF TypeOK, ControlType
<1>4. WorkerType'
  <2>1. /\ UNCHANGED <<busy, done>>
        /\ wpc' = wpc \/ (wpc[wd_at] = "gone" /\ wpc' = [wpc EXCEPT ![wd_at] = "test"])
    BY DEF Watchdog, WakeUp, Check, Restart, WGoto, workers
  <2>2. /\ wpc' \in [Shards -> {"test", "pop", "idle", "ingest", "gone"}]
        /\ \A x \in Shards : wpc'[x] = "ingest" <=> wpc[x] = "ingest"
    BY <1>1, <2>1
  <2> QED BY <1>2, <2>1, <2>2 DEF TypeOK, WorkerType
<1>5. UNCHANGED <<queues, producers>>
  BY DEF Watchdog, WakeUp, Check, Restart
<1>6. QueueType' /\ ProducerType'
  BY <1>5 DEF TypeOK, QueueType, ProducerType, queues, producers
<1> QED BY <1>3, <1>4, <1>6 DEF TypeOK

LEMMA ControllerTyped == ASSUME TypeOK, Controller PROVE TypeOK'
<1>1. /\ ctl_at \in 1..NShards /\ NShards \in Nat \ {0}
      /\ ctl_at \in Shards /\ Shards = 1..NShards
      /\ running \in [Shards -> BOOLEAN] /\ closed \in [Shards -> BOOLEAN]
      /\ queue \in [Shards -> Seq(Event)]
      /\ \A x \in Shards : Len(queue[x]) <= Capacity
      /\ before_shutdown \subseteq Event
  BY Constants DEF TypeOK, ControlType, WorkerType, QueueType
<1>2. /\ ctl' \in {"serving", "flush", "join_watchdog", "stop", "join", "returned"}
      /\ ctl_at' \in Shards /\ watchdog_running' \in BOOLEAN
  <2>1. /\ ctl \in {"serving", "flush", "join_watchdog", "stop", "join", "returned"}
        /\ watchdog_running \in BOOLEAN
    BY DEF TypeOK, ControlType
  <2>2. \A h, t \in {"serving", "flush", "join_watchdog", "stop", "join", "returned"} :
            OnTo(h, t) =>
              /\ ctl' \in {"serving", "flush", "join_watchdog", "stop", "join", "returned"}
              /\ ctl_at' \in Shards
    BY <1>1 DEF OnTo
  <2>3. CASE Flush
    BY <1>1, <2>1, <2>3 DEF Flush, dog
  <2>4. CASE FlushShard
    BY <1>1, <2>1, <2>4 DEF FlushShard, dog
  <2>5. CASE Shutdown
    BY <1>1, <2>1, <2>5 DEF Shutdown
  <2>6. CASE JoinWatchdog
    BY <1>1, <2>1, <2>6 DEF JoinWatchdog, dog
  <2>7. CASE StopShard
    BY <2>1, <2>2, <2>7 DEF StopShard, dog
  <2>8. CASE JoinWorker
    BY <2>1, <2>2, <2>8 DEF JoinWorker, dog
  <2> QED BY <2>3, <2>4, <2>5, <2>6, <2>7, <2>8 DEF Controller, ShutdownStep
<1>3. before_shutdown' \subseteq Event
  <2>1. CASE Shutdown
    <3>1. \A s \in Shards : EventsIn(queue[s]) \subseteq Event
      BY <1>1, ElementOfSeq DEF EventsIn
    <3> QED BY <2>1, <3>1 DEF Shutdown
  <2>2. CASE ~Shutdown
    <3>1. before_shutdown' = before_shutdown
      BY <2>2 DEF Controller, Flush, FlushShard, ShutdownStep, JoinWatchdog, StopShard,
                  JoinWorker
    <3> QED BY <1>1, <3>1
  <2> QED BY <2>1, <2>2
<1>4. ControlType'
  <2>1. UNCHANGED <<policy, missed, watchdog, wd_at>>
    BY DEF Controller, Flush, FlushShard, Shutdown, ShutdownStep, JoinWatchdog, StopShard,
           JoinWorker, dog
  <2> QED BY <1>2, <1>3, <2>1 DEF TypeOK, ControlType
<1>5. WorkerType'
  <2>1. UNCHANGED <<wpc, busy, done, beaten>>
    BY DEF Controller, Flush, FlushShard, Shutdown, ShutdownStep, JoinWatchdog, StopShard,
           JoinWorker, workers
  <2>2. running' \in [Shards -> BOOLEAN]
    BY <1>1 DEF Controller, Flush, FlushShard, Shutdown, ShutdownStep, JoinWatchdog, StopShard,
                JoinWorker
  <2> QED BY <2>1, <2>2 DEF TypeOK, WorkerType
<1>6. CASE FlushShard
  <2>1. sent \in [Senders -> Nat] /\ Control \in Senders
    BY DEF TypeOK, ProducerType, Senders
  <2>2. FlushEvent \in Event
    BY <2>1 DEF FlushEvent, Event
  <2>3. PICK e \in Event : e = FlushEvent
    BY <2>2
  <2>4. /\ sent' = [sent EXCEPT ![Control] = @ + 1]
        /\ UNCHANGED <<closed, drops, evicted, ppc, hand, total_dropped, sample_counter>>
    BY <1>6 DEF FlushShard
  <2>5. ProducerType'
    BY <2>1, <2>4 DEF TypeOK, ProducerType
  <2>s. PICK s \in Shards : s = ctl_at
    BY <1>1
  <2>6. \/ queue' = queue
        \/ Len(queue[s]) < Capacity /\ queue' = [queue EXCEPT ![s] = Append(@, e)]
    BY <1>6, <2>3, <2>s DEF FlushShard, HasRoom
  <2>7. queue' \in [Shards -> Seq(Event)] /\ \A x \in Shards : Len(queue'[x]) <= Capacity
    <3>1. CASE queue' = queue
      BY <1>1, <3>1
    <3>2. CASE /\ Len(queue[s]) < Capacity
               /\ queue' = [queue EXCEPT ![s] = Append(@, e)]
      BY <1>1, <3>2, QueueStays
    <3> QED BY <2>6, <3>1, <3>2
  <2>8. refused' \subseteq Event
    BY <1>6, <2>2 DEF FlushShard, TypeOK, QueueType
  <2>9. QueueType'
    BY <2>4, <2>7, <2>8 DEF TypeOK, QueueType
  <2> QED BY <1>4, <1>5, <2>5, <2>9 DEF TypeOK
<1>7. CASE ~FlushShard
  <2>1. UNCHANGED <<queue, drops, evicted, producers>> /\ closed' \in [Shards -> BOOLEAN]
    <3>1. CASE StopShard
      BY <1>1, <3>1 DEF StopShard
    <3>2. CASE Flush \/ Shutdown \/ JoinWatchdog \/ JoinWorker
      BY <1>1, <3>2 DEF Flush, Shutdown, JoinWatchdog, JoinWorker, queues
    <3> QED BY <1>7, <3>1, <3>2 DEF Controller, ShutdownStep
  <2>2. QueueType' /\ ProducerType'
    BY <2>1 DEF TypeOK, QueueType, ProducerType, producers
  <2> QED BY <1>4, <1>5, <2>2 DEF TypeOK
<1> QED BY <1>6, <1>7

LEMMA TypeInductive == TypeOK /\ [Next]_vars => TypeOK'
<1> SUFFICES ASSUME TypeOK, [Next]_vars PROVE TypeOK'
  OBVIOUS
<1>1. CASE UNCHANGED vars
  BY <1>1 DEF vars, queues, workers, producers, dog, control,
              TypeOK, QueueType, WorkerType, ProducerType, ControlType
<1>2. CASE Next
  BY <1>2, IngestTyped, RouteTyped, CountDropTyped, WorkerTyped, WatchdogTyped, ControllerTyped
  DEF Next, Producer
<1> QED BY <1>1, <1>2

LEMMA InitTyped == Init => TypeOK
<1> SUFFICES ASSUME Init PROVE TypeOK
  OBVIOUS
<1>1. <<>> \in Seq(Event) /\ <<>> \in Seq(Ingested) /\ Len(<<>>) = 0
  BY EmptySeq
<1>2. QueueType
  BY <1>1, Constants DEF Init, QueueType
<1>3. WorkerType
  <2>1. PICK none \in Seq(Event) : none = <<>> /\ Len(none) = 0
    BY <1>1
  <2>2. busy = [s \in Shards |-> none] /\ done = [s \in Shards |-> none]
    BY <2>1 DEF Init
  <2> QED BY <2>1, <2>2 DEF Init, WorkerType
<1>4. ProducerType
  BY <1>1, Constants DEF Init, ProducerType
<1>5. ControlType
  BY ShardedAssumption, Constants DEF ShardedAssumption, Init, ControlType
<1> QED BY <1>2, <1>3, <1>4, <1>5 DEF TypeOK

\* The variables keep their types: no queue ever exceeds its depth, a thread
\* holds an event exactly in the step that has one, and the watchdog's count of
\* missed beats stays below its limit.
THEOREM TypeCorrect == Spec => []TypeOK
BY InitTyped, TypeInductive, PTL DEF Spec

------------------------------------------------------------------------------
(* Order.                                                                    *)

\* A pop, a finished event and an event put last leave a line in order.
LEMMA LineMoves ==
    ASSUME NEW S, NEW d \in Seq(S), NEW b \in Seq(S), NEW q \in Seq(S), LineInOrder(d, b, q)
    PROVE  /\ q # <<>> => LineInOrder(d, <<Head(q)>>, Tail(q))
           /\ \A e \in S : e \in EventsIn(b) => LineInOrder(Append(d, e), <<>>, q)
           /\ \A f \in S :
                (\A e \in EventsIn(d) \cup EventsIn(b) \cup EventsIn(q) : Before(e, f)) =>
                    /\ LineInOrder(d, b, Append(q, f))
                    /\ q # <<>> => LineInOrder(d, b, Append(Tail(q), f))
<1>1. /\ InSequence(d) /\ InSequence(q)
      /\ AllBefore(d, b) /\ AllBefore(d, q) /\ AllBefore(b, q)
  BY DEF LineInOrder
<1>2. ASSUME q # <<>> PROVE LineInOrder(d, <<Head(q)>>, Tail(q))
  <2>1. PICK h \in S : h = Head(q) /\ h \in EventsIn(q)
    BY <1>2, HeadTailFacts, EventsFacts
  <2>2. EventsIn(<<h>>) = {h} /\ EventsIn(Tail(q)) \subseteq EventsIn(q)
    BY <1>2, EventsFacts
  <2>3. InSequence(Tail(q)) /\ \A e \in EventsIn(Tail(q)) : Before(h, e)
    BY <1>1, <1>2, <2>1, TailInSequence
  <2>4. AllBefore(d, <<h>>) /\ AllBefore(d, Tail(q)) /\ AllBefore(<<h>>, Tail(q))
    BY <1>1, <2>1, <2>2, <2>3 DEF AllBefore
  <2> QED BY <1>1, <2>1, <2>3, <2>4 DEF LineInOrder
<1>3. ASSUME NEW e \in S, e \in EventsIn(b) PROVE LineInOrder(Append(d, e), <<>>, q)
  <2>1. EventsIn(Append(d, e)) = EventsIn(d) \cup {e} /\ EventsIn(<<>>) = {}
    BY EventsFacts
  <2>2. InSequence(Append(d, e))
    BY <1>1, <1>3, AppendInSequence DEF AllBefore
  <2>3. AllBefore(Append(d, e), <<>>) /\ AllBefore(Append(d, e), q) /\ AllBefore(<<>>, q)
    BY <1>1, <1>3, <2>1 DEF AllBefore
  <2> QED BY <1>1, <2>2, <2>3 DEF LineInOrder
<1>4. ASSUME NEW f \in S, NEW r \in Seq(S), EventsIn(r) \subseteq EventsIn(q), InSequence(r),
             \A e \in EventsIn(d) \cup EventsIn(b) \cup EventsIn(q) : Before(e, f)
      PROVE  LineInOrder(d, b, Append(r, f))
  <2>1. EventsIn(Append(r, f)) = EventsIn(r) \cup {f}
    BY EventsFacts
  <2>2. InSequence(Append(r, f))
    BY <1>4, AppendInSequence
  <2>3. AllBefore(d, Append(r, f)) /\ AllBefore(b, Append(r, f))
    BY <1>1, <1>4, <2>1 DEF AllBefore
  <2> QED BY <1>1, <2>2, <2>3 DEF LineInOrder
<1>5. ASSUME q # <<>>
      PROVE  Tail(q) \in Seq(S) /\ EventsIn(Tail(q)) \subseteq EventsIn(q) /\ InSequence(Tail(q))
  BY <1>1, <1>5, HeadTailFacts, EventsFacts, TailInSequence
<1> QED BY <1>1, <1>2, <1>3, <1>4, <1>5

\* f comes after whatever has been settled.
Newest(f) == \A g \in Event : Settled(g) => Before(g, f)

\* What a step may do to one shard: nothing, a Pop, a Finish, or put the newest
\* event into the queue, whose head may have to go.
Stays(s) == queue'[s] = queue[s] /\ busy'[s] = busy[s] /\ done'[s] = done[s]
Pops(s) == /\ queue[s] # <<>> /\ queue'[s] = Tail(queue[s])
           /\ busy'[s] = <<Head(queue[s])>> /\ done'[s] = done[s]
Finishes(s) == \E e \in Event : /\ e \in EventsIn(busy[s])
                                /\ done'[s] = Append(done[s], e)
                                /\ busy'[s] = <<>> /\ queue'[s] = queue[s]
Receives(s, f) == /\ \/ queue'[s] = Append(queue[s], f)
                     \/ queue[s] # <<>> /\ queue'[s] = Append(Tail(queue[s]), f)
                  /\ busy'[s] = busy[s] /\ done'[s] = done[s]
Moves(s) == \/ Stays(s) \/ Pops(s) \/ Finishes(s)
            \/ \E f \in Event : Newest(f) /\ Settled(f)' /\ Receives(s, f)

\* None of these moves disturbs the order of a shard, ...
LEMMA MovesInOrder ==
    ASSUME TypeOK, NEW s \in Shards, ShardInOrder(s), Moves(s),
           \A e \in Event : Settled(e) => Settled(e)'
    PROVE  ShardInOrder(s)'
<1>1. PICK d \in Seq(Event), b \in Seq(Event), q \in Seq(Event) :
          d = done[s] /\ b = busy[s] /\ q = queue[s]
  BY DEF TypeOK, QueueType, WorkerType
<1>2. /\ \A e \in EventsIn(d) \cup EventsIn(b) \cup EventsIn(q) :
             e \in Event /\ Settled(e) /\ Settled(e)'
      /\ LineInOrder(d, b, q)
  BY <1>1, EventsFacts DEF ShardInOrder, Held
<1>n. ASSUME NEW d2 \in Seq(Event), NEW b2 \in Seq(Event), NEW q2 \in Seq(Event),
             done'[s] = d2, busy'[s] = b2, queue'[s] = q2, LineInOrder(d2, b2, q2),
             \A e \in EventsIn(d2) \cup EventsIn(b2) \cup EventsIn(q2) : Settled(e)'
      PROVE  ShardInOrder(s)'
  BY <1>n DEF ShardInOrder, Held, Settled, LineInOrder, InSequence, AllBefore, EventsIn, Before
<1>3. CASE Stays(s)
  <2>1. done'[s] = d /\ busy'[s] = b /\ queue'[s] = q
    BY <1>1, <1>3 DEF Stays
  <2> QED BY <1>2, <1>n, <2>1
<1>4. CASE Pops(s)
  <2>1. done'[s] = d /\ busy'[s] = <<Head(q)>> /\ queue'[s] = Tail(q) /\ q # <<>>
    BY <1>1, <1>4 DEF Pops
  <2>2. LineInOrder(d, <<Head(q)>>, Tail(q))
    BY <1>2, <2>1, LineMoves
  <2>3. PICK h \in Event : h = Head(q) /\ h \in EventsIn(q)
    BY <2>1, HeadTailFacts, EventsFacts
  <2>4. EventsIn(<<h>>) = {h} /\ EventsIn(Tail(q)) \subseteq EventsIn(q)
    BY <2>1, EventsFacts
  <2>5. \A e \in EventsIn(d) \cup EventsIn(<<Head(q)>>) \cup EventsIn(Tail(q)) : Settled(e)'
    BY <1>2, <2>3, <2>4
  <2>6. <<h>> \in Seq(Event) /\ Tail(q) \in Seq(Event)
    BY <2>1, HeadTailFacts, Single
  <2> QED BY <1>n, <2>1, <2>2, <2>3, <2>5, <2>6
<1>5. CASE Finishes(s)
  <2>1. PICK e \in Event : /\ e \in EventsIn(b)
                           /\ done'[s] = Append(d, e) /\ busy'[s] = <<>> /\ queue'[s] = q
    BY <1>1, <1>5 DEF Finishes
  <2>2. LineInOrder(Append(d, e), <<>>, q)
    BY <1>2, <2>1, LineMoves
  <2>3. EventsIn(Append(d, e)) = EventsIn(d) \cup {e} /\ EventsIn(<<>>) = {}
    BY EventsFacts
  <2>4. \A g \in EventsIn(Append(d, e)) \cup EventsIn(<<>>) \cup EventsIn(q) : Settled(g)'
    BY <1>2, <2>1, <2>3
  <2>5. Append(d, e) \in Seq(Event) /\ <<>> \in Seq(Event)
    BY AppendFacts, EmptySeq
  <2> QED BY <1>n, <2>1, <2>2, <2>4, <2>5
<1>6. ASSUME NEW f \in Event, Newest(f), Settled(f)', Receives(s, f) PROVE ShardInOrder(s)'
  <2>1. \A e \in EventsIn(d) \cup EventsIn(b) \cup EventsIn(q) : Before(e, f)
    BY <1>2, <1>6 DEF Newest
  <2>2. PICK r \in Seq(Event) : /\ r = queue'[s] /\ done'[s] = d /\ busy'[s] = b
                                /\ LineInOrder(d, b, r)
                                /\ EventsIn(r) \subseteq EventsIn(q) \cup {f}
    <3>1. CASE queue'[s] = Append(q, f)
      <4>1. LineInOrder(d, b, Append(q, f)) /\ EventsIn(Append(q, f)) = EventsIn(q) \cup {f}
        BY <1>2, <2>1, LineMoves, EventsFacts
      <4>2. Append(q, f) \in Seq(Event)
        BY AppendFacts
      <4> QED BY <1>1, <1>6, <3>1, <4>1, <4>2 DEF Receives
    <3>2. CASE q # <<>> /\ queue'[s] = Append(Tail(q), f)
      <4>1. LineInOrder(d, b, Append(Tail(q), f))
        <5>1. q # <<>>
          BY <3>2
        <5> QED BY <1>2, <2>1, <5>1, LineMoves
      <4>2. Tail(q) \in Seq(Event) /\ EventsIn(Tail(q)) \subseteq EventsIn(q)
        BY <1>1, <3>2, HeadTailFacts, EventsFacts
      <4>3. EventsIn(Append(Tail(q), f)) = EventsIn(Tail(q)) \cup {f}
        <5>1. PICK t \in Seq(Event) : t = Tail(q)
          BY <4>2
        <5>2. EventsIn(Append(t, f)) = EventsIn(t) \cup {f}
          BY EventsFacts
        <5> QED BY <5>1, <5>2
      <4>4. Append(Tail(q), f) \in Seq(Event)
        BY <4>2, AppendFacts
      <4> QED BY <1>1, <1>6, <3>2, <4>1, <4>2, <4>3, <4>4 DEF Receives
    <3> QED BY <1>1, <1>6, <3>1, <3>2 DEF Receives
  <2>3. \A e \in EventsIn(d) \cup EventsIn(b) \cup EventsIn(r) : Settled(e)'
    BY <1>2, <1>6, <2>2
  <2> QED BY <1>n, <2>2, <2>3
<1> QED BY <1>3, <1>4, <1>5, <1>6 DEF Moves

\* ... what is settled stays so, ...
LEMMA SettledStable ==
    ASSUME TypeOK, Next, NEW e \in Event, Settled(e) PROVE Settled(e)'
<1>1. /\ sent \in [Senders -> Nat] /\ ppc \in [Producers -> {"idle", "push", "count"}]
      /\ Senders = Producers \cup {Control} /\ Control \notin Producers
      /\ e.from \in Senders /\ e.num \in Nat
      /\ e.num <= sent[e.from]
      /\ (e.from \in Producers /\ ppc[e.from] = "push") => e.num < sent[e.from]
  BY Constants DEF TypeOK, ProducerType, Senders, Event, Settled
<1>2. ASSUME NEW p \in Producers, NEW k \in Keys, Ingest(p, k) PROVE Settled(e)'
  <2>1. sent' = [sent EXCEPT ![p] = @ + 1] /\ ppc' = [ppc EXCEPT ![p] = "push"]
        /\ ppc[p] = "idle"
    BY <1>2 DEF Ingest
  <2>2. CASE e.from = p
    <3>1. sent'[e.from] = sent[e.from] + 1
      BY <1>1, <2>1, <2>2
    <3> QED BY <1>1, <3>1 DEF Settled
  <2>3. CASE e.from # p
    <3>1. sent'[e.from] = sent[e.from] /\ (e.from \in Producers => ppc'[e.from] = ppc[e.from])
      BY <1>1, <2>1, <2>3
    <3> QED BY <1>1, <3>1 DEF Settled
  <2> QED BY <2>2, <2>3
<1>3. ASSUME NEW p \in Producers, Route(p) \/ CountDrop(p) PROVE Settled(e)'
  <2>1. sent' = sent
    BY <1>3 DEF Route, CountDrop
  <2>2. ppc' = ppc \/ ppc' = [ppc EXCEPT ![p] = "idle"] \/ ppc' = [ppc EXCEPT ![p] = "count"]
    <3>1. CASE CountDrop(p)
      BY <3>1 DEF CountDrop
    <3>2. CASE Route(p)
      <4>1. PICK s : Enqueue(p, s) \/ Refuse(p, s, 0)
        BY <3>2 DEF Route
      <4>2. Push(p, s) \/ PushOut(p, s) \/ Refuse(p, s, 1) \/ Refuse(p, s, 0)
        BY <4>1 DEF Enqueue
      <4> QED BY <4>2 DEF Push, PushOut, Refuse, Accept
    <3> QED BY <1>3, <3>1, <3>2
  <2> QED BY <1>1, <2>1, <2>2 DEF Settled
<1>4. CASE FlushShard
  <2>1. sent' = [sent EXCEPT ![Control] = @ + 1] /\ ppc' = ppc
    BY <1>4 DEF FlushShard
  <2>2. sent'[e.from] \in Nat /\ sent'[e.from] >= sent[e.from]
    BY <1>1, <2>1
  <2> QED BY <1>1, <2>1, <2>2 DEF Settled
<1>5. CASE UNCHANGED producers
  BY <1>1, <1>5 DEF Settled, producers
<1>6. ASSUME NEW s \in Shards, Worker(s) PROVE UNCHANGED producers
  BY <1>6 DEF Worker, TestLoop, Pop, PopTimesOut, Idle, Finish
<1>7. Watchdog => UNCHANGED producers
  BY DEF Watchdog, WakeUp, Check, Restart
<1>8. Controller => FlushShard \/ UNCHANGED producers
  BY DEF Controller, Flush, Shutdown, ShutdownStep, JoinWatchdog, StopShard, JoinWorker
<1> QED BY <1>2, <1>3, <1>4, <1>5, <1>6, <1>7, <1>8 DEF Next, Producer

\* ... and every step makes one of them at each shard.  A producer puts the
\* event in its hand, which is the latest it has ingested, ...
LEMMA RouteMoves ==
    ASSUME TypeOK, HandMatches, NEW p \in Producers, Route(p)
    PROVE  \A s \in Shards : Moves(s)
<1>1. /\ ppc[p] = "push" /\ sent' = sent /\ UNCHANGED <<busy, done>>
      /\ queue \in [Shards -> Seq(Event)]
      /\ ppc \in [Producers -> {"idle", "push", "count"}]
      /\ \A x \in Shards : queue[x] \in Seq(Event)
      /\ ProducerType /\ Capacity \in Nat \ {0}
  BY Constants DEF Route, TypeOK, QueueType, ProducerType, workers
<1>2. PICK f \in Event : f = hand[p][1] /\ f.from = p /\ f.num = sent[p] /\ f.num \in Nat
  BY <1>1, InHand DEF HandMatches, Event
<1>3. Newest(f)
  BY <1>1, <1>2 DEF Newest, Settled, Before
<1>4. PICK t : Enqueue(p, t) \/ Refuse(p, t, 0)
  BY DEF Route
<1>5. CASE Push(p, t) \/ PushOut(p, t)
  <2>1. ppc' = [ppc EXCEPT ![p] = "idle"]
    BY <1>5 DEF Push, PushOut, Accept
  <2>2. Settled(f)'
    BY <1>1, <1>2, <2>1 DEF Settled
  <2>3. \/ queue' = [queue EXCEPT ![t] = Append(@, f)]
        \/ ~(Len(queue[t]) < Capacity) /\ queue' = [queue EXCEPT ![t] = Append(Tail(@), f)]
    BY <1>2, <1>5 DEF Push, PushOut, HasRoom
  <2>4. ASSUME NEW s \in Shards PROVE Moves(s)
    <3>1. CASE s = t
      <4>1. ~(Len(queue[t]) < Capacity) => queue[t] # <<>>
        BY <1>1, EmptySeq
      <4>2. Receives(s, f)
        BY <1>1, <2>3, <3>1, <4>1 DEF Receives
      <4> QED BY <1>3, <2>2, <4>2 DEF Moves
    <3>2. CASE s # t
      BY <1>1, <2>3, <3>2 DEF Moves, Stays
    <3> QED BY <3>1, <3>2
  <2> QED BY <2>4
<1>6. CASE Refuse(p, t, 0) \/ Refuse(p, t, 1)
  BY <1>1, <1>6 DEF Refuse, Moves, Stays
<1> QED BY <1>4, <1>5, <1>6 DEF Enqueue

\* ... flush_pending a new event of its own, ...
LEMMA FlushMoves == ASSUME TypeOK, FlushShard PROVE \A s \in Shards : Moves(s)
<1>1. /\ queue \in [Shards -> Seq(Event)] /\ UNCHANGED <<busy, done>>
      /\ sent \in [Senders -> Nat] /\ sent' = [sent EXCEPT ![Control] = @ + 1]
      /\ Control \in Senders /\ Control \notin Producers
  BY Constants DEF TypeOK, QueueType, ProducerType, FlushShard, workers, Senders
<1>2. FlushEvent \in Event
  BY <1>1 DEF FlushEvent, Event
<1>3. PICK f \in Event : f = FlushEvent /\ f.from = Control /\ f.num = sent[Control] + 1
  BY <1>2 DEF FlushEvent
<1>4. Newest(f)
  BY <1>1, <1>3 DEF Newest, Settled, Before, Event
<1>5. Settled(f)'
  BY <1>1, <1>3 DEF Settled
<1>6. queue' = queue \/ queue' = [queue EXCEPT ![ctl_at] = Append(@, f)]
  BY <1>3 DEF FlushShard
<1>7. ASSUME NEW s \in Shards PROVE Stays(s) \/ Receives(s, f)
  BY <1>1, <1>6 DEF Stays, Receives
<1> QED BY <1>4, <1>5, <1>7 DEF Moves

\* ... a worker pops or finishes, and nobody else touches a shard's events.
LEMMA StepMoves == ASSUME TypeOK, HandMatches, Next PROVE \A s \in Shards : Moves(s)
<1>1. /\ queue \in [Shards -> Seq(Event)] /\ busy \in [Shards -> Seq(Event)]
      /\ done \in [Shards -> Seq(Event)]
      /\ \A s \in Shards : wpc[s] = "ingest" => Len(busy[s]) = 1
  BY DEF TypeOK, QueueType, WorkerType
<1>2. CASE UNCHANGED <<queue, busy, done>>
  BY <1>2 DEF Moves, Stays
<1>3. ASSUME NEW t \in Shards, Worker(t) PROVE \A s \in Shards : Moves(s)
  <2>1. CASE TestLoop(t) \/ PopTimesOut(t) \/ Idle(t)
    BY <1>2, <2>1 DEF TestLoop, PopTimesOut, Idle, queues
  <2>2. CASE Pop(t)
    BY <1>1, <2>2 DEF Pop, Moves, Stays, Pops
  <2>3. CASE Finish(t)
    <3>1. PICK e \in Event : e = busy[t][1] /\ e \in EventsIn(busy[t])
      <4>1. busy[t] \in Seq(Event) /\ 1 \in 1..Len(busy[t])
        BY <1>1, <2>3 DEF Finish
      <4> QED BY <4>1, ElementOfSeq DEF EventsIn
    <3>2. /\ done' = [done EXCEPT ![t] = Append(@, e)] /\ busy' = [busy EXCEPT ![t] = <<>>]
          /\ queue' = queue
      BY <2>3, <3>1 DEF Finish, queues
    <3> QED BY <1>1, <3>1, <3>2 DEF Moves, Stays, Finishes
  <2> QED BY <1>3, <2>1, <2>2, <2>3 DEF Worker
<1>4. CASE Watchdog
  BY <1>2, <1>4 DEF Watchdog, WakeUp, Check, Restart, queues, workers
<1>5. CASE Controller
  <2>1. Controller => FlushShard \/ UNCHANGED <<queue, busy, done>>
    BY DEF Controller, Flush, Shutdown, ShutdownStep, JoinWatchdog, StopShard, JoinWorker,
           queues, workers
  <2> QED BY <1>2, <1>5, <2>1, FlushMoves
<1>6. ASSUME NEW p \in Producers, Producer(p) PROVE \A s \in Shards : Moves(s)
  <2>1. CASE Route(p)
    BY <2>1, RouteMoves
  <2>2. CASE CountDrop(p) \/ \E k \in Keys : Ingest(p, k)
    BY <1>2, <2>2 DEF CountDrop, Ingest, queues, workers
  <2> QED BY <1>6, <2>1, <2>2 DEF Producer
<1> QED BY <1>3, <1>4, <1>5, <1>6 DEF Next

\* A producer's hand holds its latest event.
LEMMA HandStep == ASSUME TypeOK, HandMatches, Next PROVE HandMatches'
<1>1. /\ sent \in [Senders -> Nat] /\ ppc \in [Producers -> {"idle", "push", "count"}]
      /\ hand \in [Producers -> Seq(Ingested)]
      /\ Producers \subseteq Senders /\ Control \notin Producers
  BY Constants DEF TypeOK, ProducerType, Senders
<1>2. ASSUME NEW p \in Producers, NEW k \in Keys, Ingest(p, k) PROVE HandMatches'
  <2>1. PICK e : /\ e = [from |-> p, num |-> sent[p] + 1, key |-> k]
                 /\ hand' = [hand EXCEPT ![p] = <<e>>]
    BY <1>2 DEF Ingest
  <2>2. sent' = [sent EXCEPT ![p] = @ + 1] /\ ppc' = [ppc EXCEPT ![p] = "push"]
    BY <1>2 DEF Ingest
  <2>3. ASSUME NEW q \in Producers, ppc'[q] = "push"
        PROVE  hand'[q][1].from = q /\ hand'[q][1].num = sent'[q]
    <3>1. CASE q = p
      <4>1. hand'[q] = <<e>> /\ sent'[q] = sent[p] + 1
        BY <1>1, <2>1, <2>2, <3>1
      <4> QED BY <2>1, <3>1, <4>1
    <3>2. CASE q # p
      <4>1. hand'[q] = hand[q] /\ sent'[q] = sent[q] /\ ppc[q] = "push"
        BY <1>1, <2>1, <2>2, <2>3, <3>2
      <4> QED BY <4>1 DEF HandMatches
    <3> QED BY <3>1, <3>2
  <2> QED BY <2>3 DEF HandMatches
<1>3. ASSUME NEW p \in Producers, Route(p) PROVE HandMatches'
  <2>1. PICK s : Enqueue(p, s) \/ Refuse(p, s, 0)
    BY <1>3 DEF Route
  <2>2. \/ ppc' = ppc /\ hand' = hand
        \/ /\ ppc' = [ppc EXCEPT ![p] = "idle"] \/ ppc' = [ppc EXCEPT ![p] = "count"]
           /\ hand' = [hand EXCEPT ![p] = <<>>]
    <3>1. Push(p, s) \/ PushOut(p, s) \/ Refuse(p, s, 1) \/ Refuse(p, s, 0)
      BY <2>1 DEF Enqueue
    <3> QED BY <3>1 DEF Push, PushOut, Refuse, Accept
  <2>3. sent' = sent
    BY <1>3 DEF Route
  <2>4. ASSUME NEW q \in Producers, ppc'[q] = "push"
        PROVE  ppc[q] = "push" /\ hand'[q] = hand[q]
    BY <1>1, <2>2, <2>4
  <2> QED BY <2>3, <2>4 DEF HandMatches
<1>4. ASSUME NEW p \in Producers, CountDrop(p) PROVE HandMatches'
  BY <1>1, <1>4 DEF CountDrop, HandMatches
<1>5. CASE FlushShard
  BY <1>1, <1>5 DEF FlushShard, HandMatches
<1>6. CASE UNCHANGED producers
  BY <1>6 DEF HandMatches, producers
<1>7. \A s \in Shards : Worker(s) => UNCHANGED producers
  BY DEF Worker, TestLoop, Pop, PopTimesOut, Idle, Finish
<1>8. Watchdog => UNCHANGED producers
  BY DEF Watchdog, WakeUp, Check, Restart
<1>9. Controller => FlushShard \/ UNCHANGED producers
  BY DEF Controller, Flush, Shutdown, ShutdownStep, JoinWatchdog, StopShard, JoinWorker
<1> QED BY <1>2, <1>3, <1>4, <1>5, <1>6, <1>7, <1>8, <1>9 DEF Next, Producer

LEMMA OrderInductive == OrderInv /\ [Next]_vars => OrderInv'
<1> SUFFICES ASSUME OrderInv, [Next]_vars PROVE OrderInv'
  OBVIOUS
<1>1. TypeOK /\ HandMatches /\ TypeOK'
  BY TypeInductive DEF OrderInv
<1>2. CASE Next
  <2>1. ASSUME NEW s \in Shards PROVE ShardInOrder(s)'
    <3>1. ShardInOrder(s) /\ Moves(s)
      BY <1>1, <1>2, StepMoves DEF OrderInv
    <3>2. \A e \in Event : Settled(e) => Settled(e)'
      BY <1>1, <1>2, SettledStable
    <3> QED BY <1>1, <3>1, <3>2, MovesInOrder
  <2>2. HandMatches'
    BY <1>1, <1>2, HandStep
  <2> QED BY <1>1, <2>1, <2>2 DEF OrderInv
<1>3. CASE UNCHANGED vars
  BY <1>1, <1>3 DEF OrderInv, HandMatches, ShardInOrder, Held, Settled, LineInOrder, InSequence,
                    AllBefore, EventsIn, Before, vars, queues, workers, producers
<1> QED BY <1>2, <1>3

LEMMA InitOrdered == Init => OrderInv
<1> SUFFICES ASSUME Init PROVE OrderInv
  OBVIOUS
<1>1. TypeOK
  BY InitTyped
<1>2. HandMatches
  BY DEF Init, HandMatches
<1>3. ASSUME NEW s \in Shards PROVE ShardInOrder(s)
  <2>1. done[s] = <<>> /\ busy[s] = <<>> /\ queue[s] = <<>>
    BY DEF Init
  <2>2. EventsIn(<<>>) = {} /\ Len(<<>>) = 0
    BY EventsFacts, EmptySeq
  <2> QED BY <2>1, <2>2 DEF ShardInOrder, Held, LineInOrder, InSequence, AllBefore
<1> QED BY <1>1, <1>2, <1>3 DEF OrderInv

\* "one entity -> one shard -> FIFO" (ids_sharded.hpp:88): a shard finishes the
\* events of every sender in the order they were ingested in, each at most once,
\* under every policy and through any restarts of its worker.
THEOREM OrderCorrect == Spec => []EntityOrder
<1>1. OrderInv => EntityOrder
  BY DEF OrderInv, ShardInOrder, LineInOrder, EntityOrder
<1> QED BY <1>1, InitOrdered, OrderInductive, PTL DEF Spec

------------------------------------------------------------------------------
(* Nothing vanishes.                                                         *)

\* Somewhere, place by place: q, b, d what each shard has queued, at work and done,
\* h what the producers hold, r and v what was refused and evicted.
IsAt(e, q, b, d, h, r, v) ==
    \/ \E s \in Shards : e \in EventsIn(q[s]) \/ e \in EventsIn(b[s]) \/ e \in EventsIn(d[s])
    \/ \E p \in Producers : e \in EventsIn(h[p])
    \/ e \in r \/ \E s \in Shards : e \in v[s]

Around(q, b, d, h, r, v) ==
    (UNION {EventsIn(d[s]) \cup EventsIn(b[s]) \cup EventsIn(q[s]) : s \in Shards})
        \cup r \cup (UNION {v[s] : s \in Shards}) \cup (UNION {EventsIn(h[p]) : p \in Producers})

LEMMA Places ==
    ASSUME NEW e
    PROVE  /\ e \in Somewhere <=> IsAt(e, queue, busy, done, hand, refused, evicted)
           /\ e \in Somewhere' <=> IsAt(e, queue', busy', done', hand', refused', evicted')
<1>1. ASSUME NEW q, NEW b, NEW d, NEW h, NEW r, NEW v
      PROVE  e \in Around(q, b, d, h, r, v) <=> IsAt(e, q, b, d, h, r, v)
  <2> DEFINE H(s) == EventsIn(d[s]) \cup EventsIn(b[s]) \cup EventsIn(q[s])
             X == UNION {H(s) : s \in Shards}
             Y == UNION {EventsIn(h[p]) : p \in Producers}
             Z == UNION {v[s] : s \in Shards}
  <2>1. e \in X <=> \E s \in Shards : e \in H(s)
    OBVIOUS
  <2>2. e \in Y <=> \E p \in Producers : e \in EventsIn(h[p])
    OBVIOUS
  <2>3. \A s \in Shards :
          e \in H(s) <=> e \in EventsIn(q[s]) \/ e \in EventsIn(b[s]) \/ e \in EventsIn(d[s])
    OBVIOUS
  <2>4. Around(q, b, d, h, r, v) = X \cup r \cup Z \cup Y
    BY DEF Around
  <2>5. e \in Z <=> \E s \in Shards : e \in v[s]
    OBVIOUS
  <2> HIDE DEF X, Y, Z, H
  <2> QED BY <2>1, <2>2, <2>3, <2>4, <2>5 DEF IsAt
<1>2. Somewhere = Around(queue, busy, done, hand, refused, evicted)
  BY DEF Somewhere, PushedOut, Held, Around
<1>3. Somewhere' = Around(queue', busy', done', hand', refused', evicted')
  BY DEF Somewhere, PushedOut, Held, Around, EventsIn
<1> QED BY <1>1, <1>2, <1>3

\* A queue that is not empty is its head and its tail.
LEMMA HeadAndTail ==
    ASSUME NEW S, NEW s \in Seq(S), s # <<>>
    PROVE  \A e \in EventsIn(s) : e = Head(s) \/ e \in EventsIn(Tail(s))
<1> SUFFICES ASSUME NEW i \in 1..Len(s)
             PROVE  s[i] = Head(s) \/ \E j \in 1..Len(Tail(s)) : s[i] = Tail(s)[j]
  BY DEF EventsIn
<1>1. /\ Len(s) \in Nat \ {0} /\ Head(s) = s[1] /\ Len(Tail(s)) = Len(s) - 1
      /\ \A j \in 1..Len(Tail(s)) : Tail(s)[j] = s[j + 1]
  BY HeadTailFacts
<1>2. CASE i # 1
  <2>1. i - 1 \in 1..Len(Tail(s)) /\ i - 1 + 1 = i
    BY <1>1, <1>2
  <2> QED BY <1>1, <2>1
<1> QED BY <1>1, <1>2

\* A sequence of one event holds just that.
LEMMA OnlyOne ==
    ASSUME NEW S, NEW s \in Seq(S), Len(s) = 1
    PROVE  EventsIn(s) = {s[1]}
BY DEF EventsIn

\* What is in a queue stays there, or is the head that was taken.
LEMMA QueueKeeps ==
    ASSUME NEW q \in Seq(Event), NEW f \in Event
    PROVE  /\ EventsIn(Append(q, f)) = EventsIn(q) \cup {f}
           /\ q # <<>> => /\ f \in EventsIn(Append(Tail(q), f))
                          /\ \A e \in EventsIn(q) :
                                 e = Head(q) \/ e \in EventsIn(Append(Tail(q), f))
<1>1. EventsIn(Append(q, f)) = EventsIn(q) \cup {f}
  BY EventsFacts
<1>2. ASSUME q # <<>>
      PROVE  EventsIn(Append(Tail(q), f)) = EventsIn(Tail(q)) \cup {f}
  <2>1. PICK t \in Seq(Event) : t = Tail(q)
    BY <1>2, HeadTailFacts
  <2>2. EventsIn(Append(t, f)) = EventsIn(t) \cup {f}
    BY EventsFacts
  <2> QED BY <2>1, <2>2
<1> QED BY <1>1, <1>2, HeadAndTail

\* A producer's event leaves its hand for a queue or for refused; Priority may
\* push another out of the queue, into evicted.
LEMMA RouteKeeps ==
    ASSUME TypeOK, NEW p \in Producers, Route(p), NEW e \in Somewhere
    PROVE  e \in Somewhere'
<1>1. /\ ppc[p] = "push" /\ UNCHANGED <<busy, done>>
      /\ queue \in [Shards -> Seq(Event)] /\ hand \in [Producers -> Seq(Ingested)]
      /\ evicted \in [Shards -> SUBSET Event]
      /\ hand[p] \in Seq(Ingested) /\ Len(hand[p]) = 1
      /\ ProducerType /\ Capacity \in Nat \ {0}
      /\ \A s \in Shards : queue[s] \in Seq(Event)
  BY Constants DEF Route, TypeOK, QueueType, ProducerType, workers
<1>2. PICK f \in Event : f = hand[p][1] /\ EventsIn(hand[p]) = {f} /\ f.key \in Keys
  <2>1. hand[p][1] \in Event /\ hand[p][1].key \in Keys
    BY <1>1, InHand DEF Ingested
  <2> QED BY <1>1, <2>1, OnlyOne
<1>3. PICK t \in Shards : Enqueue(p, t) \/ Refuse(p, t, 0)
  <2>1. ShardOf[hand[p][1].key] \in Shards
    BY <1>2, Constants
  <2> QED BY <2>1 DEF Route
<1>4. Push(p, t) \/ PushOut(p, t) \/ Refuse(p, t, 0) \/ Refuse(p, t, 1)
  BY <1>3 DEF Enqueue
<1>5. /\ hand' = [hand EXCEPT ![p] = <<>>]
      /\ refused \subseteq refused' /\ \A s \in Shards : evicted[s] \subseteq evicted'[s]
  BY <1>1, <1>4 DEF Push, PushOut, Refuse, Accept
<1>6. \A q \in Producers : q # p => hand'[q] = hand[q]
  BY <1>1, <1>5
<1>7. \/ f \in refused' \/ \E s \in Shards : f \in EventsIn(queue'[s])
  <2>1. CASE Push(p, t)
    <3>1. queue'[t] = Append(queue[t], f)
      BY <1>1, <1>2, <2>1 DEF Push
    <3>2. EventsIn(Append(queue[t], f)) = EventsIn(queue[t]) \cup {f}
      BY <1>1, QueueKeeps
    <3> QED BY <3>1, <3>2
  <2>2. CASE PushOut(p, t)
    <3>1. queue'[t] = Append(Tail(queue[t]), f) /\ ~(Len(queue[t]) < Capacity)
      BY <1>1, <1>2, <2>2 DEF PushOut, HasRoom
    <3>2. queue[t] # <<>>
      BY <1>1, <3>1, EmptySeq
    <3> QED BY <1>1, <3>1, <3>2, QueueKeeps
  <2>3. CASE Refuse(p, t, 0) \/ Refuse(p, t, 1)
    BY <1>2, <2>3 DEF Refuse
  <2> QED BY <1>4, <2>1, <2>2, <2>3
<1>8. ASSUME NEW s \in Shards, e \in EventsIn(queue[s])
      PROVE  e \in EventsIn(queue'[s]) \/ e \in evicted'[s]
  <2>1. CASE Push(p, t)
    <3>1. queue'[s] = queue[s] \/ queue'[s] = Append(queue[s], f)
      BY <1>1, <1>2, <2>1 DEF Push
    <3>2. EventsIn(Append(queue[s], f)) = EventsIn(queue[s]) \cup {f}
      BY <1>1, QueueKeeps
    <3> QED BY <1>8, <3>1, <3>2
  <2>2. CASE PushOut(p, t)
    <3>1. /\ ~(Len(queue[t]) < Capacity) /\ evicted' = [evicted EXCEPT ![t] = @ \cup {Head(queue[t])}]
          /\ queue' = [queue EXCEPT ![t] = Append(Tail(@), f)]
      BY <1>2, <2>2 DEF PushOut, HasRoom
    <3>2. CASE s = t
      <4>1. queue[s] # <<>> /\ queue'[s] = Append(Tail(queue[s]), f)
        BY <1>1, <3>1, <3>2, EmptySeq
      <4>2. e = Head(queue[s]) \/ e \in EventsIn(queue'[s])
        BY <1>1, <1>8, <4>1, QueueKeeps
      <4> QED BY <1>1, <3>1, <3>2, <4>2
    <3>3. CASE s # t
      BY <1>1, <1>8, <3>1, <3>3
    <3> QED BY <3>2, <3>3
  <2>3. CASE Refuse(p, t, 0) \/ Refuse(p, t, 1)
    BY <1>8, <2>3 DEF Refuse
  <2> QED BY <1>4, <2>1, <2>2, <2>3
<1>9. CASE \E s \in Shards : e \in EventsIn(queue[s])
  BY <1>8, <1>9, Places DEF IsAt
<1>10. CASE \E q \in Producers : e \in EventsIn(hand[q])
  <2>1. PICK q \in Producers : e \in EventsIn(hand[q])
    BY <1>10
  <2>2. CASE q = p
    <3>1. e = f
      BY <1>2, <2>1, <2>2
    <3> QED BY <1>7, <3>1, Places DEF IsAt
  <2>3. CASE q # p
    BY <1>6, <2>1, <2>3, Places DEF IsAt
  <2> QED BY <2>2, <2>3
<1>11. CASE \/ e \in refused
            \/ \E s \in Shards : \/ e \in EventsIn(busy[s]) \/ e \in EventsIn(done[s])
                                 \/ e \in evicted[s]
  BY <1>1, <1>5, <1>11, Places DEF IsAt
<1> QED BY <1>9, <1>10, <1>11, Places DEF IsAt

\* A worker's event goes from its queue into its hands and from there to done.
LEMMA WorkerKeeps ==
    ASSUME TypeOK, NEW t \in Shards, Worker(t), NEW e \in Somewhere
    PROVE  e \in Somewhere'
<1>1. /\ queue \in [Shards -> Seq(Event)] /\ busy \in [Shards -> Seq(Event)]
      /\ done \in [Shards -> Seq(Event)]
      /\ \A s \in Shards : /\ queue[s] \in Seq(Event) /\ done[s] \in Seq(Event)
                           /\ busy[s] \in Seq(Event)
                           /\ Len(busy[s]) = IF wpc[s] = "ingest" THEN 1 ELSE 0
  BY DEF TypeOK, QueueType, WorkerType
<1>2. UNCHANGED <<hand, refused, evicted>>
  BY DEF Worker, TestLoop, Pop, PopTimesOut, Idle, Finish, producers, queues
<1>3. CASE UNCHANGED <<queue, busy, done>>
  BY <1>2, <1>3, Places DEF IsAt
<1>4. ASSUME NEW s \in Shards,
             \/ e \in EventsIn(queue[s]) \/ e \in EventsIn(busy[s]) \/ e \in EventsIn(done[s]),
             Pop(t) \/ Finish(t)
      PROVE  \/ e \in EventsIn(queue'[s]) \/ e \in EventsIn(busy'[s]) \/ e \in EventsIn(done'[s])
  <2>1. CASE s # t
    <3>1. queue'[s] = queue[s] /\ busy'[s] = busy[s] /\ done'[s] = done[s]
      BY <1>1, <1>4, <2>1 DEF Pop, Finish, queues
    <3> QED BY <1>4, <3>1
  <2>2. CASE s = t /\ Pop(t)
    <3>1. /\ queue[s] # <<>> /\ queue'[s] = Tail(queue[s]) /\ busy'[s] = <<Head(queue[s])>>
          /\ done'[s] = done[s] /\ Len(busy[s]) = 0
      BY <1>1, <2>2 DEF Pop
    <3>2. EventsIn(busy[s]) = {} /\ Head(queue[s]) \in Event
      BY <1>1, <3>1, HeadTailFacts DEF EventsIn
    <3>3. Head(queue[s]) \in EventsIn(busy'[s])
      BY <1>1, <3>1, <3>2, EventsFacts
    <3>4. e \in EventsIn(queue[s]) => e = Head(queue[s]) \/ e \in EventsIn(queue'[s])
      BY <1>1, <3>1, HeadAndTail
    <3> QED BY <1>4, <3>1, <3>2, <3>3, <3>4
  <2>3. CASE s = t /\ Finish(t)
    <3>1. Len(busy[s]) = 1 /\ queue'[s] = queue[s] /\ done'[s] = Append(done[s], busy[s][1])
      BY <1>1, <2>3 DEF Finish, queues
    <3>2. busy[s][1] \in Event /\ EventsIn(busy[s]) = {busy[s][1]}
      BY <1>1, <3>1, ElementOfSeq, OnlyOne
    <3>3. EventsIn(done'[s]) = EventsIn(done[s]) \cup {busy[s][1]}
      BY <1>1, <3>1, <3>2, EventsFacts
    <3> QED BY <1>4, <3>1, <3>2, <3>3
  <2> QED BY <1>4, <2>1, <2>2, <2>3
<1>5. CASE Pop(t) \/ Finish(t)
  <2>1. CASE \E s \in Shards : \/ e \in EventsIn(queue[s]) \/ e \in EventsIn(busy[s])
                               \/ e \in EventsIn(done[s])
    BY <1>4, <1>5, <2>1, Places DEF IsAt
  <2>2. CASE e \in refused \/ (\E s \in Shards : e \in evicted[s]) \/ \E p \in Producers : e \in EventsIn(hand[p])
    BY <1>2, <2>2, Places DEF IsAt
  <2> QED BY <2>1, <2>2, Places DEF IsAt
<1>6. TestLoop(t) \/ PopTimesOut(t) \/ Idle(t) => UNCHANGED <<queue, busy, done>>
  BY DEF TestLoop, PopTimesOut, Idle, queues
<1> QED BY <1>3, <1>5, <1>6 DEF Worker

\* ingest takes its event into its hand, which was empty.
LEMMA IngestTakes ==
    ASSUME TypeOK, NEW p \in Producers, NEW k \in Keys, Ingest(p, k)
    PROVE  /\ \A e \in Somewhere : e \in Somewhere'
           /\ IsIn(p, sent'[p], Somewhere')
<1>1. PICK e \in Ingested : /\ e = [from |-> p, num |-> sent[p] + 1, key |-> k]
                            /\ hand' = [hand EXCEPT ![p] = <<e>>]
  <2>1. [from |-> p, num |-> sent[p] + 1, key |-> k] \in Ingested
    BY DEF Ingested, TypeOK, ProducerType, Senders
  <2> QED BY <2>1 DEF Ingest
<1>2. /\ hand \in [Producers -> Seq(Ingested)] /\ hand[p] \in Seq(Ingested) /\ Len(hand[p]) = 0
      /\ sent \in [Senders -> Nat] /\ p \in Senders /\ sent' = [sent EXCEPT ![p] = @ + 1]
      /\ UNCHANGED <<queue, busy, done, refused, evicted>>
  BY DEF Ingest, TypeOK, ProducerType, Senders, queues, workers
<1>3. EventsIn(hand[p]) = {}
  BY <1>2 DEF EventsIn
<1>4. hand'[p] = <<e>> /\ \A q \in Producers : q # p => hand'[q] = hand[q]
  BY <1>1, <1>2
<1>5. e \in EventsIn(hand'[p])
  BY <1>4, Single DEF EventsIn
<1>6. e \in Somewhere'
  BY <1>5, Places DEF IsAt
<1>7. ASSUME NEW g \in Somewhere PROVE g \in Somewhere'
  <2>1. CASE \E q \in Producers : g \in EventsIn(hand[q])
    BY <1>3, <1>4, <2>1, Places DEF IsAt
  <2>2. CASE ~ \E q \in Producers : g \in EventsIn(hand[q])
    BY <1>2, <2>2, Places DEF IsAt
  <2> QED BY <2>1, <2>2
<1>8. e.from = p /\ e.num = sent'[p]
  BY <1>1, <1>2
<1> QED BY <1>6, <1>7, <1>8 DEF IsIn

\* flush_pending offers its event to a queue, or has it refused.
LEMMA FlushTakes ==
    ASSUME TypeOK, FlushShard
    PROVE  /\ \A e \in Somewhere : e \in Somewhere'
           /\ IsIn(Control, sent'[Control], Somewhere')
<1>1. /\ queue \in [Shards -> Seq(Event)] /\ UNCHANGED <<busy, done, hand, evicted>>
      /\ sent \in [Senders -> Nat] /\ sent' = [sent EXCEPT ![Control] = @ + 1]
      /\ Control \in Senders /\ ctl_at \in Shards /\ refused \subseteq refused'
      /\ \A s \in Shards : queue[s] \in Seq(Event)
  BY DEF TypeOK, QueueType, ProducerType, ControlType, FlushShard, workers, Senders
<1>2. FlushEvent \in Event
  BY <1>1 DEF FlushEvent, Event
<1>3. PICK f \in Event : f = FlushEvent /\ f.from = Control /\ f.num = sent'[Control]
  BY <1>1, <1>2 DEF FlushEvent
<1>4. \/ queue' = queue /\ f \in refused'
      \/ queue' = [queue EXCEPT ![ctl_at] = Append(@, f)]
  BY <1>3 DEF FlushShard
<1>5. f \in refused' \/ f \in EventsIn(queue'[ctl_at])
  <2>1. CASE queue' = [queue EXCEPT ![ctl_at] = Append(@, f)]
    BY <1>1, <2>1, QueueKeeps
  <2> QED BY <1>4, <2>1
<1>6. f \in Somewhere'
  BY <1>1, <1>5, Places DEF IsAt
<1>7. \A s \in Shards : EventsIn(queue[s]) \subseteq EventsIn(queue'[s])
  <2> SUFFICES ASSUME NEW s \in Shards PROVE EventsIn(queue[s]) \subseteq EventsIn(queue'[s])
    OBVIOUS
  <2>1. queue'[s] = queue[s] \/ queue'[s] = Append(queue[s], f)
    BY <1>1, <1>4
  <2>2. EventsIn(Append(queue[s], f)) = EventsIn(queue[s]) \cup {f}
    BY <1>1, QueueKeeps
  <2> QED BY <2>1, <2>2
<1>8. ASSUME NEW g \in Somewhere PROVE g \in Somewhere'
  <2>1. CASE \E s \in Shards : g \in EventsIn(queue[s])
    BY <1>7, <2>1, Places DEF IsAt
  <2>2. CASE ~ \E s \in Shards : g \in EventsIn(queue[s])
    BY <1>1, <2>2, Places DEF IsAt
  <2> QED BY <2>1, <2>2
<1> QED BY <1>3, <1>6, <1>8 DEF IsIn

\* Every event that has been taken is somewhere, and stays so.
LEMMA VanishStep == ASSUME TypeOK, NothingVanishes, [Next]_vars PROVE NothingVanishes'
<1>1. sent \in [Senders -> Nat] /\ Control \in Senders /\ Producers \subseteq Senders
  BY DEF TypeOK, ProducerType, Senders
<1>2. ASSUME \A e \in Somewhere : e \in Somewhere', sent' = sent PROVE NothingVanishes'
  <2>1. \A from, num : IsIn(from, num, Somewhere) => IsIn(from, num, Somewhere')
    BY <1>2 DEF IsIn
  <2>2. ASSUME NEW f \in Senders, NEW n \in 1..sent'[f] PROVE IsIn(f, n, Somewhere')
    BY <1>2, <2>1, <2>2 DEF NothingVanishes
  <2> QED BY <2>2 DEF NothingVanishes, IsIn
<1>3. ASSUME \A e \in Somewhere : e \in Somewhere', NEW x \in Senders,
             sent' = [sent EXCEPT ![x] = @ + 1], IsIn(x, sent'[x], Somewhere')
      PROVE  NothingVanishes'
  <2>1. \A from, num : IsIn(from, num, Somewhere) => IsIn(from, num, Somewhere')
    BY <1>3 DEF IsIn
  <2>2. ASSUME NEW f \in Senders, NEW n \in 1..sent'[f] PROVE IsIn(f, n, Somewhere')
    <3>1. n \in 1..sent[f] \/ (f = x /\ n = sent'[x])
      BY <1>1, <1>3
    <3> QED BY <1>3, <2>1, <3>1 DEF NothingVanishes
  <2> QED BY <2>2 DEF NothingVanishes, IsIn
<1>4. ASSUME NEW p \in Producers, Producer(p) PROVE NothingVanishes'
  <2>1. CASE Route(p)
    <3>1. sent' = sent
      BY <2>1 DEF Route
    <3> QED BY <1>2, <2>1, <3>1, RouteKeeps
  <2>2. ASSUME NEW k \in Keys, Ingest(p, k) PROVE NothingVanishes'
    <3>1. sent' = [sent EXCEPT ![p] = @ + 1] /\ p \in Senders
      BY <1>1, <2>2 DEF Ingest
    <3> QED BY <1>3, <2>2, <3>1, IngestTakes
  <2>3. CASE CountDrop(p)
    <3>1. UNCHANGED <<queue, busy, done, hand, refused, evicted, sent>>
      BY <2>3 DEF CountDrop, queues, workers
    <3>2. \A e \in Somewhere : e \in Somewhere'
      BY <3>1, Places DEF IsAt
    <3> QED BY <1>2, <3>1, <3>2
  <2> QED BY <1>4, <2>1, <2>2, <2>3 DEF Producer
<1>5. ASSUME NEW s \in Shards, Worker(s) PROVE NothingVanishes'
  <2>1. sent' = sent
    BY <1>5 DEF Worker, TestLoop, Pop, PopTimesOut, Idle, Finish, producers
  <2> QED BY <1>2, <1>5, <2>1, WorkerKeeps
<1>6. CASE FlushShard
  <2>1. sent' = [sent EXCEPT ![Control] = @ + 1]
    BY <1>6 DEF FlushShard
  <2> QED BY <1>1, <1>3, <1>6, <2>1, FlushTakes
<1>7. CASE UNCHANGED <<queue, busy, done, hand, refused, evicted, sent>>
  <2>1. \A e \in Somewhere : e \in Somewhere'
    BY <1>7, Places DEF IsAt
  <2> QED BY <1>2, <1>7, <2>1
<1>8. Watchdog => UNCHANGED <<queue, busy, done, hand, refused, evicted, sent>>
  BY DEF Watchdog, WakeUp, Check, Restart, queues, workers, producers
<1>9. Controller => FlushShard \/ UNCHANGED <<queue, busy, done, hand, refused, evicted, sent>>
  BY DEF Controller, Flush, Shutdown, ShutdownStep, JoinWatchdog, StopShard, JoinWorker,
         queues, workers, producers
<1>10. UNCHANGED vars => UNCHANGED <<queue, busy, done, hand, refused, evicted, sent>>
  BY DEF vars, queues, workers, producers
<1> QED BY <1>4, <1>5, <1>6, <1>7, <1>8, <1>9, <1>10 DEF Next

\* Whatever the policy, and whoever is restarted or shut down in between, an event
\* that ingest (ids_sharded.hpp:161) or flush_pending (:220) has taken is at a shard,
\* finished, refused, pushed out or still in its producer's hand.
THEOREM EventsDoNotVanish == Spec => []NothingVanishes
<1>1. Init => NothingVanishes
  BY DEF Init, NothingVanishes
<1>2. TypeOK /\ NothingVanishes /\ [Next]_vars => NothingVanishes'
  BY VanishStep
<1> QED BY <1>1, <1>2, TypeCorrect, PTL DEF Spec
------------------------------------------------------------------------------
(* The counters.  A counter is right because what it counts is counted once: *)
(* an event is refused, or pushed out, at most once in its life.             *)

Counting == {p \in Producers : ppc[p] = "count"}

\* What has been refused or pushed out is settled, so no producer can have it
\* refused again, and what has been pushed out is in no queue any more.
CountInv ==
    /\ OrderInv
    /\ IsFiniteSet(Counting) /\ IsFiniteSet(refused)
    /\ \A e \in refused : Settled(e)
    /\ \A s \in Shards : /\ IsFiniteSet(evicted[s])
                         /\ \A e \in evicted[s] : Settled(e) /\ e \notin EventsIn(queue[s])
    /\ DropsReported

\* One more event in a finite set.
LEMMA OneMore ==
    ASSUME NEW S, IsFiniteSet(S), NEW x, x \notin S
    PROVE  /\ IsFiniteSet(S \cup {x}) /\ Cardinality(S \cup {x}) = Cardinality(S) + 1
           /\ Cardinality(S) \in Nat
BY FS_AddElement, FS_CardinalityType

LEMMA OneLess ==
    ASSUME NEW S, IsFiniteSet(S), NEW x \in S
    PROVE  /\ IsFiniteSet(S \ {x}) /\ Cardinality(S \ {x}) = Cardinality(S) - 1
           /\ Cardinality(S) \in Nat
BY FS_RemoveElement, FS_CardinalityType

\* The sets the counters count are finite.
LEMMA FiniteCounts ==
    ASSUME CountInv
    PROVE  /\ IsFiniteSet(TurnedAway) /\ Cardinality(TurnedAway) \in Nat
           /\ Cardinality(Counting) \in Nat
           /\ \A s \in Shards : /\ IsFiniteSet(TurnedAwayAt(s))
                                /\ Cardinality(TurnedAwayAt(s)) \in Nat
                                /\ Cardinality(evicted[s]) \in Nat
<1>1. IsFiniteSet(refused) /\ IsFiniteSet(Counting) /\ \A s \in Shards : IsFiniteSet(evicted[s])
  BY DEF CountInv
<1>2. TurnedAway \in SUBSET refused /\ \A s \in Shards : TurnedAwayAt(s) \in SUBSET refused
  BY DEF TurnedAway, TurnedAwayAt
<1>3. IsFiniteSet(TurnedAway) /\ \A s \in Shards : IsFiniteSet(TurnedAwayAt(s))
  BY <1>1, <1>2, FS_Subset
<1> QED BY <1>1, <1>3, FS_CardinalityType

\* The head of a queue is in it once.
LEMMA HeadIsOnce ==
    ASSUME NEW q \in Seq(Event), q # <<>>, InSequence(q)
    PROVE  /\ Head(q) \in Event /\ Head(q) \in EventsIn(q) /\ Head(q) \notin EventsIn(Tail(q))
           /\ EventsIn(Tail(q)) \subseteq EventsIn(q)
<1>1. Head(q) \in Event /\ Head(q) \in EventsIn(q) /\ EventsIn(Tail(q)) \subseteq EventsIn(q)
  BY HeadTailFacts, EventsFacts
<1>2. \A e \in EventsIn(Tail(q)) : Before(Head(q), e)
  BY TailInSequence
<1>3. ~ Before(Head(q), Head(q))
  BY <1>1 DEF Before, Event
<1> QED BY <1>1, <1>2, <1>3

\* An event more in refused is counted once, at the shard of its key, unless it
\* is one of flush_pending.
LEMMA RefusalCounts ==
    ASSUME CountInv, NEW f, f \notin refused, refused' = refused \cup {f}
    PROVE  /\ IsFiniteSet(refused')
           /\ f.from = Control =>
                 TurnedAway' = TurnedAway /\ \A s \in Shards : TurnedAwayAt(s)' = TurnedAwayAt(s)
           /\ f.from # Control =>
                 /\ Cardinality(TurnedAway') = Cardinality(TurnedAway) + 1
                 /\ \A s \in Shards :
                       IF ShardOf[f.key] = s
                       THEN Cardinality(TurnedAwayAt(s)') = Cardinality(TurnedAwayAt(s)) + 1
                       ELSE TurnedAwayAt(s)' = TurnedAwayAt(s)
<1>1. IsFiniteSet(refused')
  BY OneMore DEF CountInv
<1>2. ASSUME f.from = Control
      PROVE  TurnedAway' = TurnedAway /\ \A s \in Shards : TurnedAwayAt(s)' = TurnedAwayAt(s)
  BY <1>2 DEF TurnedAway, TurnedAwayAt
<1>3. ASSUME f.from # Control
      PROVE  /\ Cardinality(TurnedAway') = Cardinality(TurnedAway) + 1
             /\ \A s \in Shards :
                   IF ShardOf[f.key] = s
                   THEN Cardinality(TurnedAwayAt(s)') = Cardinality(TurnedAwayAt(s)) + 1
                   ELSE TurnedAwayAt(s)' = TurnedAwayAt(s)
  <2>1. TurnedAway' = TurnedAway \cup {f} /\ f \notin TurnedAway
    BY <1>3 DEF TurnedAway
  <2>2. Cardinality(TurnedAway') = Cardinality(TurnedAway) + 1
    BY <2>1, OneMore, FiniteCounts
  <2>3. ASSUME NEW s \in Shards, ShardOf[f.key] = s
        PROVE  Cardinality(TurnedAwayAt(s)') = Cardinality(TurnedAwayAt(s)) + 1
    <3>1. TurnedAwayAt(s)' = TurnedAwayAt(s) \cup {f} /\ f \notin TurnedAwayAt(s)
      BY <2>1, <2>3 DEF TurnedAwayAt
    <3> QED BY <3>1, OneMore, FiniteCounts
  <2>4. ASSUME NEW s \in Shards, ShardOf[f.key] # s PROVE TurnedAwayAt(s)' = TurnedAwayAt(s)
    BY <2>1, <2>4 DEF TurnedAwayAt
  <2> QED BY <2>2, <2>3, <2>4
<1> QED BY <1>1, <1>2, <1>3

\* A step that neither counts nor refuses nor pushes out, and puts at most a new
\* event into a queue, leaves every counter right.
LEMMA NothingToCount ==
    ASSUME CountInv, OrderInv', \A e \in Event : Settled(e) => Settled(e)',
           UNCHANGED <<drops, total_dropped, refused, evicted, policy>>, Counting' = Counting,
           \A s \in Shards : \A e \in EventsIn(queue'[s]) : e \in EventsIn(queue[s]) \/ ~Settled(e)
    PROVE  CountInv'
<1>1. refused \subseteq Event /\ \A s \in Shards : evicted[s] \subseteq Event
  BY DEF CountInv, OrderInv, TypeOK, QueueType
<1>2. DropsReported'
  BY DEF CountInv, DropsReported, TurnedAway, TurnedAwayAt, Counting
<1>3. \A e \in refused' : Settled(e)'
  BY <1>1 DEF CountInv
<1>4. ASSUME NEW s \in Shards, NEW e \in evicted'[s]
      PROVE  Settled(e)' /\ e \notin EventsIn(queue'[s])
  BY <1>1, <1>4 DEF CountInv
<1> QED BY <1>2, <1>3, <1>4 DEF CountInv
\* ingest hands over an event that nobody has seen: to the queue, whose oldest may
\* be pushed out and counted, or back to the caller, counted at once or afterwards.
LEMMA RouteCounts ==
    ASSUME CountInv, OrderInv', NEW p \in Producers, Route(p),
           \A e \in Event : Settled(e) => Settled(e)'
    PROVE  CountInv'
<1>1. /\ ppc[p] = "push" /\ UNCHANGED <<policy, sent, total_dropped>>
      /\ ppc \in [Producers -> {"idle", "push", "count"}]
      /\ queue \in [Shards -> Seq(Event)] /\ drops \in [Shards -> Nat]
      /\ evicted \in [Shards -> SUBSET Event] /\ refused \subseteq Event
      /\ Capacity \in Nat \ {0} /\ ProducerType /\ HandMatches /\ Control \notin Producers
      /\ \A s \in Shards : /\ queue[s] \in Seq(Event) /\ InSequence(queue[s])
                           /\ \A e \in EventsIn(queue[s]) : Settled(e)
  BY Constants DEF Route, CountInv, OrderInv, TypeOK, QueueType, ProducerType, ShardInOrder,
                   LineInOrder, Held
<1>2. PICK f \in Event : f = hand[p][1] /\ f.from = p /\ f.num = sent[p] /\ f.key \in Keys
  BY <1>1, InHand DEF HandMatches, Ingested
<1>3. ~Settled(f)
  BY <1>1, <1>2 DEF Settled, Event
<1>4. f \notin refused /\ \A s \in Shards : f \notin evicted[s] /\ f \notin EventsIn(queue[s])
  BY <1>1, <1>3 DEF CountInv
<1>5. PICK t \in Shards : /\ t = ShardOf[f.key]
                          /\ \/ Push(p, t)
                             \/ policy = "Priority" /\ PushOut(p, t)
                             \/ policy = "Priority" /\ Refuse(p, t, 1)
                             \/ policy # "Priority" /\ Refuse(p, t, 0)
  <2>1. ShardOf[f.key] \in Shards
    BY <1>2, Constants
  <2> QED BY <1>2, <2>1 DEF Route, Enqueue
<1>6. CASE Push(p, t)
  <2>1. /\ queue' = [queue EXCEPT ![t] = Append(@, f)]
        /\ ppc' = [ppc EXCEPT ![p] = "idle"] /\ UNCHANGED <<drops, evicted, refused>>
    BY <1>2, <1>6 DEF Push, Accept
  <2>2. Counting' = Counting
    BY <1>1, <2>1 DEF Counting
  <2>3. ASSUME NEW s \in Shards, NEW e \in EventsIn(queue'[s])
        PROVE  e \in EventsIn(queue[s]) \/ ~Settled(e)
    <3>1. queue'[s] = queue[s] \/ queue'[s] = Append(queue[s], f)
      BY <1>1, <2>1
    <3>2. EventsIn(Append(queue[s], f)) = EventsIn(queue[s]) \cup {f}
      BY <1>1, EventsFacts
    <3> QED BY <1>3, <2>3, <3>1, <3>2
  <2> QED BY <1>1, <2>1, <2>2, <2>3, NothingToCount
<1>7. CASE policy = "Priority" /\ PushOut(p, t)
  <2>1. /\ queue' = [queue EXCEPT ![t] = Append(Tail(@), f)] /\ ~(Len(queue[t]) < Capacity)
        /\ ppc' = [ppc EXCEPT ![p] = "idle"] /\ refused' = refused
        /\ drops' = [drops EXCEPT ![t] = @ + 1]
        /\ evicted' = [evicted EXCEPT ![t] = @ \cup {Head(queue[t])}]
    BY <1>2, <1>7 DEF PushOut, Accept, HasRoom
  <2>2. Counting' = Counting
    BY <1>1, <2>1 DEF Counting
  <2>3. queue[t] # <<>>
    BY <1>1, <2>1, EmptySeq
  <2>4. PICK h \in Event : /\ h = Head(queue[t]) /\ h \in EventsIn(queue[t])
                           /\ h \notin EventsIn(Tail(queue[t]))
                           /\ EventsIn(Tail(queue[t])) \subseteq EventsIn(queue[t])
    BY <1>1, <2>3, HeadIsOnce
  <2>5. Settled(h) /\ h # f /\ h \notin evicted[t]
    BY <1>1, <1>3, <2>4 DEF CountInv
  <2>6. EventsIn(queue'[t]) = EventsIn(Tail(queue[t])) \cup {f}
    <3>1. PICK rest \in Seq(Event) : rest = Tail(queue[t])
      BY <1>1, <2>3, HeadTailFacts
    <3>2. EventsIn(Append(rest, f)) = EventsIn(rest) \cup {f}
      BY EventsFacts
    <3> QED BY <1>1, <2>1, <3>1, <3>2
  <2>7. /\ evicted'[t] = evicted[t] \cup {h} /\ drops'[t] = drops[t] + 1
        /\ \A s \in Shards : s # t => /\ queue'[s] = queue[s] /\ evicted'[s] = evicted[s]
                                      /\ drops'[s] = drops[s]
    BY <1>1, <2>1, <2>4
  <2>8. /\ IsFiniteSet(evicted'[t]) /\ Cardinality(evicted'[t]) = Cardinality(evicted[t]) + 1
        /\ Cardinality(evicted[t]) \in Nat /\ Cardinality(TurnedAwayAt(t)) \in Nat
    <3>1. IsFiniteSet(evicted[t])
      BY DEF CountInv
    <3> QED BY <2>5, <2>7, <3>1, OneMore, FiniteCounts
  <2>9. TurnedAway' = TurnedAway /\ \A s \in Shards : TurnedAwayAt(s)' = TurnedAwayAt(s)
    BY <2>1 DEF TurnedAway, TurnedAwayAt
  <2>10. ASSUME NEW s \in Shards
         PROVE  drops'[s] = IF policy' = "Priority"
                            THEN Cardinality(TurnedAwayAt(s)') + Cardinality(evicted'[s]) ELSE 0
    <3>1. drops[s] = Cardinality(TurnedAwayAt(s)) + Cardinality(evicted[s])
      BY <1>7 DEF CountInv, DropsReported
    <3>2. policy' = "Priority" /\ TurnedAwayAt(s)' = TurnedAwayAt(s)
      BY <1>1, <1>7, <2>9
    <3>3. CASE s = t
      <4>1. drops'[s] = drops[s] + 1 /\ Cardinality(evicted'[s]) = Cardinality(evicted[s]) + 1
        BY <2>7, <2>8, <3>3
      <4>2. Cardinality(evicted[s]) \in Nat /\ Cardinality(TurnedAwayAt(s)) \in Nat
        BY <2>8, <3>3
      <4> QED BY <3>1, <3>2, <4>1, <4>2
    <3>4. CASE s # t
      <4>1. drops'[s] = drops[s] /\ evicted'[s] = evicted[s]
        BY <2>7, <3>4
      <4> QED BY <3>1, <3>2, <4>1
    <3> QED BY <3>3, <3>4
  <2>11. DropsReported'
    <3>1. total_dropped' + Cardinality(Counting') = Cardinality(TurnedAway')
      BY <1>1, <2>2, <2>9 DEF CountInv, DropsReported, Counting
    <3> QED BY <2>10, <3>1 DEF DropsReported, Counting
  <2>12. ASSUME NEW s \in Shards
         PROVE  /\ IsFiniteSet(evicted'[s])
                /\ \A e \in evicted'[s] : Settled(e)' /\ e \notin EventsIn(queue'[s])
    <3>1. /\ IsFiniteSet(evicted[s])
          /\ \A e \in evicted[s] : Settled(e)' /\ e \notin EventsIn(queue[s]) /\ e # f
      BY <1>1, <1>4 DEF CountInv
    <3>2. CASE s = t
      BY <2>4, <2>5, <2>6, <2>7, <2>8, <3>1, <3>2
    <3>3. CASE s # t
      BY <2>7, <3>1, <3>3
    <3> QED BY <3>2, <3>3
  <2>13. \A e \in refused' : Settled(e)'
    BY <1>1, <2>1 DEF CountInv
  <2> QED BY <2>1, <2>2, <2>11, <2>12, <2>13 DEF CountInv
<1>8. ASSUME NEW n \in {0, 1}, Refuse(p, t, n), n = IF policy = "Priority" THEN 1 ELSE 0
      PROVE  CountInv'
  <2>1. /\ refused' = refused \cup {f} /\ drops' = [drops EXCEPT ![t] = @ + n]
        /\ ppc' = [ppc EXCEPT ![p] = "count"] /\ UNCHANGED <<queue, evicted>>
    BY <1>2, <1>8 DEF Refuse
  <2>2. Counting' = Counting \cup {p} /\ p \notin Counting
    BY <1>1, <2>1 DEF Counting
  <2>3. /\ IsFiniteSet(Counting') /\ Cardinality(Counting') = Cardinality(Counting) + 1
        /\ Cardinality(Counting) \in Nat
    <3>1. IsFiniteSet(Counting)
      BY DEF CountInv
    <3> QED BY <2>2, <3>1, OneMore
  <2>4. f.from # Control /\ ShardOf[f.key] = t
    BY <1>1, <1>2, <1>5
  <2>5. /\ IsFiniteSet(refused') /\ Cardinality(TurnedAway') = Cardinality(TurnedAway) + 1
        /\ \A s \in Shards :
              IF s = t THEN Cardinality(TurnedAwayAt(s)') = Cardinality(TurnedAwayAt(s)) + 1
                       ELSE TurnedAwayAt(s)' = TurnedAwayAt(s)
    BY <1>4, <2>1, <2>4, RefusalCounts
  <2>6. total_dropped' + Cardinality(Counting') = Cardinality(TurnedAway')
    <3>1. /\ total_dropped + Cardinality(Counting) = Cardinality(TurnedAway)
          /\ total_dropped \in Nat /\ Cardinality(TurnedAway) \in Nat
      BY <1>1, FiniteCounts DEF CountInv, DropsReported, Counting, ProducerType
    <3> QED BY <1>1, <2>3, <2>5, <3>1
  <2>7. ASSUME NEW s \in Shards
        PROVE  drops'[s] = IF policy' = "Priority"
                           THEN Cardinality(TurnedAwayAt(s)') + Cardinality(evicted'[s]) ELSE 0
    <3>1. /\ drops[s] = IF policy = "Priority"
                        THEN Cardinality(TurnedAwayAt(s)) + Cardinality(evicted[s]) ELSE 0
          /\ Cardinality(TurnedAwayAt(s)) \in Nat /\ Cardinality(evicted[s]) \in Nat
      BY FiniteCounts DEF CountInv, DropsReported
    <3>2. CASE s = t
      <4>1. drops'[s] = drops[s] + n
        BY <1>1, <2>1, <3>2
      <4>2. Cardinality(TurnedAwayAt(s)') = Cardinality(TurnedAwayAt(s)) + 1
        BY <2>5, <3>2
      <4>3. evicted'[s] = evicted[s] /\ policy' = policy
        BY <1>1, <2>1
      <4> QED BY <1>8, <3>1, <4>1, <4>2, <4>3
    <3>3. CASE s # t
      <4>1. drops'[s] = drops[s] /\ TurnedAwayAt(s)' = TurnedAwayAt(s)
        BY <1>1, <2>1, <2>5, <3>3
      <4>2. evicted'[s] = evicted[s] /\ policy' = policy
        BY <1>1, <2>1
      <4> QED BY <3>1, <4>1, <4>2
    <3> QED BY <3>2, <3>3
  <2>8. DropsReported'
    BY <2>6, <2>7 DEF DropsReported, Counting
  <2>9. Settled(f)'
    BY <1>1, <1>2, <2>1 DEF Settled, Event
  <2>10. \A e \in refused' : Settled(e)'
    BY <1>1, <2>1, <2>9 DEF CountInv
  <2>11. ASSUME NEW s \in Shards
         PROVE  /\ IsFiniteSet(evicted'[s])
                /\ \A e \in evicted'[s] : Settled(e)' /\ e \notin EventsIn(queue'[s])
    BY <1>1, <2>1 DEF CountInv
  <2> QED BY <2>3, <2>5, <2>8, <2>10, <2>11 DEF CountInv
<1> QED BY <1>5, <1>6, <1>7, <1>8

\* Then ingest counts it.
LEMMA CountDropCounts ==
    ASSUME CountInv, OrderInv', NEW p \in Producers, CountDrop(p),
           \A e \in Event : Settled(e) => Settled(e)'
    PROVE  CountInv'
<1>1. /\ ppc[p] = "count" /\ ppc' = [ppc EXCEPT ![p] = "idle"]
      /\ total_dropped' = total_dropped + 1 /\ total_dropped \in Nat
      /\ UNCHANGED <<policy, queue, drops, evicted, refused>>
      /\ ppc \in [Producers -> {"idle", "push", "count"}]
      /\ refused \subseteq Event /\ \A s \in Shards : evicted[s] \subseteq Event
  BY DEF CountDrop, CountInv, OrderInv, TypeOK, ProducerType, QueueType, queues
<1>2. Counting' = Counting \ {p} /\ p \in Counting
  BY <1>1 DEF Counting
<1>3. /\ IsFiniteSet(Counting') /\ Cardinality(Counting') = Cardinality(Counting) - 1
      /\ Cardinality(Counting) \in Nat
  <2>1. IsFiniteSet(Counting)
    BY DEF CountInv
  <2> QED BY <1>2, <2>1, OneLess
<1>4. TurnedAway' = TurnedAway /\ \A s \in Shards : TurnedAwayAt(s)' = TurnedAwayAt(s)
  BY <1>1 DEF TurnedAway, TurnedAwayAt
<1>5. DropsReported'
  <2>1. total_dropped + Cardinality(Counting) = Cardinality(TurnedAway)
    BY DEF CountInv, DropsReported, Counting
  <2>2. total_dropped' + Cardinality(Counting') = Cardinality(TurnedAway')
    BY <1>1, <1>3, <1>4, <2>1
  <2> QED BY <1>1, <1>4, <2>2 DEF CountInv, DropsReported, Counting
<1>6. \A e \in refused' : Settled(e)'
  BY <1>1 DEF CountInv
<1>7. ASSUME NEW s \in Shards
      PROVE  /\ IsFiniteSet(evicted'[s])
             /\ \A e \in evicted'[s] : Settled(e)' /\ e \notin EventsIn(queue'[s])
  BY <1>1 DEF CountInv
<1> QED BY <1>1, <1>3, <1>5, <1>6, <1>7 DEF CountInv

\* A refused flush is in none of the counters.
LEMMA FlushCounts ==
    ASSUME CountInv, OrderInv', FlushShard, \A e \in Event : Settled(e) => Settled(e)'
    PROVE  CountInv'
<1>1. /\ queue \in [Shards -> Seq(Event)] /\ sent \in [Senders -> Nat]
      /\ Control \in Senders /\ Control \notin Producers
      /\ sent' = [sent EXCEPT ![Control] = @ + 1]
      /\ UNCHANGED <<policy, drops, evicted, ppc, total_dropped>>
      /\ refused \subseteq Event /\ \A s \in Shards : evicted[s] \subseteq Event
  BY Constants DEF CountInv, OrderInv, TypeOK, QueueType, ProducerType, FlushShard, Senders
<1>2. FlushEvent \in Event
  BY <1>1 DEF FlushEvent, Event
<1>3. PICK f \in Event : f = FlushEvent /\ f.from = Control /\ f.num = sent[Control] + 1
  BY <1>2 DEF FlushEvent
<1>4. ~Settled(f) /\ Settled(f)'
  BY <1>1, <1>3 DEF Settled, Event
<1>5. Counting' = Counting
  BY <1>1 DEF Counting
<1>6. CASE queue' = [queue EXCEPT ![ctl_at] = Append(@, f)] /\ refused' = refused
  <2>1. ASSUME NEW s \in Shards, NEW e \in EventsIn(queue'[s])
        PROVE  e \in EventsIn(queue[s]) \/ ~Settled(e)
    <3>1. queue'[s] = queue[s] \/ queue'[s] = Append(queue[s], f)
      BY <1>1, <1>6
    <3>2. EventsIn(Append(queue[s], f)) = EventsIn(queue[s]) \cup {f}
      BY <1>1, EventsFacts
    <3> QED BY <1>4, <2>1, <3>1, <3>2
  <2> QED BY <1>1, <1>5, <1>6, <2>1, NothingToCount
<1>7. CASE queue' = queue /\ refused' = refused \cup {f}
  <2>1. f \notin refused
    BY <1>4 DEF CountInv
  <2>2. /\ IsFiniteSet(refused') /\ TurnedAway' = TurnedAway
        /\ \A s \in Shards : TurnedAwayAt(s)' = TurnedAwayAt(s)
    BY <1>3, <1>7, <2>1, RefusalCounts
  <2>3. DropsReported'
    BY <1>1, <1>5, <2>2 DEF CountInv, DropsReported, Counting
  <2>4. \A e \in refused' : Settled(e)'
    BY <1>1, <1>4, <1>7 DEF CountInv
  <2>5. ASSUME NEW s \in Shards
        PROVE  /\ IsFiniteSet(evicted'[s])
               /\ \A e \in evicted'[s] : Settled(e)' /\ e \notin EventsIn(queue'[s])
    BY <1>1, <1>7 DEF CountInv
  <2> QED BY <1>5, <2>2, <2>3, <2>4, <2>5 DEF CountInv
<1> QED BY <1>3, <1>6, <1>7 DEF FlushShard

LEMMA CountInductive == CountInv /\ [Next]_vars => CountInv'
<1> SUFFICES ASSUME CountInv, [Next]_vars PROVE CountInv'
  OBVIOUS
<1>1. OrderInv /\ OrderInv' /\ TypeOK
  BY OrderInductive DEF CountInv, OrderInv
<1>2. queue \in [Shards -> Seq(Event)] /\ ppc \in [Producers -> {"idle", "push", "count"}]
  BY <1>1 DEF TypeOK, QueueType, ProducerType
<1>3. \A e \in Event : Settled(e) => Settled(e)'
  <2>1. CASE UNCHANGED vars
    BY <2>1 DEF vars, producers, Settled
  <2> QED BY <1>1, <2>1, SettledStable
<1>4. CASE UNCHANGED <<drops, total_dropped, refused, evicted, policy, queue>> /\ Counting' = Counting
  BY <1>1, <1>3, <1>4, NothingToCount
<1>5. ASSUME NEW p \in Producers, Producer(p) PROVE CountInv'
  <2>1. CASE \E k \in Keys : Ingest(p, k)
    <3>1. Counting' = Counting
      BY <1>2, <2>1 DEF Ingest, Counting
    <3> QED BY <1>4, <2>1, <3>1 DEF Ingest, queues
  <2> QED BY <1>1, <1>3, <1>5, <2>1, RouteCounts, CountDropCounts DEF Producer
<1>6. ASSUME NEW s \in Shards, Worker(s) PROVE CountInv'
  <2>1. CASE Pop(s)
    <3>1. /\ UNCHANGED <<drops, total_dropped, refused, evicted, policy, ppc>>
          /\ queue' = [queue EXCEPT ![s] = Tail(@)] /\ queue[s] # <<>>
      BY <2>1 DEF Pop, producers
    <3>2. EventsIn(Tail(queue[s])) \subseteq EventsIn(queue[s])
      BY <1>2, <3>1, EventsFacts
    <3>3. \A x \in Shards : \A e \in EventsIn(queue'[x]) : e \in EventsIn(queue[x])
      BY <1>2, <3>1, <3>2
    <3>4. Counting' = Counting
      BY <3>1 DEF Counting
    <3> QED BY <1>1, <1>3, <3>1, <3>3, <3>4, NothingToCount
  <2>2. CASE TestLoop(s) \/ PopTimesOut(s) \/ Idle(s) \/ Finish(s)
    BY <1>4, <2>2 DEF TestLoop, PopTimesOut, Idle, Finish, queues, producers, Counting
  <2> QED BY <1>6, <2>1, <2>2 DEF Worker
<1>7. CASE Watchdog
  BY <1>4, <1>7 DEF Watchdog, WakeUp, Check, Restart, queues, producers, Counting
<1>8. CASE Controller
  <2>1. CASE Flush \/ Shutdown \/ JoinWatchdog \/ StopShard \/ JoinWorker
    BY <1>4, <2>1 DEF Flush, Shutdown, JoinWatchdog, StopShard, JoinWorker, queues, producers,
                      Counting
  <2> QED BY <1>1, <1>3, <1>8, <2>1, FlushCounts DEF Controller, ShutdownStep
<1>9. CASE UNCHANGED vars
  BY <1>4, <1>9 DEF vars, queues, producers, Counting
<1> QED BY <1>5, <1>6, <1>7, <1>8, <1>9 DEF Next

\* What was not processed is reported: total_dropped_ (ids_sharded.hpp:189) is the
\* number of events ingest refuses, less those it is just about to count, and each
\* shard's drops_ (:48) the number Priority has refused there or pushed out there,
\* no event counted twice and none forgotten.
THEOREM DropsCorrect == Spec => []DropsReported
<1>1. Init => CountInv
  <2> SUFFICES ASSUME Init PROVE CountInv
    OBVIOUS
  <2>1. OrderInv
    BY InitOrdered
  <2>2. /\ Counting = {} /\ refused = {} /\ TurnedAway = {} /\ total_dropped = 0
        /\ \A s \in Shards : evicted[s] = {} /\ TurnedAwayAt(s) = {} /\ drops[s] = 0
    BY DEF Init, Counting, TurnedAway, TurnedAwayAt
  <2>3. IsFiniteSet({}) /\ Cardinality({}) = 0
    BY FS_EmptySet
  <2>4. DropsReported
    <3>1. total_dropped + Cardinality(Counting) = Cardinality(TurnedAway)
      BY <2>2, <2>3
    <3>2. ASSUME NEW s \in Shards
          PROVE  drops[s] = IF policy = "Priority"
                            THEN Cardinality(TurnedAwayAt(s)) + Cardinality(evicted[s]) ELSE 0
      <4>1. Cardinality(TurnedAwayAt(s)) = 0 /\ Cardinality(evicted[s]) = 0 /\ drops[s] = 0
        BY <2>2, <2>3
      <4> QED BY <4>1
    <3> QED BY <3>1, <3>2 DEF DropsReported, Counting
  <2> QED BY <2>1, <2>2, <2>3, <2>4 DEF CountInv
<1>2. CountInv => DropsReported
  BY DEF CountInv
<1> QED BY <1>1, <1>2, CountInductive, PTL DEF Spec
==============================================================================
