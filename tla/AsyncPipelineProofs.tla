-------------------------- MODULE AsyncPipelineProofs --------------------------
(***************************************************************************)
(* For any number of workers in each stage, any packets and capacities:    *)
(* no packet is duplicated or vanishes between the stages, and the         *)
(* firewall is asked only about packets that were decoded, validated and   *)
(* logged before.  With one worker in each stage, packets are logged in    *)
(* the order of submission.                                                *)
(***************************************************************************)
EXTENDS AsyncPipeline, SenderOrder, SequenceTheorems, TLAPS

(* What a put and a get do to a queue. *)

\* What a put, and what a get, leaves in the queue.
LEMMA AppendFacts ==
    ASSUME NEW S, NEW s \in Seq(S), NEW e \in S
    PROVE  /\ Append(s, e) \in Seq(S)
           /\ Append(s, e) # <<>>
           /\ Len(Append(s, e)) = Len(s) + 1
           /\ \A i \in 1..Len(s) : Append(s, e)[i] = s[i]
           /\ Append(s, e)[Len(s) + 1] = e
BY AppendProperties

LEMMA HeadTailFacts ==
    ASSUME NEW S, NEW s \in Seq(S), s # <<>>
    PROVE  /\ Len(s) \in Nat \ {0}
           /\ Head(s) = s[1]
           /\ Head(s) \in S
           /\ Tail(s) \in Seq(S)
           /\ Len(Tail(s)) = Len(s) - 1
           /\ \A i \in 1..Len(Tail(s)) : Tail(s)[i] = s[i + 1]
BY HeadTailProperties, EmptySeq

\* What is in a queue after a put and after a get.
LEMMA EventsFacts ==
    ASSUME NEW S, NEW s \in Seq(S)
    PROVE  /\ EventsIn(s) \subseteq S
           /\ \A e \in S : EventsIn(Append(s, e)) = EventsIn(s) \cup {e}
           /\ \A e \in S : EventsIn(<<e>>) = {e}
           /\ EventsIn(<<>>) = {}
           /\ s # <<>> => Head(s) \in EventsIn(s) /\ EventsIn(Tail(s)) \subseteq EventsIn(s)
<1>1. EventsIn(s) \subseteq S
  BY ElementOfSeq DEF EventsIn
<1>2. ASSUME NEW e \in S PROVE EventsIn(Append(s, e)) = EventsIn(s) \cup {e}
  <2>1. /\ Len(Append(s, e)) = Len(s) + 1 /\ Append(s, e)[Len(s) + 1] = e
        /\ \A i \in 1..Len(s) : Append(s, e)[i] = s[i]
        /\ Len(s) \in Nat
    BY AppendFacts, LenProperties
  <2>2. 1..Len(Append(s, e)) = 1..Len(s) \cup {Len(s) + 1}
    BY <2>1
  <2> QED BY <2>1, <2>2 DEF EventsIn
<1>3. ASSUME NEW e \in S PROVE EventsIn(<<e>>) = {e}
  <2>1. Len(<<e>>) = 1 /\ <<e>>[1] = e
    OBVIOUS
  <2> QED BY <2>1 DEF EventsIn
<1>4. EventsIn(<<>>) = {}
  BY EmptySeq DEF EventsIn
<1>5. ASSUME s # <<>>
      PROVE  Head(s) \in EventsIn(s) /\ EventsIn(Tail(s)) \subseteq EventsIn(s)
  <2>1. /\ Len(s) \in Nat \ {0} /\ Head(s) = s[1] /\ Len(Tail(s)) = Len(s) - 1
        /\ \A i \in 1..Len(Tail(s)) : Tail(s)[i] = s[i + 1]
    BY <1>5, HeadTailFacts
  <2>2. 1 \in 1..Len(s) /\ \A i \in 1..Len(Tail(s)) : i + 1 \in 1..Len(s)
    BY <2>1
  <2> QED BY <2>1, <2>2 DEF EventsIn
<1> QED BY <1>1, <1>2, <1>3, <1>4, <1>5

------------------------------------------------------------------------------

LEMMA Constants ==
    /\ Stages = {1, 2, 3, 4, 5} /\ CNN = 1 /\ RNN = 2 /\ DECODER = 3 /\ VALIDATOR = 4 /\ DB = 5
    /\ StageOf \in [Workers -> Stages]
    /\ Capacity \in Nat \ {0} /\ MaxPackets \in Nat
    /\ Packets = 1..MaxPackets /\ NoPacket \notin Packets
BY PipelineAssumption
DEF PipelineAssumption, Stages, CNN, RNN, DECODER, VALIDATOR, DB, Packets, NoPacket

\* The two operations on a queue.
LEMMA QueueStays ==
    ASSUME NEW q \in [Stages -> Seq(Packets)], \A s \in Stages : Len(q[s]) <= Capacity,
           NEW s \in Stages
    PROVE  /\ \A k \in Packets : Len(q[s]) < Capacity =>
                 LET r == [q EXCEPT ![s] = Append(@, k)]
                 IN  r \in [Stages -> Seq(Packets)] /\ \A x \in Stages : Len(r[x]) <= Capacity
           /\ q[s] # <<>> =>
                 LET r == [q EXCEPT ![s] = Tail(@)]
                 IN  r \in [Stages -> Seq(Packets)] /\ \A x \in Stages : Len(r[x]) <= Capacity
<1>1. q[s] \in Seq(Packets) /\ Len(q[s]) \in Nat /\ Capacity \in Nat
  BY Constants, LenProperties
<1>2. ASSUME NEW k \in Packets
      PROVE  Append(q[s], k) \in Seq(Packets) /\ Len(Append(q[s], k)) = Len(q[s]) + 1
  BY <1>1, AppendFacts
<1>3. ASSUME q[s] # <<>>
      PROVE  Tail(q[s]) \in Seq(Packets) /\ Len(Tail(q[s])) = Len(q[s]) - 1
  BY <1>1, <1>3, HeadTailFacts
<1> QED BY <1>1, <1>2, <1>3

\* Where a worker stands says whether it has a packet, and in which stage it is.
HandsFull ==
    \A w \in Workers :
        /\ item[w] \in Packets <=> pc[w] \in {"work", "put", "enforce", "count"}
        /\ pc[w] = "put" => StageOf[w] # DB
        /\ pc[w] = "enforce" => StageOf[w] = DB

Typed == TypeOK /\ HandsFull

LEMMA SubmitTyped == ASSUME Typed, Submit PROVE Typed'
<1>1. /\ submitted \in 0..MaxPackets /\ submitted + 1 \in Packets
      /\ queue \in [Stages -> Seq(Packets)] /\ \A s \in Stages : Len(queue[s]) <= Capacity
      /\ CNN \in Stages /\ submitting \in BOOLEAN /\ refused \in SUBSET Packets
  BY Constants DEF Typed, TypeOK, Submit
<1>2. PICK k \in Packets, s \in Stages : k = submitted + 1 /\ s = CNN
  BY <1>1
<1>3. /\ queue' \in [Stages -> Seq(Packets)]
      /\ \A x \in Stages : Len(queue'[x]) <= Capacity
  <2>1. CASE queue' = queue
    BY <1>1, <2>1
  <2>2. CASE HasRoom(s) /\ queue' = [queue EXCEPT ![s] = Append(@, k)]
    BY <1>1, <2>2, QueueStays DEF HasRoom
  <2> QED BY <1>2, <2>1, <2>2 DEF Submit
<1>4. /\ submitted' \in 0..MaxPackets /\ submitting' \in BOOLEAN /\ refused' \in SUBSET Packets
  <2>1. submitted' = submitted + 1 /\ submitted + 1 \in 0..MaxPackets
    BY <1>1, Constants DEF Submit
  <2>2. submitting' \in BOOLEAN
    BY <1>1 DEF Submit
  <2>3. refused' \in SUBSET Packets
    BY <1>1 DEF Submit
  <2> QED BY <2>1, <2>2, <2>3
<1>5. UNCHANGED <<running, pc, item, decision, validated, log, blocked, failed, metrics>>
  BY DEF Submit
<1> QED BY <1>3, <1>4, <1>5 DEF Typed, TypeOK, HandsFull

LEMMA OthersTyped == ASSUME Typed, CountReceived \/ Stop PROVE Typed'
<1>1. metrics \in [0..DB -> Nat] /\ 0 \in 0..DB
  BY Constants DEF Typed, TypeOK
<1>2. metrics' \in [0..DB -> Nat] /\ running' \in BOOLEAN /\ submitting' \in BOOLEAN
  <2>1. metrics' = [metrics EXCEPT ![0] = @ + 1] \/ metrics' = metrics
    BY DEF CountReceived, Stop
  <2>2. metrics' \in [0..DB -> Nat]
    BY <1>1, <2>1
  <2>3. running' \in BOOLEAN /\ submitting' \in BOOLEAN
    BY DEF CountReceived, Stop, Typed, TypeOK
  <2> QED BY <2>2, <2>3
<1>3. UNCHANGED <<submitted, queue, pc, item, decision, validated, log, blocked, failed, refused>>
  BY DEF CountReceived, Stop
<1> QED BY <1>2, <1>3 DEF Typed, TypeOK, HandsFull

LEMMA WorkerTyped == ASSUME Typed, NEW w \in Workers, Worker(w) PROVE Typed'
<1>1. /\ running \in BOOLEAN /\ submitted \in 0..MaxPackets /\ submitting \in BOOLEAN
      /\ queue \in [Stages -> Seq(Packets)] /\ \A s \in Stages : Len(queue[s]) <= Capacity
      /\ pc \in [Workers -> {"get", "work", "put", "enforce", "count", "exited"}]
      /\ item \in [Workers -> Packets \cup {NoPacket}] /\ HandsFull
      /\ StageOf[w] \in Stages
  BY Constants DEF Typed, TypeOK
<1>2. /\ decision \in [Packets -> {"none", "Log", "Block"}] /\ validated \in SUBSET Packets
      /\ log \in Seq(Packets) /\ blocked \in SUBSET Packets /\ failed \in SUBSET Packets
      /\ refused \in SUBSET Packets /\ metrics \in [0..DB -> Nat]
  BY DEF Typed, TypeOK
\* A step moves one worker on and leaves the others' items alone.
<1>3. ASSUME NEW l \in {"get", "work", "put", "enforce", "count", "exited"},
             NEW k \in Packets \cup {NoPacket},
             pc' = [pc EXCEPT ![w] = l], item' = [item EXCEPT ![w] = k],
             k \in Packets <=> l \in {"work", "put", "enforce", "count"},
             l = "put" => StageOf[w] # DB, l = "enforce" => StageOf[w] = DB,
             /\ queue' \in [Stages -> Seq(Packets)]
             /\ \A s \in Stages : Len(queue'[s]) <= Capacity,
             decision' \in [Packets -> {"none", "Log", "Block"}], validated' \in SUBSET Packets,
             log' \in Seq(Packets), blocked' \in SUBSET Packets, failed' \in SUBSET Packets,
             metrics' \in [0..DB -> Nat],
             UNCHANGED <<running, submitted, submitting, refused>>
      PROVE  Typed'
  <2>1. pc' \in [Workers -> {"get", "work", "put", "enforce", "count", "exited"}]
    BY <1>1, <1>3
  <2>2. item' \in [Workers -> Packets \cup {NoPacket}]
    BY <1>1, <1>3
  <2>3. ASSUME NEW v \in Workers
        PROVE  /\ item'[v] \in Packets <=> pc'[v] \in {"work", "put", "enforce", "count"}
               /\ pc'[v] = "put" => StageOf[v] # DB
               /\ pc'[v] = "enforce" => StageOf[v] = DB
    <3>1. CASE v = w
      <4>1. pc'[v] = l /\ item'[v] = k
        BY <1>1, <1>3, <3>1
      <4> QED BY <1>3, <3>1, <4>1
    <3>2. CASE v # w
      <4>1. pc'[v] = pc[v] /\ item'[v] = item[v]
        BY <1>1, <1>3, <3>2
      <4> QED BY <1>1, <4>1 DEF HandsFull
    <3> QED BY <3>1, <3>2
  <2> QED BY <1>1, <1>2, <1>3, <2>1, <2>2, <2>3 DEF Typed, TypeOK, HandsFull
<1>4. item = [item EXCEPT ![w] = item[w]] /\ item[w] \in Packets \cup {NoPacket}
  BY <1>1
<1>5. NextIteration \in {"get", "exited"}
  BY DEF NextIteration
<1>6. CASE Get(w)
  <2>1. queue[StageOf[w]] # <<>> /\ queue[StageOf[w]] \in Seq(Packets)
    BY <1>1, <1>6 DEF Get
  <2>2. PICK s \in Stages, k \in Packets : s = StageOf[w] /\ k = Head(queue[s])
    BY <1>1, <2>1, HeadTailFacts
  <2>3. queue' = [queue EXCEPT ![s] = Tail(@)] /\ queue[s] # <<>>
        /\ pc' = [pc EXCEPT ![w] = "work"] /\ item' = [item EXCEPT ![w] = k]
        /\ UNCHANGED <<running, submitted, submitting, decision, validated, log,
                       blocked, failed, refused, metrics>>
    BY <1>6, <2>2 DEF Get
  <2>4. queue' \in [Stages -> Seq(Packets)] /\ \A x \in Stages : Len(queue'[x]) <= Capacity
    BY <1>1, <2>3, QueueStays
  <2> QED BY <1>2, <1>3, <2>3, <2>4
<1>7. CASE Timeout(w)
  <2>1. PICK l \in {"get", "exited"} : l = NextIteration
    BY <1>5
  <2>2. pc' = [pc EXCEPT ![w] = l] /\ item' = [item EXCEPT ![w] = item[w]]
        /\ item[w] \notin Packets
    BY <1>1, <1>4, <1>7, <2>1 DEF Timeout, HandsFull
  <2>3. UNCHANGED <<running, submitted, submitting, queue, decision, validated, log,
                    blocked, failed, refused, metrics>>
    BY <1>7 DEF Timeout
  <2> QED BY <1>1, <1>2, <1>3, <1>4, <2>2, <2>3
<1>8. CASE Fail(w)
  <2>1. PICK l \in {"get", "exited"} : l = NextIteration
    BY <1>5
  <2>2. pc' = [pc EXCEPT ![w] = l] /\ item' = [item EXCEPT ![w] = NoPacket]
        /\ failed' = failed \cup {item[w]} /\ item[w] \in Packets
    BY <1>1, <1>8, <2>1 DEF Fail, HandsFull
  <2>3. UNCHANGED <<running, submitted, submitting, queue, decision, validated, log,
                    blocked, refused, metrics>>
    BY <1>8 DEF Fail
  <2>4. NoPacket \notin Packets
    BY Constants
  <2> QED BY <1>1, <1>2, <1>3, <2>2, <2>3, <2>4
<1>9. CASE Extract(w) \/ Decode(w) \/ Validate(w)
  <2>1. /\ pc' = [pc EXCEPT ![w] = "put"] /\ item' = [item EXCEPT ![w] = item[w]]
        /\ item[w] \in Packets /\ StageOf[w] # DB
    BY <1>1, <1>4, <1>9, Constants DEF Extract, Decode, Validate, HandsFull
  <2>2. /\ decision' \in [Packets -> {"none", "Log", "Block"}] /\ validated' \in SUBSET Packets
    BY <1>2, <1>9, <2>1 DEF Extract, Decode, Validate
  <2>3. UNCHANGED <<running, submitted, submitting, queue, log, blocked, failed, refused, metrics>>
    BY <1>9 DEF Extract, Decode, Validate
  <2> QED BY <1>1, <1>2, <1>3, <2>1, <2>2, <2>3
<1>10. CASE Log(w)
  <2>1. /\ item' = [item EXCEPT ![w] = item[w]] /\ item[w] \in Packets /\ StageOf[w] = DB
        /\ log' = Append(log, item[w])
        /\ pc' = [pc EXCEPT ![w] = "enforce"] \/ pc' = [pc EXCEPT ![w] = "count"]
    BY <1>1, <1>4, <1>10 DEF Log, HandsFull
  <2>2. log' \in Seq(Packets)
    BY <1>2, <2>1, AppendFacts
  <2>3. UNCHANGED <<running, submitted, submitting, queue, decision, validated,
                    blocked, failed, refused, metrics>>
    BY <1>10 DEF Log
  <2> QED BY <1>1, <1>2, <1>3, <2>1, <2>2, <2>3
<1>11. CASE Enforce(w)
  <2>1. /\ item' = [item EXCEPT ![w] = item[w]] /\ item[w] \in Packets
        /\ pc' = [pc EXCEPT ![w] = "count"] /\ blocked' = blocked \cup {item[w]}
    BY <1>1, <1>4, <1>11 DEF Enforce, HandsFull
  <2>2. UNCHANGED <<running, submitted, submitting, queue, decision, validated, log,
                    failed, refused, metrics>>
    BY <1>11 DEF Enforce
  <2> QED BY <1>1, <1>2, <1>3, <2>1, <2>2
<1>12. CASE Put(w)
  <2>1. /\ item' = [item EXCEPT ![w] = item[w]] /\ item[w] \in Packets
        /\ pc' = [pc EXCEPT ![w] = "count"] /\ StageOf[w] # DB
    BY <1>1, <1>4, <1>12 DEF Put, HandsFull
  <2>2. PICK s \in Stages, k \in Packets : s = StageOf[w] + 1 /\ k = item[w]
    BY <1>1, <2>1, Constants
  <2>3. queue' = [queue EXCEPT ![s] = Append(@, k)] /\ Len(queue[s]) < Capacity
    BY <1>12, <2>2 DEF Put, HasRoom
  <2>4. queue' \in [Stages -> Seq(Packets)] /\ \A x \in Stages : Len(queue'[x]) <= Capacity
    BY <1>1, <2>3, QueueStays
  <2>5. UNCHANGED <<running, submitted, submitting, decision, validated, log, blocked,
                    failed, refused, metrics>>
    BY <1>12 DEF Put
  <2> QED BY <1>2, <1>3, <2>1, <2>4, <2>5
<1>13. CASE Count(w)
  <2>1. PICK l \in {"get", "exited"} : l = NextIteration
    BY <1>5
  <2>2. pc' = [pc EXCEPT ![w] = l] /\ item' = [item EXCEPT ![w] = NoPacket]
    BY <1>13, <2>1 DEF Count
  <2>3. metrics' \in [0..DB -> Nat]
    <3>1. metrics' = [metrics EXCEPT ![StageOf[w]] = @ + 1] /\ StageOf[w] \in 0..DB
      BY <1>1, <1>13, Constants DEF Count
    <3> QED BY <1>2, <3>1
  <2>4. UNCHANGED <<running, submitted, submitting, queue, decision, validated, log,
                    blocked, failed, refused>>
    BY <1>13 DEF Count
  <2>5. NoPacket \notin Packets
    BY Constants
  <2> QED BY <1>1, <1>2, <1>3, <2>2, <2>3, <2>4, <2>5
<1> QED BY <1>6, <1>7, <1>8, <1>9, <1>10, <1>11, <1>12, <1>13
    DEF Worker, ExtractFails, ValidateFails, LogFails

LEMMA TypedInductive == Typed /\ [Next]_vars => Typed'
<1>1. ASSUME Typed, UNCHANGED vars PROVE Typed'
  BY <1>1 DEF Typed, TypeOK, HandsFull, vars
<1> QED BY <1>1, SubmitTyped, OthersTyped, WorkerTyped DEF Next

LEMMA InitTyped == Init => Typed
<1> SUFFICES ASSUME Init PROVE Typed
  OBVIOUS
<1>1. PICK none \in Seq(Packets) : none = <<>> /\ Len(none) = 0
  BY EmptySeq
<1>2. queue = [s \in Stages |-> none] /\ log = none
  BY <1>1 DEF Init
<1>3. TypeOK
  <2>1. \A s \in Stages : Len(queue[s]) <= Capacity
    BY <1>1, <1>2, Constants
  <2>2. submitted \in 0..MaxPackets /\ metrics \in [0..DB -> Nat]
    BY Constants DEF Init
  <2> QED BY <1>1, <1>2, <2>1, <2>2, Constants DEF Init, TypeOK
<1>4. HandsFull
  BY Constants DEF Init, HandsFull
<1> QED BY <1>3, <1>4 DEF Typed

\* The variables keep their types; no queue ever exceeds its size.
THEOREM TypeCorrect == Spec => []TypeOK
<1>1. Typed => TypeOK
  BY DEF Typed
<1> QED BY <1>1, InitTyped, TypedInductive, PTL DEF Spec

------------------------------------------------------------------------------
(* One place for each packet.                                                *)

LEMMA AppendNoRepeats ==
    ASSUME NEW S, NEW q \in Seq(S), NEW k \in S, NoRepeats(q), k \notin EventsIn(q)
    PROVE  NoRepeats(Append(q, k))
<1>1. /\ Len(Append(q, k)) = Len(q) + 1 /\ Append(q, k)[Len(q) + 1] = k /\ Len(q) \in Nat
      /\ \A i \in 1..Len(q) : Append(q, k)[i] = q[i]
  BY AppendFacts, LenProperties
<1>2. \A i \in 1..Len(q) : q[i] # k
  BY DEF EventsIn
<1>3. ASSUME NEW i \in 1..Len(q) + 1, NEW j \in 1..Len(q) + 1, i # j
      PROVE  Append(q, k)[i] # Append(q, k)[j]
  <2>1. CASE i \in 1..Len(q) /\ j \in 1..Len(q)
    BY <1>1, <1>3, <2>1 DEF NoRepeats
  <2>2. CASE i = Len(q) + 1 \/ j = Len(q) + 1
    <3>1. i \in 1..Len(q) \/ j \in 1..Len(q)
      BY <1>1, <1>3
    <3> QED BY <1>1, <1>2, <2>2, <3>1
  <2> QED BY <1>1, <2>1, <2>2
<1> QED BY <1>1, <1>3 DEF NoRepeats

LEMMA TailNoRepeats ==
    ASSUME NEW S, NEW q \in Seq(S), q # <<>>, NoRepeats(q)
    PROVE  NoRepeats(Tail(q)) /\ EventsIn(Tail(q)) = EventsIn(q) \ {Head(q)}
<1>1. /\ Len(q) \in Nat \ {0} /\ Head(q) = q[1] /\ Len(Tail(q)) = Len(q) - 1
      /\ \A i \in 1..Len(Tail(q)) : Tail(q)[i] = q[i + 1] /\ i + 1 \in 1..Len(q)
      /\ 1 \in 1..Len(q)
  BY HeadTailFacts
<1>2. NoRepeats(Tail(q))
  <2>1. ASSUME NEW i \in 1..Len(Tail(q)), NEW j \in 1..Len(Tail(q)), i # j
        PROVE  Tail(q)[i] # Tail(q)[j]
    BY <1>1, <2>1 DEF NoRepeats
  <2> QED BY <2>1 DEF NoRepeats
<1>3. ASSUME NEW k \in EventsIn(Tail(q)) PROVE k \in EventsIn(q) \ {Head(q)}
  <2>1. PICK i \in 1..Len(Tail(q)) : k = Tail(q)[i]
    BY DEF EventsIn
  <2>2. k = q[i + 1] /\ i + 1 \in 1..Len(q) /\ i + 1 # 1
    BY <1>1, <2>1
  <2> QED BY <1>1, <2>2 DEF EventsIn, NoRepeats
<1>4. ASSUME NEW k \in EventsIn(q), k # Head(q) PROVE k \in EventsIn(Tail(q))
  <2>1. PICK i \in 1..Len(q) : k = q[i]
    BY DEF EventsIn
  <2>2. i - 1 \in 1..Len(Tail(q)) /\ Tail(q)[i - 1] = q[(i - 1) + 1] /\ (i - 1) + 1 = i
    BY <1>1, <1>4, <2>1
  <2>3. k = Tail(q)[i - 1]
    BY <2>1, <2>2
  <2> QED BY <2>2, <2>3 DEF EventsIn
<1> QED BY <1>2, <1>3, <1>4

\* The places, and who is there.
LEMMA PlaceCases ==
    /\ \A z \in Places : \/ \E s \in Stages : z = <<"queue", s>>
                         \/ \E v \in Workers : z = <<"worker", v>>
                         \/ z = <<"log", 0>> \/ z = <<"failed", 0>> \/ z = <<"refused", 0>>
    /\ \A s \in Stages : <<"queue", s>> \in Places
    /\ \A v \in Workers : <<"worker", v>> \in Places
    /\ <<"log", 0>> \in Places /\ <<"failed", 0>> \in Places /\ <<"refused", 0>> \in Places
BY DEF Places

LEMMA AtPlace ==
    ASSUME NEW k
    PROVE  /\ \A s \in Stages : At(k, <<"queue", s>>) <=> k \in InQueue(s)
           /\ \A v \in Workers : At(k, <<"worker", v>>) <=> Holds(v, k)
           /\ At(k, <<"log", 0>>) <=> k \in Logged
           /\ At(k, <<"failed", 0>>) <=> k \in failed
           /\ At(k, <<"refused", 0>>) <=> k \in refused
BY DEF At

InOnePlace ==
    \A k \in Packets : IF k <= submitted THEN \E x \in Places : {z \in Places : At(k, z)} = {x}
                                         ELSE {z \in Places : At(k, z)} = {}
Distinct == (\A s \in Stages : NoRepeats(queue[s])) /\ NoRepeats(log)

PlaceInv == Typed /\ InOnePlace /\ Distinct

\* Nobody moves; packet k goes from place x to place y.
Rest == \A j \in Packets : \A z \in Places : At(j, z)' <=> At(j, z)
Move(k, x, y) == \A j \in Packets : \A z \in Places :
                     At(j, z)' <=> (At(j, z) /\ ~(j = k /\ z = x)) \/ (j = k /\ z = y)

LEMMA RestKeepsPlaces == ASSUME InOnePlace, Rest, submitted' = submitted PROVE InOnePlace'
<1>1. \A k \in Packets : {z \in Places : At(k, z)}' = {z \in Places : At(k, z)}
  BY DEF Rest, Places
<1> QED BY <1>1 DEF InOnePlace, Places

LEMMA MoveKeepsPlaces ==
    ASSUME Typed, InOnePlace, NEW k \in Packets, NEW x \in Places, NEW y \in Places, Move(k, x, y),
           \/ submitted' = submitted /\ At(k, x)
           \/ submitted' = submitted + 1 /\ k = submitted'
    PROVE  InOnePlace'
<1>1. submitted \in Nat /\ submitted' \in Nat /\ submitted <= submitted' /\ Packets \subseteq Nat
  <2>1. submitted \in 0..MaxPackets /\ MaxPackets \in Nat /\ Packets = 1..MaxPackets
    BY Constants DEF Typed, TypeOK
  <2>2. submitted' = submitted \/ submitted' = submitted + 1
    OBVIOUS
  <2>3. submitted \in Nat /\ Packets \subseteq Nat
    BY <2>1
  <2> QED BY <2>2, <2>3
<1>2. k <= submitted' /\ (k <= submitted => At(k, x))
  BY <1>1 DEF InOnePlace
<1>3. \A z \in Places : At(k, z) => z = x
  BY <1>1, <1>2 DEF InOnePlace
<1>4. {z \in Places : At(k, z)}' = {y}
  BY <1>3 DEF Move, Places
<1>5. ASSUME NEW j \in Packets, j # k
      PROVE  /\ {z \in Places : At(j, z)}' = {z \in Places : At(j, z)}
             /\ j <= submitted' <=> j <= submitted
  BY <1>1, <1>5 DEF Move, Places
<1>6. ASSUME NEW j \in Packets
      PROVE  IF j <= submitted' THEN \E z \in Places : {u \in Places : At(j, u)}' = {z}
                                ELSE {u \in Places : At(j, u)}' = {}
  <2>1. CASE j = k
    BY <1>2, <1>4, <2>1
  <2>2. CASE j # k
    BY <1>5, <2>2 DEF InOnePlace
  <2> QED BY <2>1, <2>2
<1> QED BY <1>6 DEF InOnePlace, Places

\* A move changes one queue, one worker's hands or one outcome at each end.
LEMMA Moved ==
    ASSUME NEW k \in Packets, NEW x \in Places, NEW y \in Places,
           \A j \in Packets :
             /\ \A s \in Stages : LET z == <<"queue", s>> IN
                  j \in InQueue(s)' <=>
                    (j \in InQueue(s) /\ ~(j = k /\ z = x)) \/ (j = k /\ z = y)
             /\ \A v \in Workers : LET z == <<"worker", v>> IN
                  Holds(v, j)' <=> (Holds(v, j) /\ ~(j = k /\ z = x)) \/ (j = k /\ z = y)
             /\ LET z == <<"log", 0>> IN
                  j \in Logged' <=> (j \in Logged /\ ~(j = k /\ z = x)) \/ (j = k /\ z = y)
             /\ LET z == <<"failed", 0>> IN
                  j \in failed' <=> (j \in failed /\ ~(j = k /\ z = x)) \/ (j = k /\ z = y)
             /\ LET z == <<"refused", 0>> IN
                  j \in refused' <=> (j \in refused /\ ~(j = k /\ z = x)) \/ (j = k /\ z = y)
    PROVE  Move(k, x, y)
<1> SUFFICES ASSUME NEW j \in Packets, NEW z \in Places
             PROVE  At(j, z)' <=> (At(j, z) /\ ~(j = k /\ z = x)) \/ (j = k /\ z = y)
  BY DEF Move
<1>1. ASSUME NEW s \in Stages, z = <<"queue", s>>
      PROVE  At(j, z)' <=> (At(j, z) /\ ~(j = k /\ z = x)) \/ (j = k /\ z = y)
  <2>1. (At(j, z)' <=> j \in InQueue(s)') /\ (At(j, z) <=> j \in InQueue(s))
    BY <1>1 DEF At, InQueue
  <2> QED BY <1>1, <2>1
<1>2. ASSUME NEW v \in Workers, z = <<"worker", v>>
      PROVE  At(j, z)' <=> (At(j, z) /\ ~(j = k /\ z = x)) \/ (j = k /\ z = y)
  <2>1. (At(j, z)' <=> Holds(v, j)') /\ (At(j, z) <=> Holds(v, j))
    BY <1>2 DEF At, Holds
  <2> QED BY <1>2, <2>1
<1>3. ASSUME z = <<"log", 0>> \/ z = <<"failed", 0>> \/ z = <<"refused", 0>>
      PROVE  At(j, z)' <=> (At(j, z) /\ ~(j = k /\ z = x)) \/ (j = k /\ z = y)
  <2>1. z = <<"log", 0>> => (At(j, z)' <=> j \in Logged') /\ (At(j, z) <=> j \in Logged)
    BY DEF At, Logged
  <2>2. z = <<"failed", 0>> => (At(j, z)' <=> j \in failed') /\ (At(j, z) <=> j \in failed)
    BY DEF At
  <2>3. z = <<"refused", 0>> => (At(j, z)' <=> j \in refused') /\ (At(j, z) <=> j \in refused)
    BY DEF At
  <2> QED BY <1>3, <2>1, <2>2, <2>3
<1> QED BY <1>1, <1>2, <1>3, PlaceCases

LEMMA Rested ==
    ASSUME \A s \in Stages : InQueue(s)' = InQueue(s),
           \A v \in Workers, j \in Packets : Holds(v, j)' <=> Holds(v, j),
           UNCHANGED <<log, failed, refused>>
    PROVE  Rest
<1>1. ASSUME NEW j \in Packets, NEW s \in Stages
      PROVE  At(j, <<"queue", s>>)' <=> At(j, <<"queue", s>>)
  BY DEF At, InQueue
<1>2. ASSUME NEW j \in Packets, NEW v \in Workers
      PROVE  At(j, <<"worker", v>>)' <=> At(j, <<"worker", v>>)
  BY DEF At, Holds
<1>3. ASSUME NEW j \in Packets, NEW z \in Places,
             z = <<"log", 0>> \/ z = <<"failed", 0>> \/ z = <<"refused", 0>>
      PROVE  At(j, z)' <=> At(j, z)
  BY <1>3 DEF At, Logged
<1> QED BY <1>1, <1>2, <1>3, PlaceCases DEF Rest

\* What the steps do to the queues, as sets.
LEMMA QueueSets ==
    /\ \A s \in Stages : InQueue(s) = EventsIn(queue[s]) /\ InQueue(s)' = EventsIn(queue'[s])
    /\ Logged = EventsIn(log) /\ Logged' = EventsIn(log')
BY DEF InQueue, Logged, EventsIn

\* Why no queue holds a packet twice after a step either.
LEMMA DistinctAfter ==
    ASSUME \A s \in Stages : NoRepeats(queue'[s]), NoRepeats(log')
    PROVE  Distinct'
BY DEF Distinct, NoRepeats

LEMMA DistinctStays == ASSUME Distinct, UNCHANGED <<queue, log>> PROVE Distinct'
BY DEF Distinct, NoRepeats

\* A packet that enters is later than all others.
Enters(k) ==
    /\ k = submitted + 1 /\ log' = log /\ \A z \in Places : ~At(k, z)
    /\ \/ /\ queue' = [queue EXCEPT ![CNN] = Append(@, k)]
          /\ Move(k, <<"queue", CNN>>, <<"queue", CNN>>)
       \/ queue' = queue /\ Move(k, <<"refused", 0>>, <<"refused", 0>>)

LEMMA SubmitPlaces ==
    ASSUME PlaceInv, Submit PROVE InOnePlace' /\ Distinct' /\ \E k \in Packets : Enters(k)
<1>1. /\ submitted \in 0..MaxPackets /\ CNN \in Stages /\ submitted + 1 \in Packets
      /\ queue \in [Stages -> Seq(Packets)] /\ MaxPackets \in Nat
      /\ Typed /\ InOnePlace /\ Distinct
  <2>1. Typed /\ InOnePlace /\ Distinct
    BY DEF PlaceInv
  <2>2. /\ submitted \in 0..MaxPackets /\ queue \in [Stages -> Seq(Packets)]
        /\ submitted < MaxPackets
    BY <2>1 DEF Typed, TypeOK, Submit
  <2> QED BY <2>1, <2>2, Constants
<1>2. PICK k \in Packets, c \in Stages : k = submitted + 1 /\ c = CNN
  BY <1>1
<1>3. \A z \in Places : ~At(k, z)
  <2>1. ~(k <= submitted)
    BY <1>1, <1>2
  <2> QED BY <1>1, <2>1 DEF InOnePlace
<1>4. submitted' = submitted + 1 /\ UNCHANGED <<pc, item, log, failed>>
  BY DEF Submit
<1>5. \A v \in Workers, j \in Packets : Holds(v, j)' <=> Holds(v, j)
  BY <1>4 DEF Holds
<1>6. CASE queue' = [queue EXCEPT ![c] = Append(@, k)] /\ refused' = refused
  <2>1. EventsIn(queue'[c]) = EventsIn(queue[c]) \cup {k}
        /\ \A s \in Stages : s # c => queue'[s] = queue[s]
    BY <1>1, <1>6, EventsFacts
  <2>2. \A s \in Stages, j \in Packets :
            j \in InQueue(s)' <=> j \in InQueue(s) \/ (j = k /\ s = c)
    BY <2>1, QueueSets
  <2>3. k \notin InQueue(c)
    BY <1>3, PlaceCases, AtPlace
  <2>4. PICK y \in Places : y = <<"queue", c>>
    BY PlaceCases
  <2>5. Move(k, y, y)
    BY <1>3, <1>4, <1>5, <1>6, <2>2, <2>3, <2>4, Moved DEF Logged
  <2>6. Distinct'
    <3>1. NoRepeats(queue'[c])
      <4>1. queue'[c] = Append(queue[c], k) /\ queue[c] \in Seq(Packets)
        BY <1>1, <1>6
      <4>2. NoRepeats(queue[c]) /\ k \notin EventsIn(queue[c])
        BY <1>1, <2>3, QueueSets DEF Distinct
      <4> QED BY <4>1, <4>2, AppendNoRepeats
    <3>2. ASSUME NEW s \in Stages PROVE NoRepeats(queue'[s])
      BY <1>1, <2>1, <3>1 DEF Distinct
    <3>3. NoRepeats(log')
      BY <1>1, <1>4 DEF Distinct
    <3> QED BY <3>2, <3>3, DistinctAfter
  <2>7. Enters(k)
    BY <1>2, <1>3, <1>4, <1>6, <2>4, <2>5 DEF Enters
  <2> QED BY <1>1, <1>2, <1>4, <2>5, <2>6, <2>7, MoveKeepsPlaces
<1>7. CASE refused' = refused \cup {k} /\ queue' = queue
  <2>1. k \notin refused
    BY <1>3, PlaceCases, AtPlace
  <2>2. PICK y \in Places : y = <<"refused", 0>>
    BY PlaceCases
  <2>3. Move(k, y, y)
    BY <1>4, <1>5, <1>7, <2>1, <2>2, Moved DEF Logged, InQueue
  <2>4. Distinct'
    BY <1>1, <1>4, <1>7, DistinctStays
  <2>5. Enters(k)
    BY <1>2, <1>3, <1>4, <1>7, <2>2, <2>3 DEF Enters
  <2> QED BY <1>1, <1>2, <1>4, <2>3, <2>4, <2>5, MoveKeepsPlaces
<1> QED BY <1>2, <1>6, <1>7 DEF Submit

\* Where a step of worker w takes a packet: from its queue into its hands, from there
\* to the next queue, to the log or to failed, or nowhere.
Gets(w, k) ==
    LET s == StageOf[w]
    IN  /\ queue[s] # <<>> /\ k = Head(queue[s]) /\ \A j \in Packets : ~Holds(w, j)
        /\ queue' = [queue EXCEPT ![s] = Tail(@)] /\ log' = log
        /\ Move(k, <<"queue", s>>, <<"worker", w>>)
Puts(w, k) ==
    LET s == StageOf[w] + 1
    IN  /\ s \in Stages /\ Holds(w, k)
        /\ queue' = [queue EXCEPT ![s] = Append(@, k)] /\ log' = log
        /\ Move(k, <<"worker", w>>, <<"queue", s>>)
Logs(w, k) ==
    /\ StageOf[w] = DB /\ Holds(w, k)
    /\ log' = Append(log, k) /\ queue' = queue
    /\ Move(k, <<"worker", w>>, <<"log", 0>>)
Drops(w, k) ==
    UNCHANGED <<queue, log>> /\ Holds(w, k) /\ Move(k, <<"worker", w>>, <<"failed", 0>>)
Forward(w) ==
    \/ Rest /\ UNCHANGED <<queue, log>>
    \/ \E k \in Packets : Gets(w, k) \/ Puts(w, k) \/ Logs(w, k) \/ Drops(w, k)

LEMMA WorkerPlaces ==
    ASSUME PlaceInv, NEW w \in Workers, Worker(w) PROVE InOnePlace' /\ Distinct' /\ Forward(w)
<1>1. /\ Typed /\ InOnePlace /\ Distinct
      /\ queue \in [Stages -> Seq(Packets)] /\ log \in Seq(Packets)
      /\ pc \in [Workers -> {"get", "work", "put", "enforce", "count", "exited"}]
      /\ item \in [Workers -> Packets \cup {NoPacket}] /\ HandsFull
      /\ StageOf[w] \in Stages /\ NoPacket \notin Packets
      /\ submitted \in Nat
  <2>1. Typed /\ InOnePlace /\ Distinct /\ TypeOK /\ HandsFull
    BY DEF PlaceInv, Typed
  <2>2. submitted \in 0..MaxPackets /\ StageOf[w] \in Stages /\ NoPacket \notin Packets
    BY <2>1, Constants DEF TypeOK
  <2> QED BY <2>1, <2>2 DEF TypeOK
<1>2. submitted' = submitted /\ refused' = refused
  BY DEF Worker, Get, Timeout, Put, Count, Extract, ExtractFails, Decode, Validate,
         ValidateFails, Log, LogFails, Enforce, Fail
\* The other workers' hands are left alone.
<1>3. ASSUME NEW l, NEW k \in Packets \cup {NoPacket},
             pc' = [pc EXCEPT ![w] = l], item' = [item EXCEPT ![w] = k]
      PROVE  \A v \in Workers, j \in Packets :
                 Holds(v, j)' <=> IF v = w THEN j = k /\ l \in {"work", "put"} ELSE Holds(v, j)
  BY <1>1, <1>3 DEF Holds
<1>4. item = [item EXCEPT ![w] = item[w]]
  BY <1>1
\* What a worker holds it holds alone.
<1>5. ASSUME NEW k \in Packets, NEW x \in Places, At(k, x)
      PROVE  k <= submitted /\ \A z \in Places : z # x => ~At(k, z)
  BY <1>1, <1>5 DEF InOnePlace
<1>6. CASE Get(w)
  <2>1. PICK s \in Stages : s = StageOf[w]
    BY <1>1
  <2>2. queue[s] # <<>> /\ queue[s] \in Seq(Packets) /\ NoRepeats(queue[s])
    BY <1>1, <1>6, <2>1 DEF Get, Distinct
  <2>3. PICK k \in Packets : k = Head(queue[s]) /\ k \in EventsIn(queue[s])
    BY <2>2, HeadTailFacts, EventsFacts
  <2>4. /\ pc[w] = "get" /\ pc' = [pc EXCEPT ![w] = "work"] /\ item' = [item EXCEPT ![w] = k]
        /\ queue' = [queue EXCEPT ![s] = Tail(@)]
        /\ UNCHANGED <<log, failed>>
    BY <1>6, <2>1, <2>3 DEF Get
  <2>5. /\ NoRepeats(queue'[s]) /\ EventsIn(queue'[s]) = EventsIn(queue[s]) \ {k}
        /\ \A t \in Stages : t # s => queue'[t] = queue[t]
    BY <1>1, <2>2, <2>3, <2>4, TailNoRepeats
  <2>6. \A t \in Stages, j \in Packets :
            j \in InQueue(t)' <=> j \in InQueue(t) /\ ~(j = k /\ t = s)
    BY <2>5, QueueSets
  <2>7. \A v \in Workers, j \in Packets : Holds(v, j)' <=> Holds(v, j) \/ (j = k /\ v = w)
    <3>1. \A j \in Packets : ~Holds(w, j)
      BY <2>4 DEF Holds
    <3> QED BY <1>3, <2>4, <3>1
  <2>8. PICK x \in Places, y \in Places : x = <<"queue", s>> /\ y = <<"worker", w>>
    BY PlaceCases
  <2>9. Move(k, x, y)
    BY <1>2, <2>4, <2>6, <2>7, <2>8, Moved DEF Logged
  <2>10. At(k, x)
    BY <2>3, <2>8, AtPlace, QueueSets
  <2>11. Distinct'
    <3>1. ASSUME NEW t \in Stages PROVE NoRepeats(queue'[t])
      BY <1>1, <2>5 DEF Distinct
    <3>2. NoRepeats(log')
      BY <1>1, <2>4 DEF Distinct
    <3> QED BY <3>1, <3>2, DistinctAfter
  <2>12. Forward(w)
    <3>1. \A j \in Packets : ~Holds(w, j)
      BY <2>4 DEF Holds
    <3>2. Gets(w, k)
      BY <2>1, <2>2, <2>3, <2>4, <2>8, <2>9, <3>1 DEF Gets
    <3> QED BY <3>2 DEF Forward
  <2> QED BY <1>1, <1>2, <2>9, <2>10, <2>11, <2>12, MoveKeepsPlaces
\* Steps that keep what the worker has.
<1>7. CASE Timeout(w) \/ Extract(w) \/ Decode(w) \/ Validate(w) \/ Enforce(w) \/ Count(w)
  <2>1. UNCHANGED <<queue, log, failed>>
    BY <1>7 DEF Timeout, Extract, Decode, Validate, Enforce, Count
  <2>2. \A v \in Workers, j \in Packets : Holds(v, j)' <=> Holds(v, j)
    <3>1. CASE Timeout(w) \/ Count(w)
      <4>1. PICK l \in {"get", "exited"} : pc' = [pc EXCEPT ![w] = l]
        BY <3>1 DEF Timeout, Count, NextIteration
      <4>2. PICK k \in Packets \cup {NoPacket} : item' = [item EXCEPT ![w] = k]
        BY <1>1, <1>4, <3>1 DEF Timeout, Count
      <4>3. \A j \in Packets : ~Holds(w, j)
        BY <3>1 DEF Holds, Timeout, Count
      <4> QED BY <1>3, <4>1, <4>2, <4>3
    <3>2. CASE Extract(w) \/ Decode(w) \/ Validate(w)
      <4>1. /\ pc' = [pc EXCEPT ![w] = "put"] /\ item' = [item EXCEPT ![w] = item[w]]
            /\ pc[w] = "work" /\ item[w] \in Packets
        BY <1>1, <1>4, <3>2 DEF Extract, Decode, Validate, HandsFull
      <4>2. \A j \in Packets : Holds(w, j) <=> j = item[w]
        BY <4>1 DEF Holds
      <4>3. PICK k \in Packets \cup {NoPacket} : k = item[w]
        BY <4>1
      <4>4. PICK l \in {"put"} : pc' = [pc EXCEPT ![w] = l]
        BY <4>1
      <4>5. item' = [item EXCEPT ![w] = k]
        BY <4>1, <4>3
      <4>6. \A v \in Workers, j \in Packets :
                Holds(v, j)' <=> IF v = w THEN j = k /\ l \in {"work", "put"} ELSE Holds(v, j)
        BY <1>3, <4>4, <4>5
      <4> QED BY <4>2, <4>3, <4>6
    <3>3. CASE Enforce(w)
      <4>1. /\ pc' = [pc EXCEPT ![w] = "count"] /\ item' = [item EXCEPT ![w] = item[w]]
            /\ item[w] \in Packets /\ \A j \in Packets : ~Holds(w, j)
        BY <1>1, <1>4, <3>3 DEF Enforce, HandsFull, Holds
      <4> QED BY <1>3, <4>1
    <3> QED BY <1>7, <3>1, <3>2, <3>3
  <2>3. Rest
    BY <1>2, <2>1, <2>2, Rested DEF InQueue
  <2>4. Distinct'
    BY <1>1, <2>1, DistinctStays
  <2>5. Forward(w)
    BY <2>1, <2>3 DEF Forward
  <2> QED BY <1>1, <1>2, <2>3, <2>4, <2>5, RestKeepsPlaces
\* Steps by which the worker parts with its packet.
<1>8. ASSUME pc[w] \in {"work", "put"}, NEW l \in {"get", "exited", "enforce", "count"},
             pc' = [pc EXCEPT ![w] = l],
             item' = item \/ item' = [item EXCEPT ![w] = NoPacket],
             NEW k \in Packets, k = item[w], NEW x \in Places, x = <<"worker", w>>
      PROVE  /\ \A v \in Workers, j \in Packets :
                    Holds(v, j)' <=> Holds(v, j) /\ ~(j = k /\ v = w)
             /\ At(k, x)
  <2>1. \A j \in Packets : Holds(w, j) <=> j = k
    BY <1>8 DEF Holds
  <2>2. PICK m \in Packets \cup {NoPacket} : item' = [item EXCEPT ![w] = m]
    BY <1>1, <1>4, <1>8
  <2>3. At(k, x)
    BY <1>8, <2>1, AtPlace
  <2>4. \A v \in Workers, j \in Packets : Holds(v, j)' <=> v # w /\ Holds(v, j)
    BY <1>3, <1>8, <2>2
  <2> QED BY <2>1, <2>3, <2>4
<1>9. pc[w] \in {"work", "put"} => item[w] \in Packets
  BY <1>1 DEF HandsFull
<1>10. CASE Fail(w)
  <2>1. PICK k \in Packets, x \in Places, y \in Places :
            k = item[w] /\ x = <<"worker", w>> /\ y = <<"failed", 0>>
    BY <1>9, <1>10, PlaceCases DEF Fail
  <2>2. PICK l \in {"get", "exited"} : pc' = [pc EXCEPT ![w] = l]
    BY <1>10 DEF Fail, NextIteration
  <2>3. /\ pc[w] = "work" /\ item' = [item EXCEPT ![w] = NoPacket]
        /\ failed' = failed \cup {k} /\ UNCHANGED <<queue, log>>
    BY <1>10, <2>1 DEF Fail
  <2>4. /\ \A v \in Workers, j \in Packets :
               Holds(v, j)' <=> Holds(v, j) /\ ~(j = k /\ v = w)
        /\ At(k, x)
    BY <1>8, <2>1, <2>2, <2>3
  <2>5. Move(k, x, y)
    BY <1>2, <2>1, <2>3, <2>4, Moved DEF Logged, InQueue
  <2>6. Distinct'
    BY <1>1, <2>3, DistinctStays
  <2>7. Drops(w, k)
    <3>1. Holds(w, k)
      BY <2>1, <2>3 DEF Holds
    <3> QED BY <2>1, <2>3, <2>5, <3>1 DEF Drops
  <2>8. Forward(w)
    BY <2>7 DEF Forward
  <2> QED BY <1>1, <1>2, <2>4, <2>5, <2>6, <2>8, MoveKeepsPlaces
<1>11. CASE Log(w)
  <2>1. PICK k \in Packets, x \in Places, y \in Places :
            k = item[w] /\ x = <<"worker", w>> /\ y = <<"log", 0>>
    BY <1>9, <1>11, PlaceCases DEF Log
  <2>2. PICK l \in {"enforce", "count"} : pc' = [pc EXCEPT ![w] = l]
    BY <1>11 DEF Log
  <2>3. /\ pc[w] = "work" /\ item' = item
        /\ log' = Append(log, k) /\ UNCHANGED <<queue, failed>>
    BY <1>11, <2>1 DEF Log
  <2>4. /\ \A v \in Workers, j \in Packets :
               Holds(v, j)' <=> Holds(v, j) /\ ~(j = k /\ v = w)
        /\ At(k, x)
    BY <1>8, <2>1, <2>2, <2>3
  <2>5. Logged' = Logged \cup {k} /\ k \notin Logged
    <3>1. EventsIn(log') = EventsIn(log) \cup {k}
      BY <1>1, <2>3, EventsFacts
    <3>2. ~At(k, y)
      BY <1>5, <2>1, <2>4
    <3> QED BY <2>1, <3>1, <3>2, AtPlace, QueueSets
  <2>6. Move(k, x, y)
    <3>1. \A s \in Stages : InQueue(s)' = InQueue(s)
      BY <2>3 DEF InQueue
    <3> QED BY <1>2, <2>1, <2>3, <2>4, <2>5, <3>1, Moved
  <2>7. Distinct'
    <3>1. NoRepeats(log')
      <4>1. NoRepeats(log) /\ k \notin EventsIn(log)
        BY <1>1, <2>5, QueueSets DEF Distinct
      <4> QED BY <1>1, <2>3, <4>1, AppendNoRepeats
    <3>2. ASSUME NEW t \in Stages PROVE NoRepeats(queue'[t])
      BY <1>1, <2>3 DEF Distinct
    <3> QED BY <3>1, <3>2, DistinctAfter
  <2>8. Logs(w, k)
    <3>1. Holds(w, k) /\ StageOf[w] = DB
      BY <1>11, <2>1, <2>3 DEF Holds, Log
    <3> QED BY <2>1, <2>3, <2>6, <3>1 DEF Logs
  <2>9. Forward(w)
    BY <2>8 DEF Forward
  <2> QED BY <1>1, <1>2, <2>4, <2>6, <2>7, <2>9, MoveKeepsPlaces
<1>12. CASE Put(w)
  <2>1. /\ pc[w] = "put" /\ StageOf[w] + 1 \in Stages /\ item' = item
        /\ pc' = [pc EXCEPT ![w] = "count"] /\ UNCHANGED <<log, failed>>
    BY <1>1, <1>12, Constants DEF Put, HandsFull
  <2>2. PICK s \in Stages, k \in Packets, x \in Places, y \in Places :
            s = StageOf[w] + 1 /\ k = item[w] /\ x = <<"worker", w>> /\ y = <<"queue", s>>
    BY <1>9, <2>1, PlaceCases
  <2>3. /\ \A v \in Workers, j \in Packets :
               Holds(v, j)' <=> Holds(v, j) /\ ~(j = k /\ v = w)
        /\ At(k, x)
    BY <1>8, <2>1, <2>2
  <2>4. queue' = [queue EXCEPT ![s] = Append(@, k)]
    BY <1>12, <2>2 DEF Put
  <2>5. /\ EventsIn(queue'[s]) = EventsIn(queue[s]) \cup {k}
        /\ \A t \in Stages : t # s => queue'[t] = queue[t]
    BY <1>1, <2>4, EventsFacts
  <2>6. \A t \in Stages, j \in Packets :
            j \in InQueue(t)' <=> j \in InQueue(t) \/ (j = k /\ t = s)
    BY <2>5, QueueSets
  <2>7. k \notin InQueue(s)
    <3>1. ~At(k, y)
      BY <1>5, <2>2, <2>3
    <3> QED BY <2>2, <3>1, AtPlace
  <2>8. Move(k, x, y)
    BY <1>2, <2>1, <2>2, <2>3, <2>6, Moved DEF Logged
  <2>9. Distinct'
    <3>1. NoRepeats(queue'[s])
      <4>1. queue'[s] = Append(queue[s], k) /\ queue[s] \in Seq(Packets)
        BY <1>1, <2>4
      <4>2. NoRepeats(queue[s]) /\ k \notin EventsIn(queue[s])
        BY <1>1, <2>7, QueueSets DEF Distinct
      <4> QED BY <4>1, <4>2, AppendNoRepeats
    <3>2. ASSUME NEW t \in Stages PROVE NoRepeats(queue'[t])
      BY <1>1, <2>5, <3>1 DEF Distinct
    <3>3. NoRepeats(log')
      BY <1>1, <2>1 DEF Distinct
    <3> QED BY <3>2, <3>3, DistinctAfter
  <2>10. Puts(w, k)
    <3>1. Holds(w, k)
      BY <2>1, <2>2 DEF Holds
    <3> QED BY <2>1, <2>2, <2>4, <2>8, <3>1 DEF Puts
  <2>11. Forward(w)
    BY <2>10 DEF Forward
  <2> QED BY <1>1, <1>2, <2>3, <2>8, <2>9, <2>11, MoveKeepsPlaces
<1> QED BY <1>6, <1>7, <1>10, <1>11, <1>12
    DEF Worker, ExtractFails, ValidateFails, LogFails

LEMMA PlaceInductive == PlaceInv /\ [Next]_vars => PlaceInv'
<1> SUFFICES ASSUME PlaceInv, [Next]_vars PROVE PlaceInv'
  OBVIOUS
<1>1. Typed'
  BY TypedInductive DEF PlaceInv
<1>2. ASSUME UNCHANGED <<queue, pc, item, log, failed, refused, submitted>>
      PROVE  InOnePlace' /\ Distinct'
  <2>1. Rest
    BY <1>2, Rested DEF InQueue, Holds
  <2> QED BY <1>2, <2>1, RestKeepsPlaces DEF PlaceInv, Distinct, NoRepeats
<1>3. InOnePlace' /\ Distinct'
  <2>1. CASE CountReceived \/ Stop \/ UNCHANGED vars
    BY <1>2, <2>1 DEF CountReceived, Stop, vars
  <2> QED BY <2>1, SubmitPlaces, WorkerPlaces DEF Next
<1> QED BY <1>1, <1>3 DEF PlaceInv

LEMMA InitPlaces == Init => PlaceInv
<1> SUFFICES ASSUME Init PROVE PlaceInv
  OBVIOUS
<1>1. EventsIn(<<>>) = {} /\ NoRepeats(<<>>)
  <2>1. Len(<<>>) = 0
    BY EmptySeq
  <2> QED BY <2>1 DEF EventsIn, NoRepeats
<1>2. Distinct
  BY <1>1 DEF Init, Distinct
<1>3. ASSUME NEW k \in Packets, NEW z \in Places PROVE ~At(k, z)
  <2>1. \A s \in Stages : InQueue(s) = {}
    BY <1>1, QueueSets DEF Init
  <2>2. Logged = {}
    BY <1>1, QueueSets DEF Init
  <2>3. \A v \in Workers : ~Holds(v, k)
    BY DEF Init, Holds
  <2>4. failed = {} /\ refused = {}
    BY DEF Init
  <2> QED BY <2>1, <2>2, <2>3, <2>4, PlaceCases, AtPlace
<1>4. \A k \in Packets : ~(k <= submitted)
  BY Constants DEF Init
<1>5. InOnePlace
  BY <1>3, <1>4 DEF InOnePlace
<1> QED BY <1>2, <1>5, InitTyped DEF PlaceInv

\* No packet is duplicated or silently lost between the stages
\* (async_pipeline.py:129-306), however many workers share a queue, whatever
\* raises, before and after stop(): each is in one queue, one worker's hands, or
\* has one outcome.
THEOREM PacketsHaveOnePlace == Spec => []OnePlace
<1>1. PlaceInv => OnePlace
  BY DEF PlaceInv, InOnePlace, Distinct, OnePlace
<1> QED BY <1>1, InitPlaces, PlaceInductive, PTL DEF Spec

------------------------------------------------------------------------------
(* Order, with one worker per stage.                                         *)

OnePerStage == \A v, w \in Workers : StageOf[v] = StageOf[w] => v = w

\* The way of a packet: queue and worker of each stage in turn, then the log.
Line == {z \in Places : z[1] \in {"queue", "worker", "log"}}
Rank(z) == IF z[1] = "log" THEN 11
           ELSE IF z[1] = "worker" THEN 2 * StageOf[z[2]] ELSE 2 * z[2] - 1

Ascending(q) == \A i, j \in 1..Len(q) : i < j => q[i] < q[j]

\* Who is farther on the way was submitted earlier.
Marching == \A j, k \in Packets : \A x, y \in Line :
                At(k, x) /\ At(j, y) /\ Rank(y) < Rank(x) => k < j

Sorted == (\A s \in Stages : Ascending(queue[s])) /\ Ascending(log)

MarchInv == PlaceInv /\ Marching /\ Sorted

LEMMA Ranks ==
    /\ \A s \in Stages : <<"queue", s>> \in Line /\ Rank(<<"queue", s>>) = 2 * s - 1
    /\ \A v \in Workers : <<"worker", v>> \in Line /\ Rank(<<"worker", v>>) = 2 * StageOf[v]
    /\ <<"log", 0>> \in Line /\ Rank(<<"log", 0>>) = 11
    /\ <<"failed", 0>> \notin Line /\ <<"refused", 0>> \notin Line
    /\ \A z \in Line : \/ \E s \in Stages : z = <<"queue", s>>
                       \/ \E v \in Workers : z = <<"worker", v>>
                       \/ z = <<"log", 0>>
    /\ \A z \in Line : Rank(z) \in 1..11
<1>1. /\ \A s \in Stages : <<"queue", s>> \in Line /\ Rank(<<"queue", s>>) = 2 * s - 1
      /\ \A v \in Workers : <<"worker", v>> \in Line /\ Rank(<<"worker", v>>) = 2 * StageOf[v]
      /\ <<"log", 0>> \in Line /\ Rank(<<"log", 0>>) = 11
      /\ <<"failed", 0>> \notin Line /\ <<"refused", 0>> \notin Line
  BY PlaceCases DEF Line, Rank
<1>2. \A z \in Line : \/ \E s \in Stages : z = <<"queue", s>>
                      \/ \E v \in Workers : z = <<"worker", v>>
                      \/ z = <<"log", 0>>
  BY PlaceCases DEF Line
<1>3. \A s \in Stages : 2 * s - 1 \in 1..11
  BY Constants
<1>4. \A v \in Workers : 2 * StageOf[v] \in 1..11
  BY Constants
<1> QED BY <1>1, <1>2, <1>3, <1>4

\* A move keeps the march if the packet comes to a place behind all that are
\* earlier and before all that are later.
LEMMA MoveMarches ==
    ASSUME Marching, NEW k \in Packets, NEW x \in Places, NEW y \in Places, Move(k, x, y),
           \A z \in Places : At(k, z) => z = x,
           \A j \in Packets, z \in Line :
               y \in Line /\ j # k /\ At(j, z) => /\ Rank(z) > Rank(y) => j < k
                                                  /\ Rank(z) < Rank(y) => k < j
    PROVE  Marching'
<1> SUFFICES ASSUME NEW i \in Packets, NEW j \in Packets, NEW u \in Line, NEW v \in Line,
                    At(i, u)', At(j, v)', Rank(v) < Rank(u)
             PROVE  i < j
  BY DEF Marching, Line, Places, Rank
<1>1. u \in Places /\ v \in Places /\ Rank(u) \in Nat /\ Rank(v) \in Nat
  BY Ranks DEF Line
<1>2. (At(i, u) /\ ~(i = k /\ u = x)) \/ (i = k /\ u = y)
  BY <1>1 DEF Move
<1>3. (At(j, v) /\ ~(j = k /\ v = x)) \/ (j = k /\ v = y)
  BY <1>1 DEF Move
<1>4. CASE At(i, u) /\ At(j, v)
  BY <1>4 DEF Marching
<1>5. CASE i = k /\ u = y /\ At(j, v) /\ ~(j = k /\ v = x)
  <2>1. j # k
    BY <1>1, <1>5
  <2> QED BY <1>5, <2>1
<1>6. CASE j = k /\ v = y /\ At(i, u) /\ ~(i = k /\ u = x)
  <2>1. i # k /\ Rank(u) > Rank(v)
    BY <1>1, <1>6
  <2> QED BY <1>6, <2>1
<1>7. CASE i = k /\ u = y /\ j = k /\ v = y
  BY <1>1, <1>7
<1> QED BY <1>2, <1>3, <1>4, <1>5, <1>6, <1>7

LEMMA RestMarches == ASSUME Marching, Rest PROVE Marching'
<1> SUFFICES ASSUME NEW i \in Packets, NEW j \in Packets, NEW u \in Line, NEW v \in Line,
                    At(i, u)', At(j, v)', Rank(v) < Rank(u)
             PROVE  i < j
  BY DEF Marching, Line, Places, Rank
<1>1. u \in Places /\ v \in Places
  BY DEF Line
<1>2. At(i, u) /\ At(j, v)
  BY <1>1 DEF Rest
<1> QED BY <1>2 DEF Marching

\* The latest packet may be appended, and the head may go: it is the earliest.
LEMMA AppendAscends ==
    ASSUME NEW q \in Seq(Packets), NEW k \in Packets, Ascending(q), \A j \in EventsIn(q) : j < k
    PROVE  Ascending(Append(q, k))
<1>1. /\ Len(Append(q, k)) = Len(q) + 1 /\ Append(q, k)[Len(q) + 1] = k /\ Len(q) \in Nat
      /\ \A i \in 1..Len(q) : Append(q, k)[i] = q[i]
  BY AppendFacts, LenProperties
<1>2. \A i \in 1..Len(q) : q[i] < k
  BY DEF EventsIn
<1> SUFFICES ASSUME NEW i \in 1..Len(Append(q, k)), NEW j \in 1..Len(Append(q, k)), i < j
             PROVE  Append(q, k)[i] < Append(q, k)[j]
  BY DEF Ascending
<1>3. i \in 1..Len(q)
  BY <1>1
<1>4. CASE j = Len(q) + 1
  BY <1>1, <1>2, <1>3, <1>4
<1>5. CASE j \in 1..Len(q)
  BY <1>1, <1>3, <1>5 DEF Ascending
<1> QED BY <1>1, <1>4, <1>5

LEMMA TailAscends ==
    ASSUME NEW q \in Seq(Packets), q # <<>>, Ascending(q)
    PROVE  Ascending(Tail(q)) /\ \A j \in EventsIn(q) : j # Head(q) => Head(q) < j
<1>1. /\ Len(q) \in Nat \ {0} /\ Head(q) = q[1] /\ Len(Tail(q)) = Len(q) - 1
      /\ \A i \in 1..Len(Tail(q)) : Tail(q)[i] = q[i + 1]
  BY HeadTailFacts
<1>2. ASSUME NEW i \in 1..Len(Tail(q)), NEW j \in 1..Len(Tail(q)), i < j
      PROVE  Tail(q)[i] < Tail(q)[j]
  <2>1. i + 1 \in 1..Len(q) /\ j + 1 \in 1..Len(q) /\ i + 1 < j + 1
    BY <1>1, <1>2
  <2> QED BY <1>1, <2>1 DEF Ascending
<1>3. ASSUME NEW i \in 1..Len(q), q[i] # Head(q) PROVE Head(q) < q[i]
  <2>1. 1 \in 1..Len(q) /\ 1 < i
    BY <1>1, <1>3
  <2> QED BY <1>1, <2>1 DEF Ascending
<1> QED BY <1>2, <1>3 DEF Ascending, EventsIn

LEMMA SortedAfter ==
    ASSUME \A s \in Stages : Ascending(queue'[s]), Ascending(log')
    PROVE  Sorted'
BY DEF Sorted, Ascending

\* What the steps of one worker may assume of the others.
LEMMA MarchFacts ==
    ASSUME MarchInv
    PROVE  /\ queue \in [Stages -> Seq(Packets)] /\ log \in Seq(Packets)
           /\ \A s \in Stages : queue[s] \in Seq(Packets) /\ Ascending(queue[s])
           /\ Ascending(log) /\ Packets \subseteq Nat /\ submitted \in Nat
           /\ \A k \in Packets, x, z \in Places : At(k, x) /\ At(k, z) => z = x
           /\ \A k \in Packets, x \in Places : At(k, x) => k <= submitted
<1>1. /\ queue \in [Stages -> Seq(Packets)] /\ log \in Seq(Packets)
      /\ submitted \in 0..MaxPackets /\ InOnePlace
  BY DEF MarchInv, PlaceInv, Typed, TypeOK
<1>2. Packets \subseteq Nat /\ submitted \in Nat
  BY <1>1, Constants
<1>3. ASSUME NEW k \in Packets, NEW x \in Places, At(k, x)
      PROVE  k <= submitted /\ \A z \in Places : At(k, z) => z = x
  BY <1>1, <1>3 DEF InOnePlace
<1> QED BY <1>1, <1>2, <1>3 DEF MarchInv, Sorted

LEMMA QueuedAt ==
    ASSUME MarchInv, NEW s \in Stages, NEW j \in EventsIn(queue[s])
    PROVE  j \in Packets /\ At(j, <<"queue", s>>) /\ <<"queue", s>> \in Places
<1>1. queue[s] \in Seq(Packets)
  BY MarchFacts
<1>2. j \in Packets
  BY <1>1, EventsFacts
<1>3. j \in InQueue(s)
  BY QueueSets
<1> QED BY <1>2, <1>3, AtPlace, PlaceCases

LEMMA SubmitMarches == ASSUME MarchInv, Submit PROVE Marching' /\ Sorted'
<1>1. PICK k \in Packets : Enters(k)
  BY SubmitPlaces DEF MarchInv
<1>2. /\ k = submitted + 1 /\ log' = log /\ \A z \in Places : ~At(k, z)
  BY <1>1 DEF Enters
<1>3. \A j \in Packets, z \in Places : At(j, z) => j < k
  BY <1>2, MarchFacts
<1>4. CASE queue' = queue /\ Move(k, <<"refused", 0>>, <<"refused", 0>>)
  <2>1. Marching'
    BY <1>2, <1>4, MoveMarches, PlaceCases, Ranks DEF MarchInv
  <2> QED BY <1>2, <1>4, <2>1, MarchFacts, SortedAfter
<1>5. CASE /\ queue' = [queue EXCEPT ![CNN] = Append(@, k)]
           /\ Move(k, <<"queue", CNN>>, <<"queue", CNN>>)
  <2>1. PICK c \in Stages, y \in Places : c = CNN /\ y = <<"queue", c>> /\ y \in Line /\ Rank(y) = 1
    BY Constants, PlaceCases, Ranks
  <2>2. Marching'
    <3>1. \A z \in Line : ~(Rank(z) < Rank(y)) /\ z \in Places
      BY <2>1, Ranks DEF Line
    <3> QED BY <1>2, <1>3, <1>5, <2>1, <3>1, MoveMarches DEF MarchInv
  <2>3. Ascending(Append(queue[c], k))
    <3>1. \A j \in EventsIn(queue[c]) : j \in Packets /\ j < k
      BY <1>3, QueuedAt
    <3> QED BY <3>1, MarchFacts, AppendAscends
  <2>4. \A s \in Stages : queue'[s] = IF s = c THEN Append(queue[c], k) ELSE queue[s]
    BY <1>5, <2>1, MarchFacts
  <2> QED BY <1>2, <2>2, <2>3, <2>4, MarchFacts, SortedAfter
<1> QED BY <1>1, <1>4, <1>5 DEF Enters

\* One step along the line: nobody else may be as far as the packet was, unless it
\* is later.
LEMMA StepMarches ==
    ASSUME MarchInv, NEW k \in Packets, NEW x \in Line, NEW y \in Line, At(k, x), Move(k, x, y),
           Rank(y) = Rank(x) + 1,
           \A j \in Packets, z \in Line : j # k /\ At(j, z) /\ Rank(z) = Rank(x) => k < j
    PROVE  /\ Marching'
           /\ \A j \in Packets : At(j, y) => j < k
<1>1. x \in Places /\ y \in Places /\ Rank(x) \in Nat
  BY Ranks DEF Line
<1>2. ASSUME NEW j \in Packets, NEW z \in Line, At(j, z)
      PROVE  /\ Rank(z) > Rank(x) => j < k
             /\ Rank(z) < Rank(x) => k < j
  BY <1>1, <1>2, Ranks DEF MarchInv, Marching
<1>3. ASSUME NEW j \in Packets, NEW z \in Line, j # k, At(j, z)
      PROVE  (Rank(z) > Rank(y) => j < k) /\ (Rank(z) < Rank(y) => k < j)
  <2>1. Rank(z) \in Nat
    BY Ranks
  <2>2. Rank(z) > Rank(y) => Rank(z) > Rank(x)
    BY <1>1, <2>1
  <2>3. Rank(z) < Rank(y) => Rank(z) < Rank(x) \/ Rank(z) = Rank(x)
    BY <1>1, <2>1
  <2> QED BY <1>2, <1>3, <2>2, <2>3
<1>4. \A z \in Places : At(k, z) => z = x
  BY <1>1, MarchFacts
<1>5. Marching'
  BY <1>1, <1>3, <1>4, MoveMarches DEF MarchInv
<1> QED BY <1>1, <1>2, <1>5

LEMMA WorkerMarches ==
    ASSUME OnePerStage, MarchInv, NEW w \in Workers, Forward(w) PROVE Marching' /\ Sorted'
<1>1. StageOf[w] \in Stages /\ Stages = {1, 2, 3, 4, 5} /\ DB = 5
  BY Constants
\* While the worker has a packet, nobody else is at its stage's second place.
<1>2. ASSUME NEW k \in Packets, Holds(w, k),
             NEW j \in Packets, NEW z \in Line, j # k, At(j, z)
      PROVE  Rank(z) # Rank(<<"worker", w>>)
  <2>1. ASSUME NEW v \in Workers, z = <<"worker", v>> PROVE Rank(z) # Rank(<<"worker", w>>)
    <3>1. v # w
      BY <1>2, <2>1, AtPlace DEF Holds
    <3>2. StageOf[v] # StageOf[w] /\ StageOf[v] \in Stages
      BY <3>1, Constants DEF OnePerStage
    <3> QED BY <1>1, <2>1, <3>2, Ranks
  <2>2. ASSUME NEW s \in Stages, z = <<"queue", s>> PROVE Rank(z) # Rank(<<"worker", w>>)
    BY <1>1, <2>2, Ranks
  <2>3. ASSUME z = <<"log", 0>> PROVE Rank(z) # Rank(<<"worker", w>>)
    BY <1>1, <2>3, Ranks
  <2> QED BY <2>1, <2>2, <2>3, Ranks
<1>3. ASSUME Rest, UNCHANGED <<queue, log>> PROVE Marching' /\ Sorted'
  BY <1>3, RestMarches, MarchFacts, SortedAfter DEF MarchInv
<1>4. ASSUME NEW k \in Packets, Drops(w, k) PROVE Marching' /\ Sorted'
  <2>1. /\ Move(k, <<"worker", w>>, <<"failed", 0>>) /\ UNCHANGED <<queue, log>>
        /\ At(k, <<"worker", w>>)
    BY <1>4, AtPlace DEF Drops
  <2>2. PICK x \in Places, y \in Places : x = <<"worker", w>> /\ y = <<"failed", 0>> /\ y \notin Line
    BY PlaceCases, Ranks
  <2>3. \A z \in Places : At(k, z) => z = x
    BY <2>1, <2>2, MarchFacts
  <2>4. Marching'
    BY <2>1, <2>2, <2>3, MoveMarches DEF MarchInv
  <2> QED BY <2>1, <2>4, MarchFacts, SortedAfter
<1>5. ASSUME NEW k \in Packets, Logs(w, k) PROVE Marching' /\ Sorted'
  <2>1. PICK x \in Line, y \in Line : x = <<"worker", w>> /\ y = <<"log", 0>>
    BY Ranks
  <2>2. /\ Holds(w, k) /\ At(k, x) /\ Move(k, x, y) /\ log' = Append(log, k) /\ queue' = queue
        /\ StageOf[w] = DB
    BY <1>5, <2>1, AtPlace DEF Logs
  <2>3. Rank(x) = 10 /\ Rank(y) = Rank(x) + 1
    BY <1>1, <2>1, <2>2, Ranks
  <2>4. Marching' /\ \A j \in Packets : At(j, y) => j < k
    BY <1>2, <2>1, <2>2, <2>3, StepMarches
  <2>5. \A j \in EventsIn(log) : j < k
    BY <2>1, <2>4, MarchFacts, EventsFacts, AtPlace, QueueSets
  <2>6. Ascending(log')
    BY <2>2, <2>5, MarchFacts, AppendAscends
  <2> QED BY <2>2, <2>4, <2>6, MarchFacts, SortedAfter
<1>6. ASSUME NEW k \in Packets, Puts(w, k) PROVE Marching' /\ Sorted'
  <2>1. PICK s \in Stages, x \in Line, y \in Line :
            s = StageOf[w] + 1 /\ x = <<"worker", w>> /\ y = <<"queue", s>>
    BY <1>6, Ranks DEF Puts
  <2>2. /\ Holds(w, k) /\ At(k, x) /\ Move(k, x, y) /\ log' = log
        /\ queue' = [queue EXCEPT ![s] = Append(@, k)]
    BY <1>6, <2>1, AtPlace DEF Puts
  <2>3. Rank(y) = Rank(x) + 1
    BY <1>1, <2>1, Ranks
  <2>4. Marching' /\ \A j \in Packets : At(j, y) => j < k
    BY <1>2, <2>1, <2>2, <2>3, StepMarches
  <2>5. \A j \in EventsIn(queue[s]) : j < k
    BY <2>1, <2>4, QueuedAt
  <2>6. Ascending(Append(queue[s], k))
    BY <2>5, MarchFacts, AppendAscends
  <2>7. \A t \in Stages : queue'[t] = IF t = s THEN Append(queue[s], k) ELSE queue[t]
    BY <2>2, MarchFacts
  <2> QED BY <2>2, <2>4, <2>6, <2>7, MarchFacts, SortedAfter
<1>7. ASSUME NEW k \in Packets, Gets(w, k) PROVE Marching' /\ Sorted'
  <2>1. PICK s \in Stages, x \in Line, y \in Line :
            s = StageOf[w] /\ x = <<"queue", s>> /\ y = <<"worker", w>>
    BY <1>1, Ranks
  <2>2. /\ queue[s] # <<>> /\ k = Head(queue[s]) /\ Move(k, x, y) /\ log' = log
        /\ queue' = [queue EXCEPT ![s] = Tail(@)]
    BY <1>7, <2>1 DEF Gets
  <2>3. Rank(x) = 2 * s - 1 /\ Rank(y) = Rank(x) + 1
    <3>1. Rank(x) = 2 * s - 1 /\ Rank(y) = 2 * s
      BY <2>1, Ranks
    <3>2. 2 * s = 2 * s - 1 + 1
      BY <1>1
    <3> QED BY <3>1, <3>2
  <2>4. Ascending(Tail(queue[s])) /\ \A j \in EventsIn(queue[s]) : j # k => k < j
    BY <2>2, MarchFacts, TailAscends
  <2>5. At(k, x)
    <3>1. k \in EventsIn(queue[s])
      BY <2>2, MarchFacts, EventsFacts
    <3> QED BY <2>1, <3>1, AtPlace, QueueSets
  <2>6. ASSUME NEW j \in Packets, NEW z \in Line, j # k, At(j, z), Rank(z) = Rank(x)
        PROVE  k < j
    <3>1. z = x
      <4>1. ASSUME NEW t \in Stages, z = <<"queue", t>> PROVE z = x
        <5>1. 2 * t - 1 = 2 * s - 1 /\ t \in Nat /\ s \in Nat
          BY <1>1, <2>3, <2>6, <4>1, Ranks
        <5>2. t = s
          BY <5>1
        <5> QED BY <2>1, <4>1, <5>2
      <4>2. \A v \in Workers : z # <<"worker", v>>
        <5>1. \A v \in Workers : 2 * StageOf[v] # 2 * s - 1
          BY <1>1, Constants
        <5> QED BY <2>3, <2>6, <5>1, Ranks
      <4>3. z # <<"log", 0>>
        BY <1>1, <2>3, <2>6, Ranks
      <4> QED BY <4>1, <4>2, <4>3, Ranks
    <3>2. j \in EventsIn(queue[s])
      BY <2>1, <2>6, <3>1, AtPlace, QueueSets
    <3> QED BY <2>4, <2>6, <3>2
  <2>7. Marching'
    BY <2>1, <2>2, <2>3, <2>5, <2>6, StepMarches
  <2>8. \A t \in Stages : queue'[t] = IF t = s THEN Tail(queue[s]) ELSE queue[t]
    BY <2>2, MarchFacts
  <2> QED BY <2>2, <2>4, <2>7, <2>8, MarchFacts, SortedAfter
<1> QED BY <1>3, <1>4, <1>5, <1>6, <1>7 DEF Forward

\* With one worker per stage, as the constructor allows (async_pipeline.py:24), packets
\* are logged in the order in which they were submitted (async_pipeline.py:129-306), for any number
\* of packets, capacity, failures and a stop at any time.
THEOREM PacketsLoggedInOrder ==
    ASSUME OnePerStage PROVE Spec => []LogInOrder
<1>1. Init => MarchInv
  <2> SUFFICES ASSUME Init PROVE MarchInv
    OBVIOUS
  <2>1. PlaceInv /\ submitted = 0
    BY InitPlaces DEF Init
  <2>2. \A k \in Packets, z \in Places : ~At(k, z)
    <3>1. \A k \in Packets : ~(k <= submitted)
      BY <2>1, Constants
    <3> QED BY <2>1, <3>1 DEF PlaceInv, InOnePlace
  <2>3. Marching
    BY <2>2 DEF Marching, Line
  <2>4. Ascending(<<>>)
    BY EmptySeq DEF Ascending
  <2>5. Sorted
    BY <2>4 DEF Init, Sorted
  <2> QED BY <2>1, <2>3, <2>5 DEF MarchInv
<1>2. MarchInv /\ [Next]_vars => MarchInv'
  <2> SUFFICES ASSUME MarchInv, [Next]_vars PROVE MarchInv'
    OBVIOUS
  <2>1. PlaceInv'
    BY PlaceInductive DEF MarchInv
  <2>2. CASE UNCHANGED <<queue, pc, item, log, failed, refused>>
    <3>1. Rest
      BY <2>2, Rested DEF InQueue, Holds
    <3> QED BY <2>1, <2>2, <3>1, RestMarches, MarchFacts, SortedAfter DEF MarchInv
  <2>3. CASE CountReceived \/ Stop \/ UNCHANGED vars
    BY <2>2, <2>3 DEF CountReceived, Stop, vars
  <2>4. CASE Submit
    BY <2>1, <2>4, SubmitMarches DEF MarchInv
  <2>5. ASSUME NEW w \in Workers, Worker(w) PROVE MarchInv'
    <3>1. Forward(w)
      BY <2>5, WorkerPlaces DEF MarchInv
    <3> QED BY <2>1, <3>1, WorkerMarches DEF MarchInv
  <2> QED BY <2>3, <2>4, <2>5 DEF Next
<1>3. MarchInv => LogInOrder
  BY DEF MarchInv, Sorted, Ascending, LogInOrder
<1> QED BY <1>1, <1>2, <1>3, PTL DEF Spec

------------------------------------------------------------------------------
(* Log before block.                                                         *)

\* Packets the validator stage is done with and that have not failed since.
Past(k) == \/ k \in InQueue(DB) \cup Logged
           \/ \E w \in Workers : /\ Holds(w, k)
                                 /\ StageOf[w] = DB \/ (StageOf[w] = VALIDATOR /\ pc[w] = "put")

ValidatedFirst == \A k \in Labelled : Past(k) => k \in validated
LoggedFirst == \A w \in Workers :
    pc[w] = "enforce" => /\ item[w] \in Logged /\ item[w] \in Sourced
                         /\ decision[item[w]] = "Block"

EnforceInv == PlaceInv /\ ValidatedFirst /\ LoggedFirst /\ BlockedOnlyAfter

\* Steps that decode nothing, log nothing away and block nobody.
LEMMA QuietStep ==
    ASSUME EnforceInv, Logged \subseteq Logged', validated \subseteq validated',
           \A k \in Logged : decision'[k] = decision[k],
           \A k \in blocked' : k \in blocked \/ \E w \in Workers : pc[w] = "enforce" /\ item[w] = k,
           \A w \in Workers :
               pc'[w] = "enforce" =>
                   \/ pc[w] = "enforce" /\ item'[w] = item[w]
                   \/ /\ item'[w] \in Logged' /\ item'[w] \in Sourced
                      /\ decision'[item'[w]] = "Block",
           \A k \in Labelled : Past(k)' => Past(k) \/ k \in validated',
           PlaceInv'
    PROVE  EnforceInv'
<1>1. ValidatedFirst'
  <2>1. \A k \in Labelled : Past(k)' => k \in validated'
    BY DEF EnforceInv, ValidatedFirst
  <2> QED BY <2>1 DEF ValidatedFirst, Past, InQueue, Logged, Holds
<1>2. LoggedFirst'
  BY DEF EnforceInv, LoggedFirst
<1>3. ASSUME NEW k \in blocked'
      PROVE  /\ decision'[k] = "Block" /\ k \in Sourced
             /\ k \in Labelled => k \in validated'
             /\ k \in Logged'
  <2>1. decision[k] = "Block" /\ k \in Sourced /\ k \in Logged
    BY <1>3 DEF EnforceInv, LoggedFirst, BlockedOnlyAfter
  <2>2. k \in Labelled => k \in validated
    BY <2>1 DEF EnforceInv, ValidatedFirst, Past
  <2> QED BY <2>1, <2>2
<1> QED BY <1>1, <1>2, <1>3 DEF EnforceInv, BlockedOnlyAfter

\* The steps of the other threads.
LEMMA OtherSteps ==
    ASSUME EnforceInv, Submit \/ CountReceived \/ Stop \/ UNCHANGED vars PROVE EnforceInv'
<1>1. UNCHANGED <<pc, item, decision, validated, log, blocked>>
  BY DEF Submit, CountReceived, Stop, vars
<1>2. queue'[DB] = queue[DB]
  <2>1. queue \in [Stages -> Seq(Packets)] /\ CNN # DB /\ DB \in Stages
    BY Constants DEF EnforceInv, PlaceInv, Typed, TypeOK
  <2>2. queue' = queue \/ queue' = [queue EXCEPT ![CNN] = Append(@, submitted + 1)]
    BY DEF Submit, CountReceived, Stop, vars
  <2> QED BY <2>1, <2>2
<1>3. InQueue(DB)' = InQueue(DB) /\ Logged' = Logged
  BY <1>1, <1>2 DEF InQueue, Logged
<1>4. \A k \in Labelled : Past(k)' => Past(k)
  BY <1>1, <1>3 DEF Past, Holds, InQueue, Logged
<1>5. PlaceInv'
  BY PlaceInductive DEF Next, EnforceInv
<1> QED BY <1>1, <1>3, <1>4, <1>5, QuietStep

LEMMA WorkerSteps == ASSUME EnforceInv, NEW w \in Workers, Worker(w) PROVE EnforceInv'
<1>1. /\ PlaceInv /\ InOnePlace /\ HandsFull
      /\ queue \in [Stages -> Seq(Packets)] /\ log \in Seq(Packets)
      /\ pc \in [Workers -> {"get", "work", "put", "enforce", "count", "exited"}]
      /\ item \in [Workers -> Packets \cup {NoPacket}]
      /\ decision \in [Packets -> {"none", "Log", "Block"}]
      /\ StageOf[w] \in Stages /\ DB \in Stages
      /\ VALIDATOR # DB /\ VALIDATOR + 1 = DB /\ VALIDATOR \in Nat /\ NoPacket \notin Packets
  <2>1. PlaceInv /\ InOnePlace /\ HandsFull /\ TypeOK
    BY DEF EnforceInv, PlaceInv, Typed
  <2>2. /\ StageOf[w] \in Stages /\ DB \in Stages /\ NoPacket \notin Packets
        /\ VALIDATOR # DB /\ VALIDATOR + 1 = DB /\ VALIDATOR \in Nat
    BY Constants
  <2> QED BY <2>1, <2>2 DEF TypeOK
<1>2. PlaceInv'
  BY PlaceInductive DEF Next, EnforceInv
<1>3. item = [item EXCEPT ![w] = item[w]]
  BY <1>1
\* Where everybody stands after a step of w.
<1>4. ASSUME NEW l, NEW k \in Packets \cup {NoPacket},
             pc' = [pc EXCEPT ![w] = l], item' = [item EXCEPT ![w] = k]
      PROVE  /\ pc'[w] = l /\ item'[w] = k
             /\ \A v \in Workers \ {w} : pc'[v] = pc[v] /\ item'[v] = item[v]
  BY <1>1, <1>4
\* A step that puts nothing into the last queue or the log, and takes w to no
\* place where its packet must have been validated.
<1>5. ASSUME NEW l, NEW k \in Packets \cup {NoPacket},
             pc' = [pc EXCEPT ![w] = l], item' = [item EXCEPT ![w] = k],
             l # "enforce",
             InQueue(DB)' \subseteq InQueue(DB), log' = log, validated \subseteq validated',
             \A j \in Logged : decision'[j] = decision[j],
             \A j \in blocked' : j \in blocked \/ (pc[w] = "enforce" /\ item[w] = j),
             l \in {"work", "put"} /\ k \in Labelled /\
                 (StageOf[w] = DB \/ (StageOf[w] = VALIDATOR /\ l = "put"))
                 => Past(k) \/ k \in validated'
      PROVE  EnforceInv'
  <2>1. Logged' = Logged
    BY <1>5 DEF Logged
  <2>2. \A v \in Workers : pc'[v] = "enforce" => pc[v] = "enforce" /\ item'[v] = item[v]
    BY <1>4, <1>5
  <2>3. ASSUME NEW j \in Labelled, Past(j)' PROVE Past(j) \/ j \in validated'
    <3>1. CASE j \in InQueue(DB)' \cup Logged'
      BY <1>5, <2>1, <3>1 DEF Past
    <3>2. ASSUME NEW v \in Workers, Holds(v, j)',
                 StageOf[v] = DB \/ (StageOf[v] = VALIDATOR /\ pc'[v] = "put")
          PROVE  Past(j) \/ j \in validated'
      <4>1. CASE v = w
        <5>1. pc'[w] = l /\ item'[w] = k
          BY <1>4, <1>5
        <5>2. j = k /\ l \in {"work", "put"}
          BY <3>2, <4>1, <5>1 DEF Holds
        <5> QED BY <1>5, <3>2, <4>1, <5>1, <5>2
      <4>2. CASE v # w
        <5>1. pc'[v] = pc[v] /\ item'[v] = item[v]
          BY <1>4, <1>5, <4>2
        <5> QED BY <3>2, <5>1 DEF Past, Holds
      <4> QED BY <4>1, <4>2
    <3> QED BY <2>3, <3>1, <3>2 DEF Past, InQueue, Logged, Holds
  <2> QED BY <1>2, <1>5, <2>1, <2>2, <2>3, QuietStep
<1>6. CASE Get(w)
  <2>1. PICK s \in Stages : s = StageOf[w]
    BY <1>1
  <2>2. queue[s] # <<>> /\ queue[s] \in Seq(Packets) /\ NoRepeats(queue[s])
    BY <1>1, <1>6, <2>1 DEF Get, PlaceInv, Distinct
  <2>3. PICK k \in Packets : k = Head(queue[s]) /\ k \in EventsIn(queue[s])
    BY <2>2, HeadTailFacts, EventsFacts
  <2>4. /\ pc' = [pc EXCEPT ![w] = "work"] /\ item' = [item EXCEPT ![w] = k]
        /\ queue' = [queue EXCEPT ![s] = Tail(@)]
        /\ UNCHANGED <<log, decision, validated, blocked>>
    BY <1>6, <2>1, <2>3 DEF Get
  <2>5. InQueue(DB)' \subseteq InQueue(DB)
    <3>1. EventsIn(queue'[s]) = EventsIn(queue[s]) \ {k}
          /\ \A t \in Stages : t # s => queue'[t] = queue[t]
      BY <1>1, <2>2, <2>3, <2>4, TailNoRepeats
    <3> QED BY <1>1, <3>1, QueueSets
  <2>6. StageOf[w] = DB => Past(k)
    BY <2>1, <2>3, QueueSets DEF Past
  <2>7. PICK l \in {"work"} : pc' = [pc EXCEPT ![w] = l]
    BY <2>4
  <2> QED BY <1>5, <2>4, <2>5, <2>6, <2>7
<1>7. CASE Timeout(w) \/ Count(w) \/ Fail(w)
  <2>1. PICK l \in {"get", "exited"} : pc' = [pc EXCEPT ![w] = l]
    BY <1>7 DEF Timeout, Count, Fail, NextIteration
  <2>2. PICK k \in Packets \cup {NoPacket} : item' = [item EXCEPT ![w] = k]
    BY <1>1, <1>3, <1>7 DEF Timeout, Count, Fail
  <2>3. UNCHANGED <<queue, log, decision, validated, blocked>>
    BY <1>7 DEF Timeout, Count, Fail
  <2>4. InQueue(DB)' = InQueue(DB)
    BY <2>3 DEF InQueue
  <2> QED BY <1>5, <2>1, <2>2, <2>3, <2>4
<1>8. CASE Extract(w) \/ Decode(w) \/ Validate(w)
  <2>1. PICK k \in Packets : k = item[w]
    BY <1>1, <1>8 DEF Extract, Decode, Validate, HandsFull
  <2>2. PICK l \in {"put"} : pc' = [pc EXCEPT ![w] = l]
    BY <1>8 DEF Extract, Decode, Validate
  <2>3. /\ item' = [item EXCEPT ![w] = k] /\ pc[w] = "work"
        /\ UNCHANGED <<queue, log, blocked>> /\ StageOf[w] # DB
    BY <1>1, <1>3, <1>8, <2>1, Constants DEF Extract, Decode, Validate
  <2>4. InQueue(DB)' = InQueue(DB)
    BY <2>3 DEF InQueue
  <2>5. validated \subseteq validated'
        /\ (StageOf[w] = VALIDATOR /\ k \in Labelled => k \in validated')
    BY <1>8, <2>1, Constants DEF Extract, Decode, Validate
  <2>6. ASSUME NEW j \in Logged PROVE decision'[j] = decision[j]
    <3>1. j \in Packets
      BY <1>1, QueueSets, EventsFacts
    <3>2. j # k
      <4>1. PICK x \in Places, y \in Places : x = <<"worker", w>> /\ y = <<"log", 0>>
        BY PlaceCases
      <4>2. At(j, y)
        BY <4>1, AtPlace
      <4>3. At(k, x)
        <5>1. Holds(w, k)
          BY <2>1, <2>3 DEF Holds
        <5> QED BY <4>1, <5>1, AtPlace
      <4>4. x # y
        BY <4>1
      <4>5. ASSUME j = k PROVE FALSE
        <5>1. PICK u \in Places : {z \in Places : At(j, z)} \subseteq {u}
          BY <1>1, <3>1, <4>2 DEF InOnePlace
        <5> QED BY <4>2, <4>3, <4>4, <4>5, <5>1
      <4> QED BY <4>5
    <3> QED BY <1>1, <1>8, <2>1, <3>1, <3>2 DEF Extract, Decode, Validate
  <2> QED BY <1>5, <2>2, <2>3, <2>4, <2>5, <2>6
<1>9. CASE Enforce(w)
  <2>1. PICK l \in {"count"} : pc' = [pc EXCEPT ![w] = l]
    BY <1>9 DEF Enforce
  <2>2. PICK k \in Packets \cup {NoPacket} : k = item[w] /\ item' = [item EXCEPT ![w] = k]
    BY <1>1, <1>3, <1>9 DEF Enforce
  <2>3. /\ blocked' = blocked \cup {item[w]} /\ pc[w] = "enforce"
        /\ UNCHANGED <<queue, log, decision, validated>>
    BY <1>9 DEF Enforce
  <2>4. InQueue(DB)' = InQueue(DB)
    BY <2>3 DEF InQueue
  <2> QED BY <1>5, <2>1, <2>2, <2>3, <2>4
\* The packet the worker hands on was validated, or comes to a stage before that.
<1>10. CASE Put(w)
  <2>1. PICK k \in Packets : k = item[w]
    BY <1>1, <1>10 DEF Put, HandsFull
  <2>2. /\ pc[w] = "put" /\ pc' = [pc EXCEPT ![w] = "count"] /\ item' = [item EXCEPT ![w] = k]
        /\ queue' = [queue EXCEPT ![StageOf[w] + 1] = Append(@, k)]
        /\ StageOf[w] + 1 \in Stages
        /\ UNCHANGED <<log, decision, validated, blocked>>
    BY <1>1, <1>3, <1>10, <2>1, Constants DEF Put, HandsFull
  <2>3. PICK s \in Stages : s = StageOf[w] + 1
    BY <2>2
  <2>4. queue' = [queue EXCEPT ![s] = Append(@, k)]
    BY <2>2, <2>3
  <2>5. EventsIn(queue'[s]) = EventsIn(queue[s]) \cup {k}
        /\ \A t \in Stages : t # s => queue'[t] = queue[t]
    BY <1>1, <2>4, EventsFacts
  <2>6. \A j \in Labelled : j \in InQueue(DB)' => j \in InQueue(DB) \/ (j = k /\ s = DB)
    BY <1>1, <2>5, QueueSets
  <2>7. s = DB => StageOf[w] = VALIDATOR
    BY <1>1, <2>3, Constants
  <2>8. ASSUME s = DB PROVE Past(k)
    <3>1. Holds(w, k)
      BY <2>1, <2>2 DEF Holds
    <3> QED BY <2>2, <2>7, <2>8, <3>1 DEF Past
  <2>9. Logged' = Logged
    BY <2>2 DEF Logged
  <2>10. PICK l \in {"count"} : pc' = [pc EXCEPT ![w] = l]
    BY <2>2
  <2>11. \A v \in Workers, j \in Packets \cup Labelled : Holds(v, j)' =>
             Holds(v, j) /\ pc'[v] = pc[v]
    <3>1. pc'[w] = l /\ \A v \in Workers \ {w} : pc'[v] = pc[v] /\ item'[v] = item[v]
      BY <1>4, <2>2, <2>10
    <3> QED BY <3>1 DEF Holds
  <2>12. \A j \in Labelled : Past(j)' => Past(j)
    BY <2>6, <2>8, <2>9, <2>11 DEF Past, InQueue, Logged, Holds
  <2>13. \A v \in Workers : pc'[v] = "enforce" => pc[v] = "enforce" /\ item'[v] = item[v]
    BY <1>4, <2>2, <2>10
  <2> QED BY <1>2, <2>2, <2>9, <2>12, <2>13, QuietStep
<1>11. CASE Log(w)
  <2>1. PICK k \in Packets : k = item[w]
    BY <1>1, <1>11 DEF Log, HandsFull
  <2>2. PICK l \in {"enforce", "count"} :
            /\ pc' = [pc EXCEPT ![w] = l]
            /\ l = "enforce" => decision[k] = "Block" /\ k \in Sourced
    BY <1>11, <2>1 DEF Log
  <2>3. /\ pc[w] = "work" /\ StageOf[w] = DB /\ item' = [item EXCEPT ![w] = k]
        /\ log' = Append(log, k)
        /\ UNCHANGED <<queue, decision, validated, blocked>>
    BY <1>3, <1>11, <2>1 DEF Log
  <2>4. Logged' = Logged \cup {k}
    BY <1>1, <2>1, <2>3, EventsFacts, QueueSets
  <2>5. Past(k)
    <3>1. Holds(w, k)
      BY <2>1, <2>3 DEF Holds
    <3> QED BY <2>3, <3>1 DEF Past
  <2>6. pc'[w] = l /\ item'[w] = k
        /\ \A v \in Workers \ {w} : pc'[v] = pc[v] /\ item'[v] = item[v]
    BY <1>4, <2>2, <2>3
  <2>7. \A v \in Workers, j \in Labelled : Holds(v, j)' => Holds(v, j) /\ pc'[v] = pc[v]
    BY <2>6 DEF Holds
  <2>8. \A j \in Labelled : Past(j)' => Past(j)
    <3>1. InQueue(DB)' = InQueue(DB)
      BY <2>3 DEF InQueue
    <3> QED BY <2>4, <2>5, <2>7, <3>1 DEF Past, InQueue, Logged, Holds
  <2>9. ASSUME NEW v \in Workers, pc'[v] = "enforce"
        PROVE  \/ pc[v] = "enforce" /\ item'[v] = item[v]
               \/ /\ item'[v] \in Logged' /\ item'[v] \in Sourced
                  /\ decision'[item'[v]] = "Block"
    BY <2>2, <2>3, <2>4, <2>6, <2>9
  <2> QED BY <1>2, <2>3, <2>4, <2>8, <2>9, QuietStep
<1> QED BY <1>6, <1>7, <1>8, <1>9, <1>10, <1>11
    DEF Worker, ExtractFails, ValidateFails, LogFails

\* The firewall is only asked to block the source of a packet that was decoded
\* as Block, validated if labelled, and logged before (async_pipeline.py:236-306),
\* with any number of workers in any stage and across exceptions.
THEOREM LogBeforeBlock == Spec => []BlockedOnlyAfter
<1>1. Init => EnforceInv
  <2> SUFFICES ASSUME Init PROVE EnforceInv
    OBVIOUS
  <2>1. InQueue(DB) = {} /\ Logged = {}
    <3>1. EventsIn(<<>>) = {}
      <4>1. Len(<<>>) = 0
        BY EmptySeq
      <4> QED BY <4>1 DEF EventsIn
    <3> QED BY <3>1, QueueSets, Constants DEF Init
  <2>2. \A v \in Workers : pc[v] = "get"
    BY DEF Init
  <2>3. ValidatedFirst
    BY <2>1, <2>2 DEF ValidatedFirst, Past, Holds
  <2>4. LoggedFirst
    BY <2>2 DEF LoggedFirst
  <2>5. BlockedOnlyAfter
    BY DEF Init, BlockedOnlyAfter
  <2> QED BY <2>3, <2>4, <2>5, InitPlaces DEF EnforceInv
<1>2. EnforceInv /\ [Next]_vars => EnforceInv'
  BY OtherSteps, WorkerSteps DEF Next
<1>3. EnforceInv => BlockedOnlyAfter
  BY DEF EnforceInv
<1> QED BY <1>1, <1>2, <1>3, PTL DEF Spec
==============================================================================
