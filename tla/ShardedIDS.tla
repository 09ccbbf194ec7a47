------------------------------- MODULE ShardedIDS -------------------------------
(***************************************************************************)
(* include/ids_sharded.hpp: events routed by their key to shards, each     *)
(* with a bounded queue and one worker thread that feeds the shard's own   *)
(* IDS.  A watchdog replaces workers whose heartbeat stands still, and     *)
(* shutdown drains the queues.  What an IDS does with an event is          *)
(* abstracted to the time it takes, which for some events never ends (a    *)
(* callback that blocks).                                                  *)
(***************************************************************************)
EXTENDS Naturals, Sequences, FiniteSets, SenderOrder

CONSTANTS Producers,    \* threads that call ingest
          Control,      \* the thread that calls flush_pending and shutdown
          Keys,         \* routing keys: source, session or user
          NShards,      \* n_shards
          ShardOf,      \* std::hash(key) % n_shards
          Policies,     \* the backpressure policies a configuration may name
          Capacity,     \* queue.queue_depth (4096)
          SampleRate,   \* backpressure.sample_rate (10)
          MaxMissed,    \* watchdog.max_missed_beats (3)
          AutoRestart,  \* watchdog.auto_restart
          Hanging,      \* keys of events the IDS never finishes
          MaxEvents,    \* bound: events each producer ingests
          MaxFlushes    \* bound: calls of flush_pending

Shards == 1..NShards
Senders == Producers \cup {Control}

ASSUME ShardedAssumption ==
    /\ Control \notin Producers /\ Control \notin Keys
    /\ NShards \in 1..256
    /\ ShardOf \in [Keys -> Shards]
    /\ Policies \subseteq {"Block", "Drop", "Priority", "Sample"}
    /\ Capacity \in Nat \ {0} /\ SampleRate \in Nat \ {0} /\ MaxMissed \in Nat \ {0}
    /\ AutoRestart \in BOOLEAN
    /\ Hanging \subseteq Keys
    /\ MaxEvents \in Nat /\ MaxFlushes \in Nat

\* The num-th event of a sender.
Event == [from : Senders, num : Nat, key : Keys \cup {Control}]
Ingested == [from : Producers, num : Nat, key : Keys]

VARIABLES policy,           \* cfg_.backpressure.policy, fixed by the constructor
          queue,            \* items_ of each shard's BoundedQueue
          closed,           \* closed_: it only cuts short the wait of an empty pop
          drops,            \* drops_ of each queue
          running,          \* the flag of each shard
          wpc, busy,        \* where each worker is; the event it holds, if any
          done,             \* the events each shard's IDS has finished, in order
          beaten,           \* the heartbeat has moved since the watchdog looked
          missed,           \* its count of beats that did not come
          ppc, hand,        \* where each producer is; the event it ingests, if any
          sent,             \* events of each sender (summed over Producers: total_ingested_)
          total_dropped,    \* total_dropped_
          sample_counter,   \* sample_counter_, modulo the rate
          refused,          \* events not accepted
          evicted,          \* of each shard, the events accepted but pushed out
          watchdog, wd_at,  \* where the watchdog is, and at which shard
          watchdog_running,
          ctl, ctl_at,      \* where the control thread is, and at which shard
          before_shutdown   \* events in the queues when shutdown was called

queues == <<queue, closed, drops, evicted>>
workers == <<wpc, busy, done>>
producers == <<ppc, hand, sent, total_dropped, sample_counter, refused>>
dog == <<watchdog, wd_at, watchdog_running>>
control == <<ctl, ctl_at, before_shutdown>>
vars == <<policy, queues, running, workers, beaten, missed, producers, dog, control>>

\* The state start() leaves behind.
Init == /\ policy \in Policies
        /\ queue = [s \in Shards |-> <<>>]
        /\ closed = [s \in Shards |-> FALSE]
        /\ drops = [s \in Shards |-> 0]
        /\ running = [s \in Shards |-> TRUE]
        /\ wpc = [s \in Shards |-> "test"]
        /\ busy = [s \in Shards |-> <<>>]
        /\ done = [s \in Shards |-> <<>>]
        /\ beaten = [s \in Shards |-> FALSE]
        /\ missed = [s \in Shards |-> 0]
        /\ ppc = [p \in Producers |-> "idle"]
        /\ hand = [p \in Producers |-> <<>>]
        /\ sent = [p \in Senders |-> 0]
        /\ total_dropped = 0
        /\ sample_counter = 0
        /\ refused = {}
        /\ evicted = [s \in Shards |-> {}]
        /\ watchdog = IF AutoRestart THEN "sleep" ELSE "off"
        /\ wd_at = 1
        /\ watchdog_running = AutoRestart
        /\ ctl = "serving" /\ ctl_at = 1
        /\ before_shutdown = {}

HasRoom(s) == Len(queue[s]) < Capacity

------------------------------------------------------------------------------
(* ingest                                                                    *)

Ingest(p, k) ==
    /\ ppc[p] = "idle" /\ sent[p] < MaxEvents
    /\ sent' = [sent EXCEPT ![p] = @ + 1]
    /\ hand' = [hand EXCEPT ![p] = <<[from |-> p, num |-> sent[p] + 1, key |-> k]>>]
    /\ ppc' = [ppc EXCEPT ![p] = "push"]
    /\ UNCHANGED <<policy, queues, running, workers, beaten, missed, total_dropped,
                   sample_counter, refused, dog, control>>

\* ingest returns true.
Accept(p) == /\ ppc' = [ppc EXCEPT ![p] = "idle"]
             /\ hand' = [hand EXCEPT ![p] = <<>>]

\* items_.push_back under the queue's lock.
Push(p, s) ==
    /\ HasRoom(s)
    /\ queue' = [queue EXCEPT ![s] = Append(@, hand[p][1])]
    /\ Accept(p)
    /\ UNCHANGED <<closed, drops, evicted, refused>>

\* Slip: the urgent event goes to the head of the queue.
PushOutToHead(p, s) ==
    /\ ~HasRoom(s)
    /\ queue' = [queue EXCEPT ![s] = hand[p] \o Tail(@)]
    /\ drops' = [drops EXCEPT ![s] = @ + 1]
    /\ evicted' = [evicted EXCEPT ![s] = @ \cup {Head(queue[s])}]
    /\ Accept(p)
    /\ UNCHANGED <<closed, refused>>

\* Priority: the oldest event makes room.
PushOut(p, s) ==
    /\ ~HasRoom(s)
    /\ queue' = [queue EXCEPT ![s] = Append(Tail(@), hand[p][1])]
    /\ drops' = [drops EXCEPT ![s] = @ + 1]
    /\ evicted' = [evicted EXCEPT ![s] = @ \cup {Head(queue[s])}]
    /\ Accept(p)
    /\ UNCHANGED <<closed, refused>>

\* Slip: drops_ counts the pushed-out events only.
RefuseUncounted(p, s, counted) ==
    /\ refused' = refused \cup {hand[p][1]}
    /\ ppc' = [ppc EXCEPT ![p] = "count"]
    /\ hand' = [hand EXCEPT ![p] = <<>>]
    /\ UNCHANGED <<queue, closed, drops, evicted>>

\* accepted stays false; drops_ counts it when priority_push has refused it.
Refuse(p, s, counted) ==
    /\ refused' = refused \cup {hand[p][1]}
    /\ drops' = [drops EXCEPT ![s] = @ + counted]
    /\ ppc' = [ppc EXCEPT ![p] = "count"]
    /\ hand' = [hand EXCEPT ![p] = <<>>]
    /\ UNCHANGED <<queue, closed, evicted>>

\* The event's rate decides whether it is urgent: 0.7 or 0.1 against keep_above.
\* Under Block a producer spins until there is room.
Enqueue(p, s) ==
    \/ Push(p, s)
    \/ policy = "Priority" /\ PushOut(p, s)
    \/ policy = "Priority" /\ ~HasRoom(s) /\ Refuse(p, s, 1)
    \/ policy \in {"Drop", "Sample"} /\ ~HasRoom(s) /\ Refuse(p, s, 0)

\* Sampling lets every SampleRate-th event through to the queue.
Sampled == sample_counter = 0

Route(p) ==
    /\ ppc[p] = "push"
    /\ LET s == ShardOf[hand[p][1].key]
       IN  IF policy = "Sample"
           THEN /\ sample_counter' = (sample_counter + 1) % SampleRate
                /\ IF Sampled THEN Enqueue(p, s) ELSE Refuse(p, s, 0)
           ELSE Enqueue(p, s) /\ UNCHANGED sample_counter
    /\ UNCHANGED <<policy, running, workers, beaten, missed, sent, total_dropped, dog, control>>

\* ingest returns false.
CountDrop(p) ==
    /\ ppc[p] = "count"
    /\ total_dropped' = total_dropped + 1
    /\ ppc' = [ppc EXCEPT ![p] = "idle"]
    /\ UNCHANGED <<policy, queues, running, workers, beaten, missed, hand, sent,
                   sample_counter, refused, dog, control>>

------------------------------------------------------------------------------
(* workerLoop                                                                *)

WGoto(s, label) == wpc' = [wpc EXCEPT ![s] = label]

TestLoop(s) ==
    /\ wpc[s] = "test"
    /\ WGoto(s, IF running[s] \/ queue[s] # <<>> THEN "pop" ELSE "gone")
    /\ UNCHANGED <<policy, queues, running, busy, done, beaten, missed, producers, dog, control>>

Pop(s) ==
    /\ wpc[s] = "pop" /\ queue[s] # <<>>
    /\ busy' = [busy EXCEPT ![s] = <<Head(queue[s])>>]
    /\ queue' = [queue EXCEPT ![s] = Tail(@)]
    /\ WGoto(s, "ingest")
    /\ UNCHANGED <<policy, closed, drops, evicted, running, done, beaten, missed,
                   producers, dog, control>>

\* Five milliseconds without an event.
PopTimesOut(s) ==
    /\ wpc[s] = "pop" /\ queue[s] = <<>>
    /\ WGoto(s, "idle")
    /\ UNCHANGED <<policy, queues, running, busy, done, beaten, missed, producers, dog, control>>

\* The flag is read after the pop, and not under its lock.
Idle(s) ==
    /\ wpc[s] = "idle"
    /\ IF running[s]
       THEN WGoto(s, "test") /\ beaten' = [beaten EXCEPT ![s] = TRUE]
       ELSE WGoto(s, "gone") /\ UNCHANGED beaten
    /\ UNCHANGED <<policy, queues, running, busy, done, missed, producers, dog, control>>

\* pipeline.ingest returns, if it does; the event is counted and the heart beats.
Finish(s) ==
    /\ wpc[s] = "ingest"
    /\ busy[s][1].key \notin Hanging
    /\ done' = [done EXCEPT ![s] = Append(@, busy[s][1])]
    /\ busy' = [busy EXCEPT ![s] = <<>>]
    /\ beaten' = [beaten EXCEPT ![s] = TRUE]
    /\ WGoto(s, "test")
    /\ UNCHANGED <<policy, queues, running, missed, producers, dog, control>>

------------------------------------------------------------------------------
(* The watchdog: once per interval, every shard in turn.                     *)

WakeUp ==
    /\ watchdog = "sleep"
    /\ watchdog' = IF watchdog_running THEN "check" ELSE "off"
    /\ wd_at' = 1
    /\ UNCHANGED <<policy, queues, running, workers, beaten, missed, producers,
                   watchdog_running, control>>

OnToNextShard == IF wd_at < NShards
                 THEN wd_at' = wd_at + 1 /\ watchdog' = "check"
                 ELSE wd_at' = 1 /\ watchdog' = "sleep"

Check ==
    /\ watchdog = "check"
    /\ CASE beaten[wd_at] ->
                /\ beaten' = [beaten EXCEPT ![wd_at] = FALSE]
                /\ missed' = [missed EXCEPT ![wd_at] = 0]
                /\ OnToNextShard
                /\ UNCHANGED running
         [] ~beaten[wd_at] /\ missed[wd_at] + 1 < MaxMissed ->
                /\ missed' = [missed EXCEPT ![wd_at] = @ + 1]
                /\ OnToNextShard
                /\ UNCHANGED <<beaten, running>>
         [] OTHER ->    \* restartShard
                /\ running' = [running EXCEPT ![wd_at] = FALSE]
                /\ watchdog' = "join"
                /\ UNCHANGED <<beaten, missed, wd_at>>
    /\ UNCHANGED <<policy, queues, workers, producers, watchdog_running, control>>

\* Slip: the shard is made anew, its queue too.
RestartEmpty ==
    /\ watchdog = "join" /\ wpc[wd_at] = "gone"
    /\ running' = [running EXCEPT ![wd_at] = TRUE]
    /\ queue' = [queue EXCEPT ![wd_at] = <<>>]
    /\ WGoto(wd_at, "test")
    /\ missed' = [missed EXCEPT ![wd_at] = 0]
    /\ OnToNextShard
    /\ UNCHANGED <<policy, closed, drops, evicted, busy, done, beaten, producers,
                   watchdog_running, control>>

\* Slip: the old worker is joined and no new one started.
RestartNobody ==
    /\ watchdog = "join" /\ wpc[wd_at] = "gone"
    /\ running' = [running EXCEPT ![wd_at] = TRUE]
    /\ missed' = [missed EXCEPT ![wd_at] = 0]
    /\ OnToNextShard
    /\ UNCHANGED <<policy, queues, workers, beaten, producers, watchdog_running, control>>

\* The old worker is joined, and the new one starts.
Restart ==
    /\ watchdog = "join" /\ wpc[wd_at] = "gone"
    /\ running' = [running EXCEPT ![wd_at] = TRUE]
    /\ WGoto(wd_at, "test")
    /\ missed' = [missed EXCEPT ![wd_at] = 0]
    /\ OnToNextShard
    /\ UNCHANGED <<policy, queues, busy, done, beaten, producers, watchdog_running, control>>

------------------------------------------------------------------------------
(* flush_pending and shutdown                                                *)

Flush ==
    /\ ctl = "serving" /\ sent[Control] < MaxFlushes * NShards
    /\ ctl' = "flush" /\ ctl_at' = 1
    /\ UNCHANGED <<policy, queues, running, workers, beaten, missed, producers, dog,
                   before_shutdown>>

FlushEvent == [from |-> Control, num |-> sent[Control] + 1, key |-> Control]

\* The answer of try_push is not looked at.
FlushShard ==
    /\ ctl = "flush"
    /\ sent' = [sent EXCEPT ![Control] = @ + 1]
    /\ IF HasRoom(ctl_at)
       THEN /\ queue' = [queue EXCEPT ![ctl_at] = Append(@, FlushEvent)]
            /\ UNCHANGED refused
       ELSE /\ refused' = refused \cup {FlushEvent}
            /\ UNCHANGED queue
    /\ IF ctl_at < NShards THEN ctl_at' = ctl_at + 1 /\ UNCHANGED ctl
                           ELSE ctl_at' = 1 /\ ctl' = "serving"
    /\ UNCHANGED <<policy, closed, drops, evicted, running, workers, beaten, missed,
                   ppc, hand, total_dropped, sample_counter, dog, before_shutdown>>

Shutdown ==
    /\ ctl = "serving"
    /\ ctl' = "join_watchdog"
    /\ watchdog_running' = FALSE
    /\ before_shutdown' = UNION {EventsIn(queue[s]) : s \in Shards}
    /\ UNCHANGED <<policy, queues, running, workers, beaten, missed, producers,
                   watchdog, wd_at, ctl_at>>

JoinWatchdog ==
    /\ ctl = "join_watchdog" /\ watchdog = "off"
    /\ ctl' = "stop" /\ ctl_at' = 1
    /\ UNCHANGED <<policy, queues, running, workers, beaten, missed, producers, dog,
                   before_shutdown>>

OnTo(here, there) ==
    IF ctl_at < NShards THEN ctl_at' = ctl_at + 1 /\ ctl' = here
                        ELSE ctl_at' = 1 /\ ctl' = there

\* Slip: the queue is closed and the worker told nothing.
CloseShard ==
    /\ ctl = "stop"
    /\ closed' = [closed EXCEPT ![ctl_at] = TRUE]
    /\ OnTo("stop", "join")
    /\ UNCHANGED <<policy, queue, drops, evicted, running, workers, beaten, missed,
                   producers, dog, before_shutdown>>

StopShard ==
    /\ ctl = "stop"
    /\ running' = [running EXCEPT ![ctl_at] = FALSE]
    /\ closed' = [closed EXCEPT ![ctl_at] = TRUE]
    /\ OnTo("stop", "join")
    /\ UNCHANGED <<policy, queue, drops, evicted, workers, beaten, missed, producers, dog,
                   before_shutdown>>

JoinWorker ==
    /\ ctl = "join" /\ wpc[ctl_at] = "gone"
    /\ OnTo("join", "returned")
    /\ UNCHANGED <<policy, queues, running, workers, beaten, missed, producers, dog,
                   before_shutdown>>

------------------------------------------------------------------------------
Producer(p) == (\E k \in Keys : Ingest(p, k)) \/ Route(p) \/ CountDrop(p)
Worker(s) == TestLoop(s) \/ Pop(s) \/ PopTimesOut(s) \/ Idle(s) \/ Finish(s)
Watchdog == WakeUp \/ Check \/ Restart
ShutdownStep == JoinWatchdog \/ StopShard \/ JoinWorker
Controller == Flush \/ FlushShard \/ Shutdown \/ ShutdownStep

Next == \/ \E p \in Producers : Producer(p)
        \/ \E s \in Shards : Worker(s)
        \/ Watchdog
        \/ Controller

Spec == Init /\ [][Next]_vars

\* Every thread is scheduled; nobody has to ingest, flush or shut down.
Fairness == /\ \A p \in Producers : WF_vars(Route(p)) /\ WF_vars(CountDrop(p))
            /\ \A s \in Shards : WF_vars(Worker(s))
            /\ WF_vars(Watchdog)
            /\ WF_vars(FlushShard \/ ShutdownStep)

FairSpec == Spec /\ Fairness

------------------------------------------------------------------------------
(* Properties.                                                               *)

QueueType ==
    /\ queue \in [Shards -> Seq(Event)]
    /\ \A s \in Shards : Len(queue[s]) <= Capacity
    /\ closed \in [Shards -> BOOLEAN]
    /\ drops \in [Shards -> Nat]
    /\ refused \subseteq Event
    /\ evicted \in [Shards -> SUBSET Event]

WorkerType ==
    /\ running \in [Shards -> BOOLEAN]
    /\ wpc \in [Shards -> {"test", "pop", "idle", "ingest", "gone"}]
    /\ busy \in [Shards -> Seq(Event)]
    /\ \A s \in Shards : Len(busy[s]) = IF wpc[s] = "ingest" THEN 1 ELSE 0
    /\ done \in [Shards -> Seq(Event)]
    /\ beaten \in [Shards -> BOOLEAN]

ProducerType ==
    /\ ppc \in [Producers -> {"idle", "push", "count"}]
    /\ hand \in [Producers -> Seq(Ingested)]
    /\ \A p \in Producers : Len(hand[p]) = IF ppc[p] = "push" THEN 1 ELSE 0
    /\ sent \in [Senders -> Nat]
    /\ total_dropped \in Nat
    /\ sample_counter \in 0..(SampleRate - 1)

ControlType ==
    /\ policy \in Policies
    /\ missed \in [Shards -> 0..(MaxMissed - 1)]
    /\ watchdog \in {"off", "sleep", "check", "join"}
    /\ wd_at \in Shards
    /\ watchdog_running \in BOOLEAN
    /\ ctl \in {"serving", "flush", "join_watchdog", "stop", "join", "returned"}
    /\ ctl_at \in Shards
    /\ before_shutdown \subseteq Event

\* The bounds a state must keep to; a thread holds an event exactly in the step
\* that has one.
TypeOK == QueueType /\ WorkerType /\ ProducerType /\ ControlType

\* "one entity -> one shard -> FIFO" (ids_sharded.hpp:88): a shard finishes the
\* events of a sender in the order they were ingested in, none of them twice,
\* through evictions, restarts of its worker and shutdown.
EntityOrder == \A s \in Shards : InSequence(done[s])

\* The inductive invariant behind it.  An event is settled once its sender can
\* offer only later ones, ...
Settled(e) == /\ e.num <= sent[e.from]
              /\ e.from \in Producers /\ ppc[e.from] = "push" => e.num < sent[e.from]

\* ... a producer holds its latest event, ...
HandMatches == \A p \in Producers :
    ppc[p] = "push" => hand[p][1].from = p /\ hand[p][1].num = sent[p]

\* ... and everything a shard has is settled and in line.
Held(s) == EventsIn(done[s]) \cup EventsIn(busy[s]) \cup EventsIn(queue[s])

ShardInOrder(s) == /\ \A e \in Held(s) : Settled(e)
                   /\ LineInOrder(done[s], busy[s], queue[s])

OrderInv == TypeOK /\ HandMatches /\ \A s \in Shards : ShardInOrder(s)

\* Where an event can be after ingest or flush_pending took it.
PushedOut == UNION {evicted[s] : s \in Shards}
Somewhere == (UNION {Held(s) : s \in Shards}) \cup refused \cup PushedOut
                 \cup (UNION {EventsIn(hand[p]) : p \in Producers})

IsIn(from, num, S) == \E e \in S : e.from = from /\ e.num = num

\* Nothing vanishes: every event taken is held, finished, refused or evicted.
NothingVanishes ==
    \A f \in Senders : \A n \in 1..sent[f] : IsIn(f, n, Somewhere)

\* The events ingest has answered false for, all of them and those of one shard.
TurnedAway == {e \in refused : e.from # Control}
TurnedAwayAt(s) == {e \in TurnedAway : ShardOf[e.key] = s}

\* The counters report what was not processed: total_dropped_ what ingest has
\* answered false for, and each shard's drops_ what Priority has refused there and
\* what it has pushed out there.
DropsReported ==
    /\ total_dropped + Cardinality({p \in Producers : ppc[p] = "count"}) = Cardinality(TurnedAway)
    /\ \A s \in Shards :
          drops[s] = IF policy = "Priority"
                     THEN Cardinality(TurnedAwayAt(s)) + Cardinality(evicted[s]) ELSE 0

Serving == ctl \in {"serving", "flush"}

\* While nobody shuts the shards down, an event in a queue is finished or pushed
\* out, whatever the watchdog does to the worker in between.
AcceptedIsFinished ==
    \A f \in Producers : \A n \in 1..MaxEvents :
        (\E s \in Shards : IsIn(f, n, EventsIn(queue[s])))
            ~> (~Serving \/ IsIn(f, n, PushedOut \cup UNION {EventsIn(done[s]) : s \in Shards}))

\* shutdown stops the watchdog first "so it doesn't restart threads we're
\* joining" (ids_sharded.hpp:203), and returns.
ShutdownReturns == ctl = "join_watchdog" ~> ctl = "returned"

\* "workers drain remaining items then exit" (ids_sharded.hpp:200): what was in
\* the queues when shutdown was called has been processed when it returns.
DrainedAtShutdown ==
    ctl = "returned" =>
        before_shutdown \subseteq PushedOut \cup UNION {EventsIn(done[s]) : s \in Shards}
==============================================================================
