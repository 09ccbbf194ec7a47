----------------------------- MODULE AsyncPipeline -----------------------------
(***************************************************************************)
(* ai-architecture/async_pipeline.py: five stages of worker threads joined *)
(* by bounded queues.  A worker takes a packet from its stage's queue,     *)
(* works on it (a raised exception costs the packet), hands it on with a   *)
(* put that blocks while the next queue is full, and then counts it.  What *)
(* the engines compute is abstracted to the one thing the later stages     *)
(* look at, the decision; a packet is its number in submission order.      *)
(***************************************************************************)
EXTENDS Naturals, Sequences, FiniteSets

CONSTANTS Workers,      \* worker threads
          StageOf,      \* the stage each of them works in
          Capacity,     \* maxsize of every queue (1000 in the code)
          MaxPackets,   \* bound: packets submitted
          Labelled,     \* packets whose metadata carries is_attack
          Sourced       \* packets with a non-empty source address

CNN == 1
RNN == 2
DECODER == 3
VALIDATOR == 4
DB == 5
Stages == CNN..DB

Packets == 1..MaxPackets

ASSUME PipelineAssumption ==
    /\ StageOf \in [Workers -> Stages]
    /\ Capacity \in Nat \ {0}
    /\ MaxPackets \in Nat
    /\ Labelled \subseteq Packets
    /\ Sourced \subseteq Packets

VARIABLES running,      \* the flag start() sets and stop() clears
          submitted,    \* submit_packet calls so far
          submitting,   \* the caller is between put_nowait and its counter
          queue,        \* the input queue of each stage
          pc, item,     \* where each worker is, and with which packet
          decision,     \* dec_out["decision"] of each packet
          validated,    \* packets given to validate_and_correct
          log,          \* packets logged by log_prediction, in that order
          blocked,      \* packets whose source went to firewall.block_ip
          failed,       \* packets lost to an exception in a stage
          refused,      \* packets refused because the network queue was full
          metrics       \* network_received (0), then X_processed per stage

vars == <<running, submitted, submitting, queue, pc, item, decision, validated,
          log, blocked, failed, refused, metrics>>

NoPacket == 0

Init == /\ running = TRUE
        /\ submitted = 0
        /\ submitting = FALSE
        /\ queue = [s \in Stages |-> <<>>]
        /\ pc = [w \in Workers |-> "get"]
        /\ item = [w \in Workers |-> NoPacket]
        /\ decision = [k \in Packets |-> "none"]
        /\ validated = {}
        /\ log = <<>>
        /\ blocked = {}
        /\ failed = {}
        /\ refused = {}
        /\ metrics = [s \in 0..DB |-> 0]

HasRoom(s) == Len(queue[s]) < Capacity

------------------------------------------------------------------------------
(* The caller of submit_packet, one thread: the bus's dispatch thread.      *)

Submit ==
    /\ ~submitting
    /\ submitted < MaxPackets
    /\ submitted' = submitted + 1
    /\ \/ /\ HasRoom(CNN)
          /\ queue' = [queue EXCEPT ![CNN] = Append(@, submitted + 1)]
          /\ submitting' = TRUE
          /\ UNCHANGED refused
       \/ /\ ~HasRoom(CNN)
          /\ refused' = refused \cup {submitted + 1}
          /\ UNCHANGED <<queue, submitting>>
    /\ UNCHANGED <<running, pc, item, decision, validated, log, blocked, failed, metrics>>

CountReceived ==
    /\ submitting
    /\ submitting' = FALSE
    /\ metrics' = [metrics EXCEPT ![0] = @ + 1]
    /\ UNCHANGED <<running, submitted, queue, pc, item, decision, validated,
                   log, blocked, failed, refused>>

------------------------------------------------------------------------------
(* The workers.  Testing the loop condition is folded into the step that    *)
(* ends an iteration: nothing another thread does distinguishes the two.    *)

NextIteration == IF running THEN "get" ELSE "exited"

\* queue.get(timeout=1.0) returns a packet ...
Get(w) ==
    LET s == StageOf[w]
    IN  /\ pc[w] = "get"
        /\ queue[s] # <<>>
        /\ item' = [item EXCEPT ![w] = Head(queue[s])]
        /\ queue' = [queue EXCEPT ![s] = Tail(@)]
        /\ pc' = [pc EXCEPT ![w] = "work"]
        /\ UNCHANGED <<running, submitted, submitting, decision, validated, log,
                       blocked, failed, refused, metrics>>

\* ... or raises Empty; the loop goes on as long as the pipeline runs.
Timeout(w) ==
    /\ pc[w] = "get"
    /\ queue[StageOf[w]] = <<>>
    /\ ~running
    /\ pc' = [pc EXCEPT ![w] = NextIteration]
    /\ UNCHANGED <<running, submitted, submitting, queue, item, decision, validated,
                   log, blocked, failed, refused, metrics>>

\* Slip: the handler stands around the loop and ends the worker.
FailExits(w) ==
    /\ pc[w] = "work"
    /\ failed' = failed \cup {item[w]}
    /\ item' = [item EXCEPT ![w] = NoPacket]
    /\ pc' = [pc EXCEPT ![w] = "exited"]
    /\ UNCHANGED <<running, submitted, submitting, queue, decision, validated, log,
                   blocked, refused, metrics>>

\* Slip: a packet that failed goes back to the end of its queue.
FailRequeues(w) ==
    /\ pc[w] = "work"
    /\ queue' = [queue EXCEPT ![StageOf[w]] = Append(@, item[w])]
    /\ item' = [item EXCEPT ![w] = NoPacket]
    /\ pc' = [pc EXCEPT ![w] = NextIteration]
    /\ UNCHANGED <<running, submitted, submitting, decision, validated, log,
                   blocked, failed, refused, metrics>>

\* The exception handler around an iteration: the packet is gone.
Fail(w) ==
    /\ pc[w] = "work"
    /\ failed' = failed \cup {item[w]}
    /\ item' = [item EXCEPT ![w] = NoPacket]
    /\ pc' = [pc EXCEPT ![w] = NextIteration]
    /\ UNCHANGED <<running, submitted, submitting, queue, decision, validated, log,
                   blocked, refused, metrics>>

\* CNN and RNN: process_event / process_features, which may raise.
Extract(w) ==
    /\ pc[w] = "work"
    /\ StageOf[w] \in {CNN, RNN}
    /\ pc' = [pc EXCEPT ![w] = "put"]
    /\ UNCHANGED <<running, submitted, submitting, queue, item, decision, validated,
                   log, blocked, failed, refused, metrics>>

ExtractFails(w) == StageOf[w] \in {CNN, RNN} /\ Fail(w)

\* Decoder: a failed retrieval counts as an empty one and a failed decode
\* becomes a "Log" decision, so this stage loses no packet.  "Block" stands
\* for Block and Escalate, "Log" for every other decision.
Decode(w) ==
    /\ pc[w] = "work"
    /\ StageOf[w] = DECODER
    /\ \E d \in {"Log", "Block"} : decision' = [decision EXCEPT ![item[w]] = d]
    /\ pc' = [pc EXCEPT ![w] = "put"]
    /\ UNCHANGED <<running, submitted, submitting, queue, item, validated, log,
                   blocked, failed, refused, metrics>>

\* Validator: labelled packets go through validate_and_correct, which may raise.
Validate(w) ==
    /\ pc[w] = "work"
    /\ StageOf[w] = VALIDATOR
    /\ validated' = IF item[w] \in Labelled THEN validated \cup {item[w]} ELSE validated
    /\ pc' = [pc EXCEPT ![w] = "put"]
    /\ UNCHANGED <<running, submitted, submitting, queue, item, decision, log,
                   blocked, failed, refused, metrics>>

ValidateFails(w) == StageOf[w] = VALIDATOR /\ item[w] \in Labelled /\ Fail(w)

\* DB: log first, enforce afterwards; a log_prediction that raises skips both
\* the firewall and the counter.
Log(w) ==
    /\ pc[w] = "work"
    /\ StageOf[w] = DB
    /\ log' = Append(log, item[w])
    /\ pc' = [pc EXCEPT ![w] = IF decision[item[w]] = "Block" /\ item[w] \in Sourced
                               THEN "enforce" ELSE "count"]
    /\ UNCHANGED <<running, submitted, submitting, queue, item, decision, validated,
                   blocked, failed, refused, metrics>>

\* Slip: a packet that could not be logged is enforced all the same.
LogFailsYetEnforces(w) ==
    /\ StageOf[w] = DB /\ pc[w] = "work"
    /\ failed' = failed \cup {item[w]}
    /\ pc' = [pc EXCEPT ![w] = IF decision[item[w]] = "Block" THEN "enforce" ELSE "count"]
    /\ UNCHANGED <<running, submitted, submitting, queue, item, decision, validated,
                   log, blocked, refused, metrics>>

LogFails(w) == StageOf[w] = DB /\ Fail(w)

\* Slip: the firewall is skipped once the pipeline has been stopped.
EnforceWhileRunning(w) ==
    /\ pc[w] = "enforce"
    /\ blocked' = IF running THEN blocked \cup {item[w]} ELSE blocked
    /\ pc' = [pc EXCEPT ![w] = "count"]
    /\ UNCHANGED <<running, submitted, submitting, queue, item, decision, validated,
                   log, failed, refused, metrics>>

Enforce(w) ==
    /\ pc[w] = "enforce"
    /\ blocked' = blocked \cup {item[w]}
    /\ pc' = [pc EXCEPT ![w] = "count"]
    /\ UNCHANGED <<running, submitted, submitting, queue, item, decision, validated,
                   log, failed, refused, metrics>>

\* Slip: put_nowait, and a full queue loses the packet.
PutOrDrop(w) ==
    LET s == StageOf[w] + 1
    IN  /\ pc[w] = "put"
        /\ queue' = IF HasRoom(s) THEN [queue EXCEPT ![s] = Append(@, item[w])] ELSE queue
        /\ pc' = [pc EXCEPT ![w] = "count"]
        /\ UNCHANGED <<running, submitted, submitting, item, decision, validated, log,
                       blocked, failed, refused, metrics>>

\* The put into the next stage's queue blocks while that queue is full.
Put(w) ==
    LET s == StageOf[w] + 1
    IN  /\ pc[w] = "put"
        /\ HasRoom(s)
        /\ queue' = [queue EXCEPT ![s] = Append(@, item[w])]
        /\ pc' = [pc EXCEPT ![w] = "count"]
        /\ UNCHANGED <<running, submitted, submitting, item, decision, validated, log,
                       blocked, failed, refused, metrics>>

Count(w) ==
    /\ pc[w] = "count"
    /\ metrics' = [metrics EXCEPT ![StageOf[w]] = @ + 1]
    /\ item' = [item EXCEPT ![w] = NoPacket]
    /\ pc' = [pc EXCEPT ![w] = NextIteration]
    /\ UNCHANGED <<running, submitted, submitting, queue, decision, validated, log,
                   blocked, failed, refused>>

Worker(w) == \/ Get(w) \/ Timeout(w) \/ Put(w) \/ Count(w)
             \/ Extract(w) \/ ExtractFails(w) \/ Decode(w)
             \/ Validate(w) \/ ValidateFails(w)
             \/ Log(w) \/ LogFails(w) \/ Enforce(w)

\* stop() clears the flag and waits at most a second for each worker.
Stop ==
    /\ running
    /\ running' = FALSE
    /\ UNCHANGED <<submitted, submitting, queue, pc, item, decision, validated, log,
                   blocked, failed, refused, metrics>>

Next == Submit \/ CountReceived \/ Stop \/ \E w \in Workers : Worker(w)

Spec == Init /\ [][Next]_vars

\* Threads are scheduled; nobody has to submit a packet or to stop the pipeline.
FairSpec == Spec /\ WF_vars(CountReceived) /\ \A w \in Workers : WF_vars(Worker(w))

------------------------------------------------------------------------------
(* Properties.                                                              *)

TypeOK == /\ running \in BOOLEAN
          /\ submitted \in 0..MaxPackets
          /\ submitting \in BOOLEAN
          /\ queue \in [Stages -> Seq(Packets)]
          /\ \A s \in Stages : Len(queue[s]) <= Capacity
          /\ pc \in [Workers -> {"get", "work", "put", "enforce", "count", "exited"}]
          /\ item \in [Workers -> Packets \cup {NoPacket}]
          /\ decision \in [Packets -> {"none", "Log", "Block"}]
          /\ validated \in SUBSET Packets
          /\ log \in Seq(Packets)
          /\ blocked \in SUBSET Packets
          /\ failed \in SUBSET Packets
          /\ refused \in SUBSET Packets
          /\ metrics \in [0..DB -> Nat]

InQueue(s) == {queue[s][i] : i \in 1..Len(queue[s])}
Logged == {log[i] : i \in 1..Len(log)}
Holds(w, k) == item[w] = k /\ pc[w] \in {"work", "put"}

NoRepeats(q) == \A i, j \in 1..Len(q) : i # j => q[i] # q[j]

\* The places a packet can be in: a queue, a worker's hands, or its outcome.
Places == ({"queue"} \X Stages) \cup ({"worker"} \X Workers)
          \cup ({"log", "failed", "refused"} \X {0})

At(k, x) == \/ x[1] = "queue" /\ k \in InQueue(x[2])
            \/ x[1] = "worker" /\ Holds(x[2], k)
            \/ x[1] = "log" /\ k \in Logged
            \/ x[1] = "failed" /\ k \in failed
            \/ x[1] = "refused" /\ k \in refused

\* No packet is duplicated or silently lost between the stages, however many
\* workers share a queue, across exceptions and after stop(): a submitted packet
\* is in exactly one queue, one worker's hands, the log, or among the failed or
\* refused ones; and no queue or log holds it twice.
OnePlace ==
    /\ \A k \in Packets :
         LET here == {x \in Places : At(k, x)}
         IN  IF k <= submitted THEN \E x \in Places : here = {x} ELSE here = {}
    /\ \A s \in Stages : NoRepeats(queue[s])
    /\ NoRepeats(log)

\* The firewall is only ever asked to block the source of a packet that was
\* decoded as Block, validated if it was labelled, and logged before.
BlockedOnlyAfter ==
    \A k \in blocked : /\ decision[k] = "Block"
                       /\ k \in Sourced
                       /\ k \in Labelled => k \in validated
                       /\ k \in Logged

\* With one worker per stage packets are logged in the order of submission.
LogInOrder == \A i, j \in 1..Len(log) : i < j => log[i] < log[j]

\* Full queues throttle but never wedge the stages: as long as nobody stops the
\* pipeline, every accepted packet reaches the log or fails in a stage.
AcceptedIsFinished ==
    \A k \in Packets : k \in InQueue(CNN) ~> k \in Logged \cup failed \/ ~running

\* A Block decision that was logged reaches the firewall, stopped or not.
LoggedBlockIsEnforced ==
    \A k \in Sourced : (k \in Logged /\ decision[k] = "Block") ~> k \in blocked

\* stop(): "Stop all workers" (async_pipeline.py:115).
StopsAllWorkers == ~running ~> \A w \in Workers : pc[w] = "exited"
==============================================================================
