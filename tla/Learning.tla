-------------------------------- MODULE Learning --------------------------------
(***************************************************************************)
(* What the system learns from its mistakes: run.py's on_network_event     *)
(* with the training validator.  The dispatch thread takes one packet      *)
(* through retrieval, decoding, logging, validation and enforcement; a     *)
(* packet whose label says that the decision was wrong leaves a record of  *)
(* the right one, confidence 0.95, that overrides later decisions.  The    *)
(* decoder also announces its decision on the event bus, where one of two  *)
(* side threads validates it once more, from the same dictionary, which    *)
(* the dispatch thread is still filling in.  The four scopes a retrieval    *)
(* searches are searched one after the other, a record enters them one     *)
(* after the other, and its number is read from a counter all threads move. *)
(*                                                                         *)
(* Confidences, similarities and recencies are in percent.  The clock      *)
(* moves between packets.                                                  *)
(***************************************************************************)
EXTENDS Naturals, Sequences, FiniteSets, SequencesExt

CONSTANTS Sources, Hosts, Shapes,
          Packets,          \* bound: the packets that are sent
          Side,             \* the threads of the side pool
          Alike,            \* cosine similarity of two different shapes
          Decay, Horizon,   \* exp(-age / RECENCY_TAU), up to an age where it is flat
          AlertCooldown, BlockCooldown,
          CampaignWin, FloodWin, FloodSize, Lookback, MinEvents, Crowd,
          MaxPackets, MaxFaults, Pauses     \* bounds

VARIABLES clock,
          records,          \* PartitionedMemoryStore: the records in order of insertion
          record_id,        \* _record_id
          last,             \* _last_decision and _last_time of the decision engine
          pc, job,          \* the dispatch thread and its packet
          jobs,             \* the side pool's queue of decoder_output events
          spc, sjob,        \* the side threads and their events
          metrics,          \* MetricsTracker
          taken, faults,
          mistakes,         \* history: packets decided wrongly
          \* the threat intelligence engine
          events, similar, cases, actors, iocs, verdict

learned == <<records, record_id, metrics>>
dispatch == <<last, pc, job, taken, clock, mistakes>>
side == <<jobs, spc, sjob>>
intelligence == <<events, similar, cases, actors, iocs, verdict>>
learnVars == <<learned, dispatch, side, faults, intelligence>>

TI == INSTANCE ThreatIntel WITH Targets <- Hosts

Alarms == {"Alert", "Block", "Escalate"}
Nowhere == "nowhere"
DefaultShape == "default"

\* label: what the metadata says of the packet; earned: the decision its score
\* asks for; conf: the score; trend: history or drift escalates an alarm; odd and
\* severe as in ThreatIntel.
PacketType == [source : Sources, host : Hosts, port : Nat, shape : Shapes,
               label : {"attack", "benign", "none"}, earned : TI!Verdicts, conf : 0..100,
               trend : BOOLEAN, odd : SUBSET TI!Statistics, severe : BOOLEAN]

ASSUME LearningAssumption ==
    /\ Packets \subseteq PacketType
    /\ Alike \in 0..99 /\ CampaignWin \in Nat /\ Lookback \in Nat \ {0}
    /\ Horizon \in Nat /\ Decay \in [0..Horizon -> 0..100]
    /\ \A a, b \in 0..Horizon : a <= b => Decay[b] <= Decay[a]
    /\ Pauses \subseteq Nat /\ MaxFaults \in Nat

NoMetrics == [tp |-> 0, tn |-> 0, fp |-> 0, fn |-> 0]
NoJob == [number |-> 0, at |-> 0]

LearnInit ==
    /\ clock = 0 /\ records = <<>> /\ record_id = 0
    /\ last = [s \in Sources |-> [decision |-> "Ignore", time |-> 0]]
    /\ pc = "idle" /\ job = NoJob
    /\ jobs = <<>> /\ spc = [t \in Side |-> "idle"] /\ sjob = [t \in Side |-> NoJob]
    /\ metrics = NoMetrics /\ taken = 0 /\ faults = 0
    /\ mistakes = {}
    /\ TI!Init

------------------------------------------------------------------------------
(* retrieve_memory.                                                         *)

Sim(s, t) == IF s = t THEN 100 ELSE Alike

Recency(age) == Decay[IF age < Horizon THEN age ELSE Horizon]

Score(r, p) == 50 * Sim(r.shape, p.shape) + 30 * r.conf + 20 * Recency(clock - r.time)

\* argsort of the scores; of two equal ones the later insertion is the more recent.
Better(i, j, p) == \/ Score(records[i], p) > Score(records[j], p)
                   \/ Score(records[i], p) = Score(records[j], p) /\ i > j

Top(k, scope, p) == {i \in scope : Cardinality({j \in scope : Better(j, i, p)}) < k}

\* The records of the ip, session, host and global scopes, and how many hits each
\* of them gives.
Scopes(p) ==
    LET all == DOMAIN records
        ip == {i \in all : records[i].source = p.source}
    IN  <<ip, {i \in ip : records[i].port = p.port},
          {i \in all : records[i].host = p.host /\ records[i].conf >= 50},
          {i \in all : records[i].conf >= 65}>>
Wanted == <<3, 2, 2, 1>>

\* _merge: what is not sure enough is left out, and of the hits that share an id all
\* but the first.  A hit keeps the scope it was found in.
Merged(hits, found, n, p) ==
    LET sure == {i \in found : records[i].conf > 50}
    IN  hits \cup {[at |-> i, scope |-> n] : i \in
            {i \in sure : /\ \A h \in hits : records[h.at].id # records[i].id
                         /\ \A j \in sure : records[j].id = records[i].id => ~Better(j, i, p)}}

\* The hits are sorted by similarity; equal ones stay in the order they were found.
Nearer(h, g, p) ==
    LET s == Sim(records[h.at].shape, p.shape) t == Sim(records[g.at].shape, p.shape)
    IN  \/ s > t
        \/ s = t /\ h.scope < g.scope
        \/ s = t /\ h.scope = g.scope /\ Better(h.at, g.at, p)

\* The record the decoder takes for a correction: the nearest above 0.85, or none.
BestCorrected(hits, p) ==
    LET sure == {h \in hits : records[h.at].conf > 85}
        nearest == {h \in sure : \A g \in sure \ {h} : Nearer(h, g, p)}
    IN  IF nearest = {} THEN 0 ELSE (CHOOSE h \in nearest : TRUE).at

\* The records side threads are inserting: each has entered the scope of its source,
\* and the others before its thread takes another event.
Entering == {sjob[t].at : t \in Side} \ {0}

\* The dispatch thread takes the next packet and searches the scope of its source.
Retrieve ==
    /\ pc = "idle" /\ taken < MaxPackets
    /\ taken' = taken + 1
    /\ \E p \in Packets :
         job' = [number |-> taken', packet |-> p, seen |-> Len(records), entering |-> Entering,
                 hits |-> Merged({}, Top(Wanted[1], Scopes(p)[1], p), 1, p)]
    /\ pc' = "search"
    /\ UNCHANGED <<learned, last, mistakes, clock, side, faults, intelligence>>

\* What a search of scope n may add: it has seen or not seen what was being inserted
\* meanwhile.
Searched(hits, n) ==
    LET p == job.packet
        late == job.entering \cup (job.seen + 1)..Len(records)
    IN  {Merged(hits, Top(Wanted[n], Scopes(p)[n] \ hidden, p), n, p) :
             hidden \in SUBSET (late \cap Scopes(p)[n])}

\* What may have been found once the last of the other three scopes is searched.
Found == UNION {UNION {Searched(host, 4) : host \in Searched(session, 3)} :
                    session \in Searched(job.hits, 2)}

\* An insertion in the middle of a search leaves the store's arrays of different
\* lengths, then or for later; the exception ends the handler.
SearchFails ==
    /\ pc = "search" /\ faults < MaxFaults
    /\ faults' = faults + 1
    /\ pc' = "idle" /\ job' = NoJob
    /\ UNCHANGED <<learned, last, mistakes, taken, clock, side, intelligence>>

------------------------------------------------------------------------------
(* decode.                                                                  *)

\* A correction lifts the score, by half of what it has above 0.60.
Fused(p, best) ==
    LET boost == IF best = 0 THEN 0 ELSE (records[best].conf - 60) \div 2
    IN  IF p.conf + boost > 100 THEN 100 ELSE p.conf + boost

\* ... and decides for itself when it is surer than 0.90.
Overridden(p, best) ==
    IF best # 0 /\ records[best].conf > 90 THEN records[best].decision ELSE p.earned

Cooled(s, decision) ==
    \/ /\ last[s].decision = "Block" /\ clock - last[s].time < BlockCooldown
       /\ decision # "Escalate"
    \/ /\ last[s].decision = "Alert" /\ clock - last[s].time < AlertCooldown
       /\ decision \notin {"Block", "Escalate"}

\* Repetition and correlation escalate as well (see Decoder).
Raised(p, decision) == IF decision \in {"Alert", "Block"} /\ p.trend THEN "Escalate"
                       ELSE decision

Wrong(j) == j.packet.label = "attack" <=> j.decision \notin Alarms

Decode ==
    /\ pc = "search"
    /\ \E hits \in Found :
         LET p == job.packet
             best == BestCorrected(hits, p)
             asked == Overridden(p, best)
             cooled == Cooled(p.source, asked)
             decided == IF cooled THEN last[p.source].decision ELSE Raised(p, asked)
         IN  /\ last' = IF cooled THEN last
                        ELSE [last EXCEPT ![p.source] = [decision |-> decided, time |-> clock]]
             /\ TI!ProcessAttack([source |-> p.source, target |-> p.host, class |-> decided,
                                  shape |-> p.shape, odd |-> p.odd, severe |-> p.severe])
             /\ job' = [number |-> job.number, packet |-> p, conf |-> Fused(p, best),
                        decision |-> IF verdict'.level = "CRITICAL" THEN "Block" ELSE decided,
                        cooled |-> cooled, filled |-> FALSE, seen |-> job.seen, at |-> 0]
             /\ mistakes' = IF p.label # "none" /\ Wrong(job') THEN mistakes \cup {p} ELSE mistakes
    /\ jobs' = Append(jobs, job')
    /\ pc' = "fill"
    /\ UNCHANGED <<learned, taken, clock, spc, sjob, faults>>

------------------------------------------------------------------------------
(* log_prediction and the validator.                                        *)

PassesGate(r) == r.conf >= 35 \/ r.decision \in {"Block", "Escalate"}

\* PartitionedMemoryStore.write, with the number the counter has by then.
Written(r) == records' = IF PassesGate(r) THEN Append(records, r) ELSE records

\* The embedding, the port and the rest enter the dictionary after it was
\* announced.
Fill ==
    /\ pc = "fill"
    /\ job' = [job EXCEPT !.filled = TRUE]
    /\ jobs' = [i \in DOMAIN jobs |-> IF jobs[i].number = job.number
                                      THEN [jobs[i] EXCEPT !.filled = TRUE] ELSE jobs[i]]
    /\ pc' = "number"
    /\ UNCHANGED <<learned, last, mistakes, taken, clock, spc, sjob, faults, intelligence>>

\* Time passes until the next packet comes.
Done == /\ pc' = "idle" /\ job' = NoJob
        /\ \E pause \in IF taken = MaxPackets THEN {0} ELSE Pauses : clock' = clock + pause

\* log_prediction moves the counter first.
Number ==
    /\ pc = "number"
    /\ record_id' = record_id + 1
    /\ pc' = "log"
    /\ UNCHANGED <<records, metrics, last, job, mistakes, taken, clock, side, faults, intelligence>>

\* The decoder's output has no destination.  What nobody has labelled is not
\* validated.
Log ==
    LET p == job.packet
    IN  /\ pc = "log"
        /\ Written([id |-> record_id, source |-> p.source, host |-> Nowhere, port |-> p.port, shape |-> p.shape,
                    decision |-> job.decision, conf |-> job.conf, time |-> clock,
                    lesson |-> FALSE])
        /\ IF p.label = "none" THEN Done ELSE pc' = "validate" /\ UNCHANGED <<job, clock>>
        /\ UNCHANGED <<record_id, metrics, last, mistakes, taken, side, faults, intelligence>>

Counted(j) ==
    metrics' = IF j.packet.label = "attack"
               THEN IF Wrong(j) THEN [metrics EXCEPT !.fn = @ + 1] ELSE [metrics EXCEPT !.tp = @ + 1]
               ELSE IF Wrong(j) THEN [metrics EXCEPT !.fp = @ + 1] ELSE [metrics EXCEPT !.tn = @ + 1]

\* Slip: the correction is no surer than an override has to be.
UnsureLesson(j, host, shape, port) ==
    [id |-> record_id, source |-> j.packet.source, host |-> host, port |-> port, shape |-> shape,
     decision |-> IF j.packet.label = "attack" THEN "Block" ELSE "Ignore",
     conf |-> 90, time |-> clock, lesson |-> TRUE]

Lesson(j, host, shape, port) ==
    [id |-> record_id, source |-> j.packet.source, host |-> host, port |-> port, shape |-> shape,
     decision |-> IF j.packet.label = "attack" THEN "Block" ELSE "Ignore",
     conf |-> 95, time |-> clock, lesson |-> TRUE]

\* Slip: what the firewall is asked to block needs no correction.
CorrectUnlessBlocked(j, host, shape, port) ==
    IF j.decision # "Block" THEN Written(Lesson(j, host, shape, port)) ELSE UNCHANGED records

\* _correct_false_negative and _correct_false_positive; the export that follows
\* is SignatureStore's.
Correct(j, host, shape, port) == Written(Lesson(j, host, shape, port))

\* A wrong decision is logged once more, corrected, under a number of its own.
Judged(j) == Counted(j) /\ record_id' = IF Wrong(j) THEN record_id + 1 ELSE record_id

\* What follows, the call of block_ip, is Firewall's.
Validate ==
    /\ pc = "validate"
    /\ Judged(job)
    /\ IF Wrong(job) THEN pc' = "correct" /\ UNCHANGED <<job, clock>> ELSE Done
    /\ UNCHANGED <<records, last, mistakes, taken, side, faults, intelligence>>

Teach ==
    LET p == job.packet
    IN  /\ pc = "correct"
        /\ Correct(job, p.host, p.shape, p.port)
        /\ Done
        /\ UNCHANGED <<record_id, metrics, last, mistakes, taken, side, faults, intelligence>>

\* The tracker cannot append to its timeline: the exception ends the handler, and
\* block_ip is not called.
ValidateFails ==
    /\ pc = "validate" /\ faults < MaxFaults
    /\ faults' = faults + 1
    /\ Counted(job)
    /\ Done
    /\ UNCHANGED <<records, record_id, last, mistakes, taken, side, intelligence>>

------------------------------------------------------------------------------
(* The side pool: _on_decoder_output.                                       *)

\* The event is read from the dictionary as it is now.
Read(t) ==
    /\ spc[t] = "idle" /\ jobs # <<>>
    /\ jobs' = Tail(jobs)
    /\ IF Head(jobs).packet.label = "none"
       THEN sjob' = [sjob EXCEPT ![t] = NoJob] /\ UNCHANGED spc
       ELSE /\ sjob' = [sjob EXCEPT ![t] = Head(jobs)]
            /\ spc' = [spc EXCEPT ![t] = "validate"]
    /\ UNCHANGED <<learned, dispatch, faults, intelligence>>

ValidateAgain(t) ==
    /\ spc[t] = "validate"
    /\ Judged(sjob[t])
    /\ IF Wrong(sjob[t])
       THEN spc' = [spc EXCEPT ![t] = "correct"] /\ UNCHANGED sjob
       ELSE spc' = [spc EXCEPT ![t] = "idle"] /\ sjob' = [sjob EXCEPT ![t] = NoJob]
    /\ UNCHANGED <<records, dispatch, jobs, faults, intelligence>>

TeachAgain(t) ==
    LET j == sjob[t]
    IN  /\ spc[t] = "correct"
        /\ IF j.filled THEN Correct(j, Nowhere, j.packet.shape, j.packet.port)
                       ELSE Correct(j, Nowhere, DefaultShape, 0)
        /\ spc' = [spc EXCEPT ![t] = "idle"]
        /\ sjob' = [sjob EXCEPT ![t] = [NoJob EXCEPT !.at = Len(records')]]
        /\ UNCHANGED <<record_id, metrics, dispatch, jobs, faults, intelligence>>

AgainFails(t) ==
    /\ spc[t] = "validate" /\ faults < MaxFaults
    /\ faults' = faults + 1
    /\ Counted(sjob[t])
    /\ spc' = [spc EXCEPT ![t] = "idle"] /\ sjob' = [sjob EXCEPT ![t] = NoJob]
    /\ UNCHANGED <<records, record_id, dispatch, jobs, intelligence>>

Dispatch == Retrieve \/ Decode \/ Fill \/ Number \/ Log \/ Validate \/ Teach
Pool == \E t \in Side : Read(t) \/ ValidateAgain(t) \/ TeachAgain(t)
Failures == SearchFails \/ ValidateFails \/ \E t \in Side : AgainFails(t)

LearnNext == Dispatch \/ Pool \/ Failures

LearnSpec == LearnInit /\ [][LearnNext]_learnVars

------------------------------------------------------------------------------
(* Properties.                                                              *)

\* The last correction of a source's packet of one shape before record n.
Lessons(p, n) == {i \in 1..n : records[i].lesson /\ records[i].source = p.source
                               /\ records[i].shape = p.shape}

\* What may come between a correction and the next packet of its kind: a logged
\* decision of the kind that passes for a correction and ranks before it, being
\* surer or not as old; three records of the source that do; one that does and has
\* been given its id.
Outranked(final, p, n) ==
    LET rivals == {i \in 1..n : records[i].source = p.source /\ Better(i, final, p)}
    IN  \/ \E i \in rivals : ~records[i].lesson /\ records[i].shape = p.shape /\ records[i].conf > 85
        \/ \E i \in rivals : records[i].id = records[final].id
        \/ Cardinality(rivals) >= 3

\* "add to DB so it's detected next time", "... so it's allowed next time"
\* (training_validator.py:79, 82): what was corrected last decides the next packet
\* of its source and shape, however old it is, however many corrections of other
\* packets and logged decisions of other sources there are, and whatever the side
\* pool inserts between the searches; as long as it is not outranked in the scope
\* of its source.  (A cooldown and a critical threat level may block what a
\* correction allows.)
LessonsHold ==
    LET p == job.packet
        known == Lessons(p, job.seen)
        final == CHOOSE i \in known : \A j \in known : j <= i
    IN  pc = "fill" /\ known # {} =>
            \/ Outranked(final, p, job.seen)
            \/ IF records[final].decision = "Block" THEN job.decision \in Alarms
               ELSE job.cooled \/ verdict.level = "CRITICAL" \/ job.decision \notin Alarms

\* A wrong decision leaves a correction for its source once the threads are at
\* rest, even when one of the two validations of the packet fails.
Quiet == pc = "idle" /\ jobs = <<>> /\ \A t \in Side : spc[t] = "idle"

MistakesLeaveLessons ==
    Quiet => \A p \in mistakes : \E i \in DOMAIN records :
        /\ records[i].lesson /\ records[i].source = p.source
        /\ records[i].decision = (IF p.label = "attack" THEN "Block" ELSE "Ignore")

\* "so it's allowed next time": the same, outranked or not.
AllowedNextTime ==
    LET p == job.packet
        known == Lessons(p, job.seen)
        final == CHOOSE i \in known : \A j \in known : j <= i
    IN  pc = "fill" /\ known # {}
            /\ records[final].decision = "Ignore" /\ ~job.cooled /\ verdict.level # "CRITICAL"
        => job.decision \notin Alarms

\* The threat intelligence engine's, as the decoder feeds it.
CampaignsAreRuns == TI!CampaignsAreRuns
==============================================================================
