-------------------------------- MODULE Decoder --------------------------------
(***************************************************************************)
(* ai-architecture/decoder/decoder_engine.py: HybridDecoder.decode from    *)
(* the decision a score earns to the one that is announced.  The decision  *)
(* engine holds a source to what was decided of it before (cooldown,       *)
(* hysteresis, repeat escalation); the correlation engine keeps a record   *)
(* of every decision that is not Ignore, looks for repetition, chains of   *)
(* attack classes, many sources and slow attacks, and upgrades an Alert;   *)
(* threat intelligence may force a Block; the mutation-aware decoder wraps *)
(* the call.  Nothing here takes a lock: run.py calls it from one thread,  *)
(* run_async.py from two.                                                  *)
(*                                                                         *)
(* Scores are reduced to the decision they earn and the grade correlation  *)
(* gives them; the clock is a number that moves between calls.             *)
(***************************************************************************)
EXTENDS Integers, Sequences, FiniteSets, SequencesExt, FiniteSetsExt

CONSTANTS Decoders,                       \* threads that call decode
          Sources, Hosts, Classes,
          AlertCooldown, BlockCooldown, HystHold, EscalateWin,
          RepeatN, RepeatWin, DistSources, DistWin, SlowN, SlowWin, CampaignIdle,
          Patterns,                       \* MULTI_STAGE_PATTERNS
          Kinds,                          \* bound: per kind of behaviour, packets and threads
          Pauses, MaxCalls                \* bounds: steps of the clock, calls of decode

ASSUME DecoderAssumption ==
    /\ AlertCooldown \in Nat /\ BlockCooldown \in Nat /\ HystHold \in Nat
    /\ EscalateWin \in Nat /\ SlowWin \in Nat /\ CampaignIdle \in Nat
    /\ AlertCooldown <= HystHold /\ HystHold <= BlockCooldown
    /\ RepeatWin <= SlowWin /\ DistWin <= SlowWin
    /\ Pauses \subseteq Nat /\ MaxCalls \in Nat
    /\ IsFiniteSet(Decoders)
    /\ \A p \in Patterns : p.stages \in Seq(Classes) /\ p.gap \in Nat

Decisions == {"Ignore", "Log", "Alert", "Block", "Escalate"}
Alarms == {"Alert", "Block", "Escalate"}

\* A packet as the engines see it.  earned: what its fused score, or a corrected
\* record that overrides it, asks for; high: the score is within HYST_DELTA of the
\* block threshold; trend: anomaly history or drift alone would escalate; grade:
\* below 0.30, below 0.40, or above.
Packets == [source : Sources, host : Hosts, class : Classes, earned : Decisions,
            high : BOOLEAN, trend : BOOLEAN, grade : {"faint", "slow", "strong"}]

ASSUME KindsAssumption ==
    \A k \in DOMAIN Kinds : Kinds[k].packets \subseteq Packets /\ Kinds[k].threads \subseteq Decoders

VARIABLES now, calls,
          kind,        \* which packets and threads this behaviour has; it never changes
          last,        \* _last_decision and _last_time
          alerts,      \* _alert_count, up to ESC_REPEAT_N
          first,       \* _first_alert
          records,     \* _ip_records and _host_records
          campaigns,   \* _campaigns
          pc, job,     \* where each thread is, and its packet and decision
          spoiled,     \* threads under whose iteration a collection has changed
          reply,       \* what decode last returned to each thread
          asked        \* history: when a source last earned an alarm

vars == <<now, calls, kind, last, alerts, first, records, campaigns, pc, job,
          spoiled, reply, asked>>
engine == <<last, alerts, first>>
correlation == <<records, campaigns>>

Never == -1
NoPacket == [source |-> "none"]
NoJob == [packet |-> NoPacket, decision |-> "Ignore", time |-> 0, signals |-> {}]
NoReply == [source |-> "none", decision |-> "Ignore", chain |-> FALSE,
            forced |-> FALSE, failed |-> FALSE]

EscRepeatN == 3

Init == /\ now = 0 /\ calls = 0 /\ kind \in DOMAIN Kinds
        /\ last = [s \in Sources |-> [decision |-> "Ignore", time |-> Never]]
        /\ alerts = [s \in Sources |-> 0] /\ first = [s \in Sources |-> Never]
        /\ records = <<>> /\ campaigns = <<>>
        /\ pc = [d \in Decoders |-> "idle"] /\ job = [d \in Decoders |-> NoJob]
        /\ spoiled = {} /\ reply = [d \in Decoders |-> NoReply]
        /\ asked = [s \in Sources |-> Never]

------------------------------------------------------------------------------
(* DecisionEngine.apply.                                                    *)

\* A source nothing was decided of has no time.
Within(t, then, window) == then # Never /\ t - then < window

InCooldown(p, t) ==
    LET l == last[p.source]
    IN  \/ l.decision = "Block" /\ Within(t, l.time, BlockCooldown) /\ p.earned # "Escalate"
        \/ /\ l.decision = "Alert" /\ Within(t, l.time, AlertCooldown)
           /\ p.earned \notin {"Block", "Escalate"}

Held(p, t) ==
    LET l == last[p.source]
    IN  IF l.decision = "Block" /\ Within(t, l.time, HystHold) /\ p.high
        THEN "Block" ELSE p.earned

\* The window counts from the first alert there ever was.
RepeatOffender(s, t) == alerts[s] >= EscRepeatN /\ t - first[s] <= EscalateWin

Applied(p, t) ==
    LET held == Held(p, t)
    IN  IF held \in {"Alert", "Block"} /\ (p.trend \/ RepeatOffender(p.source, t))
        THEN "Escalate" ELSE held

FirstAlert(s, t) == IF first[s] = Never THEN t ELSE first[s]

\* Slip: what the cooldown answers is taken down as decided anew.
CooledThenSettle == "settle"

\* A cooldown answers with the last decision and leaves it as old as it is.
Cooled == "record"

\* The reading half of apply, in the thread's own time.
Begin(d) ==
    /\ pc[d] = "idle" /\ d \in Kinds[kind].threads /\ calls < MaxCalls
    /\ \E p \in Kinds[kind].packets, pause \in Pauses :
         /\ now' = now + pause
         /\ asked' = IF p.earned \in Alarms THEN [asked EXCEPT ![p.source] = now'] ELSE asked
         /\ IF InCooldown(p, now')
            THEN /\ job' = [job EXCEPT ![d] = [NoJob EXCEPT !.packet = p, !.time = now',
                                                 !.decision = last[p.source].decision]]
                 /\ pc' = [pc EXCEPT ![d] = Cooled]
            ELSE /\ job' = [job EXCEPT ![d] = [NoJob EXCEPT !.packet = p, !.time = now',
                                                 !.decision = Applied(p, now')]]
                 /\ pc' = [pc EXCEPT ![d] = "settle"]
    /\ calls' = calls + 1
    /\ reply' = [reply EXCEPT ![d] = NoReply]
    /\ UNCHANGED <<kind, engine, correlation, spoiled>>

\* The writing half.
Settle(d) ==
    LET j == job[d] s == j.packet.source
    IN  /\ pc[d] = "settle"
        /\ last' = [last EXCEPT ![s] = [decision |-> j.decision, time |-> j.time]]
        /\ IF j.decision \in Alarms
           THEN /\ alerts' = [alerts EXCEPT ![s] = IF @ < EscRepeatN THEN @ + 1 ELSE @]
                /\ first' = [first EXCEPT ![s] = FirstAlert(s, j.time)]
           ELSE UNCHANGED <<alerts, first>>
        /\ pc' = [pc EXCEPT ![d] = "record"]
        /\ UNCHANGED <<now, calls, kind, correlation, job, spoiled, reply, asked>>

------------------------------------------------------------------------------
(* CorrelationEngine.process.                                               *)

\* Threat intelligence finds the attack critical, or it does not; a critical one
\* is a Block, whatever was decided.
Enriched(decision, critical) == IF critical THEN "Block" ELSE decision

\* The mutations predicted of a packet are compared with the packet itself: what
\* of each kind of mutation can match, with the weights of the parts in percent.
\* A rotated port is never the packet's own, and jitter is not compared.
Parts == {{"rate"}, {"entropy"}, {"rate", "bytes"}, {}}
Weight == [rate |-> 40, entropy |-> 40, bytes |-> 20]
BestMatch ==
    Max({MapThenSumSet(LAMBDA x : Weight[x], parts) \div Cardinality(parts) : parts \in Parts \ {{}}})

\* decode_with_mutation_awareness: a predicted mutation upgrades what is labelled
\* with an attack class, as every alarm is, and not blocked yet.
Upgraded(decision, labelled, match) ==
    CASE decision \in {"Block", "Escalate"} \/ ~labelled -> decision
      [] decision \in {"Ignore", "Log"} /\ match > 70 -> "Alert"
      [] decision = "Alert" /\ match > 70 -> "Block"
      [] decision = "Ignore" /\ match > 50 -> "Log"
      [] OTHER -> decision

Answer(d, decision, chain, disturbed) ==
    /\ \E critical \in BOOLEAN, match \in {0, BestMatch} :
         reply' = [reply EXCEPT ![d] =
             [source |-> job[d].packet.source, chain |-> chain, forced |-> critical,
              decision |-> Upgraded(Enriched(decision, critical), decision \in Alarms, match),
              failed |-> FALSE]]
    /\ job' = [job EXCEPT ![d] = NoJob]
    /\ pc' = [pc EXCEPT ![d] = "idle"]
    /\ spoiled' = (spoiled \cup disturbed) \ {d}

\* An ignored packet is not correlated.
Pass(d) ==
    /\ pc[d] = "record" /\ job[d].decision = "Ignore"
    /\ Answer(d, "Ignore", FALSE, {})
    /\ UNCHANGED <<now, calls, kind, engine, correlation, asked>>

\* From the left, up to the first that is not an hour old.
Trimmed(rs) ==
    SubSeq(rs, Min({i \in DOMAIN rs : now - rs[i].time <= SlowWin}), Len(rs))

\* Both deques get the record and lose what is an hour old.  A thread that is
\* iterating over one of them has it change under its feet.
Record(d) ==
    LET p == job[d].packet
        r == [source |-> p.source, host |-> p.host, class |-> p.class,
              grade |-> p.grade, time |-> now]
    IN  /\ pc[d] = "record" /\ job[d].decision # "Ignore"
        /\ records' = Trimmed(Append(records, r))
        /\ spoiled' = spoiled \cup {e \in Decoders \ {d} : pc[e] = "detect"
                            /\ (job[e].packet.source = p.source \/ job[e].packet.host = p.host)}
        /\ job' = [job EXCEPT ![d].time = now]
        /\ pc' = [pc EXCEPT ![d] = "detect"]
        /\ UNCHANGED <<now, calls, kind, engine, campaigns, reply, asked>>

Recent(t, window) == {i \in DOMAIN records : t - records[i].time <= window}

Repeat(s, t) == Cardinality({i \in Recent(t, RepeatWin) : records[i].source = s}) >= RepeatN

Distributed(h, t) ==
    Cardinality({records[i].source : i \in {j \in Recent(t, DistWin) : records[j].host = h}})
        >= DistSources

Slow(s, t) == Cardinality({i \in Recent(t, SlowWin) :
                              records[i].source = s /\ records[i].grade # "faint"}) >= SlowN

\* Slip: a stage may come any time after the one before.
StageAnyTime(m, r, p) == m.n < Len(p.stages) /\ r.class = p.stages[m.n + 1]

\* r is the next stage of pattern p after the m.n matched ones, the last at m.t.
NextStage(m, r, p) == /\ m.n < Len(p.stages) /\ r.class = p.stages[m.n + 1]
                      /\ m.n = 0 \/ r.time - m.t <= p.gap

\* The first record of the source that fits a stage is taken for it, and never
\* another.
Took(m, r, p, s) == IF r.source = s /\ NextStage(m, r, p)
                    THEN [n |-> m.n + 1, t |-> r.time] ELSE m

\* What of pattern p the source has gone through after the first i records.
Matched(p, s) ==
    LET m[i \in 0..Len(records)] ==
            IF i = 0 THEN [n |-> 0, t |-> 0] ELSE Took(m[i - 1], records[i], p, s)
    IN  m[Len(records)].n = Len(p.stages)

MultiStage(s) == \E p \in Patterns : Matched(p, s)

Signals(s, h, t) == {g \in {"repeat", "multi_stage", "distributed", "slow"} :
                        CASE g = "repeat" -> Repeat(s, t)
                          [] g = "multi_stage" -> MultiStage(s)
                          [] g = "distributed" -> Distributed(h, t)
                          [] g = "slow" -> Slow(s, t)}

\* More than 0.4 of 0.20, 0.30, 0.25 and 0.15.
Weighty(signals) == \/ Cardinality(signals) >= 3
                    \/ Cardinality(signals) = 2 /\ signals \cap {"repeat", "slow"} # signals
                       /\ signals # {"distributed", "slow"}

Detect(d) ==
    LET j == job[d]
    IN  /\ pc[d] = "detect"
        /\ job' = [job EXCEPT ![d].signals = Signals(j.packet.source, j.packet.host, j.time)]
        /\ pc' = [pc EXCEPT ![d] = "campaign"]
        /\ spoiled' = spoiled \ {d}
        /\ UNCHANGED <<now, calls, kind, engine, correlation, reply, asked>>

\* Python raises RuntimeError when a deque or dictionary changes during an
\* iteration; the worker of run_async.py then calls the packet Log and goes on.
Fails(d) ==
    /\ d \in spoiled
    /\ reply' = [reply EXCEPT ![d] = [NoReply EXCEPT !.source = job[d].packet.source,
                                         !.decision = "Log", !.failed = TRUE]]
    /\ job' = [job EXCEPT ![d] = NoJob]
    /\ pc' = [pc EXCEPT ![d] = "idle"]
    /\ spoiled' = spoiled \ {d}
    /\ UNCHANGED <<now, calls, kind, engine, correlation, asked>>

\* Slip: a class does not make a campaign, only a source does.
JoinsBySource(c, p) == c.active /\ p.source \in c.sources

Joins(c, p) == c.active /\ (p.source \in c.sources \/ c.class = p.class)

Fitting(p) == {i \in DOMAIN campaigns : Joins(campaigns[i], p)}

\* The upgrade, and what decode does with the result.
Finish(d, disturbed) ==
    LET j == job[d]
        raised == IF Weighty(j.signals) /\ j.decision = "Alert" THEN "Escalate" ELSE j.decision
    IN  Answer(d, raised, "multi_stage" \in j.signals, disturbed)

\* _update_campaign: the first active campaign that fits gets the packet; for a
\* score below 0.4 there is none otherwise.
FindCampaign(d) ==
    LET p == job[d].packet
        i == CHOOSE k \in Fitting(p) : \A m \in Fitting(p) : k <= m
    IN  /\ pc[d] = "campaign"
        /\ Fitting(p) # {} \/ p.grade # "strong"
        /\ campaigns' = IF Fitting(p) = {} THEN campaigns
                        ELSE [campaigns EXCEPT ![i].seen = job[d].time,
                                               ![i].sources = @ \cup {p.source}]
        /\ Finish(d, {})
        /\ UNCHANGED <<now, calls, kind, engine, records, asked>>

FindNone(d) ==
    /\ pc[d] = "campaign"
    /\ Fitting(job[d].packet) = {} /\ job[d].packet.grade = "strong"
    /\ pc' = [pc EXCEPT ![d] = "create"]
    /\ spoiled' = spoiled \ {d}
    /\ UNCHANGED <<now, calls, kind, engine, correlation, job, reply, asked>>

NewCampaign(d) ==
    LET p == job[d].packet
    IN  /\ pc[d] = "create"
        /\ campaigns' = Append(campaigns, [class |-> p.class, sources |-> {p.source},
                                           seen |-> job[d].time, active |-> TRUE])
        /\ Finish(d, {e \in Decoders \ {d} : pc[e] = "campaign"})
        /\ UNCHANGED <<now, calls, kind, engine, records, asked>>

\* active_campaigns: what has been idle too long ends.
ActiveCampaigns ==
    /\ campaigns' = [i \in DOMAIN campaigns |->
           [campaigns[i] EXCEPT !.active = @ /\ now - campaigns[i].seen <= CampaignIdle]]
    /\ campaigns' # campaigns
    /\ UNCHANGED <<now, calls, kind, engine, records, pc, job, spoiled, reply, asked>>

Decode(d) == Begin(d) \/ Settle(d) \/ Pass(d) \/ Record(d) \/ Detect(d) \/ Fails(d)
             \/ FindCampaign(d) \/ FindNone(d) \/ NewCampaign(d)

Next == (\E d \in Decoders : Decode(d)) \/ ActiveCampaigns

Spec == Init /\ [][Next]_vars

------------------------------------------------------------------------------
(* Properties.                                                              *)

\* The synchronous pipeline: one thread decodes.
Alone == Cardinality(Kinds[kind].threads) = 1

\* A source is blocked without having earned an alarm only for as long as the
\* cooldown of the last one lasts: answers that come from the cooldown and the
\* hysteresis do not feed on themselves.  (A Block forced by threat intelligence
\* is not the engine's.)
BlockNeedsCause ==
    Alone => \A d \in Decoders :
        LET r == reply[d]
        IN  r.decision = "Block" /\ ~r.forced =>
                /\ asked[r.source] # Never
                /\ asked[r.source] = now \/ now - asked[r.source] < BlockCooldown

\* What is called a chain is one: the source has records of all the stages of a
\* pattern in order, none longer after the one before than the pattern allows.
Chain(p, s) ==
    \E at \in [DOMAIN p.stages -> DOMAIN records] :
        \A n \in DOMAIN p.stages :
            /\ records[at[n]].source = s /\ records[at[n]].class = p.stages[n]
            /\ n > 1 => /\ at[n - 1] < at[n]
                        /\ records[at[n]].time - records[at[n - 1]].time <= p.gap

ChainsAreReal ==
    Alone => \A d \in Decoders :
        reply[d].chain => \E p \in Patterns : Chain(p, reply[d].source)

\* However sources and classes mix, and whatever has ended, two campaigns under
\* way never have the same class.
OneCampaignPerClass ==
    Alone => \A i, k \in DOMAIN campaigns :
        i # k /\ campaigns[i].active /\ campaigns[k].active
            => campaigns[i].class # campaigns[k].class

\* "No shared state between workers" (ASYNC_OPTIMIZATION.md:205): one worker's
\* packet does not make the decoding of another's fail.
DecodingNeverFails == \A d \in Decoders : ~reply[d].failed
==============================================================================
