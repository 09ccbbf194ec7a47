----------------------------- MODULE DecoderProofs -----------------------------
(***************************************************************************)
(* What one decoding thread promises, whatever packets come, at whatever    *)
(* times, and whatever the windows are: a Block has a cause, a chain is a   *)
(* chain, and a class has one campaign.                                     *)
(***************************************************************************)
EXTENDS Decoder, SequenceTheorems, FiniteSetTheorems, WellFoundedInduction, TLAPS

Times == Nat \cup {Never}
SignalNames == {"repeat", "multi_stage", "distributed", "slow"}
Places == {"idle", "settle", "record", "detect", "campaign", "create"}

RecordType == [source : Sources, host : Hosts, class : Classes,
               grade : {"faint", "slow", "strong"}, time : Nat]
CampaignType == [class : Classes, sources : SUBSET Sources, seen : Nat, active : BOOLEAN]
JobType == [packet : Packets \cup {NoPacket}, decision : Decisions, time : Nat,
            signals : SUBSET SignalNames]
ReplyType == [source : Sources \cup {"none"}, decision : Decisions, chain : BOOLEAN,
              forced : BOOLEAN, failed : BOOLEAN]

\* A thread outside decode has answered; one inside has a packet and no answer yet.
Busy == {d \in Decoders : pc[d] # "idle"}
Engaged(d) == d \in Kinds[kind].threads /\ job[d].packet \in Packets /\ reply[d] = NoReply

TypeInv ==
    /\ now \in Nat /\ kind \in DOMAIN Kinds
    /\ last \in [Sources -> [decision : Decisions, time : Times]]
    /\ asked \in [Sources -> Times]
    /\ records \in Seq(RecordType)
    /\ campaigns \in Seq(CampaignType)
    /\ pc \in [Decoders -> Places]
    /\ job \in [Decoders -> JobType]
    /\ reply \in [Decoders -> ReplyType]
    /\ \A d \in Decoders : pc[d] # "idle" => Engaged(d)
    /\ spoiled \subseteq Busy
    /\ \A d \in Decoders : d \notin Kinds[kind].threads => reply[d] = NoReply

------------------------------------------------------------------------------
(* Types.                                                                    *)

LEMMA NamesFacts ==
    /\ NoReply \in ReplyType /\ NoJob \in JobType /\ NoPacket \notin Packets
    /\ Never \in Int /\ Never \notin Nat
BY DEF NoReply, ReplyType, NoJob, JobType, NoPacket, Packets, Never, Decisions, SignalNames

LEMMA TypeInitial == Init => TypeInv
<1> SUFFICES ASSUME Init PROVE TypeInv
  OBVIOUS
<1>1. NoReply \in ReplyType /\ NoJob \in JobType
  BY NamesFacts
<1>2. records = <<>> /\ campaigns = <<>>
  BY DEF Init
<1>3. records \in Seq(RecordType) /\ campaigns \in Seq(CampaignType)
  BY <1>2, EmptySeq
<1> QED BY <1>1, <1>3 DEF Init, TypeInv, Times, Decisions, Places, Busy

\* Every answer is a decision, and a Block that was not forced comes from an Alert
\* or a Block.
LEMMA UpgradedFacts ==
    ASSUME NEW decision \in Decisions, NEW critical \in BOOLEAN, NEW match
    PROVE  /\ Upgraded(Enriched(decision, critical), decision \in Alarms, match) \in Decisions
           /\ Upgraded(Enriched(decision, critical), decision \in Alarms, match) = "Block" /\ ~critical
                 => decision \in {"Alert", "Block"}
BY DEF Upgraded, Enriched, Decisions, Alarms

\* d has answered with r and is out of decode.
Answers(d, r, chain) ==
    /\ r \in ReplyType
    /\ r.source = job[d].packet.source /\ r.chain = chain
    /\ r.decision = "Block" /\ ~r.forced => job[d].decision \in {"Alert", "Block"}
    /\ reply' = [reply EXCEPT ![d] = r]
    /\ job' = [job EXCEPT ![d] = NoJob]
    /\ pc' = [pc EXCEPT ![d] = "idle"]
    /\ spoiled' \subseteq Busy \ {d}

LEMMA AnswerFacts ==
    ASSUME TypeInv, NEW d \in Decoders, NEW decision \in Decisions, NEW chain \in BOOLEAN,
           NEW disturbed, Answer(d, decision, chain, disturbed), pc[d] # "idle",
           disturbed \subseteq Busy,
           decision \in {"Alert", "Block"} => job[d].decision \in {"Alert", "Block"}
    PROVE  \E r : Answers(d, r, chain)
<1>1. PICK critical \in BOOLEAN, match \in {0, BestMatch} :
         reply' = [reply EXCEPT ![d] =
             [source |-> job[d].packet.source, chain |-> chain, forced |-> critical,
              decision |-> Upgraded(Enriched(decision, critical), decision \in Alarms, match),
              failed |-> FALSE]]
  BY DEF Answer
<1> DEFINE r == [source |-> job[d].packet.source, chain |-> chain, forced |-> critical,
                 decision |-> Upgraded(Enriched(decision, critical), decision \in Alarms, match),
                 failed |-> FALSE]
<1>2. /\ r.decision \in Decisions
      /\ r.decision = "Block" /\ ~critical => decision \in {"Alert", "Block"}
  BY UpgradedFacts
<1>3. job[d].packet.source \in Sources
  BY DEF TypeInv, Engaged, Packets
<1>4. r \in ReplyType
  BY <1>2, <1>3 DEF ReplyType
<1>5. Answers(d, r, chain)
  BY <1>1, <1>2, <1>4 DEF Answer, Answers, TypeInv
<1> QED BY <1>5

LEMMA FinishFacts ==
    ASSUME TypeInv, NEW d \in Decoders, NEW disturbed, Finish(d, disturbed), pc[d] # "idle",
           disturbed \subseteq Busy
    PROVE  \E r : Answers(d, r, "multi_stage" \in job[d].signals)
<1> DEFINE raised == IF Weighty(job[d].signals) /\ job[d].decision = "Alert"
                     THEN "Escalate" ELSE job[d].decision
<1> DEFINE chain == "multi_stage" \in job[d].signals
<1>1. job[d].decision \in Decisions
  BY DEF TypeInv, JobType
<1>2. /\ raised \in Decisions
      /\ raised \in {"Alert", "Block"} => job[d].decision \in {"Alert", "Block"}
  BY <1>1 DEF Decisions
<1>3. Answer(d, raised, chain, disturbed) /\ chain \in BOOLEAN
  BY DEF Finish
<1> HIDE DEF raised, chain
<1>4. \E r : Answers(d, r, chain)
  BY <1>2, <1>3, AnswerFacts
<1> QED BY <1>4 DEF chain

LEMMA PassFacts ==
    ASSUME TypeInv, NEW d \in Decoders, Pass(d)
    PROVE  \E r : Answers(d, r, FALSE)
<1> DEFINE chain == FALSE
<1>1. Answer(d, "Ignore", chain, {}) /\ pc[d] # "idle" /\ chain \in BOOLEAN
  BY DEF Pass
<1>2. "Ignore" \in Decisions /\ "Ignore" \notin {"Alert", "Block"} /\ {} \subseteq Busy
  BY DEF Decisions
<1> HIDE DEF chain
<1>3. \E r : Answers(d, r, chain)
  BY <1>1, <1>2, AnswerFacts
<1> QED BY <1>3 DEF chain

\* An answer keeps the types of what it changes.
LEMMA AnswersKeepTypes ==
    ASSUME TypeInv, NEW d \in Decoders, NEW r, NEW chain, Answers(d, r, chain), pc[d] # "idle",
           UNCHANGED <<now, kind, last, asked>>,
           records' \in Seq(RecordType), campaigns' \in Seq(CampaignType)
    PROVE  TypeInv'
<1>1. /\ pc' \in [Decoders -> Places] /\ job' \in [Decoders -> JobType]
      /\ reply' \in [Decoders -> ReplyType]
  BY NamesFacts DEF TypeInv, Answers, Places
<1>2. d \in Kinds[kind].threads
  BY DEF TypeInv, Engaged
<1>3. ASSUME NEW e \in Decoders, pc'[e] # "idle" PROVE Engaged(e)'
  <2>1. e # d /\ pc[e] # "idle"
    BY <1>3 DEF Answers, TypeInv
  <2> QED BY <2>1 DEF Answers, TypeInv, Engaged
<1>4. ASSUME NEW e \in Decoders, e \notin Kinds[kind'].threads PROVE reply'[e] = NoReply
  BY <1>2, <1>4 DEF Answers, TypeInv
<1>5. spoiled' \subseteq Busy'
  BY DEF Answers, Busy, TypeInv
<1> QED BY <1>1, <1>3, <1>4, <1>5 DEF TypeInv

\* So does a step inside a call.
LEMMA InsideKeepsTypes ==
    ASSUME TypeInv, NEW d \in Decoders, pc[d] # "idle",
           NEW place \in Places, pc' = [pc EXCEPT ![d] = place],
           NEW j \in JobType, job' = [job EXCEPT ![d] = j], j.packet = job[d].packet,
           UNCHANGED <<now, kind, asked, reply>>, spoiled' \subseteq Busy, place # "idle",
           last' \in [Sources -> [decision : Decisions, time : Times]],
           records' \in Seq(RecordType), campaigns' \in Seq(CampaignType)
    PROVE  TypeInv'
<1>1. pc' \in [Decoders -> Places] /\ job' \in [Decoders -> JobType]
  BY DEF TypeInv
<1>2. ASSUME NEW e \in Decoders, pc'[e] # "idle" PROVE Engaged(e)'
  <2>1. pc[e] # "idle" /\ job'[e].packet = job[e].packet
    BY <1>2 DEF TypeInv
  <2> QED BY <2>1 DEF TypeInv, Engaged
<1>3. spoiled' \subseteq Busy'
  BY DEF Busy, TypeInv
<1> QED BY <1>1, <1>2, <1>3 DEF TypeInv

LEMMA BeginKeepsTypes ==
    ASSUME TypeInv, NEW d \in Decoders, Begin(d)
    PROVE  TypeInv'
<1>1. PICK p \in Kinds[kind].packets : \E pause \in Pauses :
         /\ now' = now + pause
         /\ asked' = IF p.earned \in Alarms THEN [asked EXCEPT ![p.source] = now'] ELSE asked
         /\ \E decision \in {last[p.source].decision, Applied(p, now')} :
              job' = [job EXCEPT ![d] = [NoJob EXCEPT !.packet = p, !.time = now',
                                                       !.decision = decision]]
         /\ \E place \in {Cooled, "settle"} : pc' = [pc EXCEPT ![d] = place]
  BY DEF Begin
<1>2. now' \in Nat
  BY <1>1, DecoderAssumption DEF TypeInv
<1>3. p \in Packets /\ p.source \in Sources /\ p.earned \in Decisions
  BY KindsAssumption DEF TypeInv, Packets
<1>4. asked' \in [Sources -> Times]
  BY <1>1, <1>2, <1>3 DEF TypeInv, Times
<1>5. PICK decision : /\ decision \in {last[p.source].decision, Applied(p, now')}
                      /\ job' = [job EXCEPT ![d] = [NoJob EXCEPT !.packet = p, !.time = now',
                                                                  !.decision = decision]]
  BY <1>1
<1>6. decision \in Decisions
  <2>1. last[p.source].decision \in Decisions
    BY <1>3 DEF TypeInv
  <2>2. Held(p, now') \in Decisions
    BY <1>3 DEF Held, Decisions
  <2>3. Applied(p, now') \in Decisions
    BY <2>2 DEF Applied, Decisions
  <2> QED BY <1>5, <2>1, <2>3
<1>7. [NoJob EXCEPT !.packet = p, !.time = now', !.decision = decision] \in JobType
  BY <1>2, <1>3, <1>6 DEF NoJob, JobType, SignalNames
<1>8. job' \in [Decoders -> JobType] /\ job'[d].packet = p
  BY <1>5, <1>7 DEF TypeInv, NoJob
<1>9. pc' \in [Decoders -> Places]
  BY <1>1 DEF TypeInv, Places, Cooled
<1>10. reply' = [reply EXCEPT ![d] = NoReply] /\ kind' = kind /\ d \in Kinds[kind].threads
  BY DEF Begin
<1>11. reply' \in [Decoders -> ReplyType]
  BY <1>10, NamesFacts DEF TypeInv
<1>12. ASSUME NEW e \in Decoders, pc'[e] # "idle" PROVE Engaged(e)'
  <2>1. CASE e = d
    BY <1>3, <1>8, <1>10, <2>1 DEF TypeInv, Engaged
  <2>2. CASE e # d
    <3>1. pc[e] # "idle" /\ job'[e] = job[e]
      BY <1>1, <1>5, <1>12, <2>2 DEF TypeInv
    <3> QED BY <1>10, <2>2, <3>1 DEF TypeInv, Engaged
  <2> QED BY <2>1, <2>2
<1>13. ASSUME NEW e \in Decoders, e \notin Kinds[kind'].threads PROVE reply'[e] = NoReply
  BY <1>10, <1>13 DEF TypeInv
<1>14. UNCHANGED <<last, records, campaigns, spoiled>>
  BY DEF Begin, engine, correlation
<1>15. spoiled' \subseteq Busy'
  BY <1>1, <1>14 DEF Busy, TypeInv, Cooled
<1> QED BY <1>2, <1>4, <1>8, <1>9, <1>10, <1>11, <1>12, <1>13, <1>14, <1>15 DEF TypeInv

LEMMA SettleKeepsTypes ==
    ASSUME TypeInv, NEW d \in Decoders, Settle(d)
    PROVE  TypeInv'
<1>1. pc[d] = "settle" /\ pc' = [pc EXCEPT ![d] = "record"]
  BY DEF Settle
<1>2. job' = [job EXCEPT ![d] = job[d]] /\ job[d] \in JobType
  BY DEF Settle, TypeInv
<1>3. last' \in [Sources -> [decision : Decisions, time : Times]]
  BY DEF Settle, TypeInv, JobType, Times
<1>4. UNCHANGED <<now, kind, asked, reply, spoiled, records, campaigns>>
  BY DEF Settle, correlation
<1> QED BY <1>1, <1>2, <1>3, <1>4, InsideKeepsTypes DEF TypeInv, Places

\* The first of the records that stay exists: it is the new one, if no other.
LEMMA LeastNumber ==
    ASSUME NEW T, T \subseteq Nat, T # {} PROVE \E x \in T : \A y \in T : x <= y
<1>1. \E R : IsWellFoundedOn(R, Nat) /\ \A x, y \in Nat : y < x => <<y, x>> \in R
  <2> DEFINE R == OpToRel(<, Nat)
  <2>1. IsWellFoundedOn(R, Nat)
    BY NatLessThanWellFounded
  <2>2. \A x, y \in Nat : y < x => <<y, x>> \in R
    BY DEF OpToRel
  <2> HIDE DEF R
  <2> QED BY <2>1, <2>2
<1>2. PICK R : IsWellFoundedOn(R, Nat) /\ \A x, y \in Nat : y < x => <<y, x>> \in R
  BY <1>1
<1>3. PICK x \in T : \A y \in T : <<y, x>> \notin R
  BY <1>2, WFMin
<1>4. ASSUME NEW y \in T PROVE x <= y
  <2>1. x \in Nat /\ y \in Nat
    OBVIOUS
  <2>2. ~(y < x)
    BY <1>2, <1>3, <2>1
  <2> QED BY <2>1, <2>2
<1> QED BY <1>4

LEMMA TrimmedFacts ==
    ASSUME NEW rs \in Seq(RecordType), NEW r \in RecordType, now \in Nat, r.time = now
    PROVE  Trimmed(Append(rs, r)) \in Seq(RecordType)
<1> DEFINE all == Append(rs, r)
           young == {i \in DOMAIN all : now - all[i].time <= SlowWin}
<1>1. /\ all \in Seq(RecordType) /\ Len(all) = Len(rs) + 1 /\ all[Len(rs) + 1] = r
      /\ Len(rs) \in Nat
  BY AppendProperties, LenProperties
<1>2. DOMAIN all = 1..Len(all)
  BY <1>1, LenProperties
<1>3. Len(all) \in young /\ young \subseteq Nat
  BY <1>1, <1>2, DecoderAssumption
<1>4. Min(young) \in young
  BY <1>3, LeastNumber DEF Min
<1>5. PICK m \in 1..Len(all) : m = Min(young)
  BY <1>2, <1>4
<1>6. Trimmed(all) = SubSeq(all, m, Len(all))
  BY <1>5 DEF Trimmed
<1> HIDE DEF all, young
<1>7. \A i \in m..Len(all) : all[i] \in RecordType
  BY <1>1, ElementOfSeq
<1>8. SubSeq(all, m, Len(all)) \in Seq(RecordType)
  BY <1>1, <1>7, SubSeqProperties
<1> QED BY <1>6, <1>8 DEF all

LEMMA RecordKeepsTypes ==
    ASSUME TypeInv, NEW d \in Decoders, Record(d)
    PROVE  TypeInv'
<1> DEFINE p == job[d].packet
           r == [source |-> p.source, host |-> p.host, class |-> p.class,
                 grade |-> p.grade, time |-> now]
           j == [job[d] EXCEPT !.time = now]
<1>1. pc[d] = "record" /\ pc' = [pc EXCEPT ![d] = "detect"]
  BY DEF Record
<1>2. p \in Packets /\ now \in Nat
  BY <1>1 DEF TypeInv, Engaged
<1>3. r \in RecordType
  BY <1>2 DEF Packets, RecordType
<1>4. records' = Trimmed(Append(records, r)) /\ job' = [job EXCEPT ![d] = j]
  BY DEF Record
<1>5. records' \in Seq(RecordType)
  BY <1>2, <1>3, <1>4, TrimmedFacts DEF TypeInv
<1>6. j \in JobType /\ j.packet = p
  BY <1>2 DEF TypeInv, JobType
<1>7. spoiled' \subseteq Busy
  BY DEF Record, TypeInv, Busy
<1>8. UNCHANGED <<now, kind, asked, reply, last, campaigns>>
  BY DEF Record, engine
<1> HIDE DEF p, r, j
<1> QED BY <1>1, <1>4, <1>5, <1>6, <1>7, <1>8, InsideKeepsTypes DEF TypeInv, Places, p

LEMMA DetectKeepsTypes ==
    ASSUME TypeInv, NEW d \in Decoders, Detect(d)
    PROVE  TypeInv'
<1> DEFINE found == Signals(job[d].packet.source, job[d].packet.host, job[d].time)
           j == [job[d] EXCEPT !.signals = found]
<1>1. pc[d] = "detect" /\ pc' = [pc EXCEPT ![d] = "campaign"] /\ job' = [job EXCEPT ![d] = j]
  BY DEF Detect
<1>2. found \subseteq SignalNames
  BY DEF Signals, SignalNames
<1> HIDE DEF found
<1>3. j \in JobType /\ j.packet = job[d].packet
  BY <1>2 DEF TypeInv, JobType
<1>4. UNCHANGED <<now, kind, asked, reply, last, records, campaigns>> /\ spoiled' \subseteq Busy
  BY DEF Detect, engine, correlation, TypeInv
<1> HIDE DEF j
<1> QED BY <1>1, <1>3, <1>4, InsideKeepsTypes DEF TypeInv, Places

LEMMA FindNoneKeepsTypes ==
    ASSUME TypeInv, NEW d \in Decoders, FindNone(d)
    PROVE  TypeInv'
<1>1. pc[d] = "campaign" /\ pc' = [pc EXCEPT ![d] = "create"]
  BY DEF FindNone
<1>2. job' = [job EXCEPT ![d] = job[d]] /\ job[d] \in JobType
  BY DEF FindNone, TypeInv
<1>3. UNCHANGED <<now, kind, asked, reply, last, records, campaigns>> /\ spoiled' \subseteq Busy
  BY DEF FindNone, engine, correlation, TypeInv
<1> QED BY <1>1, <1>2, <1>3, InsideKeepsTypes DEF TypeInv, Places

LEMMA FailsFacts ==
    ASSUME TypeInv, NEW d \in Decoders, Fails(d)
    PROVE  (\E r : Answers(d, r, FALSE)) /\ pc[d] # "idle"
<1> DEFINE r == [NoReply EXCEPT !.source = job[d].packet.source,
                               !.decision = "Log", !.failed = TRUE]
<1>1. pc[d] # "idle"
  BY DEF Fails, TypeInv, Busy
<1>2. job[d].packet.source \in Sources
  BY <1>1 DEF TypeInv, Engaged, Packets
<1>3. r \in ReplyType
  BY <1>2 DEF NoReply, ReplyType, Decisions
<1>4. Answers(d, r, FALSE)
  BY <1>1, <1>3 DEF Answers, Fails, NoReply, TypeInv
<1> QED BY <1>1, <1>4

\* Campaigns: what each of the three actions makes of them.
LEMMA FindCampaignFacts ==
    ASSUME TypeInv, NEW d \in Decoders, FindCampaign(d)
    PROVE  /\ pc[d] = "campaign" /\ UNCHANGED <<now, kind, asked, last, records>>
           /\ campaigns' \in Seq(CampaignType) /\ DOMAIN campaigns' = DOMAIN campaigns
           /\ \A i \in DOMAIN campaigns : /\ campaigns'[i].class = campaigns[i].class
                                          /\ campaigns'[i].active = campaigns[i].active
           /\ \E r : Answers(d, r, "multi_stage" \in job[d].signals)
<1> DEFINE p == job[d].packet
           i == CHOOSE k \in Fitting(p) : \A m \in Fitting(p) : k <= m
<1>1. pc[d] = "campaign" /\ UNCHANGED <<now, kind, asked, last, records>>
  BY DEF FindCampaign, engine
<1>2. campaigns' = campaigns \/ campaigns' = [campaigns EXCEPT ![i].seen = job[d].time,
                                                               ![i].sources = @ \cup {p.source}]
  BY DEF FindCampaign
<1>3. p.source \in Sources /\ job[d].time \in Nat
  BY <1>1 DEF TypeInv, Engaged, Packets, JobType
<1>4. campaigns \in [1..Len(campaigns) -> CampaignType] /\ Len(campaigns) \in Nat
  BY LenProperties DEF TypeInv
<1> HIDE DEF i
<1>5. /\ campaigns' \in [1..Len(campaigns) -> CampaignType]
      /\ \A k \in DOMAIN campaigns : /\ campaigns'[k].class = campaigns[k].class
                                     /\ campaigns'[k].active = campaigns[k].active
  BY <1>2, <1>3, <1>4, SMTT(30) DEF CampaignType
<1>6. campaigns' \in Seq(CampaignType) /\ DOMAIN campaigns' = DOMAIN campaigns
  BY <1>4, <1>5, SeqDef
<1>7. \E r : Answers(d, r, "multi_stage" \in job[d].signals)
  <2>1. Finish(d, {}) /\ {} \subseteq Busy
    BY DEF FindCampaign
  <2> QED BY <1>1, <2>1, FinishFacts
<1> QED BY <1>1, <1>5, <1>6, <1>7

LEMMA NewCampaignFacts ==
    ASSUME TypeInv, NEW d \in Decoders, NewCampaign(d)
    PROVE  /\ pc[d] = "create" /\ UNCHANGED <<now, kind, asked, last, records>>
           /\ campaigns' \in Seq(CampaignType)
           /\ campaigns' = Append(campaigns, [class |-> job[d].packet.class,
                                              sources |-> {job[d].packet.source},
                                              seen |-> job[d].time, active |-> TRUE])
           /\ \E r : Answers(d, r, "multi_stage" \in job[d].signals)
<1> DEFINE c == [class |-> job[d].packet.class, sources |-> {job[d].packet.source},
                 seen |-> job[d].time, active |-> TRUE]
           disturbed == {e \in Decoders \ {d} : pc[e] = "campaign"}
<1>1. /\ pc[d] = "create" /\ UNCHANGED <<now, kind, asked, last, records>>
      /\ campaigns' = Append(campaigns, c)
      /\ Finish(d, disturbed)
  BY DEF NewCampaign, engine
<1>2. job[d].packet \in Packets /\ job[d].time \in Nat
  BY <1>1 DEF TypeInv, Engaged, JobType
<1>3. c \in CampaignType
  BY <1>2 DEF Packets, CampaignType
<1>4. disturbed \subseteq Busy
  BY DEF Busy
<1> HIDE DEF c, disturbed
<1>5. campaigns' \in Seq(CampaignType)
  BY <1>1, <1>3, AppendProperties DEF TypeInv
<1>6. \E r : Answers(d, r, "multi_stage" \in job[d].signals)
  BY <1>1, <1>4, FinishFacts
<1> QED BY <1>1, <1>5, <1>6 DEF c

LEMMA ActiveCampaignsFacts ==
    ASSUME TypeInv, ActiveCampaigns
    PROVE  /\ campaigns' \in Seq(CampaignType) /\ DOMAIN campaigns' = DOMAIN campaigns
           /\ \A i \in DOMAIN campaigns : /\ campaigns'[i].class = campaigns[i].class
                                          /\ campaigns'[i].active => campaigns[i].active
           /\ UNCHANGED <<now, kind, asked, last, records, pc, job, reply, spoiled>>
<1>1. campaigns' = [i \in DOMAIN campaigns |->
           [campaigns[i] EXCEPT !.active = @ /\ now - campaigns[i].seen <= CampaignIdle]]
  BY DEF ActiveCampaigns
<1>2. campaigns \in [1..Len(campaigns) -> CampaignType] /\ Len(campaigns) \in Nat
  BY LenProperties DEF TypeInv
<1>3. ASSUME NEW i \in DOMAIN campaigns
      PROVE  /\ campaigns'[i] \in CampaignType
             /\ campaigns'[i].class = campaigns[i].class
             /\ campaigns'[i].active => campaigns[i].active
  <2>1. campaigns[i] \in CampaignType
    BY <1>2
  <2>2. PICK b \in BOOLEAN : b = (campaigns[i].active /\ now - campaigns[i].seen <= CampaignIdle)
    OBVIOUS
  <2>3. campaigns'[i] = [campaigns[i] EXCEPT !.active = b]
    BY <1>1, <2>2
  <2> QED BY <2>1, <2>2, <2>3 DEF CampaignType
<1>4. campaigns' \in [1..Len(campaigns) -> CampaignType] /\ DOMAIN campaigns' = DOMAIN campaigns
  BY <1>1, <1>2, <1>3
<1>5. campaigns' \in Seq(CampaignType)
  BY <1>2, <1>4, SeqDef
<1> QED BY <1>3, <1>4, <1>5 DEF ActiveCampaigns, engine

LEMMA TypeInductive == TypeInv /\ [Next]_vars => TypeInv'
<1> SUFFICES ASSUME TypeInv, [Next]_vars PROVE TypeInv'
  OBVIOUS
<1>1. ASSUME NEW d \in Decoders, Begin(d) \/ Settle(d) \/ Record(d) \/ Detect(d) \/ FindNone(d)
      PROVE  TypeInv'
  BY <1>1, BeginKeepsTypes, SettleKeepsTypes, RecordKeepsTypes, DetectKeepsTypes,
     FindNoneKeepsTypes
<1>2. ASSUME NEW d \in Decoders, Pass(d) \/ Fails(d) PROVE TypeInv'
  <2>1. (\E r, chain : Answers(d, r, chain)) /\ pc[d] # "idle"
    BY <1>2, PassFacts, FailsFacts DEF Pass
  <2>2. UNCHANGED <<now, kind, last, asked, records, campaigns>>
    BY <1>2 DEF Pass, Fails, engine, correlation
  <2> QED BY <2>1, <2>2, AnswersKeepTypes DEF TypeInv
<1>3. ASSUME NEW d \in Decoders, FindCampaign(d) \/ NewCampaign(d) PROVE TypeInv'
  <2>1. /\ \E r, chain : Answers(d, r, chain)
        /\ pc[d] # "idle" /\ UNCHANGED <<now, kind, asked, last, records>>
        /\ campaigns' \in Seq(CampaignType)
    BY <1>3, FindCampaignFacts, NewCampaignFacts
  <2> QED BY <2>1, AnswersKeepTypes DEF TypeInv
<1>4. CASE ActiveCampaigns
  BY <1>4, ActiveCampaignsFacts DEF TypeInv, Engaged, Busy
<1>5. CASE UNCHANGED vars
  BY <1>5 DEF vars, TypeInv, Engaged, Busy
<1> QED BY <1>1, <1>2, <1>3, <1>4, <1>5 DEF Next, Decode

------------------------------------------------------------------------------
(* A Block has a cause.                                                      *)

Cooling == {"Alert", "Block"}

\* A source with such a decision has earned an alarm, now or within the cooldown.
Caused(s) == asked[s] # Never /\ (asked[s] = now \/ now - asked[s] < BlockCooldown)

\* What was decided last is no older than the last alarm earned; a fresh decision
\* answers the alarm of this call, and any other is the cooldown's.
Reasoned ==
    /\ \A s \in Sources :
         /\ last[s].time <= now
         /\ last[s].decision \in Cooling /\ last[s].time # Never =>
              asked[s] # Never /\ last[s].time <= asked[s]
    /\ \A d \in Decoders : pc[d] = "settle" =>
         /\ job[d].time = now
         /\ job[d].decision \in Cooling => asked[job[d].packet.source] = now
    /\ \A d \in Decoders : pc[d] # "idle" /\ job[d].decision \in Cooling =>
         Caused(job[d].packet.source)
    /\ \A d \in Decoders : reply[d].decision = "Block" /\ ~reply[d].forced =>
         Caused(reply[d].source)

CauseInv == Alone => Reasoned

\* One thread decodes: the others are idle and have never answered.
LEMMA LoneFacts ==
    ASSUME TypeInv, Alone
    PROVE  \E d \in Decoders : /\ Kinds[kind].threads = {d}
                               /\ \A e \in Decoders \ {d} : pc[e] = "idle" /\ reply[e] = NoReply
<1>1. Kinds[kind].threads \subseteq Decoders
  BY KindsAssumption DEF TypeInv
<1>2. IsFiniteSet(Kinds[kind].threads)
  BY <1>1, DecoderAssumption, FS_Subset
<1>3. PICK d : Kinds[kind].threads = {d}
  BY <1>2, FS_Singleton DEF Alone
<1> QED BY <1>1, <1>3 DEF TypeInv, Engaged

LEMMA CauseInitial == Init => CauseInv
<1> SUFFICES ASSUME Init PROVE Reasoned
  BY DEF CauseInv
<1> QED BY DEF Init, Reasoned, NoReply, Never, Cooling

LEMMA BeginCauses ==
    ASSUME TypeInv, TypeInv', Alone, Reasoned, NEW d \in Decoders, Begin(d)
    PROVE  Reasoned'
<1>1. PICK p \in Kinds[kind].packets : \E pause \in Pauses :
         /\ now' = now + pause
         /\ asked' = IF p.earned \in Alarms THEN [asked EXCEPT ![p.source] = now'] ELSE asked
         /\ IF InCooldown(p, now')
            THEN /\ job' = [job EXCEPT ![d] = [NoJob EXCEPT !.packet = p, !.time = now',
                                                 !.decision = last[p.source].decision]]
                 /\ pc' = [pc EXCEPT ![d] = Cooled]
            ELSE /\ job' = [job EXCEPT ![d] = [NoJob EXCEPT !.packet = p, !.time = now',
                                                 !.decision = Applied(p, now')]]
                 /\ pc' = [pc EXCEPT ![d] = "settle"]
  BY DEF Begin
<1>2. p.source \in Sources /\ p.earned \in Decisions
  BY KindsAssumption DEF TypeInv, Packets
<1>3. now' \in Nat /\ now \in Nat /\ now <= now'
  BY <1>1, DecoderAssumption, SMTT(20) DEF TypeInv
<1>4. last' = last /\ d \in Kinds[kind].threads /\ reply' = [reply EXCEPT ![d] = NoReply]
  BY DEF Begin, engine
<1>5. ASSUME NEW e \in Decoders, e # d PROVE pc'[e] = "idle" /\ reply'[e] = NoReply
  BY <1>1, <1>4, <1>5, LoneFacts DEF TypeInv
<1>6. job'[d].packet = p /\ job'[d].time = now'
  <2>1. PICK decision : job' = [job EXCEPT ![d] = [NoJob EXCEPT !.packet = p, !.time = now',
                                                                !.decision = decision]]
    BY <1>1
  <2> QED BY <2>1 DEF TypeInv, NoJob
<1> DEFINE s == p.source
           l == last[s]
<1>7. /\ l.time \in Times /\ l.time <= now /\ asked[s] \in Times
      /\ l.decision \in Cooling /\ l.time # Never => asked[s] # Never /\ l.time <= asked[s]
  BY <1>2 DEF TypeInv, Reasoned
<1>8. asked'[s] = IF p.earned \in Alarms THEN now' ELSE asked[s]
  BY <1>1, <1>2 DEF TypeInv
<1>9. /\ AlertCooldown \in Nat /\ HystHold \in Nat /\ BlockCooldown \in Nat
      /\ AlertCooldown <= HystHold /\ HystHold <= BlockCooldown
  BY DecoderAssumption
<1>10. ASSUME InCooldown(p, now')
       PROVE  pc'[d] # "settle" /\ (job'[d].decision \in Cooling => Caused(s)')
  <2> DEFINE j == [NoJob EXCEPT !.packet = p, !.time = now', !.decision = l.decision]
  <2>0. job' = [job EXCEPT ![d] = j] /\ pc' = [pc EXCEPT ![d] = Cooled] /\ j.decision = l.decision
    BY <1>1, <1>10 DEF NoJob
  <2> HIDE DEF j
  <2>1. job'[d].decision = l.decision /\ pc'[d] = "record"
    BY <2>0 DEF TypeInv, Cooled
  <2>2. l.time # Never /\ now' - l.time < BlockCooldown /\ l.decision \in Cooling
    BY <1>3, <1>7, <1>9, <1>10 DEF InCooldown, Within, Cooling, Times
  <2>3. Caused(s)'
    <3>1. CASE p.earned \in Alarms
      BY <1>3, <1>8, <3>1, NamesFacts DEF Caused
    <3>2. CASE p.earned \notin Alarms
      <4>1. asked'[s] = asked[s] /\ asked[s] # Never /\ l.time <= asked[s]
        BY <1>7, <1>8, <2>2, <3>2
      <4>2. now' - asked[s] < BlockCooldown
        BY <1>3, <1>7, <1>9, <2>2, <4>1 DEF Times
      <4> QED BY <4>1, <4>2 DEF Caused
    <3> QED BY <3>1, <3>2
  <2> QED BY <2>1, <2>3
<1>11. ASSUME ~InCooldown(p, now')
       PROVE  job'[d].decision \in Cooling => asked'[s] = now' /\ Caused(s)'
  <2> DEFINE decided == Applied(p, now')
             j == [NoJob EXCEPT !.packet = p, !.time = now', !.decision = decided]
  <2> HIDE DEF decided
  <2>0. j.decision = decided
    BY DEF NoJob
  <2>1. job'[d].decision = decided
    <3>1. job' = [job EXCEPT ![d] = j]
      BY <1>1, <1>11 DEF decided
    <3> QED BY <2>0, <3>1 DEF TypeInv
  <2>2. ASSUME decided \in Cooling PROVE p.earned \in Alarms
    <3>1. Held(p, now') \in Cooling
      BY <2>2 DEF decided, Applied, Cooling
    <3>2. CASE Held(p, now') = p.earned
      BY <3>1, <3>2 DEF Cooling, Alarms
    <3>3. CASE Held(p, now') # p.earned
      <4>1. l.decision = "Block" /\ Within(now', l.time, HystHold)
        BY <3>3 DEF Held
      <4>2. Within(now', l.time, BlockCooldown)
        BY <1>3, <1>7, <1>9, <4>1 DEF Within, Times
      <4>3. p.earned = "Escalate"
        BY <1>11, <4>1, <4>2 DEF InCooldown
      <4> QED BY <4>3 DEF Alarms
    <3> QED BY <3>2, <3>3
  <2>3. job'[d].decision \in Cooling => asked'[s] = now' /\ Caused(s)'
    BY <1>3, <1>8, <2>1, <2>2, NamesFacts DEF Caused
  <2> QED BY <2>1, <2>3
<1>12. ASSUME NEW q \in Sources
       PROVE  /\ last'[q].time <= now'
              /\ last'[q].decision \in Cooling /\ last'[q].time # Never =>
                   asked'[q] # Never /\ last'[q].time <= asked'[q]
  <2>1. last[q].time \in Times /\ last[q].time <= now
    BY DEF TypeInv, Reasoned
  <2>2. last'[q].time <= now'
    BY <1>3, <1>4, <2>1 DEF Times, Never
  <2>3. asked'[q] = asked[q] \/ asked'[q] = now'
    BY <1>1 DEF TypeInv
  <2> QED BY <1>3, <1>4, <2>2, <2>3, NamesFacts DEF Reasoned
<1>13. ASSUME NEW e \in Decoders, pc'[e] # "idle" PROVE e = d
  BY <1>5, <1>13
<1>14. ASSUME NEW e \in Decoders, pc'[e] = "settle"
       PROVE  /\ job'[e].time = now'
              /\ job'[e].decision \in Cooling => asked'[job'[e].packet.source] = now'
  BY <1>6, <1>10, <1>11, <1>13, <1>14
<1>15. ASSUME NEW e \in Decoders, pc'[e] # "idle", job'[e].decision \in Cooling
       PROVE  Caused(job[e].packet.source)'
  <2>1. e = d /\ job'[e].packet.source = s
    BY <1>6, <1>13, <1>15
  <2>2. Caused(s)'
    BY <1>10, <1>11, <1>15, <2>1
  <2> QED BY <2>1, <2>2 DEF Caused
<1>16. ASSUME NEW e \in Decoders PROVE reply'[e].decision # "Block"
  BY <1>4, <1>5 DEF TypeInv, NoReply
<1> QED BY <1>12, <1>14, <1>15, <1>16 DEF Reasoned

\* A step that moves neither the clock nor the alarms, and decides nothing new.
LEMMA CausesStay ==
    ASSUME TypeInv, Reasoned, UNCHANGED <<now, asked, last>>,
           NEW d \in Decoders, \A e \in Decoders \ {d} : UNCHANGED <<pc[e], job[e], reply[e]>>,
           pc'[d] # "settle",
           pc'[d] # "idle" => /\ pc[d] # "idle" /\ job'[d].packet = job[d].packet
                              /\ job'[d].decision = job[d].decision,
           \/ reply'[d] = reply[d]
           \/ /\ pc[d] # "idle" /\ reply'[d].source = job[d].packet.source
              /\ reply'[d].decision = "Block" /\ ~reply'[d].forced => job[d].decision \in Cooling
    PROVE  Reasoned'
<1>1. ASSUME NEW e \in Decoders, pc'[e] = "settle"
      PROVE  /\ job'[e].time = now'
             /\ job'[e].decision \in Cooling => asked'[job'[e].packet.source] = now'
  BY <1>1 DEF Reasoned
<1>2. ASSUME NEW e \in Decoders, pc'[e] # "idle", job'[e].decision \in Cooling
      PROVE  Caused(job[e].packet.source)'
  BY <1>2 DEF Reasoned, Caused
<1>3. ASSUME NEW e \in Decoders, reply'[e].decision = "Block", ~reply'[e].forced
      PROVE  Caused(reply[e].source)'
  BY <1>3 DEF Reasoned, Caused
<1> QED BY <1>1, <1>2, <1>3 DEF Reasoned

LEMMA SettleCauses ==
    ASSUME TypeInv, Reasoned, NEW d \in Decoders, Settle(d)
    PROVE  Reasoned'
<1> DEFINE s == job[d].packet.source
<1>1. /\ pc[d] = "settle" /\ pc' = [pc EXCEPT ![d] = "record"]
      /\ last' = [last EXCEPT ![s] = [decision |-> job[d].decision, time |-> job[d].time]]
      /\ UNCHANGED <<now, job, reply, asked>>
  BY DEF Settle
<1>2. job[d].time = now /\ (job[d].decision \in Cooling => asked[s] = now)
  BY <1>1 DEF Reasoned
<1>3. now \in Nat
  BY DEF TypeInv
<1>4. ASSUME NEW q \in Sources
      PROVE  /\ last'[q].time <= now'
             /\ last'[q].decision \in Cooling /\ last'[q].time # Never =>
                  asked'[q] # Never /\ last'[q].time <= asked'[q]
  BY <1>1, <1>2, <1>3, NamesFacts DEF Reasoned, TypeInv
<1>5. ASSUME NEW e \in Decoders, pc'[e] = "settle" PROVE pc[e] = "settle"
  BY <1>1, <1>5 DEF TypeInv
<1>6. ASSUME NEW e \in Decoders, pc'[e] # "idle" PROVE pc[e] # "idle"
  BY <1>1, <1>6 DEF TypeInv
<1> QED BY <1>1, <1>4, <1>5, <1>6 DEF Reasoned, Caused

LEMMA CauseInductive == TypeInv /\ TypeInv' /\ CauseInv /\ [Next]_vars => CauseInv'
<1> SUFFICES ASSUME TypeInv, TypeInv', CauseInv, [Next]_vars, Alone' PROVE Reasoned'
  BY DEF CauseInv
<1>1. Alone /\ Reasoned
  <2>1. kind' = kind
    BY DEF Next, Decode, Begin, Settle, Pass, Record, Detect, Fails, FindCampaign, FindNone,
           NewCampaign, ActiveCampaigns, vars
  <2> QED BY <2>1, SMTT(30) DEF Alone, CauseInv
<1>2. ASSUME NEW d \in Decoders, Begin(d) \/ Settle(d) PROVE Reasoned'
  BY <1>1, <1>2, BeginCauses, SettleCauses
<1>3. ASSUME NEW d \in Decoders, Record(d) \/ Detect(d) \/ FindNone(d) PROVE Reasoned'
  <2>1. pc[d] # "idle" /\ UNCHANGED <<now, asked, last, reply>>
    BY <1>3 DEF Record, Detect, FindNone, engine
  <2>2. /\ pc'[d] # "settle"
        /\ job'[d].packet = job[d].packet /\ job'[d].decision = job[d].decision
        /\ \A e \in Decoders \ {d} : UNCHANGED <<pc[e], job[e]>>
    BY <1>3 DEF Record, Detect, FindNone, TypeInv, JobType
  <2> QED BY <1>1, <2>1, <2>2, CausesStay
<1>4. ASSUME NEW d \in Decoders, Pass(d) \/ Fails(d) \/ FindCampaign(d) \/ NewCampaign(d)
      PROVE  Reasoned'
  <2>1. (\E r, chain : Answers(d, r, chain)) /\ pc[d] # "idle"
    BY <1>4, PassFacts, FailsFacts, FindCampaignFacts, NewCampaignFacts DEF Pass
  <2>2. PICK r, chain : Answers(d, r, chain)
    BY <2>1
  <2>3. UNCHANGED <<now, asked, last>>
    BY <1>4 DEF Pass, Fails, FindCampaign, NewCampaign, engine
  <2>4. /\ pc'[d] = "idle" /\ reply'[d] = r
        /\ \A e \in Decoders \ {d} : UNCHANGED <<pc[e], job[e], reply[e]>>
    BY <2>2 DEF Answers, TypeInv
  <2>5. /\ r.source = job[d].packet.source
        /\ r.decision = "Block" /\ ~r.forced => job[d].decision \in Cooling
    BY <2>2 DEF Answers, Cooling
  <2> QED BY <1>1, <2>1, <2>3, <2>4, <2>5, CausesStay
<1>5. CASE ActiveCampaigns
  BY <1>1, <1>5, ActiveCampaignsFacts DEF Reasoned, Caused
<1>6. CASE UNCHANGED vars
  BY <1>1, <1>6 DEF vars, Reasoned, Caused
<1> QED BY <1>2, <1>3, <1>4, <1>5, <1>6 DEF Next, Decode

\* Whatever a source sends, and whenever: it is blocked only while it has just earned an
\* alarm or the cooldown of one lasts; neither the cooldown (decoder_engine.py:281-290) nor
\* the hysteresis (292-298) prolongs itself.
THEOREM BlocksHaveCauses == Spec => []BlockNeedsCause
<1>1. CauseInv => BlockNeedsCause
  <2> SUFFICES ASSUME CauseInv, Alone, NEW d \in Decoders,
                      reply[d].decision = "Block", ~reply[d].forced
               PROVE  /\ asked[reply[d].source] # Never
                      /\ \/ asked[reply[d].source] = now
                         \/ now - asked[reply[d].source] < BlockCooldown
    BY DEF BlockNeedsCause
  <2> QED BY DEF CauseInv, Reasoned, Caused
<1> QED BY <1>1, TypeInitial, TypeInductive, CauseInitial, CauseInductive, PTL DEF Spec

------------------------------------------------------------------------------
(* A class has one campaign.                                                 *)

\* No campaign under way has the class of the one about to be made.
CampaignInv ==
    /\ OneCampaignPerClass
    /\ Alone => \A d \in Decoders : pc[d] = "create" =>
         \A i \in DOMAIN campaigns : campaigns[i].active =>
             campaigns[i].class # job[d].packet.class

LEMMA CampaignInitial == Init => CampaignInv
BY DEF Init, CampaignInv, OneCampaignPerClass

\* Campaigns that keep their classes and do not begin again.
LEMMA CampaignsStay ==
    ASSUME CampaignInv, kind' = kind, DOMAIN campaigns' = DOMAIN campaigns,
           \A i \in DOMAIN campaigns : /\ campaigns'[i].class = campaigns[i].class
                                       /\ campaigns'[i].active => campaigns[i].active,
           \A d \in Decoders : pc'[d] = "create" => pc[d] = "create" /\ job'[d] = job[d]
    PROVE  CampaignInv'
<1>1. Alone' <=> Alone
  BY DEF Alone
<1>2. OneCampaignPerClass'
  BY <1>1 DEF CampaignInv, OneCampaignPerClass
<1>3. ASSUME Alone', NEW d \in Decoders, pc'[d] = "create",
             NEW i \in DOMAIN campaigns', campaigns'[i].active
      PROVE  campaigns'[i].class # job'[d].packet.class
  BY <1>1, <1>3 DEF CampaignInv
<1> QED BY <1>2, <1>3 DEF CampaignInv

LEMMA CampaignInductive == TypeInv /\ CampaignInv /\ [Next]_vars => CampaignInv'
<1> SUFFICES ASSUME TypeInv, CampaignInv, [Next]_vars PROVE CampaignInv'
  OBVIOUS
<1>1. ASSUME NEW d \in Decoders, Begin(d) \/ Settle(d) \/ Record(d) \/ Detect(d) PROVE CampaignInv'
  <2>1. kind' = kind /\ campaigns' = campaigns
    BY <1>1, ZenonT(30) DEF Begin, Settle, Record, Detect, correlation
  <2>2. ASSUME NEW e \in Decoders, pc'[e] = "create" PROVE pc[e] = "create" /\ job'[e] = job[e]
    BY <1>1, <2>2 DEF Begin, Settle, Record, Detect, Cooled, TypeInv
  <2> QED BY <2>1, <2>2, CampaignsStay, SMTT(30)
<1>2. ASSUME NEW d \in Decoders, Pass(d) \/ Fails(d) \/ FindCampaign(d) PROVE CampaignInv'
  <2>1. \E r, chain : Answers(d, r, chain)
    BY <1>2, PassFacts, FailsFacts, FindCampaignFacts
  <2>2. ASSUME NEW e \in Decoders, pc'[e] = "create" PROVE pc[e] = "create" /\ job'[e] = job[e]
    BY <2>1, <2>2 DEF Answers, TypeInv
  <2>3. /\ kind' = kind /\ DOMAIN campaigns' = DOMAIN campaigns
        /\ \A i \in DOMAIN campaigns : /\ campaigns'[i].class = campaigns[i].class
                                       /\ campaigns'[i].active => campaigns[i].active
    BY <1>2, FindCampaignFacts DEF Pass, Fails, correlation
  <2> QED BY <2>2, <2>3, CampaignsStay
<1>3. ASSUME NEW d \in Decoders, FindNone(d) PROVE CampaignInv'
  <2>1. /\ Fitting(job[d].packet) = {} /\ pc' = [pc EXCEPT ![d] = "create"]
        /\ UNCHANGED <<kind, campaigns, job>>
    BY <1>3 DEF FindNone, correlation
  <2>2. \A i \in DOMAIN campaigns : campaigns[i].active => campaigns[i].class # job[d].packet.class
    BY <2>1 DEF Fitting, Joins
  <2> QED BY <2>1, <2>2 DEF CampaignInv, OneCampaignPerClass, Alone, TypeInv
<1>4. ASSUME NEW d \in Decoders, NewCampaign(d) PROVE CampaignInv'
  <2> DEFINE c == [class |-> job[d].packet.class, sources |-> {job[d].packet.source},
                   seen |-> job[d].time, active |-> TRUE]
  <2>1. /\ pc[d] = "create" /\ kind' = kind /\ campaigns' = Append(campaigns, c)
        /\ \E r, chain : Answers(d, r, chain)
    BY <1>4, NewCampaignFacts
  <2>2. c.class = job[d].packet.class
    OBVIOUS
  <2>3. job[d].packet \in Packets /\ job[d].time \in Nat
    BY <2>1 DEF TypeInv, Engaged, JobType
  <2>4. c \in CampaignType
    BY <2>3 DEF Packets, CampaignType
  <2> HIDE DEF c
  <2>5. /\ Len(campaigns) \in Nat /\ DOMAIN campaigns = 1..Len(campaigns)
        /\ DOMAIN campaigns' = 1..(Len(campaigns) + 1)
        /\ \A i \in DOMAIN campaigns : campaigns'[i] = campaigns[i]
        /\ campaigns'[Len(campaigns) + 1] = c
    BY <2>1, <2>4, AppendProperties, LenProperties DEF TypeInv
  <2> SUFFICES ASSUME Alone PROVE CampaignInv'
    BY <2>1 DEF CampaignInv, OneCampaignPerClass, Alone
  <2>6. \A i \in DOMAIN campaigns : campaigns[i].active => campaigns[i].class # c.class
    BY <2>1, <2>2 DEF CampaignInv
  <2>7. OneCampaignPerClass'
    BY <2>5, <2>6 DEF CampaignInv, OneCampaignPerClass
  <2>8. ASSUME NEW e \in Decoders PROVE pc'[e] # "create"
    <3>1. CASE e = d
      BY <2>1, <3>1 DEF Answers, TypeInv
    <3>2. CASE e # d
      <4>1. pc[e] = "idle"
        BY <2>1, <3>2, LoneFacts
      <4> QED BY <2>1, <3>2, <4>1 DEF Answers, TypeInv
    <3> QED BY <3>1, <3>2
  <2> QED BY <2>7, <2>8 DEF CampaignInv
<1>5. CASE ActiveCampaigns
  BY <1>5, ActiveCampaignsFacts, CampaignsStay
<1>6. CASE UNCHANGED vars
  BY <1>6, CampaignsStay DEF vars
<1> QED BY <1>1, <1>2, <1>3, <1>4, <1>5, <1>6 DEF Next, Decode

\* However many sources and classes there are, and whatever has ended meanwhile: a campaign
\* begins (decoder_engine.py:234-241) only when none of its class is under way, and joining
\* one never changes its class.
THEOREM ClassesHaveOneCampaign == Spec => []OneCampaignPerClass
<1>1. CampaignInv => OneCampaignPerClass
  BY DEF CampaignInv
<1> QED BY <1>1, TypeInitial, TypeInductive, CampaignInitial, CampaignInductive, PTL DEF Spec

------------------------------------------------------------------------------
(* Chains are real.                                                          *)

\* What the matcher has after record i, from what it had before.
Matching(p, s, m, n) ==
    m = [i \in 0..n |-> IF i = 0 THEN [n |-> 0, t |-> 0] ELSE Took(m[i - 1], records[i], p, s)]

LEMMA MatchingExists ==
    ASSUME NEW p, NEW s, NEW n \in Nat
    PROVE  \E m : Matching(p, s, m, n)
<1> DEFINE T == {k \in Nat : ~ \E m : Matching(p, s, m, k)}
           Start == [n |-> 0, t |-> 0]
<1>1. SUFFICES T = {}
  OBVIOUS
<1>2. SUFFICES ASSUME T # {} PROVE FALSE
  OBVIOUS
<1>3. PICK x \in T : \A y \in T : x <= y
  BY <1>2, LeastNumber
<1>4. x # 0
  <2>1. Matching(p, s, [i \in 0..0 |-> Start], 0)
    BY DEF Matching
  <2> QED BY <2>1
<1>5. x - 1 \in Nat /\ x - 1 \notin T
  BY <1>3, <1>4
<1>6. PICK m : Matching(p, s, m, x - 1)
  BY <1>5
<1> DEFINE q == [i \in 0..x |-> IF i = x THEN Took(m[x - 1], records[x], p, s) ELSE m[i]]
<1>7. ASSUME NEW i \in 0..x
      PROVE  q[i] = IF i = 0 THEN Start ELSE Took(q[i - 1], records[i], p, s)
  <2>1. CASE i = x
    <3>1. q[x - 1] = m[x - 1] /\ q[x] = Took(m[x - 1], records[x], p, s)
      BY <1>4, <1>5
    <3> QED BY <1>4, <2>1, <3>1
  <2>2. CASE i # x /\ i # 0
    <3>1. i \in 0..(x - 1) /\ i - 1 \in 0..x /\ i - 1 # x
      BY <2>2
    <3>2. q[i] = m[i] /\ q[i - 1] = m[i - 1]
      BY <2>2, <3>1
    <3>3. m[i] = Took(m[i - 1], records[i], p, s)
      BY <1>6, <2>2, <3>1 DEF Matching
    <3> QED BY <2>2, <3>2, <3>3
  <2>3. CASE i # x /\ i = 0
    <3>1. q[0] = m[0] /\ 0 \in 0..(x - 1)
      BY <1>4, <2>3
    <3> QED BY <1>6, <2>3, <3>1 DEF Matching
  <2> QED BY <2>1, <2>2, <2>3
<1>8. q = [i \in 0..x |-> IF i = 0 THEN Start ELSE Took(q[i - 1], records[i], p, s)]
  <2>1. q = [i \in 0..x |-> q[i]]
    OBVIOUS
  <2> HIDE DEF q
  <2> QED BY <1>7, <2>1
<1>9. Matching(p, s, q, x)
  BY <1>8 DEF Matching
<1> QED BY <1>9

\* A way through the first m.n stages that ends by record i.
Way(p, s, m, i, at) ==
    /\ at \in [1..m.n -> 1..i]
    /\ \A n \in 1..m.n :
         /\ records[at[n]].source = s /\ records[at[n]].class = p.stages[n]
         /\ n > 1 => /\ at[n - 1] < at[n]
                     /\ records[at[n]].time - records[at[n - 1]].time <= p.gap
    /\ m.n > 0 => m.t = records[at[m.n]].time

\* The matcher has gone a way through what it has matched.
Gone(p, s, m, i) == m.n \in 0..Len(p.stages) /\ \E at : Way(p, s, m, i, at)

LEMMA TookGoes ==
    ASSUME NEW p \in Patterns, NEW s, NEW m, NEW i \in Nat, Gone(p, s, m, i)
    PROVE  Gone(p, s, Took(m, records[i + 1], p, s), i + 1)
<1> DEFINE r == records[i + 1]
<1>1. PICK at : Way(p, s, m, i, at)
  BY DEF Gone
<1>2. Len(p.stages) \in Nat /\ m.n \in 0..Len(p.stages)
  BY DecoderAssumption, LenProperties DEF Gone
<1>3. CASE r.source = s /\ NextStage(m, r, p)
  <2> DEFINE q == [n |-> m.n + 1, t |-> r.time]
             on == [n \in 1..(m.n + 1) |-> IF n = m.n + 1 THEN i + 1 ELSE at[n]]
  <2>1. Took(m, r, p, s) = q /\ q.n = m.n + 1 /\ q.t = r.time
    BY <1>3 DEF Took
  <2>2. q.n \in 0..Len(p.stages)
    BY <1>2, <1>3 DEF NextStage
  <2>3. \A n \in 1..m.n : on[n] = at[n] /\ at[n] \in 1..i
    BY <1>1, <1>2, SMTT(30) DEF Way
  <2>4. on[m.n + 1] = i + 1
    BY <1>2
  <2>5. on \in [1..q.n -> 1..(i + 1)]
    <3>1. ASSUME NEW n \in 1..(m.n + 1) PROVE on[n] \in 1..(i + 1)
      <4>1. CASE n \in 1..m.n
        BY <2>3, <4>1
      <4>2. CASE n = m.n + 1
        BY <2>4, <4>2
      <4> QED BY <1>2, <4>1, <4>2
    <3>2. DOMAIN on = 1..(m.n + 1) /\ on = [n \in 1..(m.n + 1) |-> on[n]]
      OBVIOUS
    <3> HIDE DEF on
    <3> QED BY <2>1, <3>1, <3>2
  <2>6. ASSUME NEW n \in 1..q.n
        PROVE  /\ records[on[n]].source = s /\ records[on[n]].class = p.stages[n]
               /\ n > 1 => /\ on[n - 1] < on[n]
                           /\ records[on[n]].time - records[on[n - 1]].time <= p.gap
    <3>1. CASE n \in 1..m.n
      <4>1. on[n] = at[n] /\ (n > 1 => on[n - 1] = at[n - 1])
        BY <1>2, <2>3, <3>1
      <4> QED BY <1>1, <3>1, <4>1 DEF Way
    <3>2. CASE n = m.n + 1
      <4>1. r.class = p.stages[n] /\ (m.n = 0 \/ r.time - m.t <= p.gap)
        BY <1>3, <3>2 DEF NextStage
      <4>2. on[n] = i + 1
        BY <2>4, <3>2
      <4>3. ASSUME n > 1
            PROVE  on[n - 1] < on[n] /\ records[on[n]].time - records[on[n - 1]].time <= p.gap
        <5>1. m.n \in 1..m.n /\ m.n > 0 /\ n - 1 = m.n
          BY <1>2, <3>2, <4>3
        <5>2. on[n - 1] = at[m.n] /\ at[m.n] \in 1..i
          BY <2>3, <5>1
        <5>3. m.t = records[at[m.n]].time
          BY <1>1, <5>1 DEF Way
        <5> QED BY <4>1, <4>2, <5>1, <5>2, <5>3
      <4> QED BY <1>3, <4>1, <4>2, <4>3
    <3> QED BY <1>2, <2>1, <3>1, <3>2
  <2>7. q.t = records[on[q.n]].time
    BY <2>1, <2>4
  <2> HIDE DEF on, q
  <2>8. Way(p, s, q, i + 1, on)
    BY <2>5, <2>6, <2>7 DEF Way
  <2> QED BY <2>1, <2>2, <2>8 DEF Gone
<1>4. CASE ~(r.source = s /\ NextStage(m, r, p))
  <2>1. Took(m, r, p, s) = m
    BY <1>4 DEF Took
  <2>2. at \in [1..m.n -> 1..(i + 1)]
    BY <1>1 DEF Way
  <2>3. Way(p, s, m, i + 1, at)
    BY <1>1, <2>2 DEF Way
  <2> QED BY <1>2, <2>1, <2>3 DEF Gone
<1> QED BY <1>3, <1>4

LEMMA MatchedIsChain ==
    ASSUME TypeInv, NEW p \in Patterns, NEW s, Matched(p, s)
    PROVE  Chain(p, s)
<1> DEFINE N == Len(records)
           m == CHOOSE m : Matching(p, s, m, N)
<1>1. N \in Nat /\ DOMAIN records = 1..N
  BY LenProperties DEF TypeInv
<1>2. Matching(p, s, m, N)
  BY <1>1, MatchingExists
<1>3. m[N].n = Len(p.stages)
  BY DEF Matched, Matching
<1> HIDE DEF m
<1>4. /\ m[0] = [n |-> 0, t |-> 0]
      /\ \A i \in 0..N : i # 0 => m[i] = Took(m[i - 1], records[i], p, s)
  BY <1>1, <1>2 DEF Matching
<1>5. \A i \in 0..N : Gone(p, s, m[i], i)
  <2> DEFINE T == {i \in 0..N : ~Gone(p, s, m[i], i)}
  <2> SUFFICES ASSUME T # {} PROVE FALSE
    OBVIOUS
  <2>0. T \subseteq Nat
    BY <1>1
  <2>1. PICK x \in T : \A y \in T : x <= y
    <3> HIDE DEF T
    <3> QED BY <2>0, LeastNumber
  <2>2. x # 0
    <3>1. Len(p.stages) \in Nat
      BY DecoderAssumption, LenProperties
    <3>2. m[0].n = 0
      BY <1>4
    <3>3. Way(p, s, m[0], 0, [n \in 1..0 |-> 0])
      BY <3>2 DEF Way
    <3> QED BY <3>1, <3>2, <3>3 DEF Gone
  <2>3. x - 1 \in Nat /\ x - 1 \in 0..N /\ x - 1 \notin T /\ (x - 1) + 1 = x
    BY <1>1, <2>1, <2>2
  <2>4. Gone(p, s, m[x - 1], x - 1)
    BY <2>3
  <2>5. Gone(p, s, Took(m[x - 1], records[x], p, s), x)
    BY <2>3, <2>4, TookGoes
  <2> QED BY <1>4, <2>2, <2>5
<1>6. PICK at : Way(p, s, m[N], N, at)
  BY <1>1, <1>5 DEF Gone
<1>7. DOMAIN p.stages = 1..Len(p.stages)
  BY DecoderAssumption, LenProperties
<1> QED BY <1>1, <1>3, <1>6, <1>7 DEF Way, Chain

\* The same of any sequence of records.
ChainIn(rs, p, s) ==
    \E at \in [DOMAIN p.stages -> DOMAIN rs] :
        \A n \in DOMAIN p.stages :
            /\ rs[at[n]].source = s /\ rs[at[n]].class = p.stages[n]
            /\ n > 1 => at[n - 1] < at[n] /\ rs[at[n]].time - rs[at[n - 1]].time <= p.gap

Chained(rs, s) == \E p \in Patterns : ChainIn(rs, p, s)

\* What the signals or an answer call a chain is one, until a record is added or dropped;
\* by then nobody has an answer.
Linked ==
    /\ \A d \in Decoders : pc[d] \in {"campaign", "create"} /\ "multi_stage" \in job[d].signals =>
         Chained(records, job[d].packet.source)
    /\ \A d \in Decoders : reply[d].chain => Chained(records, reply[d].source)

ChainInv == Alone => Linked

LEMMA ChainInitial == Init => ChainInv
BY DEF Init, ChainInv, Linked, NoReply

\* A step that leaves the records alone and claims no new chain.
LEMMA LinksStay ==
    ASSUME TypeInv, Linked, records' = records,
           NEW d \in Decoders, \A e \in Decoders \ {d} : UNCHANGED <<pc[e], job[e], reply[e]>>,
           pc'[d] \in {"campaign", "create"} =>
               pc[d] \in {"campaign", "create"} /\ job'[d] = job[d],
           \/ ~reply'[d].chain
           \/ reply'[d] = reply[d]
           \/ /\ pc[d] \in {"campaign", "create"} /\ "multi_stage" \in job[d].signals
              /\ reply'[d].source = job[d].packet.source
    PROVE  Linked'
<1>1. ASSUME NEW e \in Decoders, pc'[e] \in {"campaign", "create"}, "multi_stage" \in job'[e].signals
      PROVE  Chained(records, job[e].packet.source)'
  BY <1>1 DEF Linked
<1>2. ASSUME NEW e \in Decoders, reply'[e].chain PROVE Chained(records, reply[e].source)'
  BY <1>2 DEF Linked
<1> QED BY <1>1, <1>2 DEF Linked

LEMMA ChainInductive == TypeInv /\ ChainInv /\ [Next]_vars => ChainInv'
<1> SUFFICES ASSUME TypeInv, ChainInv, [Next]_vars, Alone' PROVE Linked'
  BY DEF ChainInv
<1>1. Alone /\ Linked
  <2>1. kind' = kind
    BY Zenon DEF Next, Decode, Begin, Settle, Pass, Record, Detect, Fails, FindCampaign, FindNone,
           NewCampaign, ActiveCampaigns, vars
  <2> QED BY <2>1, SMTT(30) DEF Alone, ChainInv
<1>2. ASSUME NEW d \in Decoders, Begin(d) \/ Settle(d) \/ FindNone(d) PROVE Linked'
  <2>1. records' = records
    BY <1>2, Zenon DEF Begin, Settle, FindNone, correlation
  <2>2. \A e \in Decoders \ {d} : UNCHANGED <<pc[e], job[e], reply[e]>>
    BY <1>2, Zenon DEF Begin, Settle, FindNone, TypeInv
  <2>3. pc'[d] \in {"campaign", "create"} =>
            pc[d] \in {"campaign", "create"} /\ job'[d] = job[d]
    BY <1>2, Zenon DEF Begin, Settle, FindNone, TypeInv, Cooled
  <2>4. ~reply'[d].chain \/ reply'[d] = reply[d]
    <3>1. reply' = [reply EXCEPT ![d] = NoReply] \/ reply' = reply
      BY <1>2 DEF Begin, Settle, FindNone
    <3> QED BY <3>1, SMTT(30) DEF TypeInv, NoReply
  <2> QED BY <1>1, <2>1, <2>2, <2>3, <2>4, LinksStay
<1>3. ASSUME NEW d \in Decoders, Record(d) PROVE Linked'
  <2>1. pc[d] = "record" /\ pc' = [pc EXCEPT ![d] = "detect"] /\ reply' = reply
    BY <1>3 DEF Record
  <2>2. reply[d] = NoReply
    BY <2>1 DEF TypeInv, Engaged
  <2>3. \A e \in Decoders \ {d} : pc[e] = "idle" /\ reply[e] = NoReply
    BY <1>1, <2>1, LoneFacts
  <2>4. ASSUME NEW e \in Decoders
        PROVE  pc'[e] \notin {"campaign", "create"} /\ ~reply'[e].chain
    BY <2>1, <2>2, <2>3 DEF TypeInv, NoReply
  <2> QED BY <2>4 DEF Linked
<1>4. ASSUME NEW d \in Decoders, Detect(d) PROVE Linked'
  <2> DEFINE s == job[d].packet.source
             found == Signals(s, job[d].packet.host, job[d].time)
  <2>1. /\ pc[d] = "detect" /\ pc' = [pc EXCEPT ![d] = "campaign"]
        /\ job' = [job EXCEPT ![d].signals = found]
        /\ records' = records /\ reply' = reply
    BY <1>4 DEF Detect, correlation
  <2>2. "multi_stage" \in found => Chained(records, s)
    <3> SUFFICES ASSUME "multi_stage" \in found PROVE Chained(records, s)
      OBVIOUS
    <3>1. MultiStage(s)
      BY DEF Signals
    <3> QED BY <3>1, MatchedIsChain DEF MultiStage, Chained, Chain, ChainIn
  <2>3. job'[d].packet = job[d].packet /\ job'[d].signals = found
    BY <2>1 DEF TypeInv, JobType
  <2> HIDE DEF found
  <2>4. ASSUME NEW e \in Decoders, pc'[e] \in {"campaign", "create"},
               "multi_stage" \in job'[e].signals
        PROVE  Chained(records, job[e].packet.source)'
    <3>1. CASE e = d
      BY <2>1, <2>2, <2>3, <2>4, <3>1 
    <3>2. CASE e # d
      <4>1. pc[e] = "idle"
        BY <1>1, <2>1, <3>2, LoneFacts
      <4> QED BY <2>1, <2>4, <3>2, <4>1 DEF TypeInv
    <3> QED BY <3>1, <3>2
  <2>5. ASSUME NEW e \in Decoders, reply'[e].chain PROVE Chained(records, reply[e].source)'
    BY <1>1, <2>1, <2>5 DEF Linked
  <2> QED BY <2>4, <2>5 DEF Linked
<1>5. ASSUME NEW d \in Decoders, Pass(d) \/ Fails(d) \/ FindCampaign(d) \/ NewCampaign(d)
      PROVE  Linked'
  <2> DEFINE Claimed(r) == r.chain => /\ pc[d] \in {"campaign", "create"}
                                      /\ "multi_stage" \in job[d].signals
  <2>1. \E r : (\E chain : Answers(d, r, chain)) /\ Claimed(r)
    <3>1. CASE Pass(d) \/ Fails(d)
      <4>1. PICK r : Answers(d, r, FALSE)
        BY <3>1, PassFacts, FailsFacts
      <4>2. r.chain = FALSE
        BY <4>1 DEF Answers
      <4> QED BY <4>1, <4>2
    <3>2. CASE FindCampaign(d) \/ NewCampaign(d)
      <4>1. PICK r : Answers(d, r, "multi_stage" \in job[d].signals)
        BY <3>2, FindCampaignFacts, NewCampaignFacts
      <4>2. r.chain = ("multi_stage" \in job[d].signals)
        BY <4>1 DEF Answers
      <4>3. pc[d] \in {"campaign", "create"}
        BY <3>2 DEF FindCampaign, NewCampaign
      <4> QED BY <4>1, <4>2, <4>3
    <3> QED BY <1>5, <3>1, <3>2
  <2>2. PICK r : (\E chain : Answers(d, r, chain)) /\ Claimed(r)
    BY <2>1
  <2>3. /\ pc'[d] = "idle" /\ reply'[d] = r
        /\ \A e \in Decoders \ {d} : UNCHANGED <<pc[e], job[e], reply[e]>>
        /\ r.source = job[d].packet.source
    BY <2>2 DEF Answers, TypeInv
  <2>4. records' = records
    BY <1>5 DEF Pass, Fails, FindCampaign, NewCampaign, correlation
  <2> QED BY <1>1, <2>2, <2>3, <2>4, LinksStay
<1>6. CASE ActiveCampaigns
  BY <1>1, <1>6, ActiveCampaignsFacts DEF Linked
<1>7. CASE UNCHANGED vars
  BY <1>1, <1>7 DEF vars, Linked
<1> QED BY <1>2, <1>3, <1>4, <1>5, <1>6, <1>7 DEF Next, Decode

\* Whatever is recorded and dropped in whatever order: the matcher (decoder_engine.py:197-208)
\* reports a chain only if the source has records of all the stages of a pattern, in order,
\* each in time after the one before.
THEOREM ChainsExist == Spec => []ChainsAreReal
<1>1. ChainInv => ChainsAreReal
  BY DEF ChainInv, Linked, Chained, ChainsAreReal, Chain, ChainIn
<1> QED BY <1>1, TypeInitial, TypeInductive, ChainInitial, ChainInductive, PTL DEF Spec
==============================================================================
