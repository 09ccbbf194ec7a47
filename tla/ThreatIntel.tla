------------------------------ MODULE ThreatIntel ------------------------------
(***************************************************************************)
(* ai-architecture/threat_intelligence: what process_attack does with each *)
(* packet the decoder has decided on.  BehavioralBaseline learns the       *)
(* source and then looks for anomalies in what it has just learned, so     *)
(* only the three statistical ones can be found; CampaignCorrelator joins  *)
(* the packet to a campaign of its signature or opens one, counts what is  *)
(* recent on its target and names an actor; the scores add up to a level.  *)
(* The decoder passes its decision as the class of the attack: MITREMapper *)
(* knows no such class and contributes nothing, and no progression of      *)
(* classes is ever found.                                                  *)
(*                                                                         *)
(* There is no Next here: Learning decodes packets and calls ProcessAttack *)
(* for each of them.                                                       *)
(***************************************************************************)
EXTENDS Naturals, Sequences, FiniteSets, SequencesExt

CONSTANTS Sources, Targets,
          Shapes,        \* protocol, port and entropy of a packet
          Lookback,      \* similar attacks that are looked at (10)
          CampaignWin,   \* correlation_window
          FloodWin, FloodSize,    \* time_window_seconds, and the attacks in it (5)
          MinEvents,     \* events that make a baseline (10)
          Crowd          \* sources that make a group (5)

VARIABLES clock,         \* moved by the caller
          events,        \* total_events of each source's baseline
          similar,       \* attack_signatures
          cases,         \* campaigns
          actors,        \* threat_actors: the kind of actor, and its campaigns
          iocs,          \* indicators_of_compromise
          verdict        \* what process_attack last returned

intelligence == <<events, similar, cases, actors, iocs, verdict>>

Verdicts == {"Ignore", "Log", "Alert", "Block", "Escalate"}
Signatures == Verdicts \X Shapes
Statistics == {"rate_anomaly", "entropy_anomaly", "bytes_anomaly"}

\* odd: how the packet's numbers differ from the averages of its source.
Attacks == [source : Sources, target : Targets, class : Verdicts, shape : Shapes,
            odd : SUBSET Statistics, severe : BOOLEAN]

Init == /\ events = [s \in Sources |-> 0]
        /\ similar = [g \in Signatures |-> <<>>]
        /\ cases = <<>> /\ actors = <<>> /\ iocs = {}
        /\ verdict = [campaign |-> 0, level |-> "INFO", flood |-> FALSE]

\* Slip: attacks of one class are similar.
SignatureOfClass(a) == <<a.class, CHOOSE s \in Shapes : TRUE>>

Signature(a) == <<a.class, a.shape>>

LatestSimilar(g) == SubSeq(similar[g], IF Len(similar[g]) < Lookback THEN 1
                                       ELSE Len(similar[g]) - Lookback + 1, Len(similar[g]))

\* correlate_attack: the campaign of the first recent similar attack, or the next.
CampaignOf(a, t) ==
    LET known == LatestSimilar(Signature(a))
        recent == {i \in DOMAIN known : t - known[i].time < CampaignWin}
    IN  IF recent = {} THEN Len(cases) + 1
        ELSE known[CHOOSE i \in recent : \A j \in recent : i <= j].campaign

NewCase == [sources |-> {}, targets |-> {}, attacks |-> <<>>, severe |-> FALSE,
            actor |-> "none"]

\* _create_campaign and _update_campaign.
Updated(c, a, t) ==
    LET opened == IF c > Len(cases) THEN Append(cases, NewCase) ELSE cases
        r == [source |-> a.source, target |-> a.target, signature |-> <<a.class, a.shape>>,
              time |-> t]
    IN  [opened EXCEPT ![c].sources = @ \cup {a.source}, ![c].targets = @ \cup {a.target},
                       ![c].attacks = Append(@, r), ![c].severe = @ \/ a.severe]

\* detect_distributed_attack: recent attacks in the campaigns that have met the
\* target, on it or on others, by many sources or by one.
Flooded(all, target, t) ==
    FoldLeft(LAMBDA n, c : n + Len(SelectSeq(c.attacks, LAMBDA r : t - r.time < FloodWin)),
             0, SelectSeq(all, LAMBDA c : target \in c.targets)) >= FloodSize

\* detect_ip_anomalies, after update_ip_baseline: the packet's port, protocol and
\* hour are no news any more.
Anomalies(a, seen) == IF seen < MinEvents THEN {} ELSE a.odd

\* _assess_threat_level; detect_zero_day wants three anomalies.
Level(anomalies, flood) ==
    LET score == (IF Cardinality(anomalies) >= 3 THEN 30 ELSE 0)
                 + 5 * Cardinality(anomalies) + (IF flood THEN 25 ELSE 0)
    IN  CASE score >= 70 -> "CRITICAL" [] score \in 50..69 -> "HIGH"
          [] score \in 30..49 -> "MEDIUM" [] score \in 10..29 -> "LOW" [] OTHER -> "INFO"

\* identify_threat_actor, for the campaigns a few sources make.
ActorType(case) == IF Cardinality(case.sources) > Crowd /\ case.severe
                   THEN "coordinated" ELSE "opportunistic"

\* _get_or_create_actor: a known actor gets the campaign once more.
Credited(type, c) ==
    LET known == {i \in DOMAIN actors : actors[i].type = type}
    IN  IF known = {} THEN Append(actors, [type |-> type, campaigns |-> <<c>>])
        ELSE [i \in DOMAIN actors |->
                 IF i \in known THEN [actors[i] EXCEPT !.campaigns = Append(@, c)] ELSE actors[i]]

ProcessAttack(a) ==
    LET c == CampaignOf(a, clock)
        updated == Updated(c, a, clock)
        actor == ActorType(updated[c])
        flood == Flooded(updated, a.target, clock)
        seen == IF events[a.source] < MinEvents THEN events[a.source] + 1 ELSE MinEvents
    IN  /\ events' = [events EXCEPT ![a.source] = seen]
        /\ similar' = [similar EXCEPT ![Signature(a)] =
                          Append(@, [campaign |-> c, time |-> clock])]
        /\ cases' = [updated EXCEPT ![c].actor = actor]
        /\ actors' = Credited(actor, c)
        /\ iocs' = iocs \cup {a.source, c}
        /\ verdict' = [campaign |-> c, flood |-> flood,
                       level |-> Level(Anomalies(a, seen), flood)]

------------------------------------------------------------------------------
(* Properties.                                                              *)

\* A campaign is a run of packets of one kind (decision, protocol, port and
\* entropy) that never pauses for the correlation window, and two campaigns of one
\* kind are at least that far apart: whatever sources and targets mix, none is
\* split, and none continued too late.
CampaignsAreRuns ==
    /\ \A c \in DOMAIN cases : \A i \in 2..Len(cases[c].attacks) :
         /\ cases[c].attacks[i].signature = cases[c].attacks[i - 1].signature
         /\ cases[c].attacks[i].time - cases[c].attacks[i - 1].time < CampaignWin
    /\ \A c, e \in DOMAIN cases :
         c < e /\ cases[c].attacks[1].signature = cases[e].attacks[1].signature
         => cases[e].attacks[1].time - cases[c].attacks[Len(cases[c].attacks)].time >= CampaignWin
==============================================================================
