------------------------------- MODULE Context -------------------------------
(***************************************************************************)
(* The RNN engine (rnn/rnn_engine.py).  Each source has a segment, which    *)
(* gathers its packets until it is full, hot or old, and a hierarchy of     *)
(* four levels, which a finished segment may climb.  Decoders get the last  *)
(* segment and the last state of the hierarchy with every packet.           *)
(*                                                                          *)
(* One engine serves all workers, without a lock: one in the synchronous    *)
(* pipeline, two by default in the asynchronous one.  A worker's call takes *)
(* the time once, at its start, and is cut between its accesses to what the *)
(* workers share; only a climb of the hierarchy is one step.                *)
(*                                                                          *)
(* Scores and averages are percentages.  The vectors of the levels are      *)
(* abstracted to whether they have left zero: a level fed with zeros only   *)
(* answers zero.                                                            *)
(***************************************************************************)
EXTENDS Integers, FiniteSets

CONSTANTS
    Sources, Workers,
    None,           \* no object, no time, no segment
    Scores,         \* the anomaly scores of packets, in percent
    Drifts,         \* the distances the deepest level may have from its baseline
    FlushN,         \* FLUSH_N, 100 in the code
    FlushT,         \* FLUSH_T, ten seconds in the code
    Ticks,          \* TICK_RATES of the levels 1 to 3: 10, 60 and 600 in the code
    Gain,           \* a trend moves the history by one Gain-th, one twentieth in the code
    MaxPackets,     \* bound: packets fed in a behaviour
    MaxTime         \* bound: the clock

ASSUME ContextAssumption ==
    /\ None \notin Sources \X Workers
    /\ Scores \subseteq 0..100 /\ Drifts \subseteq Nat
    /\ FlushN \in Nat \ {0} /\ FlushT \in Nat \ {0}
    /\ Ticks \in [1..3 -> Nat \ {0}] /\ Gain \in Nat \ {0}
    /\ MaxPackets \in Nat /\ MaxTime \in Nat

FlushAnomaly == 70
PromoteThresh == 50
SkipThresh == 20

Cells == Sources \X Workers     \* an object is named by its source and its maker
Engines == {"l1", "l2"}

VARIABLES
    now,            \* the clock
    known,          \* _l1 and _l2: the object of each source, if there is one
    segment,        \* the SegmentSSM objects
    levels,         \* the HierarchicalSSM objects
    seen,           \* _event_count
    lastSeg,        \* _last_seg: number, size and trend of the last segment
    lastGlobal,     \* _last_global: the tick of the hierarchy
    pc, hand,       \* where each worker is, and with what
    closed,         \* history: how many packets the finished segments hold
    taken           \* how many packets have been fed

vars == <<now, known, segment, levels, seen, lastSeg, lastGlobal, pc, hand, closed, taken>>
static == <<now, known, closed, taken>>

EmptySegment == [count |-> 0, score |-> 0, segs |-> 0, last |-> None, since |-> 0]
EmptyLevels == [tick |-> 0, moved |-> [k \in 0..3 |-> FALSE], history |-> 0, drift |-> 0]
NoSegment == [size |-> 0, trend |-> 0, index |-> None]
Packet(s, score, ts) ==
    [source |-> s, score |-> score, ts |-> ts, l1 |-> None, l2 |-> None, seg |-> NoSegment]

Init ==
    /\ now = 0 /\ taken = 0
    /\ known = [e \in Engines |-> [s \in Sources |-> None]]
    /\ segment = [c \in Cells |-> EmptySegment]
    /\ levels = [c \in Cells |-> EmptyLevels]
    /\ seen = [s \in Sources |-> 0]
    /\ closed = [s \in Sources |-> 0]
    /\ lastSeg = [s \in Sources |-> NoSegment]
    /\ lastGlobal = [s \in Sources |-> 0]
    /\ pc = [w \in Workers |-> "idle"]
    /\ hand = [w \in Workers |-> Packet(None, 0, 0)]

Goto(w, here, there) == pc[w] = here /\ pc' = [pc EXCEPT ![w] = there]
Source(w) == hand[w].source

-----------------------------------------------------------------------------
(* The objects of a source are looked up and, when missing, made.  Two      *)
(* workers may both find one missing; then the later one's stays in the      *)
(* dictionary, and the earlier keeps its own for the rest of its call.       *)
Take(w) == \E s \in Sources, score \in Scores :
    /\ taken < MaxPackets
    /\ Goto(w, "idle", "l1")
    /\ hand' = [hand EXCEPT ![w] = Packet(s, score, now)]
    /\ taken' = taken + 1
    /\ UNCHANGED <<now, known, segment, levels, seen, lastSeg, lastGlobal, closed>>

Making(e) == IF e = "l1" THEN "make l1" ELSE "make l2"
After(e) == IF e = "l1" THEN "l2" ELSE "count"

Find(w, e) ==
    /\ Goto(w, e, After(e))
    /\ known[e][Source(w)] # None
    /\ hand' = [hand EXCEPT ![w][e] = known[e][Source(w)]]
    /\ UNCHANGED <<static, segment, levels, seen, lastSeg, lastGlobal>>

Miss(w, e) ==
    /\ Goto(w, e, Making(e))
    /\ known[e][Source(w)] = None
    /\ UNCHANGED <<static, hand, segment, levels, seen, lastSeg, lastGlobal>>

Make(w, e) ==
    /\ Goto(w, Making(e), After(e))
    /\ known' = [known EXCEPT ![e][Source(w)] = <<Source(w), w>>]
    /\ hand' = [hand EXCEPT ![w][e] = <<Source(w), w>>]
    /\ UNCHANGED <<now, taken, closed, segment, levels, seen, lastSeg, lastGlobal>>

-----------------------------------------------------------------------------
(* The first level: SegmentSSM.update                                        *)

Count(w) ==
    /\ Goto(w, "count", "add")
    /\ seen' = [seen EXCEPT ![Source(w)] = @ + 1]
    /\ UNCHANGED <<static, hand, segment, levels, lastSeg, lastGlobal>>

\* The statements that add a packet to its segment.  since is history: the
\* time of the call that brought the segment's oldest packet.
Joined(g, score, ts) ==
    [count |-> g.count + 1, score |-> g.score + score, segs |-> g.segs, last |-> g.last,
     since |-> IF g.count = 0 THEN ts ELSE g.since]

Add(w) ==
    /\ Goto(w, "add", "rules")
    /\ segment' = [segment EXCEPT ![hand[w].l1] = Joined(@, hand[w].score, hand[w].ts)]
    /\ UNCHANGED <<static, hand, levels, seen, lastSeg, lastGlobal>>

Full(g) == g.count >= FlushN
Hot(g) == g.score > FlushAnomaly * g.count
\* Slip (see the README): a segment may reach the age limit.
OldAndMore(g, ts) == g.last # None /\ ts - g.last > FlushT
Old(g, ts) == g.last # None /\ ts - g.last >= FlushT

Rules(w) ==
    LET g == segment[hand[w].l1] IN
    /\ Goto(w, "rules", IF Full(g) \/ Hot(g) \/ Old(g, hand[w].ts) THEN "cut" ELSE "idle")
    /\ UNCHANGED <<static, hand, segment, levels, seen, lastSeg, lastGlobal>>

AtLeastOne(n) == IF n = 0 THEN 1 ELSE n

Finished(g, ts) ==
    [count |-> g.count, score |-> g.score, segs |-> g.segs + 1, last |-> ts, since |-> g.since]

\* _flush reads the sums ...
Cut(w) ==
    LET g == segment[hand[w].l1] IN
    /\ Goto(w, "cut", "reset")
    /\ hand' = [hand EXCEPT ![w].seg =
         [size |-> g.count, trend |-> g.score \div AtLeastOne(g.count), index |-> g.segs]]
    /\ segment' = [segment EXCEPT ![hand[w].l1] = Finished(@, hand[w].ts)]
    /\ closed' = [closed EXCEPT ![Source(w)] = @ + g.count]
    /\ UNCHANGED <<now, taken, known, levels, seen, lastSeg, lastGlobal>>

\* ... and then starts them again.
\* Slip (see the README): the count is not started again.
ScoreReset(g) ==
    [count |-> g.count, score |-> 0, segs |-> g.segs, last |-> g.last, since |-> 0]
Reset(g) == [count |-> 0, score |-> 0, segs |-> g.segs, last |-> g.last, since |-> 0]

StartAgain(w) ==
    /\ Goto(w, "reset", "keep")
    /\ segment' = [segment EXCEPT ![hand[w].l1] = Reset(@)]
    /\ UNCHANGED <<static, hand, levels, seen, lastSeg, lastGlobal>>

Keep(w) ==
    /\ Goto(w, "keep", "climb")
    /\ lastSeg' = [lastSeg EXCEPT ![Source(w)] = hand[w].seg]
    /\ UNCHANGED <<static, hand, segment, levels, seen, lastGlobal>>

-----------------------------------------------------------------------------
(* The hierarchy: HierarchicalSSM.update.  A level's step reads the level     *)
(* below, already updated in the same call.  The call is one step, so that    *)
(* two workers in one hierarchy are not told apart within it.                 *)

Due(k, tick) == tick % Ticks[k] = 0

\* Whether a level takes a step.  h is the state before the call, whose history
\* and drift decide.
Steps(k, h, trend, index) ==
    LET tick == h.tick + 1 IN
    CASE k = 0 -> trend > PromoteThresh /\ ~(trend < SkipThresh /\ index < 3)
      [] k = 1 -> /\ Due(1, tick) \/ h.history > 55 \/ h.drift > 3
                  /\ ~(h.history < SkipThresh /\ h.drift < 1)
      [] k = 2 -> /\ Due(2, tick) \/ h.drift > 8 \/ h.history > 70
                  /\ ~(h.history < 70 /\ h.drift < 8)
      [] k = 3 -> Due(3, tick) \/ h.drift > 12

Climbed(h, trend, index) ==
    LET moves(k, below) == h.moved[k] \/ (Steps(k, h, trend, index) /\ below)
        m0 == moves(0, TRUE)
        m1 == moves(1, m0)
        m2 == moves(2, m1)
    IN  [k \in 0..3 |-> CASE k = 0 -> m0 [] k = 1 -> m1 [] k = 2 -> m2
                          [] k = 3 -> moves(3, m2)]

\* The drift is the distance of the deepest level from its baseline, both zero
\* until that level moves.
\* Slip (see the README): the drift of the first level.
FastDrift(moved) == IF moved[0] THEN Drifts ELSE {0}
DriftsOf(moved) == IF moved[3] THEN Drifts ELSE {0}

Climb(w) ==
    LET h == levels[hand[w].l2]
        seg == hand[w].seg
        moved == Climbed(h, seg.trend, seg.index)
    IN
    /\ Goto(w, "climb", "publish")
    /\ \E drift \in DriftsOf(moved) :
         levels' = [levels EXCEPT ![hand[w].l2] =
           [tick |-> h.tick + 1, moved |-> moved, drift |-> drift,
            history |-> h.history + (seg.trend - h.history) \div Gain]]
    /\ UNCHANGED <<static, hand, segment, seen, lastSeg, lastGlobal>>

Publish(w) ==
    /\ Goto(w, "publish", "idle")
    /\ lastGlobal' = [lastGlobal EXCEPT ![Source(w)] = levels[hand[w].l2].tick]
    /\ UNCHANGED <<static, hand, segment, levels, seen, lastSeg>>

Tick ==
    /\ now < MaxTime
    /\ now' = now + 1
    /\ UNCHANGED <<known, segment, levels, seen, lastSeg, lastGlobal, pc, hand, closed, taken>>

Work(w) ==
    \/ Take(w) \/ Count(w) \/ Add(w) \/ Rules(w) \/ Cut(w) \/ StartAgain(w)
    \/ Keep(w) \/ Climb(w) \/ Publish(w)
    \/ \E e \in Engines : Find(w, e) \/ Miss(w, e) \/ Make(w, e)

Next == Tick \/ \E w \in Workers : Work(w)

Spec == Init /\ [][Next]_vars

-----------------------------------------------------------------------------
Quiet(s) == \A w \in Workers : pc[w] = "idle" \/ Source(w) # s
Open(s) == IF known["l1"][s] = None THEN EmptySegment ELSE segment[known["l1"][s]]

(* Every packet the engine has counted for a source is in one finished       *)
(* segment or in the open one.  With two workers it is not: one starts the    *)
(* sums again over what the other has just added.                             *)
EveryPacketInOneSegment ==
    \A s \in Sources : Quiet(s) => seen[s] = closed[s] + Open(s).count

(* Once a source has finished a segment, the packets of the next one arrive    *)
(* within less than the limit of each other as long as it stays open, though   *)
(* the age is measured from the last flush and with the time of the call,      *)
(* however late the call comes to look at it.  (step: the packet that was fed  *)
(* last leaves the engine.)                                                    *)
SegmentsStayYoung ==
    [][\A w \in Workers : pc[w] = "rules" /\ pc'[w] = "idle" =>
         LET g == segment[hand[w].l1] IN
         g.last # None => hand[w].ts - g.since < FlushT]_vars

(* The same of the first segment too, as its C++ twin has it                  *)
(* (ids_level1.hpp:43 starts the age with the first event).  The code does     *)
(* not: last is set by a flush only.                                          *)
FirstSegmentStaysYoung ==
    [][\A w \in Workers : pc[w] = "rules" /\ pc'[w] = "idle" =>
         hand[w].ts - segment[hand[w].l1].since < FlushT]_vars

(* The drift, which three levels name among the signals that make them step,  *)
(* is no signal before the deepest level's slow tick has come round once.     *)
DriftNeedsSlowTick ==
    \A c \in Cells : levels[c].drift > 0 => levels[c].tick >= Ticks[3]
=============================================================================
