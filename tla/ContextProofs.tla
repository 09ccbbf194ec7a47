--------------------------- MODULE ContextProofs ---------------------------
(* Proofs about the RNN engine. *)
EXTENDS Context, TLAPS

-----------------------------------------------------------------------------
(* The drift, with any number of workers.                                     *)

LEMMA MultiplesAreLarge ==
    ASSUME NEW n \in Nat \ {0}, NEW d \in Nat \ {0}, n % d = 0
    PROVE  n >= d
BY SMT

LevelsType ==
    /\ DOMAIN levels = Cells
    /\ \A c \in Cells : levels[c].tick \in Nat /\ levels[c].drift \in Nat

\* The deepest level moves at its tick or upon a drift, and there is no drift
\* before it has moved.
DeepestNeedsTick ==
    \A c \in Cells : levels[c].moved[3] \/ levels[c].drift > 0 => levels[c].tick >= Ticks[3]

DriftInv == LevelsType /\ DeepestNeedsTick

\* What a call does to one hierarchy.
LEMMA ClimbedTick ==
    ASSUME NEW h, h.tick \in Nat, h.drift \in Nat,
           h.moved[3] \/ h.drift > 0 => h.tick >= Ticks[3],
           NEW trend, NEW index, NEW drift \in DriftsOf(Climbed(h, trend, index))
    PROVE  /\ drift \in Nat
           /\ Climbed(h, trend, index)[3] \/ drift > 0 => h.tick + 1 >= Ticks[3]
<1> DEFINE moved == Climbed(h, trend, index)
<1>0. Ticks[3] \in Nat \ {0} /\ Drifts \subseteq Nat
  BY ContextAssumption DEF ContextAssumption
<1>1. drift \in Nat /\ (drift > 0 => moved[3])
  BY <1>0 DEF DriftsOf
<1>2. moved[3] => h.moved[3] \/ Steps(3, h, trend, index)
  <2> DEFINE St(k) == Steps(k, h, trend, index)
  <2>1. moved[3] = (h.moved[3] \/ (St(3) /\ (h.moved[2] \/ (St(2) /\
                     (h.moved[1] \/ (St(1) /\ (h.moved[0] \/ (St(0) /\ TRUE))))))))
    BY DEF Climbed
  <2> HIDE DEF moved
  <2> QED BY <2>1
<1>3. Steps(3, h, trend, index) => (h.tick + 1) % Ticks[3] = 0 \/ h.drift > 12
  BY DEF Steps, Due
<1>4. (h.tick + 1) % Ticks[3] = 0 => h.tick + 1 >= Ticks[3]
  <2>1. h.tick + 1 \in Nat \ {0}
    OBVIOUS
  <2> QED BY <2>1, <1>0, MultiplesAreLarge
<1>5. h.moved[3] \/ h.drift > 12 => h.tick + 1 >= Ticks[3]
  BY <1>0
<1> QED BY <1>1, <1>2, <1>3, <1>4, <1>5

LEMMA DriftInitial == Init => DriftInv
BY DEF Init, DriftInv, LevelsType, DeepestNeedsTick, EmptyLevels

LEMMA DriftInductive == DriftInv /\ [Next]_vars => DriftInv'
<1> SUFFICES ASSUME DriftInv, [Next]_vars PROVE DriftInv'
  OBVIOUS
<1>1. ASSUME UNCHANGED levels PROVE DriftInv'
  BY <1>1 DEF DriftInv, LevelsType, DeepestNeedsTick
<1>2. ASSUME NEW w \in Workers, Climb(w) PROVE DriftInv'
  <2> DEFINE x == hand[w].l2
             h == levels[x]
             moved == Climbed(h, hand[w].seg.trend, hand[w].seg.index)
  <2>1. PICK drift \in DriftsOf(moved) :
          levels' = [levels EXCEPT ![x] =
            [tick |-> h.tick + 1, moved |-> moved, drift |-> drift,
             history |-> h.history + (hand[w].seg.trend - h.history) \div Gain]]
    BY <1>2 DEF Climb
  <2>2. DOMAIN levels' = Cells
    BY <2>1 DEF DriftInv, LevelsType
  <2>3. ASSUME NEW c \in Cells, c # x PROVE levels'[c] = levels[c]
    BY <2>1, <2>3 DEF DriftInv, LevelsType
  <2>4. ASSUME x \in Cells
        PROVE  /\ levels'[x].tick = h.tick + 1 /\ levels'[x].drift = drift
               /\ levels'[x].moved = moved
    BY <2>1, <2>4 DEF DriftInv, LevelsType
  <2>5. ASSUME x \in Cells
        PROVE  /\ drift \in Nat
               /\ moved[3] \/ drift > 0 => h.tick + 1 >= Ticks[3]
    <3>1. /\ h.tick \in Nat /\ h.drift \in Nat
          /\ h.moved[3] \/ h.drift > 0 => h.tick >= Ticks[3]
      BY <2>5 DEF DriftInv, LevelsType, DeepestNeedsTick
    <3> QED BY <3>1, ClimbedTick
  <2>6. ASSUME NEW c \in Cells
        PROVE  /\ levels'[c].tick \in Nat /\ levels'[c].drift \in Nat
               /\ levels'[c].moved[3] \/ levels'[c].drift > 0 => levels'[c].tick >= Ticks[3]
    <3>1. CASE c # x
      BY <3>1, <2>3 DEF DriftInv, LevelsType, DeepestNeedsTick
    <3>2. CASE c = x
      <4>1. h.tick \in Nat
        BY <3>2 DEF DriftInv, LevelsType
      <4> QED BY <3>2, <4>1, <2>4, <2>5
    <3> QED BY <3>1, <3>2
  <2> QED BY <2>2, <2>6 DEF DriftInv, LevelsType, DeepestNeedsTick
<1>3. ASSUME NEW w \in Workers, Work(w), ~Climb(w) PROVE UNCHANGED levels
  BY <1>3 DEF Work, Take, Find, Miss, Make, Count, Add, Rules, Cut, StartAgain, Keep,
              Publish
<1>4. CASE Tick
  BY <1>4, <1>1 DEF Tick
<1>5. CASE UNCHANGED vars
  BY <1>5, <1>1 DEF vars
<1> QED BY <1>1, <1>2, <1>3, <1>4, <1>5 DEF Next

\* No drift is seen before the deepest level's first slow tick, however many
\* workers share the engine.
THEOREM DriftIsSlow == Spec => []DriftNeedsSlowTick
<1>1. DriftInv => DriftNeedsSlowTick
  BY DEF DriftInv, DeepestNeedsTick, DriftNeedsSlowTick
<1> QED BY <1>1, DriftInitial, DriftInductive, PTL DEF Spec

-----------------------------------------------------------------------------
(* Segments, with one worker: the synchronous pipeline.                       *)

Labels == {"idle", "l1", "make l1", "l2", "make l2", "count", "add", "rules", "cut",
           "reset", "keep", "climb", "publish"}

Segments == [count : Nat, score : Int, segs : Nat, last : Nat \cup {None}, since : Nat]
Hands == [source : Sources \cup {None}, score : Int, ts : Nat, l1 : Cells \cup {None},
          l2 : Cells \cup {None}, seg : [size : Nat, trend : Int, index : Nat \cup {None}]]

TypeInv ==
    /\ now \in Nat
    /\ known \in [Engines -> [Sources -> Cells \cup {None}]]
    /\ segment \in [Cells -> Segments]
    /\ seen \in [Sources -> Nat] /\ closed \in [Sources -> Nat]
    /\ pc \in [Workers -> Labels] /\ hand \in [Workers -> Hands]

\* The packet of the only worker, the object it has found for the packet's
\* source, and the objects in the dictionary.
HandInv(w) ==
    /\ pc[w] # "idle" => hand[w].source \in Sources
    /\ \A s \in Sources : known["l1"][s] \in {None, <<s, w>>}
    /\ pc[w] \notin {"idle", "l1", "make l1"} =>
         /\ hand[w].l1 = <<hand[w].source, w>>
         /\ known["l1"][hand[w].source] = <<hand[w].source, w>>

\* Where each packet of a source is.
At(w, s, label) == pc[w] = label /\ hand[w].source = s

PacketsCounted(w) ==
    \A s \in Sources :
        /\ known["l1"][s] = None => segment[<<s, w>>].count = 0
        /\ seen[s] = closed[s] + (IF At(w, s, "reset") THEN 0 ELSE segment[<<s, w>>].count)
                               + (IF At(w, s, "add") THEN 1 ELSE 0)

\* An open segment began after the flush before it, and no flush is younger
\* than the call that goes on or went last.
SegmentsFollow(w) ==
    /\ hand[w].ts <= now
    /\ \A s \in Sources :
         LET g == segment[<<s, w>>] IN
         /\ g.last # None => g.last <= hand[w].ts
         /\ At(w, s, "rules") => g.count > 0
         /\ g.count > 0 /\ g.last # None /\ ~At(w, s, "reset") => g.since >= g.last

SegmentInv(w) == TypeInv /\ HandInv(w) /\ PacketsCounted(w) /\ SegmentsFollow(w)

LEMMA SegmentInitial ==
    ASSUME NEW w, Workers = {w}, Init PROVE SegmentInv(w)
<1>1. NoSegment \in [size : Nat, trend : Int, index : Nat \cup {None}]
  BY DEF NoSegment
<1>2. Packet(None, 0, 0) \in Hands
  BY <1>1 DEF Packet, Hands
<1>3. EmptySegment \in Segments
  BY DEF EmptySegment, Segments
<1>4. TypeInv
  BY <1>2, <1>3 DEF Init, TypeInv, Labels
<1>5. HandInv(w)
  BY DEF Init, HandInv, Engines
<1>6. PacketsCounted(w)
  BY DEF Init, PacketsCounted, At, EmptySegment, Cells
<1>7. SegmentsFollow(w)
  <2>1. hand[w].ts = 0 /\ now = 0 /\ pc[w] = "idle"
    BY DEF Init, Packet
  <2>2. \A s \in Sources : segment[<<s, w>>].last = None
    BY DEF Init, EmptySegment, Cells
  <2> QED BY <2>1, <2>2 DEF SegmentsFollow, At
<1> QED BY <1>4, <1>5, <1>6, <1>7 DEF SegmentInv

\* The records a call makes have their types.
LEMMA RecordTypes ==
    ASSUME NEW g \in Segments, NEW score \in Int, NEW ts \in Nat
    PROVE  /\ Joined(g, score, ts) \in Segments
           /\ Finished(g, ts) \in Segments
BY DEF Segments, Joined, Finished

LEMMA HandTypes ==
    ASSUME NEW h \in Hands, NEW c \in Cells, NEW g \in Segments
    PROVE  /\ [h EXCEPT !["l1"] = c] \in Hands /\ [h EXCEPT !["l2"] = c] \in Hands
           /\ [h EXCEPT !.seg = [size |-> g.count, trend |-> g.score \div AtLeastOne(g.count),
                                 index |-> g.segs]] \in Hands
<1>1. [h EXCEPT !["l1"] = c] \in Hands /\ [h EXCEPT !["l2"] = c] \in Hands
  BY DEF Hands
<1> DEFINE seg == [size |-> g.count, trend |-> g.score \div AtLeastOne(g.count),
                   index |-> g.segs]
<1>2. AtLeastOne(g.count) \in Nat \ {0} /\ g.score \in Int
  BY DEF AtLeastOne, Segments
<1>3. g.score \div AtLeastOne(g.count) \in Int
  BY <1>2
<1>4. seg \in [size : Nat, trend : Int, index : Nat \cup {None}]
  BY <1>3 DEF Segments
<1> HIDE DEF seg
<1>5. [h EXCEPT !.seg = seg] \in Hands
  BY <1>4 DEF Hands
<1> QED BY <1>1, <1>5 DEF seg

\* Every step keeps the types.
LEMMA TypesInductive ==
    ASSUME NEW w, Workers = {w}, TypeInv, HandInv(w), [Next]_vars PROVE TypeInv'
<1> DEFINE s == hand[w].source
           x == hand[w].l1
<1>0. /\ w \in Workers /\ now \in Nat
      /\ known \in [Engines -> [Sources -> Cells \cup {None}]]
      /\ segment \in [Cells -> Segments]
      /\ seen \in [Sources -> Nat] /\ closed \in [Sources -> Nat]
      /\ pc \in [Workers -> Labels] /\ hand \in [Workers -> Hands]
  BY DEF TypeInv
<1>a. /\ pc[w] # "idle" => s \in Sources
      /\ pc[w] \notin {"idle", "l1", "make l1"} => x \in Cells
  BY <1>0 DEF HandInv, Cells
<1>b. \A e \in Engines : e = "l1" \/ e = "l2"
  BY DEF Engines
<1>c. \A here, there : there \in Labels /\ Goto(w, here, there) => pc' \in [Workers -> Labels]
  BY <1>0 DEF Goto
<1>1. ASSUME Take(w) PROVE TypeInv'
  <2>1. PICK z \in Sources, score \in Scores : hand' = [hand EXCEPT ![w] = Packet(z, score, now)]
    BY <1>1 DEF Take
  <2>2. score \in Int /\ NoSegment \in [size : Nat, trend : Int, index : Nat \cup {None}]
    BY ContextAssumption DEF ContextAssumption, NoSegment
  <2>3. Packet(z, score, now) \in Hands
    BY <1>0, <2>2 DEF Packet, Hands
  <2>4. hand' \in [Workers -> Hands]
    BY <1>0, <2>1, <2>3
  <2>5. pc' \in [Workers -> Labels]
    BY <1>1, <1>c DEF Take, Labels
  <2> QED BY <1>0, <1>1, <2>4, <2>5 DEF Take, TypeInv
<1>2. ASSUME NEW e \in Engines, Find(w, e) PROVE TypeInv'
  <2>1. s \in Sources /\ known[e][s] # None /\ pc' \in [Workers -> Labels]
    BY <1>2, <1>a, <1>b, <1>c DEF Find, Goto, Source, After, Labels
  <2>2. known[e][s] \in Cells
    BY <1>0, <2>1
  <2>3. hand' = [hand EXCEPT ![w] = [hand[w] EXCEPT ![e] = known[e][s]]]
    BY <1>2 DEF Find, Source
  <2>4. [hand[w] EXCEPT ![e] = known[e][s]] \in Hands
    BY <1>0, <1>b, <2>2, HandTypes DEF Hands
  <2>5. hand' \in [Workers -> Hands]
    BY <1>0, <2>3, <2>4
  <2> QED BY <1>0, <1>2, <2>1, <2>5 DEF Find, static, TypeInv
<1>3. ASSUME NEW e \in Engines, Miss(w, e) PROVE TypeInv'
  <2>1. pc' \in [Workers -> Labels]
    BY <1>3, <1>c DEF Miss, Making, Labels
  <2> QED BY <1>0, <1>3, <2>1 DEF Miss, static, TypeInv
<1>4. ASSUME NEW e \in Engines, Make(w, e) PROVE TypeInv'
  <2> DEFINE cell == <<s, w>>
  <2>1. s \in Sources /\ pc' \in [Workers -> Labels]
    BY <1>4, <1>a, <1>c DEF Make, Making, Goto, After, Labels
  <2>2. cell \in Cells
    BY <1>0, <2>1 DEF Cells
  <2>3. hand' = [hand EXCEPT ![w] = [hand[w] EXCEPT ![e] = cell]]
    BY <1>4 DEF Make, Source
  <2>4. [hand[w] EXCEPT ![e] = cell] \in Hands
    BY <1>0, <1>b, <2>2, HandTypes DEF Hands
  <2>5. hand' \in [Workers -> Hands]
    BY <1>0, <2>3, <2>4
  <2>6. known' = [known EXCEPT ![e] = [known[e] EXCEPT ![s] = cell]]
    BY <1>4 DEF Make, Source
  <2>7. known' \in [Engines -> [Sources -> Cells \cup {None}]]
    BY <1>0, <2>2, <2>6
  <2> QED BY <1>0, <1>4, <2>1, <2>5, <2>7 DEF Make, TypeInv
<1>5. ASSUME Count(w) PROVE TypeInv'
  <2>1. pc' \in [Workers -> Labels] /\ s \in Sources
    BY <1>5, <1>a, <1>c DEF Count, Goto, Labels
  <2>2. seen' = [seen EXCEPT ![s] = seen[s] + 1]
    BY <1>5 DEF Count, Source
  <2>3. seen' \in [Sources -> Nat]
    BY <1>0, <2>1, <2>2
  <2> QED BY <1>0, <1>5, <2>1, <2>3 DEF Count, static, TypeInv
<1>6. ASSUME Add(w) PROVE TypeInv'
  <2>1. pc' \in [Workers -> Labels] /\ x \in Cells
    BY <1>6, <1>a, <1>c DEF Add, Goto, Labels
  <2>2. segment[x] \in Segments /\ hand[w].score \in Int /\ hand[w].ts \in Nat
    BY <1>0, <2>1 DEF Hands
  <2>3. Joined(segment[x], hand[w].score, hand[w].ts) \in Segments
    BY <1>0, <2>2, RecordTypes
  <2>4. segment' = [segment EXCEPT ![x] = Joined(segment[x], hand[w].score, hand[w].ts)]
    BY <1>6 DEF Add
  <2>5. segment' \in [Cells -> Segments]
    BY <1>0, <2>3, <2>4
  <2> QED BY <1>0, <1>6, <2>1, <2>5 DEF Add, static, TypeInv
<1>7. ASSUME Rules(w) PROVE TypeInv'
  <2>1. pc' \in [Workers -> Labels]
    BY <1>7, <1>c DEF Rules, Labels
  <2> QED BY <1>0, <1>7, <2>1 DEF Rules, static, TypeInv
<1>8. ASSUME Cut(w) PROVE TypeInv'
  <2>1. pc' \in [Workers -> Labels] /\ x \in Cells /\ s \in Sources
    BY <1>8, <1>a, <1>c DEF Cut, Goto, Labels
  <2> DEFINE g == segment[x]
             seg == [size |-> g.count, trend |-> g.score \div AtLeastOne(g.count),
                     index |-> g.segs]
  <2>2. g \in Segments /\ hand[w] \in Hands
    BY <1>0, <2>1
  <2>a. Finished(g, hand[w].ts) \in Segments
    <3>1. hand[w].ts \in Nat
      BY <2>2 DEF Hands
    <3> QED BY <2>2, <3>1, RecordTypes DEF Finished, Segments
  <2>b. [hand[w] EXCEPT !.seg = seg] \in Hands
    BY <2>1, <2>2, HandTypes
  <2>3. Finished(g, hand[w].ts) \in Segments /\ [hand[w] EXCEPT !.seg = seg] \in Hands
    BY <2>a, <2>b
  <2>4. g.count \in Nat
    BY <2>2 DEF Segments
  <2>5. /\ segment' = [segment EXCEPT ![x] = Finished(g, hand[w].ts)]
        /\ hand' = [hand EXCEPT ![w] = [hand[w] EXCEPT !.seg = seg]]
        /\ closed' = [closed EXCEPT ![s] = closed[s] + g.count]
    BY <1>8 DEF Cut, Source
  <2> HIDE DEF seg, g
  <2>6. segment' \in [Cells -> Segments]
    BY <1>0, <2>3, <2>5
  <2>7. hand' \in [Workers -> Hands]
    BY <1>0, <2>3, <2>5
  <2>8. closed' \in [Sources -> Nat]
    BY <1>0, <2>1, <2>4, <2>5
  <2> QED BY <1>0, <1>8, <2>1, <2>6, <2>7, <2>8 DEF Cut, TypeInv
<1>9. ASSUME StartAgain(w) PROVE TypeInv'
  <2>1. pc' \in [Workers -> Labels] /\ x \in Cells
    BY <1>9, <1>a, <1>c DEF StartAgain, Goto, Labels
  <2>2. Reset(segment[x]) \in Segments
    BY <1>0, <2>1 DEF Reset, Segments
  <2>3. segment' = [segment EXCEPT ![x] = Reset(segment[x])]
    BY <1>9 DEF StartAgain
  <2>4. segment' \in [Cells -> Segments]
    BY <1>0, <2>2, <2>3
  <2> QED BY <1>0, <1>9, <2>1, <2>4 DEF StartAgain, static, TypeInv
<1>10. ASSUME Keep(w) \/ Climb(w) \/ Publish(w) PROVE TypeInv'
  <2>1. pc' \in [Workers -> Labels]
    BY <1>10, <1>c DEF Keep, Climb, Publish, Labels
  <2> QED BY <1>0, <1>10, <2>1 DEF Keep, Climb, Publish, static, TypeInv
<1>11. CASE Tick
  BY <1>0, <1>11 DEF Tick, TypeInv
<1>12. CASE UNCHANGED vars
  BY <1>0, <1>12 DEF vars, TypeInv
<1> QED BY <1>1, <1>2, <1>3, <1>4, <1>5, <1>6, <1>7, <1>8, <1>9, <1>10, <1>11, <1>12
           DEF Next, Work

-----------------------------------------------------------------------------
(* The steps of the only worker.  Its place and its packet, first.            *)

LEMMA WorkerMoves ==
    ASSUME NEW w, Workers = {w}, TypeInv, NEW here, NEW there, Goto(w, here, there)
    PROVE  pc[w] = here /\ pc'[w] = there
BY DEF Goto, TypeInv

LEMMA HandInductive ==
    ASSUME NEW w, Workers = {w}, TypeInv, HandInv(w), [Next]_vars PROVE HandInv(w)'
<1> DEFINE s == hand[w].source
           x == hand[w].l1
           Busy == pc[w] \notin {"idle", "l1", "make l1"}
<1>0. /\ w \in Workers
      /\ known \in [Engines -> [Sources -> Cells \cup {None}]]
      /\ pc \in [Workers -> Labels] /\ hand \in [Workers -> Hands]
  BY DEF TypeInv
<1>a. /\ pc[w] # "idle" => s \in Sources
      /\ \A z \in Sources : known["l1"][z] \in {None, <<z, w>>}
      /\ Busy => x = <<s, w>> /\ known["l1"][s] = <<s, w>>
  BY DEF HandInv
<1>b. "l1" \in Engines /\ \A e \in Engines : e = "l1" \/ e = "l2"
  BY DEF Engines
<1>1. ASSUME Take(w) PROVE HandInv(w)'
  <2>1. PICK z \in Sources, score \in Scores : hand' = [hand EXCEPT ![w] = Packet(z, score, now)]
    BY <1>1 DEF Take
  <2>2. hand'[w].source = z
    BY <1>0, <2>1 DEF Packet
  <2>3. pc'[w] = "l1" /\ known' = known
    BY <1>1, WorkerMoves DEF Take
  <2> QED BY <1>a, <2>2, <2>3 DEF HandInv
<1>2. ASSUME NEW e \in Engines, Find(w, e) PROVE HandInv(w)'
  <2>1. hand' = [hand EXCEPT ![w] = [hand[w] EXCEPT ![e] = known[e][s]]]
    BY <1>2 DEF Find, Source
  <2>2. hand'[w] = [hand[w] EXCEPT ![e] = known[e][s]] /\ hand[w] \in Hands
    BY <1>0, <2>1
  <2>3. hand'[w].source = s
    BY <1>b, <2>2 DEF Hands
  <2>4. pc[w] = e /\ pc'[w] = After(e) /\ known[e][s] # None /\ known' = known
    BY <1>2, WorkerMoves DEF Find, Source, static
  <2>5. CASE e = "l1"
    <3>1. hand'[w].l1 = known["l1"][s]
      BY <2>2, <2>5 DEF Hands
    <3>2. known["l1"][s] = <<s, w>>
      BY <1>a, <2>4, <2>5
    <3> QED BY <1>a, <2>3, <2>4, <2>5, <3>1, <3>2 DEF HandInv, After
  <2>6. CASE e = "l2"
    <3>1. hand'[w].l1 = x
      BY <2>2, <2>6 DEF Hands
    <3> QED BY <1>a, <2>3, <2>4, <2>6, <3>1 DEF HandInv, After
  <2> QED BY <1>b, <2>5, <2>6
<1>3. ASSUME NEW e \in Engines, Miss(w, e) PROVE HandInv(w)'
  <2>1. /\ pc[w] = e /\ pc'[w] = Making(e)
        /\ hand' = hand /\ known' = known
    BY <1>3, WorkerMoves DEF Miss, static
  <2> QED BY <1>a, <1>b, <2>1 DEF HandInv, Making
<1>4. ASSUME NEW e \in Engines, Make(w, e) PROVE HandInv(w)'
  <2> DEFINE cell == <<s, w>>
  <2>1. pc[w] = Making(e) /\ pc'[w] = After(e)
    BY <1>4, WorkerMoves DEF Make
  <2>2. /\ hand' = [hand EXCEPT ![w] = [hand[w] EXCEPT ![e] = cell]]
        /\ known' = [known EXCEPT ![e] = [known[e] EXCEPT ![s] = cell]]
    BY <1>4 DEF Make, Source
  <2>3. s \in Sources
    BY <1>a, <1>b, <2>1 DEF Making
  <2>4. hand'[w] = [hand[w] EXCEPT ![e] = cell] /\ hand[w] \in Hands
    BY <1>0, <2>2
  <2>5. hand'[w].source = s
    BY <1>b, <2>4 DEF Hands
  <2> HIDE DEF cell
  <2>6. CASE e = "l1"
    <3>1. hand'[w].l1 = cell
      BY <2>4, <2>6 DEF Hands
    <3>2. /\ known'["l1"][s] = cell
          /\ \A z \in Sources : z # s => known'["l1"][z] = known["l1"][z]
      BY <1>0, <1>b, <2>2, <2>3, <2>6
    <3> QED BY <1>a, <2>1, <2>3, <2>5, <2>6, <3>1, <3>2 DEF HandInv, After, cell
  <2>7. CASE e = "l2"
    <3>1. hand'[w].l1 = x
      BY <2>4, <2>7 DEF Hands
    <3>2. known'["l1"] = known["l1"]
      BY <1>0, <1>b, <2>2, <2>7
    <3>3. Busy
      BY <2>1, <2>7 DEF Making
    <3> QED BY <1>a, <2>3, <2>5, <3>1, <3>2, <3>3 DEF HandInv
  <2> QED BY <1>b, <2>6, <2>7
<1>5. ASSUME Cut(w) PROVE HandInv(w)'
  <2>1. PICK seg : hand' = [hand EXCEPT ![w] = [hand[w] EXCEPT !.seg = seg]]
    BY <1>5 DEF Cut
  <2>2. hand'[w] = [hand[w] EXCEPT !.seg = seg] /\ hand[w] \in Hands
    BY <1>0, <2>1
  <2>3. hand'[w].source = s /\ hand'[w].l1 = x
    BY <2>2 DEF Hands
  <2>4. pc[w] = "cut" /\ known' = known
    BY <1>5, WorkerMoves DEF Cut
  <2> QED BY <1>a, <2>3, <2>4 DEF HandInv
<1>6. ASSUME Count(w) \/ Add(w) \/ Rules(w) \/ StartAgain(w) \/ Keep(w) \/ Climb(w) \/ Publish(w)
      PROVE  HandInv(w)'
  <2>1. /\ pc[w] \in {"count", "add", "rules", "reset", "keep", "climb", "publish"}
        /\ hand' = hand /\ known' = known
    BY <1>6 DEF Count, Add, Rules, StartAgain, Keep, Climb, Publish, Goto, static
  <2> QED BY <1>a, <2>1 DEF HandInv
<1>7. CASE Tick
  BY <1>a, <1>7 DEF Tick, HandInv
<1>8. CASE UNCHANGED vars
  BY <1>a, <1>8 DEF vars, HandInv
<1> QED BY <1>1, <1>2, <1>3, <1>4, <1>5, <1>6, <1>7, <1>8 DEF Next, Work

-----------------------------------------------------------------------------
(* The sums.  Most steps leave them alone.                                    *)

Calm(w) ==
    /\ UNCHANGED <<now, segment, seen, closed>>
    /\ hand'[w].ts \in {hand[w].ts, now}
    /\ pc[w] \notin {"add", "reset"} /\ pc'[w] \notin {"add", "reset", "rules"}
    /\ \A z \in Sources : known'["l1"][z] = None => known["l1"][z] = None

LEMMA CalmSteps ==
    ASSUME NEW w, Workers = {w}, TypeInv, HandInv(w),
           \/ Take(w) \/ Rules(w) \/ Keep(w) \/ Climb(w) \/ Publish(w)
           \/ \E e \in Engines : Find(w, e) \/ Miss(w, e) \/ Make(w, e)
    PROVE  Calm(w)
<1>h. hand \in [Workers -> Hands] /\ w \in Workers /\ hand[w] \in Hands
  BY DEF TypeInv
<1>1. CASE Take(w)
  <2>1. PICK z \in Sources, score \in Scores : hand' = [hand EXCEPT ![w] = Packet(z, score, now)]
    BY <1>1 DEF Take
  <2>2. hand'[w].ts = now
    BY <1>h, <2>1 DEF Packet
  <2> QED BY <1>1, <2>2, WorkerMoves DEF Take, Calm
<1>2. CASE Rules(w)
  <2>1. pc[w] = "rules" /\ pc'[w] \in {"cut", "idle"}
    BY <1>2, WorkerMoves DEF Rules
  <2> QED BY <1>2, <2>1 DEF Rules, Calm, static
<1>3. CASE Keep(w)
  BY <1>3, WorkerMoves DEF Keep, Calm, static
<1>4. CASE Climb(w)
  BY <1>4, WorkerMoves DEF Climb, Calm, static
<1>5. CASE Publish(w)
  BY <1>5, WorkerMoves DEF Publish, Calm, static
<1>b. \A e \in Engines : e = "l1" \/ e = "l2"
  BY DEF Engines
<1>6. ASSUME NEW e \in Engines, Find(w, e) PROVE Calm(w)
  <2>1. pc[w] = e /\ pc'[w] = After(e)
    BY <1>6, WorkerMoves DEF Find
  <2>2. PICK cell : hand' = [hand EXCEPT ![w] = [hand[w] EXCEPT ![e] = cell]]
    BY <1>6 DEF Find
  <2>3. hand'[w].ts = hand[w].ts
    BY <1>b, <1>h, <2>2 DEF Hands
  <2> QED BY <1>b, <1>6, <2>1, <2>3 DEF Find, After, Calm, static
<1>7. ASSUME NEW e \in Engines, Miss(w, e) PROVE Calm(w)
  <2>1. pc[w] = e /\ pc'[w] = Making(e)
    BY <1>7, WorkerMoves DEF Miss
  <2> QED BY <1>b, <1>7, <2>1 DEF Miss, Making, Calm, static
<1>8. ASSUME NEW e \in Engines, Make(w, e) PROVE Calm(w)
  <2> DEFINE s == hand[w].source
             cell == <<s, w>>
  <2>1. pc[w] = Making(e) /\ pc'[w] = After(e)
    BY <1>8, WorkerMoves DEF Make
  <2>2. pc[w] \notin {"add", "reset"} /\ pc'[w] \notin {"add", "reset", "rules"}
    BY <1>b, <2>1 DEF Making, After
  <2>3. known' = [known EXCEPT ![e] = [known[e] EXCEPT ![s] = cell]]
    BY <1>8 DEF Make, Source
  <2>4. s \in Sources
    BY <1>b, <2>1 DEF Making, HandInv
  <2>5. cell # None
    BY <2>4, ContextAssumption DEF ContextAssumption
  <2>6. known \in [Engines -> [Sources -> Cells \cup {None}]] /\ "l1" \in Engines
    BY DEF TypeInv, Engines
  <2>a. hand' = [hand EXCEPT ![w] = [hand[w] EXCEPT ![e] = cell]]
    BY <1>8 DEF Make, Source
  <2> HIDE DEF cell
  <2>7. \A z \in Sources : known'["l1"][z] \in {known["l1"][z], cell}
    BY <2>3, <2>6
  <2>8. hand'[w].ts = hand[w].ts
    BY <1>b, <1>h, <2>a DEF Hands
  <2> QED BY <1>8, <2>2, <2>5, <2>7, <2>8 DEF Make, Calm
<1> QED BY <1>1, <1>2, <1>3, <1>4, <1>5, <1>6, <1>7, <1>8

\* What the four steps that touch the sums do, source by source.
LEMMA Touched ==
    ASSUME NEW w, Workers = {w}, TypeInv, HandInv(w), pc[w] \notin {"idle", "l1", "make l1"},
           NEW g, segment' = [segment EXCEPT ![hand[w].l1] = g]
    PROVE  /\ hand[w].source \in Sources
           /\ known["l1"][hand[w].source] # None
           /\ segment'[<<hand[w].source, w>>] = g
           /\ \A z \in Sources : z # hand[w].source => segment'[<<z, w>>] = segment[<<z, w>>]
<1> DEFINE s == hand[w].source
<1>1. s \in Sources /\ hand[w].l1 = <<s, w>> /\ known["l1"][s] = <<s, w>>
  BY DEF HandInv
<1>2. segment \in [Cells -> Segments] /\ \A z \in Sources : <<z, w>> \in Cells
  BY DEF TypeInv, Cells
<1>3. <<s, w>> # None
  <2>1. None \notin Sources \X Workers
    BY ContextAssumption DEF ContextAssumption
  <2>2. <<s, w>> \in Sources \X Workers
    BY <1>1
  <2> QED BY <2>1, <2>2
<1>4. \A z \in Sources : z # s => <<z, w>> # <<s, w>>
  OBVIOUS
<1> QED BY <1>1, <1>2, <1>3, <1>4

LEMMA SumsInductive ==
    ASSUME NEW w, Workers = {w}, SegmentInv(w), [Next]_vars
    PROVE  PacketsCounted(w)' /\ SegmentsFollow(w)'
<1> DEFINE s == hand[w].source
           seg(z) == segment[<<z, w>>]
<1>0. TypeInv /\ HandInv(w)
  BY DEF SegmentInv
<1>a. \A z \in Sources : segment[<<z, w>>] \in Segments /\ seen[z] \in Nat /\ closed[z] \in Nat
  BY <1>0 DEF TypeInv, Cells
<1>b. now \in Nat /\ w \in Workers /\ hand[w].ts \in Nat /\ hand[w].ts <= now
  <2>1. now \in Nat /\ w \in Workers /\ hand[w] \in Hands
    BY <1>0 DEF TypeInv
  <2>2. hand[w].ts <= now
    BY DEF SegmentInv, SegmentsFollow
  <2> QED BY <2>1, <2>2 DEF Hands
<1>c. ASSUME NEW z \in Sources
      PROVE  /\ known["l1"][z] = None => segment[<<z, w>>].count = 0
             /\ seen[z] = closed[z] + (IF pc[w] = "reset" /\ s = z THEN 0 ELSE segment[<<z, w>>].count)
                                    + (IF pc[w] = "add" /\ s = z THEN 1 ELSE 0)
             /\ segment[<<z, w>>].last # None => segment[<<z, w>>].last <= hand[w].ts
             /\ pc[w] = "rules" /\ s = z => segment[<<z, w>>].count > 0
             /\ segment[<<z, w>>].count > 0 /\ segment[<<z, w>>].last # None
                  /\ ~(pc[w] = "reset" /\ s = z)
                => segment[<<z, w>>].since >= segment[<<z, w>>].last
  BY <1>0 DEF SegmentInv, PacketsCounted, SegmentsFollow, At
<1>d. \A z \in Sources : /\ segment[<<z, w>>].count \in Nat /\ segment[<<z, w>>].since \in Nat
                         /\ segment[<<z, w>>].last \in Nat \cup {None}
  BY <1>a DEF Segments
<1>1. CASE Calm(w)
  <2>1. PacketsCounted(w)'
    BY <1>1, <1>c DEF Calm, PacketsCounted, At
  <2>2. SegmentsFollow(w)'
    <3>1. hand'[w].ts <= now' /\ hand'[w].ts >= hand[w].ts
      BY <1>1, <1>b DEF Calm
    <3>t. hand'[w].ts \in Nat
      BY <1>1, <1>b DEF Calm
    <3>2. ASSUME NEW z \in Sources, segment[<<z, w>>].last # None
          PROVE  segment[<<z, w>>].last <= hand'[w].ts
      BY <1>b, <1>c, <1>d, <3>1, <3>t, <3>2
    <3>3. UNCHANGED segment /\ pc'[w] \notin {"reset", "rules"} /\ pc[w] # "reset"
      BY <1>1 DEF Calm
    <3> QED BY <1>c, <3>1, <3>2, <3>3 DEF SegmentsFollow, At
  <2> QED BY <2>1, <2>2
<1>2. CASE Count(w)
  <2>a. /\ pc[w] = "count" /\ pc'[w] = "add"
        /\ UNCHANGED <<now, known, hand, segment, closed>>
    BY <1>2, <1>0, WorkerMoves DEF Count, static
  <2>b. s \in Sources
    BY <1>0, <2>a DEF HandInv
  <2>1. /\ pc[w] = "count" /\ pc'[w] = "add" /\ s \in Sources
        /\ UNCHANGED <<now, known, hand, segment, closed>>
    BY <2>a, <2>b
  <2>2. /\ seen'[s] = seen[s] + 1
        /\ \A z \in Sources : z # s => seen'[z] = seen[z]
    BY <1>2, <1>0, <2>1 DEF Count, Source, TypeInv
  <2>3. ASSUME NEW z \in Sources
        PROVE  seen'[z] = closed[z] + segment[<<z, w>>].count + (IF s = z THEN 1 ELSE 0)
    <3>1. seen[z] = closed[z] + segment[<<z, w>>].count
      BY <1>a, <1>c, <1>d, <2>1
    <3> QED BY <1>a, <1>d, <2>2, <3>1
  <2>4. PacketsCounted(w)'
    BY <1>a, <1>c, <1>d, <2>1, <2>3 DEF PacketsCounted, At
  <2>5. SegmentsFollow(w)'
    BY <1>b, <1>c, <2>1 DEF SegmentsFollow, At
  <2> QED BY <2>4, <2>5
<1>3. CASE Add(w)
  <2> DEFINE g == Joined(segment[<<s, w>>], hand[w].score, hand[w].ts)
  <2>1. /\ pc[w] = "add" /\ pc'[w] = "rules"
        /\ UNCHANGED <<now, known, hand, seen, closed>>
    BY <1>3, <1>0, WorkerMoves DEF Add, static
  <2>2. hand[w].l1 = <<s, w>>
    BY <1>0, <2>1 DEF HandInv
  <2>3. segment' = [segment EXCEPT ![hand[w].l1] = g]
    BY <1>3, <2>2 DEF Add
  <2> HIDE DEF g
  <2>4. /\ s \in Sources /\ known["l1"][s] # None /\ segment'[<<s, w>>] = g
        /\ \A z \in Sources : z # s => segment'[<<z, w>>] = segment[<<z, w>>]
    BY <1>0, <2>1, <2>3, Touched
  <2>5. /\ g.count = segment[<<s, w>>].count + 1 /\ g.last = segment[<<s, w>>].last
        /\ g.since = IF segment[<<s, w>>].count = 0 THEN hand[w].ts ELSE segment[<<s, w>>].since
    BY DEF g, Joined
  <2>6. PacketsCounted(w)'
    <3>1. ASSUME NEW z \in Sources, z # s
          PROVE  /\ known'["l1"][z] = None => segment'[<<z, w>>].count = 0
                 /\ seen'[z] = closed'[z] + segment'[<<z, w>>].count
      BY <1>a, <1>c, <1>d, <2>1, <2>4, <3>1
    <3>2. seen'[s] = closed'[s] + segment'[<<s, w>>].count
      BY <1>a, <1>c, <1>d, <2>1, <2>4, <2>5
    <3>3. known'["l1"][s] # None
      BY <2>1, <2>4
    <3>4. \A z \in Sources : /\ known'["l1"][z] = None => segment'[<<z, w>>].count = 0
                            /\ seen'[z] = closed'[z] + segment'[<<z, w>>].count
      BY <3>1, <3>2, <3>3
    <3>5. \A z \in Sources : segment'[<<z, w>>].count \in Nat /\ closed'[z] \in Nat
      BY <1>a, <1>d, <2>1, <2>4, <2>5
    <3> QED BY <2>1, <3>4, <3>5 DEF PacketsCounted, At
  <2>7. SegmentsFollow(w)'
    <3>1. ASSUME NEW z \in Sources, z # s
          PROVE  /\ segment'[<<z, w>>].last # None => segment'[<<z, w>>].last <= hand[w].ts
                 /\ segment'[<<z, w>>].count > 0 /\ segment'[<<z, w>>].last # None
                      => segment'[<<z, w>>].since >= segment'[<<z, w>>].last
      BY <1>c, <2>1, <2>4, <3>1
    <3>2. /\ g.last # None => g.last <= hand[w].ts
          /\ g.count > 0
          /\ g.last # None => g.since >= g.last
      BY <1>b, <1>c, <1>d, <2>1, <2>4, <2>5
    <3> QED BY <1>b, <2>1, <2>4, <3>1, <3>2 DEF SegmentsFollow, At
  <2> QED BY <2>6, <2>7
<1>4. CASE Cut(w)
  <2> DEFINE g == Finished(segment[<<s, w>>], hand[w].ts)
  <2>1. /\ pc[w] = "cut" /\ pc'[w] = "reset"
        /\ UNCHANGED <<now, known, seen>>
    BY <1>4, <1>0, WorkerMoves DEF Cut
  <2>2. hand[w].l1 = <<s, w>>
    BY <1>0, <2>1 DEF HandInv
  <2>3. /\ segment' = [segment EXCEPT ![hand[w].l1] = g]
        /\ closed' = [closed EXCEPT ![s] = closed[s] + segment[<<s, w>>].count]
    BY <1>4, <2>2 DEF Cut, Source
  <2>a. hand'[w].source = s /\ hand'[w].ts = hand[w].ts
    <3>1. PICK h : hand' = [hand EXCEPT ![w] = [hand[w] EXCEPT !.seg = h]]
      BY <1>4 DEF Cut
    <3>2. hand'[w] = [hand[w] EXCEPT !.seg = h] /\ hand[w] \in Hands
      BY <1>0, <1>b, <3>1 DEF TypeInv
    <3> QED BY <3>2 DEF Hands
  <2> HIDE DEF g
  <2>4. /\ s \in Sources /\ known["l1"][s] # None /\ segment'[<<s, w>>] = g
        /\ \A z \in Sources : z # s => segment'[<<z, w>>] = segment[<<z, w>>]
    BY <1>0, <2>1, <2>3, Touched
  <2>5. g.count = segment[<<s, w>>].count /\ g.last = hand[w].ts /\ g.since = segment[<<s, w>>].since
    BY DEF g, Finished
  <2>b. /\ closed'[s] = closed[s] + segment[<<s, w>>].count
        /\ \A z \in Sources : z # s => closed'[z] = closed[z]
    BY <1>0, <2>3, <2>4 DEF TypeInv
  <2>6. PacketsCounted(w)'
    <3>1. ASSUME NEW z \in Sources, z # s
          PROVE  /\ known'["l1"][z] = None => segment'[<<z, w>>].count = 0
                 /\ seen'[z] = closed'[z] + segment'[<<z, w>>].count + 0
      BY <1>a, <1>c, <1>d, <2>1, <2>4, <2>b, <3>1
    <3>2. seen'[s] = closed'[s] + 0 + 0 /\ known'["l1"][s] # None
      BY <1>a, <1>c, <1>d, <2>1, <2>4, <2>b
    <3> QED BY <2>1, <2>a, <3>1, <3>2 DEF PacketsCounted, At
  <2>7. SegmentsFollow(w)'
    <3>1. ASSUME NEW z \in Sources, z # s
          PROVE  /\ segment'[<<z, w>>].last # None => segment'[<<z, w>>].last <= hand[w].ts
                 /\ segment'[<<z, w>>].count > 0 /\ segment'[<<z, w>>].last # None
                      => segment'[<<z, w>>].since >= segment'[<<z, w>>].last
      BY <1>c, <2>1, <2>4, <3>1
    <3>2. segment'[<<s, w>>].last <= hand[w].ts
      BY <1>b, <2>4, <2>5
    <3> QED BY <1>b, <2>1, <2>a, <3>1, <3>2 DEF SegmentsFollow, At
  <2> QED BY <2>6, <2>7
<1>5. CASE StartAgain(w)
  <2> DEFINE g == Reset(segment[<<s, w>>])
  <2>1. /\ pc[w] = "reset" /\ pc'[w] = "keep"
        /\ UNCHANGED <<now, known, hand, seen, closed>>
    BY <1>5, <1>0, WorkerMoves DEF StartAgain, static
  <2>2. hand[w].l1 = <<s, w>>
    BY <1>0, <2>1 DEF HandInv
  <2>3. segment' = [segment EXCEPT ![hand[w].l1] = g]
    BY <1>5, <2>2 DEF StartAgain
  <2> HIDE DEF g
  <2>4. /\ s \in Sources /\ known["l1"][s] # None /\ segment'[<<s, w>>] = g
        /\ \A z \in Sources : z # s => segment'[<<z, w>>] = segment[<<z, w>>]
    BY <1>0, <2>1, <2>3, Touched
  <2>5. g.count = 0 /\ g.last = segment[<<s, w>>].last
    BY DEF g, Reset
  <2>6. PacketsCounted(w)'
    <3>1. ASSUME NEW z \in Sources, z # s
          PROVE  /\ known'["l1"][z] = None => segment'[<<z, w>>].count = 0
                 /\ seen'[z] = closed'[z] + segment'[<<z, w>>].count + 0
      BY <1>a, <1>c, <1>d, <2>1, <2>4, <3>1
    <3>2. seen'[s] = closed'[s] + segment'[<<s, w>>].count + 0 /\ known'["l1"][s] # None
      BY <1>a, <1>c, <1>d, <2>1, <2>4, <2>5
    <3> QED BY <2>1, <3>1, <3>2 DEF PacketsCounted, At
  <2>7. SegmentsFollow(w)'
    <3>1. ASSUME NEW z \in Sources, z # s
          PROVE  /\ segment'[<<z, w>>].last # None => segment'[<<z, w>>].last <= hand[w].ts
                 /\ segment'[<<z, w>>].count > 0 /\ segment'[<<z, w>>].last # None
                      => segment'[<<z, w>>].since >= segment'[<<z, w>>].last
      BY <1>c, <2>1, <2>4, <3>1
    <3>2. g.last # None => g.last <= hand[w].ts
      BY <1>c, <2>4, <2>5
    <3> QED BY <1>b, <2>1, <2>4, <2>5, <3>1, <3>2 DEF SegmentsFollow, At
  <2> QED BY <2>6, <2>7
<1>6. CASE Tick
  <2>1. now' = now + 1 /\ UNCHANGED <<known, segment, seen, closed, pc, hand>>
    BY <1>6 DEF Tick
  <2>2. PacketsCounted(w)'
    BY <1>c, <2>1 DEF PacketsCounted, At
  <2>3. hand[w].ts <= now + 1
    BY <1>b
  <2>4. SegmentsFollow(w)'
    BY <1>c, <2>1, <2>3 DEF SegmentsFollow, At
  <2> QED BY <2>2, <2>4
<1>7. CASE UNCHANGED vars
  BY <1>b, <1>c, <1>7 DEF vars, PacketsCounted, SegmentsFollow, At
<1>8. Next => Calm(w) \/ Count(w) \/ Add(w) \/ Cut(w) \/ StartAgain(w) \/ Tick
  BY <1>0, CalmSteps DEF Next, Work
<1> QED BY <1>1, <1>2, <1>3, <1>4, <1>5, <1>6, <1>7, <1>8

LEMMA SegmentInductive ==
    ASSUME NEW w, Workers = {w}, SegmentInv(w), [Next]_vars PROVE SegmentInv(w)'
BY TypesInductive, HandInductive, SumsInductive DEF SegmentInv

\* With one worker, whatever the sources, the scores and the limits, every
\* packet that was counted is in one finished segment or in the open one.
THEOREM PacketsAreKept ==
    ASSUME NEW w, Workers = {w} PROVE Spec => []EveryPacketInOneSegment
<1>1. ASSUME SegmentInv(w) PROVE EveryPacketInOneSegment
  <2>1. ASSUME NEW s \in Sources, Quiet(s) PROVE seen[s] = closed[s] + Open(s).count
    <3>1. ~At(w, s, "reset") /\ ~At(w, s, "add")
      BY <2>1 DEF Quiet, At, Source
    <3>2. seen[s] = closed[s] + segment[<<s, w>>].count + 0
      BY <1>1, <3>1 DEF SegmentInv, PacketsCounted
    <3>3. /\ seen[s] \in Nat /\ closed[s] \in Nat /\ segment[<<s, w>>] \in Segments
          /\ known["l1"][s] \in {None, <<s, w>>}
      BY <1>1 DEF SegmentInv, TypeInv, HandInv, Cells
    <3>4. segment[<<s, w>>].count \in Nat
      BY <3>3 DEF Segments
    <3>5. Open(s).count = segment[<<s, w>>].count
      <4>1. CASE known["l1"][s] = None
        <5>1. segment[<<s, w>>].count = 0
          BY <1>1, <4>1 DEF SegmentInv, PacketsCounted
        <5> QED BY <4>1, <5>1 DEF Open, EmptySegment
      <4>2. CASE known["l1"][s] # None
        BY <4>2, <3>3 DEF Open
      <4> QED BY <4>1, <4>2
    <3> QED BY <3>2, <3>3, <3>4, <3>5
  <2> QED BY <2>1 DEF EveryPacketInOneSegment
<1>2. SegmentInv(w) => EveryPacketInOneSegment
  BY <1>1
<1>3. Init => SegmentInv(w)
  BY SegmentInitial
<1>4. SegmentInv(w) /\ [Next]_vars => SegmentInv(w)'
  BY SegmentInductive
<1> QED BY <1>2, <1>3, <1>4, PTL DEF Spec

YoungLeaver ==
    \A w \in Workers : pc[w] = "rules" /\ pc'[w] = "idle" =>
         LET g == segment[hand[w].l1] IN g.last # None => hand[w].ts - g.since < FlushT

\* With one worker, whatever the limits and however long a call takes, the
\* packets of a segment that stays open arrived within less than the limit, but
\* for a source's first segment.
THEOREM SegmentsDoNotAge ==
    ASSUME NEW w, Workers = {w} PROVE Spec => SegmentsStayYoung
<1>1. ASSUME SegmentInv(w), [Next]_vars PROVE YoungLeaver
  <2>0. TypeInv /\ HandInv(w) /\ SegmentsFollow(w) /\ w \in Workers
    BY <1>1 DEF SegmentInv
  <2>1. ASSUME pc[w] = "rules", pc'[w] = "idle"
        PROVE  LET g == segment[hand[w].l1] IN g.last # None => hand[w].ts - g.since < FlushT
    <3> DEFINE s == hand[w].source
               g == segment[<<s, w>>]
    <3>1. s \in Sources /\ hand[w].l1 = <<s, w>>
      BY <2>0, <2>1 DEF HandInv
    <3>2. /\ g.count > 0 
          /\ g.count > 0 /\ g.last # None => g.since >= g.last
      BY <2>0, <2>1, <3>1 DEF SegmentsFollow, At
    <3>3. g \in Segments /\ hand[w].ts \in Nat /\ FlushT \in Nat
      <4>1. hand[w] \in Hands
        BY <2>0 DEF TypeInv
      <4> QED BY <2>0, <3>1, <4>1, ContextAssumption DEF TypeInv, Cells, Hands, ContextAssumption
    <3>4. g.last \in Nat \cup {None} /\ g.since \in Nat
      BY <3>3 DEF Segments
    <3>5. ~Old(g, hand[w].ts)
      <4>1. Rules(w)
        <5>1. /\ ~Tick /\ ~UNCHANGED vars
          BY <2>1 DEF Tick, vars
        <5>2. Work(w)
          BY <1>1, <5>1 DEF Next
        <5>3. \A e \in Engines : e = "l1" \/ e = "l2"
          BY DEF Engines
        <5>4. ASSUME NEW e \in Engines PROVE ~Find(w, e) /\ ~Miss(w, e) /\ ~Make(w, e)
          BY <2>1, <5>3 DEF Find, Miss, Make, Making, Goto
        <5>5. /\ ~Take(w) /\ ~Count(w) /\ ~Add(w) /\ ~Cut(w) /\ ~StartAgain(w)
              /\ ~Keep(w) /\ ~Climb(w) /\ ~Publish(w)
          BY <2>1 DEF Take, Count, Add, Cut, StartAgain, Keep, Climb, Publish, Goto
        <5> QED BY <5>2, <5>4, <5>5 DEF Work
      <4>2. pc'[w] = IF Full(g) \/ Hot(g) \/ Old(g, hand[w].ts) THEN "cut" ELSE "idle"
        BY <2>0, <4>1, <3>1, WorkerMoves DEF Rules
      <4> QED BY <2>1, <4>2
    <3>6. g.last # None => hand[w].ts - g.last < FlushT
      BY <3>3, <3>4, <3>5 DEF Old
    <3>7. g.last # None => hand[w].ts - g.since < FlushT
      <4> HIDE DEF g
      <4> QED BY <3>2, <3>3, <3>4, <3>6
    <3> QED BY <3>1, <3>7
  <2> QED BY <2>1 DEF YoungLeaver
<1>2. SegmentInv(w) /\ [Next]_vars => [YoungLeaver]_vars
  BY <1>1
<1>3. Init => SegmentInv(w)
  BY SegmentInitial
<1>4. SegmentInv(w) /\ [Next]_vars => SegmentInv(w)'
  BY SegmentInductive
<1>5. SegmentsStayYoung <=> [][YoungLeaver]_vars
  BY PTL DEF SegmentsStayYoung, YoungLeaver
<1> QED BY <1>2, <1>3, <1>4, <1>5, PTL DEF Spec
=============================================================================
