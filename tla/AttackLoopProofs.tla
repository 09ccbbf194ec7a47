--------------------------- MODULE AttackLoopProofs ---------------------------
(* What holds of the attack loop and its sessions: any number of attackers,    *)
(* connections, evolutions and faults.                                        *)
EXTENDS Session, FiniteSetTheorems, WellFoundedInduction, SequenceTheorems, TLAPS

Said(l) == l.hand.at \in {"score", "tally"}

Shape ==
    /\ DOMAIN feed = Attackers
    /\ \A a \in Attackers : DOMAIN feed[a] = Links

Total(a) == stats[a].blocked + stats[a].evaded + stats[a].alerted

\* Tags are numbers in the order of firing.
CountInv ==
    /\ fired \in [Attackers -> Nat]
    /\ stats \in [Attackers -> [blocked : Nat, evaded : Nat, alerted : Nat]]
    /\ DOMAIN pending = Attackers
    /\ \A a \in Attackers : DOMAIN pending[a] \subseteq 1 .. fired[a]
    /\ Shape
    /\ \A a \in Attackers :
         Total(a) + Cardinality(DOMAIN pending[a]) + Cardinality(Untold(a)) = fired[a]

LEMMA FiniteParts ==
    ASSUME CountInv, NEW a \in Attackers
    PROVE  /\ IsFiniteSet(DOMAIN pending[a]) /\ Cardinality(DOMAIN pending[a]) \in Nat
           /\ IsFiniteSet(Untold(a)) /\ Cardinality(Untold(a)) \in Nat
           /\ Total(a) \in Nat /\ fired[a] \in Nat
<1>1. fired[a] \in Nat /\ stats[a] \in [blocked : Nat, evaded : Nat, alerted : Nat]
      /\ DOMAIN pending[a] \subseteq 1 .. fired[a]
  BY DEF CountInv
<1>2. Total(a) \in Nat
  BY <1>1 DEF Total
<1>3. IsFiniteSet(1 .. fired[a])
  <2>1. fired[a] \in Int /\ 1 \in Int
    BY <1>1
  <2> QED BY <2>1, FS_Interval
<1>4. IsFiniteSet(DOMAIN pending[a])
  BY <1>1, <1>3, FS_Subset
<1>5. IsFiniteSet(Links)
  <2>1. MaxLinks \in Int
    BY BoundsAssumption DEF BoundsAssumption
  <2> QED BY <2>1, FS_Interval DEF Links
<1>6. IsFiniteSet(Untold(a))
  BY <1>5, FS_Subset DEF Untold
<1> QED BY <1>1, <1>2, <1>4, <1>6, FS_CardinalityType

\* What replacing one connection does.
Put(a, n, l) == feed' = [feed EXCEPT ![a][n] = l]

LEMMA OneLink ==
    ASSUME Shape, NEW a \in Attackers, NEW n \in Links, NEW l,
           Put(a, n, l)
    PROVE  /\ Shape' /\ feed'[a][n] = l
           /\ \A b \in Attackers, m \in Links : b # a \/ m # n => feed'[b][m] = feed[b][m]
<1>1. feed' = [feed EXCEPT ![a] = [feed[a] EXCEPT ![n] = l]]
  BY DEF Put
<1>2. /\ feed'[a] = [feed[a] EXCEPT ![n] = l] /\ DOMAIN feed' = Attackers
      /\ \A b \in Attackers : b # a => feed'[b] = feed[b]
  BY <1>1 DEF Shape
<1>3. DOMAIN feed'[a] = Links /\ feed'[a][n] = l /\ \A m \in Links : m # n => feed'[a][m] = feed[a][m]
  BY <1>2 DEF Shape
<1> QED BY <1>2, <1>3 DEF Shape

LEMMA UntoldOf ==
    ASSUME Shape, NEW a \in Attackers, NEW n \in Links, NEW l,
           Put(a, n, l)
    PROVE  /\ Shape'
           /\ Untold(a)' = IF Said(l) THEN Untold(a) \cup {n} ELSE Untold(a) \ {n}
           /\ \A b \in Attackers : b # a => Untold(b)' = Untold(b)
<1>1. /\ Shape' /\ feed'[a][n] = l
      /\ \A b \in Attackers, m \in Links : b # a \/ m # n => feed'[b][m] = feed[b][m]
  BY OneLink
<1>2. \A b \in Attackers : b # a => Untold(b)' = Untold(b)
  BY <1>1 DEF Untold
<1>3. \A m \in Links : m # n => (m \in Untold(a)' <=> m \in Untold(a))
  BY <1>1 DEF Untold
<1>4. n \in Untold(a)' <=> Said(l)
  BY <1>1 DEF Untold, Said
<1>5. Untold(a)' \subseteq Links /\ Untold(a) \subseteq Links
  BY DEF Untold
<1> QED BY <1>1, <1>2, <1>3, <1>4, <1>5

\* Steps that leave the tallies alone and what the threads hold.
HandsKept ==
    /\ UNCHANGED <<fired, pending, stats>>
    /\ Shape'
    /\ \A a \in Attackers, n \in Links : feed'[a][n].hand = feed[a][n].hand

LEMMA KeptInductive == CountInv /\ HandsKept => CountInv'
<1> SUFFICES ASSUME CountInv, HandsKept PROVE CountInv'
  OBVIOUS
<1>1. \A a \in Attackers : Untold(a)' = Untold(a)
  BY DEF HandsKept, Untold
<1> QED BY <1>1 DEF CountInv, HandsKept, Total

LEMMA HandsKeptBy ==
    ASSUME Shape,
           \/ Elsewhere
           \/ \E a \in Attackers :
                StartSort(a) \/ EndSort(a) \/ Breed(a) \/ Connect(a) \/ Report(a)
    PROVE  HandsKept
<1>1. ASSUME UNCHANGED <<fired, pending, stats, feed>> PROVE HandsKept
  BY <1>1 DEF HandsKept, Shape
<1>3. \A l, i : Link(l, i, l.hand).hand = l.hand
  BY DEF Link
<1>4. \A l : Dead(l).hand = l.hand
  BY DEF Dead
<1>5. ASSUME NEW a \in Attackers, NEW n \in Links, NEW l, UNCHANGED <<fired, pending, stats>>,
             Put(a, n, l), l.hand = feed[a][n].hand
      PROVE  HandsKept
  <2>1. /\ Shape' /\ feed'[a][n] = l
        /\ \A b \in Attackers, m \in Links : b # a \/ m # n => feed'[b][m] = feed[b][m]
    BY <1>5, OneLink
  <2>2. \A b \in Attackers, m \in Links : feed'[b][m].hand = feed[b][m].hand
    BY <1>5, <2>1
  <2> QED BY <1>5, <2>1, <2>2 DEF HandsKept
<1>6. ASSUME NEW a \in Attackers, StartSort(a) \/ EndSort(a) \/ Breed(a) PROVE HandsKept
  BY <1>1, <1>6 DEF StartSort, EndSort, Breed, network
<1>7. ASSUME NEW a \in Attackers, Connect(a) PROVE HandsKept
  <2>1. PICK n \in Links, up \in BOOLEAN : Put(a, n, Opened(feed[a][n], up))
    BY <1>7 DEF Connect, Put
  <2>2. Opened(feed[a][n], up).hand = feed[a][n].hand
    BY DEF Opened
  <2> QED BY <1>5, <1>7, <2>1, <2>2 DEF Connect, engine
<1>8. ASSUME NEW a \in Attackers, Report(a) PROVE HandsKept
  <2>1. feed' = [feed EXCEPT ![a] = [n \in Links |-> Dead(feed[a][n])]]
    BY <1>8 DEF Report
  <2>2. \A b \in Attackers, n \in Links :
           feed'[b][n] = IF b = a THEN Dead(feed[b][n]) ELSE feed[b][n]
    BY <2>1 DEF Shape
  <2>3. Shape'
    BY <2>1 DEF Shape
  <2> QED BY <1>4, <1>8, <2>2, <2>3 DEF HandsKept, Report, engine
<1>9. ASSUME NEW a \in Attackers, Deliver(a) \/ CutAttack(a) PROVE HandsKept
  BY <1>1, <1>9 DEF Deliver, CutAttack, engine
<1>10. ASSUME NEW a \in Attackers, NEW n \in Links, Accept(a, n) PROVE HandsKept
  BY <1>1, <1>10 DEF Accept, engine
<1>11. ASSUME NEW a \in Attackers, NEW n \in Links, CutFeedback(a, n) PROVE HandsKept
  <2>1. Put(a, n, Dead(feed[a][n])) /\ UNCHANGED <<fired, pending, stats>>
    BY <1>11 DEF CutFeedback, Put, engine
  <2> QED BY <1>4, <1>5, <2>1
<1>12. CASE Overflow \/ Decide
  BY <1>1, <1>12 DEF Overflow, Decide, engine, network
<1>13. ASSUME NEW k \in {1, 2}, Broadcast(k) PROVE HandsKept
  <2> DEFINE F(a, n) == IF <<a, n>> \in clients /\ feed[a][n].open
                          THEN Link(feed[a][n], Append(feed[a][n].inbox, outs[k]), feed[a][n].hand)
                          ELSE feed[a][n]
  <2>1. feed' = [a \in Attackers |-> [n \in Links |-> F(a, n)]] /\ UNCHANGED <<fired, pending, stats>>
    BY <1>13 DEF Broadcast, engine
  <2>2. \A a \in Attackers, n \in Links : F(a, n).hand = feed[a][n].hand
    BY <1>3
  <2>3. \A a \in Attackers, n \in Links : feed'[a][n] = F(a, n)
    BY <2>1
  <2>4. Shape'
    BY <2>1 DEF Shape
  <2> HIDE DEF F
  <2> QED BY <2>1, <2>2, <2>3, <2>4 DEF HandsKept
<1>14. CASE RestartIDS
  <2>1. feed' = [a \in Attackers |-> [n \in Links |-> Dead(feed[a][n])]]
        /\ UNCHANGED <<fired, pending, stats>>
    BY <1>14 DEF RestartIDS, engine
  <2>2. \A a \in Attackers, n \in Links : feed'[a][n] = Dead(feed[a][n])
    BY <2>1
  <2>3. Shape'
    BY <2>1 DEF Shape
  <2> QED BY <1>4, <2>1, <2>2, <2>3 DEF HandsKept
<1> QED BY <1>6, <1>7, <1>8, <1>9, <1>10, <1>11, <1>12, <1>13, <1>14 DEF Elsewhere

-----------------------------------------------------------------------------
(* The steps that count.                                                      *)

LEMMA CountInitial == SInit => CountInv
<1> SUFFICES ASSUME SInit PROVE CountInv
  OBVIOUS
<1>1. Init
  BY DEF SInit
<1>2. \A a \in Attackers : DOMAIN pending[a] = {}
  BY <1>1 DEF Init
<1>3. \A a \in Attackers : Untold(a) = {}
  BY <1>1 DEF Init, Untold, NoLink, Nobody
<1>4. Cardinality({}) = 0
  BY FS_EmptySet
<1>5. /\ fired \in [Attackers -> Nat]
      /\ stats \in [Attackers -> [blocked : Nat, evaded : Nat, alerted : Nat]]
      /\ DOMAIN pending = Attackers
      /\ \A a \in Attackers : fired[a] = 0 /\ Total(a) = 0
  BY <1>1 DEF Init, Total
<1>6. Shape
  BY <1>1 DEF Init, Shape
<1>7. \A a \in Attackers :
        Total(a) + Cardinality(DOMAIN pending[a]) + Cardinality(Untold(a)) = fired[a]
  BY <1>2, <1>3, <1>4, <1>5
<1> QED BY <1>2, <1>5, <1>6, <1>7 DEF CountInv

\* A new tag is pending.
LEMMA FireCounts == ASSUME CountInv, NEW a \in Attackers, Fire(a) PROVE CountInv'
<1> DEFINE t == fired[a] + 1
<1>1. /\ fired' = [fired EXCEPT ![a] = t] /\ UNCHANGED <<stats, feed>>
      /\ fired'[a] = t
  BY DEF Fire, CountInv
<1>2. PICK i \in DOMAIN pool[a] :
        pending' = [pending EXCEPT ![a] = Noted(pending[a], fired'[a], pool[a][i].name)]
  BY DEF Fire
<1>3. DOMAIN pending' = Attackers /\ \A b \in Attackers : b # a => pending'[b] = pending[b]
  BY <1>2 DEF CountInv
<1>4. DOMAIN pending'[a] = DOMAIN pending[a] \cup {t}
  BY <1>1, <1>2 DEF CountInv, Noted
<1>5. \A b \in Attackers : Untold(b)' = Untold(b) /\ Total(b)' = Total(b)
  BY <1>1 DEF Untold, Total
<1>6. fired[a] \in Nat /\ DOMAIN pending[a] \subseteq 1 .. fired[a]
  BY DEF CountInv
<1>7. t \notin DOMAIN pending[a]
  BY <1>6
<1>8. Cardinality(DOMAIN pending'[a]) = Cardinality(DOMAIN pending[a]) + 1
  BY <1>4, <1>7, FiniteParts, FS_AddElement
<1>9. Total(a)' + Cardinality(DOMAIN pending'[a]) + Cardinality(Untold(a)') = fired'[a]
  <2>1. Total(a) + Cardinality(DOMAIN pending[a]) + Cardinality(Untold(a)) = fired[a]
    BY DEF CountInv
  <2> QED BY <1>1, <1>5, <1>8, <2>1, FiniteParts
<1>10. \A b \in Attackers : b # a =>
         /\ DOMAIN pending'[b] \subseteq 1 .. fired'[b]
         /\ Total(b)' + Cardinality(DOMAIN pending'[b]) + Cardinality(Untold(b)') = fired'[b]
  BY <1>1, <1>3, <1>5 DEF CountInv
<1>11. DOMAIN pending'[a] \subseteq 1 .. fired'[a]
  BY <1>1, <1>4, <1>6
<1>12. fired' \in [Attackers -> Nat] /\ stats' = stats /\ Shape'
  BY <1>1, <1>6 DEF CountInv, Shape
<1>13. \A b \in Attackers :
         /\ DOMAIN pending'[b] \subseteq 1 .. fired'[b]
         /\ Total(b)' + Cardinality(DOMAIN pending'[b]) + Cardinality(Untold(b)') = fired'[b]
  BY <1>9, <1>10, <1>11
<1> QED BY <1>3, <1>12, <1>13 DEF CountInv

\* Its tag goes from the pending into the hands of the thread that took it.
LEMMA TakeCounts ==
    ASSUME CountInv, NEW a \in Attackers, NEW n \in Links, Take(a, n) PROVE CountInv'
<1> DEFINE v == Head(feed[a][n].inbox)
           held == Link(feed[a][n], Tail(feed[a][n].inbox), Hand(v, pending[a][v.tag], "score"))
           none == Link(feed[a][n], Tail(feed[a][n].inbox), Nobody)
           known == v.tag \in DOMAIN pending[a]
<1>1. /\ IF known THEN Put(a, n, held) ELSE Put(a, n, none)
      /\ pending' = [pending EXCEPT ![a] = [t \in DOMAIN pending[a] \ {v.tag} |-> pending[a][t]]]
      /\ feed[a][n].hand = Nobody
      /\ UNCHANGED <<fired, stats>>
  BY DEF Take, Put
<1>2. Said(held) /\ ~Said(none)
  BY DEF Said, Link, Hand, Nobody
<1>3. n \notin Untold(a)
  BY <1>1 DEF Untold, Nobody
<1>4. Shape
  BY DEF CountInv
<1> HIDE DEF v, held, none
<1>5. /\ Shape'
      /\ Untold(a)' = IF known THEN Untold(a) \cup {n} ELSE Untold(a) \ {n}
      /\ \A b \in Attackers : b # a => Untold(b)' = Untold(b)
  <2>1. CASE known
    BY <1>1, <1>2, <1>4, <2>1, UntoldOf
  <2>2. CASE ~known
    BY <1>1, <1>2, <1>4, <2>2, UntoldOf
  <2> QED BY <2>1, <2>2
<1>6. /\ DOMAIN pending' = Attackers /\ \A b \in Attackers : b # a => pending'[b] = pending[b]
      /\ DOMAIN pending'[a] = DOMAIN pending[a] \ {v.tag}
  BY <1>1 DEF CountInv
<1>7. Total(a) + Cardinality(DOMAIN pending[a]) + Cardinality(Untold(a)) = fired[a]
  BY DEF CountInv
<1>8. Cardinality(DOMAIN pending'[a]) + Cardinality(Untold(a)')
        = Cardinality(DOMAIN pending[a]) + Cardinality(Untold(a))
  <2>1. CASE known
    <3>a. IsFiniteSet(DOMAIN pending[a]) /\ IsFiniteSet(Untold(a))
      BY FiniteParts
    <3>1. Cardinality(DOMAIN pending[a] \ {v.tag}) = Cardinality(DOMAIN pending[a]) - 1
      BY <2>1, <3>a, FS_RemoveElement
    <3>2. Cardinality(Untold(a) \cup {n}) = Cardinality(Untold(a)) + 1
      BY <1>3, <3>a, FS_AddElement
    <3> QED BY <1>5, <1>6, <2>1, <3>1, <3>2, FiniteParts
  <2>2. CASE ~known
    <3>1. DOMAIN pending'[a] = DOMAIN pending[a]
      BY <1>6, <2>2
    <3>2. Untold(a)' = Untold(a)
      BY <1>3, <1>5, <2>2
    <3> QED BY <3>1, <3>2
  <2> QED BY <2>1, <2>2
<1>9. \A b \in Attackers : Total(b)' = Total(b)
  BY <1>1 DEF Total
<1>10. IsFiniteSet(DOMAIN pending'[a]) /\ IsFiniteSet(Untold(a)')
  <2>1. IsFiniteSet(DOMAIN pending[a]) /\ IsFiniteSet(Untold(a))
    BY FiniteParts
  <2>2. /\ IsFiniteSet(DOMAIN pending[a] \ {v.tag})
        /\ IsFiniteSet(Untold(a) \cup {n}) /\ IsFiniteSet(Untold(a) \ {n})
    BY <2>1, FS_AddElement, FS_RemoveElement
  <2> QED BY <1>5, <1>6, <2>2
<1>11. Total(a)' + Cardinality(DOMAIN pending'[a]) + Cardinality(Untold(a)') = fired'[a]
  <2>1. Cardinality(DOMAIN pending'[a]) \in Nat /\ Cardinality(Untold(a)') \in Nat
    BY <1>10, FS_CardinalityType
  <2> QED BY <1>1, <1>7, <1>8, <1>9, <2>1, FiniteParts
<1>12. \A b \in Attackers :
         /\ DOMAIN pending'[b] \subseteq 1 .. fired'[b]
         /\ Total(b)' + Cardinality(DOMAIN pending'[b]) + Cardinality(Untold(b)') = fired'[b]
  <2>1. ASSUME NEW b \in Attackers, b # a
        PROVE  /\ DOMAIN pending'[b] \subseteq 1 .. fired'[b]
               /\ Total(b)' + Cardinality(DOMAIN pending'[b]) + Cardinality(Untold(b)') = fired'[b]
    BY <1>1, <1>5, <1>6, <1>9, <2>1 DEF CountInv
  <2>2. DOMAIN pending'[a] \subseteq 1 .. fired'[a]
    BY <1>1, <1>6 DEF CountInv
  <2> QED BY <1>11, <2>1, <2>2
<1> QED BY <1>1, <1>5, <1>6, <1>12 DEF CountInv

\* The thread goes on with what it has in hand.
LEMMA ScoreCounts ==
    ASSUME CountInv, NEW a \in Attackers, NEW n \in Links, Score(a, n) PROVE CountInv'
<1> DEFINE l == Link(feed[a][n], feed[a][n].inbox,
                     Hand(feed[a][n].hand, feed[a][n].hand.name, "tally"))
<1>1. /\ Put(a, n, l) /\ feed[a][n].hand.at = "score"
      /\ UNCHANGED <<fired, pending, stats>>
  BY DEF Score, Put
<1>2. Said(l)
  BY DEF Said, Link, Hand
<1>3. n \in Untold(a)
  BY <1>1 DEF Untold
<1> HIDE DEF l
<1>4. /\ Shape'
      /\ Untold(a)' = Untold(a) \cup {n}
      /\ \A b \in Attackers : b # a => Untold(b)' = Untold(b)
  BY <1>1, <1>2, UntoldOf DEF CountInv
<1>5. \A b \in Attackers : Untold(b)' = Untold(b)
  BY <1>3, <1>4
<1> QED BY <1>1, <1>4, <1>5 DEF CountInv, Total

\* A line that is done leaves nothing in hand.
LEMMA LineDoneTells ==
    ASSUME NEW a \in Attackers, NEW n \in Links, LineDone(a, n)
    PROVE  \E l : Put(a, n, l) /\ ~Said(l)
<1>1. PICK gone : feed' = [feed EXCEPT ![a][n] =
        Link(IF gone THEN Dead(feed[a][n]) ELSE feed[a][n],
             IF gone THEN <<>> ELSE feed[a][n].inbox, Nobody)]
  BY DEF LineDone
<1> DEFINE l == Link(IF gone THEN Dead(feed[a][n]) ELSE feed[a][n],
                     IF gone THEN <<>> ELSE feed[a][n].inbox, Nobody)
<1>2. ~Said(l)
  BY DEF Said, Link, Nobody
<1>3. Put(a, n, l)
  BY <1>1 DEF Put
<1> QED BY <1>2, <1>3

\* The verdict goes from the thread's hands into the statistics.
LEMMA TallyCounts ==
    ASSUME CountInv, NEW a \in Attackers, NEW n \in Links, Tally(a, n) PROVE CountInv'
<1> DEFINE k == Kind(feed[a][n].hand.verdict)
<1>1. /\ feed[a][n].hand.at = "tally"
      /\ stats' = [stats EXCEPT ![a] = [stats[a] EXCEPT ![k] = stats[a][k] + 1]]
      /\ UNCHANGED <<fired, pending>>
  BY DEF Tally
<1>2. PICK l : Put(a, n, l) /\ ~Said(l)
  <2>1. CASE Seen(a) = <<>>
    BY <2>1, LineDoneTells DEF Tally
  <2>2. CASE Seen(a) # <<>>
    <3> DEFINE m == Link(feed[a][n], feed[a][n].inbox,
                         Hand(feed[a][n].hand, feed[a][n].hand.name, "record"))
    <3>1. Put(a, n, m)
      BY <2>2 DEF Tally, Put
    <3>2. ~Said(m)
      BY DEF Said, Link, Hand
    <3> QED BY <3>1, <3>2
  <2> QED BY <2>1, <2>2
<1>3. n \in Untold(a)
  BY <1>1 DEF Untold
<1>4. /\ Shape'
      /\ Untold(a)' = Untold(a) \ {n}
      /\ \A b \in Attackers : b # a => Untold(b)' = Untold(b)
  BY <1>2, UntoldOf DEF CountInv
<1>5. k = "blocked" \/ k = "evaded" \/ k = "alerted"
  BY DEF Kind
<1>6. stats[a] \in [blocked : Nat, evaded : Nat, alerted : Nat]
  BY DEF CountInv
<1> HIDE DEF k
<1> DEFINE s == [stats[a] EXCEPT ![k] = stats[a][k] + 1]
<1>7. s \in [blocked : Nat, evaded : Nat, alerted : Nat]
      /\ s.blocked + s.evaded + s.alerted
           = stats[a].blocked + stats[a].evaded + stats[a].alerted + 1
  <2>1. CASE k = "blocked"
    BY <1>6, <2>1
  <2>2. CASE k = "evaded"
    BY <1>6, <2>2
  <2>3. CASE k = "alerted"
    BY <1>6, <2>3
  <2> QED BY <1>5, <2>1, <2>2, <2>3
<1> HIDE DEF s
<1>8. /\ stats' \in [Attackers -> [blocked : Nat, evaded : Nat, alerted : Nat]]
      /\ stats'[a] = s /\ \A b \in Attackers : b # a => stats'[b] = stats[b]
  BY <1>1, <1>7 DEF CountInv, s
<1>9. Total(a)' = Total(a) + 1 /\ \A b \in Attackers : b # a => Total(b)' = Total(b)
  BY <1>7, <1>8 DEF Total
<1>10. Cardinality(Untold(a)') = Cardinality(Untold(a)) - 1
  <2>1. IsFiniteSet(Untold(a))
    BY FiniteParts
  <2>2. Cardinality(Untold(a) \ {n}) = Cardinality(Untold(a)) - 1
    BY <1>3, <2>1, FS_RemoveElement
  <2> QED BY <1>4, <2>2
<1>11. Total(a)' + Cardinality(DOMAIN pending'[a]) + Cardinality(Untold(a)') = fired'[a]
  <2>1. Total(a) + Cardinality(DOMAIN pending[a]) + Cardinality(Untold(a)) = fired[a]
    BY DEF CountInv
  <2> QED BY <1>1, <1>9, <1>10, <2>1, FiniteParts
<1>12. \A b \in Attackers :
         Total(b)' + Cardinality(DOMAIN pending'[b]) + Cardinality(Untold(b)') = fired'[b]
  <2>1. ASSUME NEW b \in Attackers, b # a
        PROVE  Total(b)' + Cardinality(DOMAIN pending'[b]) + Cardinality(Untold(b)') = fired'[b]
    BY <1>1, <1>4, <1>9, <2>1 DEF CountInv
  <2> QED BY <1>11, <2>1
<1> QED BY <1>1, <1>4, <1>8, <1>12 DEF CountInv

LEMMA RecordCounts ==
    ASSUME CountInv, NEW a \in Attackers, NEW n \in Links, Record(a, n) PROVE CountInv'
<1>1. feed[a][n].hand.at = "record" /\ UNCHANGED <<fired, pending, stats>> /\ LineDone(a, n)
  BY DEF Record
<1>2. PICK l : Put(a, n, l) /\ ~Said(l)
  BY <1>1, LineDoneTells
<1>3. n \notin Untold(a)
  BY <1>1 DEF Untold
<1>4. /\ Shape'
      /\ Untold(a)' = Untold(a) \ {n}
      /\ \A b \in Attackers : b # a => Untold(b)' = Untold(b)
  BY <1>2, UntoldOf DEF CountInv
<1>5. \A b \in Attackers : Untold(b)' = Untold(b)
  BY <1>3, <1>4
<1> QED BY <1>1, <1>4, <1>5 DEF CountInv, Total

LEMMA CountInductive == CountInv /\ [SNext]_allVars => CountInv'
<1> SUFFICES ASSUME CountInv, [SNext]_allVars PROVE CountInv'
  OBVIOUS
<1>0. Shape
  BY DEF CountInv
<1>1. ASSUME UNCHANGED vars PROVE CountInv'
  <2>1. UNCHANGED <<fired, pending, stats, feed>>
    BY <1>1 DEF vars, engine, network
  <2>2. HandsKept
    BY <2>1 DEF HandsKept, CountInv, Shape
  <2> QED BY <2>2, KeptInductive
<1>2. ASSUME NEW a \in Attackers, Own(a) PROVE CountInv'
  <2>1. CASE StartSort(a) \/ EndSort(a) \/ Breed(a) \/ Connect(a)
    BY <2>1, <1>0, HandsKeptBy, KeptInductive
  <2>2. ASSUME NEW n \in Links, Take(a, n) \/ Score(a, n) \/ Tally(a, n) \/ Record(a, n)
        PROVE  CountInv'
    BY <2>2, TakeCounts, ScoreCounts, TallyCounts, RecordCounts
  <2> QED BY <1>2, <2>1, <2>2 DEF Own
<1>3. CASE Elsewhere
  BY <1>3, <1>0, HandsKeptBy, KeptInductive
<1>4. ASSUME NEW a \in Attackers, SFire(a) PROVE CountInv'
  BY <1>4, FireCounts DEF SFire
<1>5. ASSUME NEW a \in Attackers, Stop(a) PROVE CountInv'
  BY <1>1, <1>5 DEF Stop
<1>6. ASSUME NEW a \in Attackers, Report(a) PROVE CountInv'
  BY <1>6, <1>0, HandsKeptBy, KeptInductive
<1>7. CASE UNCHANGED allVars
  BY <1>1, <1>7 DEF allVars
<1> QED BY <1>2, <1>3, <1>4, <1>5, <1>6, <1>7 DEF SNext

\* Whatever breaks and however many connections of an attacker hear its
\* verdicts, an attack is counted once.
THEOREM AttacksCountOnce == SSpec => []CountedOnce
<1>1. CountInv => CountedOnce
  BY DEF CountInv, CountedOnce, Total
<1> QED BY <1>1, CountInitial, CountInductive, PTL DEF SSpec
-----------------------------------------------------------------------------
(* Types.                                                                     *)

Names   == Seq(Int)
Profile == [name : Names, sent : Nat, blocked : Nat, evaded : Nat, alerted : Nat,
            heard : SUBSET Nat]
Job     == [of : Attackers, tag : Nat]
Verdict == [of : Attackers, tag : Nat, verdict : Verdicts]
Holding == [of : Attackers, tag : Nat, verdict : Verdicts, name : Names,
            at : {"score", "tally", "record"}]
Channel == [open : BOOLEAN, used : BOOLEAN, inbox : Seq(Verdict),
            hand : Holding \cup {Nobody}]

EngineTyped ==
    /\ fired \in [Attackers -> Nat] /\ gen \in [Attackers -> Nat]
    /\ pool \in [Attackers -> [1 .. Profiles -> Profile] \cup [1 .. Size -> Profile]]
    /\ history \in [Attackers -> Seq(Holding)]
    /\ DOMAIN pending = Attackers /\ DOMAIN firedAs = Attackers
    /\ \A a \in Attackers :
         /\ firedAs[a] \in [1 .. fired[a] -> Names]
         /\ DOMAIN pending[a] \subseteq 1 .. fired[a]
         /\ \A t \in DOMAIN pending[a] : pending[a][t] = firedAs[a][t]

NetworkTyped ==
    /\ sock \in [Attackers -> {"none", "ok", "broken"}]
    /\ wire \in [Attackers -> Seq(Nat)]
    /\ feed \in [Attackers -> [Links -> Channel]]
    /\ jobs \in Seq(Job) /\ outs \in Seq(Verdict)
    /\ sure \in [Attackers -> SUBSET Nat]
    /\ \A a \in Attackers : sure[a] \subseteq 1 .. fired[a]

TypeInv == EngineTyped /\ NetworkTyped


LEMMA Bounds ==
    /\ Profiles \in Nat \ {0} /\ Size \in Nat \ {0} /\ Elite \in Nat
    /\ Elite <= Size /\ Elite <= Profiles
BY BoundsAssumption DEF BoundsAssumption

\* A set of numbers has a least one.
LEMMA LeastNumber ==
    ASSUME NEW T, T \subseteq Nat, T # {} PROVE \E x \in T : \A y \in T : x <= y
<1>1. \E R : IsWellFoundedOn(R, Nat) /\ \A x, y \in Nat : y < x => <<y, x>> \in R
  <2> DEFINE R == OpToRel(<, Nat)
  <2>1. IsWellFoundedOn(R, Nat)
    BY NatLessThanWellFounded
  <2>2. \A x, y \in Nat : y < x => <<y, x>> \in R
    BY DEF OpToRel
  <2> HIDE DEF R
  <2> QED BY <2>1, <2>2
<1>2. PICK R : IsWellFoundedOn(R, Nat) /\ \A x, y \in Nat : y < x => <<y, x>> \in R
  BY <1>1
<1>3. PICK x \in T : \A y \in T : <<y, x>> \notin R
  BY <1>2, WFMin
<1>4. ASSUME NEW y \in T PROVE x <= y
  <2>1. x \in Nat /\ y \in Nat
    OBVIOUS
  <2>2. ~(y < x)
    BY <1>2, <1>3, <2>1
  <2> QED BY <2>1, <2>2
<1> QED BY <1>4

\* What the operators on a connection make of it.
LEMMA ChannelFacts ==
    ASSUME NEW l \in Channel
    PROVE  /\ l.open \in BOOLEAN /\ l.used \in BOOLEAN /\ l.inbox \in Seq(Verdict)
           /\ l.hand \in Holding \cup {Nobody}
           /\ \A inbox \in Seq(Verdict), h \in Holding \cup {Nobody} :
                /\ Link(l, inbox, h) \in Channel
                /\ Link(l, inbox, h).inbox = inbox /\ Link(l, inbox, h).hand = h
                /\ Link(l, inbox, h).open = l.open
           /\ \A up \in BOOLEAN : /\ Opened(l, up) \in Channel
                                  /\ Opened(l, up).inbox = l.inbox
                                  /\ Opened(l, up).hand = l.hand
           /\ Dead(l) \in Channel /\ Dead(l).hand = l.hand
<1>1. <<>> \in Seq(Verdict)
  OBVIOUS
<1> QED BY <1>1 DEF Channel, Link, Opened, Dead

\* What a thread holds.
LEMMA HoldingFacts ==
    /\ \A h \in Holding : h.tag \in Nat /\ h.name \in Names /\ h # Nobody
    /\ \A v \in Verdict, name \in Names, at \in {"score", "tally", "record"} :
         /\ Hand(v, name, at) \in Holding
         /\ Hand(v, name, at).of = v.of /\ Hand(v, name, at).tag = v.tag
         /\ Hand(v, name, at).verdict = v.verdict
         /\ Hand(v, name, at).name = name /\ Hand(v, name, at).at = at
    /\ \A h \in Holding, at \in {"score", "tally", "record"} :
         /\ Hand(h, h.name, at) \in Holding
         /\ Hand(h, h.name, at).tag = h.tag /\ Hand(h, h.name, at).name = h.name
         /\ Hand(h, h.name, at).at = at
    /\ Nobody.at = "recv"
<1>1. Nobody.at = "recv"
  BY DEF Nobody
<1>2. ASSUME NEW h \in Holding
      PROVE  /\ h \in [of : Attackers, tag : Nat, verdict : Verdicts, name : Names,
                        at : {"score", "tally", "record"}]
             /\ h.at # "recv" /\ h.of \in Attackers /\ h.tag \in Nat /\ h.verdict \in Verdicts
             /\ h.name \in Names
  BY DEF Holding
<1>3. ASSUME NEW v, v.of \in Attackers, v.tag \in Nat, v.verdict \in Verdicts,
             NEW name \in Names, NEW at \in {"score", "tally", "record"}
      PROVE  /\ Hand(v, name, at) \in Holding
             /\ Hand(v, name, at).of = v.of /\ Hand(v, name, at).tag = v.tag
             /\ Hand(v, name, at).verdict = v.verdict
             /\ Hand(v, name, at).name = name /\ Hand(v, name, at).at = at
  BY <1>3 DEF Hand, Holding
<1>4. \A v \in Verdict : v.of \in Attackers /\ v.tag \in Nat /\ v.verdict \in Verdicts
  BY DEF Verdict
<1> QED BY <1>1, <1>2, <1>3, <1>4, SMTT(20)

LEMMA PutTyped ==
    ASSUME feed \in [Attackers -> [Links -> Channel]], NEW a \in Attackers, NEW n \in Links,
           NEW l \in Channel, Put(a, n, l)
    PROVE  /\ feed' \in [Attackers -> [Links -> Channel]]
           /\ feed'[a][n] = l
           /\ \A b \in Attackers, m \in Links : b # a \/ m # n => feed'[b][m] = feed[b][m]
<1>1. Shape
  BY DEF Shape
<1>2. /\ Shape' /\ feed'[a][n] = l
      /\ \A b \in Attackers, m \in Links : b # a \/ m # n => feed'[b][m] = feed[b][m]
  BY <1>1, OneLink
<1>3. feed' = [feed EXCEPT ![a] = [feed[a] EXCEPT ![n] = l]]
  BY DEF Put
<1>4. feed' \in [Attackers -> [Links -> Channel]]
  BY <1>3
<1> QED BY <1>2, <1>4

\* An outcome adds its tag to what the profile has heard.
LEMMA OutcomeFacts ==
    ASSUME NEW p \in Profile, NEW h \in Holding
    PROVE  /\ Outcome(p, h) \in Profile
           /\ Outcome(p, h).name = p.name
           /\ Outcome(p, h).sent = p.sent + 1
           /\ Outcome(p, h).heard = p.heard \cup {h.tag}
<1>1. PICK b \in Nat : b = p.blocked + (IF h.verdict \in {"Block", "Escalate"} THEN 1 ELSE 0)
  BY DEF Profile
<1>2. PICK e \in Nat : e = p.evaded + (IF h.verdict = "Ignore" THEN 1 ELSE 0)
  BY DEF Profile
<1>3. PICK l \in Nat : l = p.alerted + (IF h.verdict \in {"Alert", "Log"} THEN 1 ELSE 0)
  BY DEF Profile
<1>4. p.heard \cup {h.tag} \in SUBSET Nat /\ p.sent + 1 \in Nat
  BY DEF Profile, Holding
<1>5. Outcome(p, h) = [p EXCEPT !.sent = p.sent + 1, !.blocked = b, !.evaded = e, !.alerted = l,
                                !.heard = p.heard \cup {h.tag}]
  BY <1>1, <1>2, <1>3 DEF Outcome
<1> HIDE <1>1, <1>2, <1>3
<1> QED BY <1>4, <1>5 DEF Profile

CreditedTo(i, ps, h) ==
    ps[i].name = h.name /\ Credited(ps, h) = [ps EXCEPT ![i] = Outcome(ps[i], h)]

\* An outcome is credited to one profile of its name, if there is any.
LEMMA CreditFacts ==
    ASSUME NEW m \in Nat, NEW ps \in [1 .. m -> Profile], NEW h \in Holding
    PROVE  /\ Credited(ps, h) \in [1 .. m -> Profile]
           /\ \/ Credited(ps, h) = ps
              \/ \E i \in 1 .. m : CreditedTo(i, ps, h)
<1>1. CASE Bearers(ps, h.name) = {}
  BY <1>1 DEF Credited
<1>2. CASE Bearers(ps, h.name) # {}
  <2>1. Bearers(ps, h.name) \in SUBSET Nat
    BY DEF Bearers
  <2>2. \E k \in Bearers(ps, h.name) : \A j \in Bearers(ps, h.name) : k <= j
    BY <1>2, <2>1, LeastNumber
  <2>3. Min(Bearers(ps, h.name)) \in Bearers(ps, h.name)
    BY <2>2 DEF Min
  <2>4. PICK i \in 1 .. m : i = Min(Bearers(ps, h.name)) /\ ps[i].name = h.name
    BY <2>3 DEF Bearers
  <2>5. Credited(ps, h) = [ps EXCEPT ![i] = Outcome(ps[i], h)]
    BY <1>2, <2>4 DEF Credited
  <2>6. Outcome(ps[i], h) \in Profile
    BY OutcomeFacts
  <2>7. Credited(ps, h) \in [1 .. m -> Profile]
    BY <2>5, <2>6
  <2> QED BY <2>4, <2>5, <2>7 DEF CreditedTo
<1> QED BY <1>1, <1>2

\* A child of a profile is named after it, or after two.
LEMMA ChildrenNamed ==
    ASSUME NEW m \in Nat, NEW ps \in [1 .. m -> Profile], NEW g \in Nat
    PROVE  ChildNames(ps, g) \subseteq Names
<1>1. <<-g>> \in Names /\ <<0>> \in Names
  BY DEF Names
<1>2. \A s, t \in Names : s \o t \in Names
  BY ConcatProperties DEF Names
<1>3. \A i \in Winners(ps) : ps[i].name \in Names
  BY DEF Winners, Profile
<1> DEFINE parents == {ps[i].name : i \in Winners(ps)}
           stems   == parents \cup {Crossed(p, q) : p, q \in parents}
<1>4. parents \subseteq Names
  BY <1>3
<1>5. stems \subseteq Names
  <2> HIDE DEF parents
  <2>1. \A p, q \in parents : Crossed(p, q) \in Names
    BY <1>1, <1>2, <1>4 DEF Crossed
  <2> QED BY <1>4, <2>1
<1>6. ChildNames(ps, g) = {stem \o <<-g>> : stem \in stems}
  BY DEF ChildNames
<1> HIDE DEF parents, stems
<1> QED BY <1>1, <1>2, <1>5, <1>6

LEMMA BredTyped ==
    ASSUME NEW m \in {Profiles, Size}, NEW ps \in [1 .. m -> Profile], NEW g \in Nat,
           NEW kids \in [1 .. Size - Elite -> ChildNames(ps, g)]
    PROVE  /\ Bred(ps, kids) \in [1 .. Size -> Profile]
           /\ \A i \in 1 .. Size : \/ i \in 1 .. m /\ Bred(ps, kids)[i] = ps[i]
                                   \/ \E name : Bred(ps, kids)[i] = Fresh(name)
<1>1. m \in Nat /\ Elite <= m
  BY Bounds
<1>2. \A i \in 1 .. Size : i <= Elite => i \in 1 .. m
  BY <1>1, Bounds
<1>3. \A i \in 1 .. Size : ~(i <= Elite) => i - Elite \in 1 .. Size - Elite
  BY Bounds
<1>4. \A k \in 1 .. Size - Elite : kids[k] \in Names
  BY <1>1, ChildrenNamed
<1>5. \A name \in Names : Fresh(name) \in Profile
  BY DEF Fresh, Profile
<1> QED BY <1>2, <1>3, <1>4, <1>5 DEF Bred

\* What is in a queue after a put, after a get and after one in it has gone.
In(e, s) == \E i \in DOMAIN s : s[i] = e

LEMMA QueueFacts ==
    ASSUME NEW S, NEW s \in Seq(S)
    PROVE  /\ \A i \in DOMAIN s : s[i] \in S
           /\ \A e \in S : /\ Append(s, e) \in Seq(S) /\ In(e, Append(s, e))
                           /\ \A x : In(x, s) => In(x, Append(s, e))
           /\ s # <<>> => /\ Head(s) \in S /\ Tail(s) \in Seq(S)
                          /\ \A x : In(x, s) => x = Head(s) \/ In(x, Tail(s))
           /\ \A k \in DOMAIN s : /\ RemoveAt(s, k) \in Seq(S)
                                  /\ \A x : In(x, s) => x = s[k] \/ In(x, RemoveAt(s, k))
<1>1. Len(s) \in Nat /\ DOMAIN s = 1 .. Len(s) /\ \A i \in 1 .. Len(s) : s[i] \in S
  BY LenProperties, ElementOfSeq
<1>2. ASSUME NEW e \in S
      PROVE  /\ Append(s, e) \in Seq(S) /\ In(e, Append(s, e))
             /\ \A x : In(x, s) => In(x, Append(s, e))
  <2>1. /\ Append(s, e) \in Seq(S) /\ Len(Append(s, e)) = Len(s) + 1
        /\ \A i \in 1 .. Len(s) : Append(s, e)[i] = s[i]
        /\ Append(s, e)[Len(s) + 1] = e
    BY AppendProperties
  <2>2. DOMAIN Append(s, e) = 1 .. Len(s) + 1
    BY <2>1, LenProperties
  <2> QED BY <1>1, <2>1, <2>2 DEF In
<1>3. ASSUME s # <<>>
      PROVE  /\ Head(s) \in S /\ Tail(s) \in Seq(S)
             /\ \A x : In(x, s) => x = Head(s) \/ In(x, Tail(s))
  <2>1. /\ Head(s) \in S /\ Tail(s) \in Seq(S) /\ Len(Tail(s)) = Len(s) - 1
        /\ \A i \in 1 .. Len(Tail(s)) : Tail(s)[i] = s[i + 1]
        /\ Head(s) = s[1]
    BY <1>3, HeadTailProperties
  <2>2. DOMAIN Tail(s) = 1 .. Len(s) - 1
    BY <2>1, LenProperties
  <2>3. ASSUME NEW x, In(x, s) PROVE x = Head(s) \/ In(x, Tail(s))
    <3>1. PICK i \in 1 .. Len(s) : s[i] = x
      BY <1>1, <2>3 DEF In
    <3>2. i # 1 => i - 1 \in 1 .. Len(s) - 1 /\ Tail(s)[i - 1] = x
      BY <1>1, <2>1, <3>1
    <3> QED BY <2>1, <2>2, <3>1, <3>2 DEF In
  <2> QED BY <2>1, <2>3
<1>4. ASSUME NEW k \in DOMAIN s
      PROVE  /\ RemoveAt(s, k) \in Seq(S)
             /\ \A x : In(x, s) => x = s[k] \/ In(x, RemoveAt(s, k))
  <2>1. k \in 1 .. Len(s) /\ k - 1 \in Int /\ k + 1 \in Int /\ Len(s) \in Int /\ 1 \in Int
    BY <1>1
  <2>2. \A i \in 1 .. k - 1 : s[i] \in S
    BY <1>1, <2>1
  <2>3. \A i \in k + 1 .. Len(s) : s[i] \in S
    BY <1>1, <2>1
  <2>4. PICK u \in Seq(S) : /\ u = SubSeq(s, 1, k - 1) /\ Len(u) = k - 1
                            /\ \A i \in 1 .. k - 1 : u[i] = s[i]
    <3>1. /\ SubSeq(s, 1, k - 1) \in Seq(S)
          /\ Len(SubSeq(s, 1, k - 1)) = IF 1 <= k - 1 THEN (k - 1) - 1 + 1 ELSE 0
          /\ \A i \in 1 .. (k - 1) - 1 + 1 : SubSeq(s, 1, k - 1)[i] = s[1 + i - 1]
      BY <2>1, <2>2, SubSeqProperties
    <3>2. (k - 1) - 1 + 1 = k - 1 /\ (1 <= k - 1 \/ k - 1 = 0)
      BY <2>1
    <3>3. Len(SubSeq(s, 1, k - 1)) = k - 1
      BY <3>1, <3>2
    <3>4. \A i \in 1 .. k - 1 : 1 + i - 1 = i
      OBVIOUS
    <3>5. \A i \in 1 .. k - 1 : SubSeq(s, 1, k - 1)[i] = s[i]
      BY <3>1, <3>2, <3>4
    <3> QED BY <3>1, <3>3, <3>5
  <2>5. PICK v \in Seq(S) : /\ v = SubSeq(s, k + 1, Len(s)) /\ Len(v) = Len(s) - k
                            /\ \A i \in 1 .. Len(s) - k : v[i] = s[k + i]
    <3>1. /\ SubSeq(s, k + 1, Len(s)) \in Seq(S)
          /\ Len(SubSeq(s, k + 1, Len(s))) = IF k + 1 <= Len(s) THEN Len(s) - (k + 1) + 1 ELSE 0
          /\ \A i \in 1 .. Len(s) - (k + 1) + 1 : SubSeq(s, k + 1, Len(s))[i] = s[(k + 1) + i - 1]
      BY <2>1, <2>3, SubSeqProperties, SMTT(20)
    <3>2. Len(s) - (k + 1) + 1 = Len(s) - k /\ (k + 1 <= Len(s) \/ Len(s) - k = 0)
      BY <2>1
    <3>3. Len(SubSeq(s, k + 1, Len(s))) = Len(s) - k
      BY <3>1, <3>2
    <3>4. \A i \in 1 .. Len(s) - k : (k + 1) + i - 1 = k + i
      BY <2>1
    <3>5. \A i \in 1 .. Len(s) - k : SubSeq(s, k + 1, Len(s))[i] = s[k + i]
      BY <3>1, <3>2, <3>4
    <3> QED BY <3>1, <3>3, <3>5
  <2>6. PICK r \in Seq(S) : r = RemoveAt(s, k) /\ r = u \o v
    BY <2>4, <2>5, ConcatProperties DEF RemoveAt
  <2>7. /\ Len(r) = Len(s) - 1
        /\ \A i \in 1 .. Len(s) - 1 : r[i] = IF i <= k - 1 THEN u[i] ELSE v[i - (k - 1)]
    <3>1. /\ Len(u \o v) = Len(u) + Len(v)
          /\ \A i \in 1 .. Len(u) + Len(v) :
               (u \o v)[i] = IF i <= Len(u) THEN u[i] ELSE v[i - Len(u)]
      BY ConcatProperties
    <3>2. Len(u) = k - 1 /\ Len(v) = Len(s) - k
      BY <2>4, <2>5
    <3>3. (k - 1) + (Len(s) - k) = Len(s) - 1
      BY <2>1
    <3>4. Len(u) + Len(v) = Len(s) - 1
      BY <3>2, <3>3
    <3>5. ASSUME NEW i \in 1 .. Len(s) - 1
          PROVE  r[i] = IF i <= k - 1 THEN u[i] ELSE v[i - (k - 1)]
      <4>1. (u \o v)[i] = IF i <= Len(u) THEN u[i] ELSE v[i - Len(u)]
        BY <3>1, <3>4
      <4> QED BY <2>6, <3>2, <4>1
    <3> QED BY <2>6, <3>1, <3>4, <3>5
  <2>8. DOMAIN r = 1 .. Len(s) - 1
    BY <2>7, LenProperties
  <2>9. ASSUME NEW x, In(x, s) PROVE x = s[k] \/ In(x, r)
    <3>1. PICK i \in 1 .. Len(s) : s[i] = x
      BY <1>1, <2>9 DEF In
    <3>2. CASE i < k
      <4>1. i \in 1 .. Len(s) - 1 /\ r[i] = x
        BY <1>1, <2>1, <2>4, <2>7, <3>1, <3>2
      <4> QED BY <2>8, <4>1 DEF In
    <3>3. CASE i > k
      <4>1. i - 1 \in 1 .. Len(s) - 1 /\ ~(i - 1 <= k - 1) /\ i - k \in 1 .. Len(s) - k
        BY <1>1, <2>1, <3>3
      <4>2. r[i - 1] = v[i - k] /\ v[i - k] = s[i]
        <5>1. (i - 1) - (k - 1) = i - k /\ k + (i - k) = i
          BY <2>1
        <5> QED BY <2>5, <2>7, <4>1, <5>1
      <4> QED BY <2>8, <3>1, <4>1, <4>2 DEF In
    <3>4. i = k \/ i < k \/ i > k
      BY <2>1
    <3> QED BY <3>1, <3>2, <3>3, <3>4
  <2> QED BY <2>6, <2>9
<1> QED BY <1>1, <1>2, <1>3, <1>4
-----------------------------------------------------------------------------
(* Every step keeps the types.                                                *)

\* Steps that leave what the engines keep alone.
EngineStays == UNCHANGED <<fired, pending, firedAs, gen, pool, history>>

LEMMA EngineKept == EngineTyped /\ EngineStays => EngineTyped'
BY DEF EngineTyped, EngineStays

LEMMA TypedInit == SInit => TypeInv
<1> SUFFICES ASSUME SInit PROVE TypeInv
  OBVIOUS
<1>1. Init
  BY DEF SInit
<1>2. \A i \in 1 .. Profiles : Fresh(<<i>>) \in Profile
  <2>1. \A i \in 1 .. Profiles : <<i>> \in Names
    BY DEF Names
  <2> QED BY <2>1 DEF Fresh, Profile
<1>3. NoLink \in Channel
  BY DEF NoLink, Channel
<1>4. <<>> \in [1 .. 0 -> Names]
  OBVIOUS
<1>5. fired \in [Attackers -> Nat] /\ gen \in [Attackers -> Nat]
      /\ history \in [Attackers -> Seq(Holding)]
      /\ DOMAIN pending = Attackers /\ DOMAIN firedAs = Attackers
  BY <1>1 DEF Init
<1>6. pool \in [Attackers -> [1 .. Profiles -> Profile] \cup [1 .. Size -> Profile]]
  BY <1>1, <1>2 DEF Init
<1>7. \A a \in Attackers : /\ firedAs[a] \in [1 .. fired[a] -> Names]
                           /\ DOMAIN pending[a] = {}
  BY <1>1, <1>4 DEF Init
<1>8. EngineTyped
  BY <1>5, <1>6, <1>7 DEF EngineTyped
<1>9. sock \in [Attackers -> {"none", "ok", "broken"}] /\ wire \in [Attackers -> Seq(Nat)]
      /\ feed \in [Attackers -> [Links -> Channel]]
      /\ jobs \in Seq(Job) /\ outs \in Seq(Verdict)
      /\ sure \in [Attackers -> SUBSET Nat] /\ \A a \in Attackers : sure[a] = {}
  BY <1>1, <1>3 DEF Init
<1> QED BY <1>8, <1>9 DEF TypeInv, NetworkTyped

\* The first attack has tag 1 and every next one the number that follows.
LEMMA FireTyped ==
    ASSUME TypeInv, NEW a \in Attackers, Fire(a) PROVE TypeInv'
<1> DEFINE t == fired[a] + 1
<1>1. /\ fired[a] \in Nat /\ fired' = [fired EXCEPT ![a] = t] /\ fired'[a] = t
      /\ UNCHANGED <<pool, gen, history, feed, jobs, outs>>
  BY DEF Fire, TypeInv, EngineTyped
<1>2. PICK i \in DOMAIN pool[a] :
        /\ pending' = [pending EXCEPT ![a] = Noted(pending[a], t, pool[a][i].name)]
        /\ firedAs' = [firedAs EXCEPT ![a] = Noted(firedAs[a], t, pool[a][i].name)]
  BY <1>1 DEF Fire
<1>3. PICK name \in Names : name = pool[a][i].name
  <2>1. pool[a] \in [1 .. Profiles -> Profile] \cup [1 .. Size -> Profile]
    BY DEF TypeInv, EngineTyped
  <2> QED BY <2>1 DEF Profile
<1>4. /\ DOMAIN pending' = Attackers /\ DOMAIN firedAs' = Attackers
      /\ pending'[a] = Noted(pending[a], t, name) /\ firedAs'[a] = Noted(firedAs[a], t, name)
      /\ \A b \in Attackers : b # a => pending'[b] = pending[b] /\ firedAs'[b] = firedAs[b]
  BY <1>2, <1>3 DEF TypeInv, EngineTyped
<1>5. /\ firedAs[a] \in [1 .. fired[a] -> Names] /\ DOMAIN pending[a] \subseteq 1 .. fired[a]
      /\ \A u \in DOMAIN pending[a] : pending[a][u] = firedAs[a][u]
  BY DEF TypeInv, EngineTyped
<1>6. 1 .. t = 1 .. fired[a] \cup {t} /\ t \notin 1 .. fired[a]
  BY <1>1
<1>7. firedAs'[a] \in [1 .. t -> Names]
  BY <1>4, <1>5, <1>6 DEF Noted
<1>8. DOMAIN pending'[a] \subseteq 1 .. t
  BY <1>4, <1>5, <1>6 DEF Noted
<1>9. \A u \in DOMAIN pending'[a] : pending'[a][u] = firedAs'[a][u]
  BY <1>4, <1>5, <1>6 DEF Noted
<1>10. fired' \in [Attackers -> Nat] /\ \A b \in Attackers : b # a => fired'[b] = fired[b]
  BY <1>1 DEF TypeInv, EngineTyped
<1>11. ASSUME NEW b \in Attackers
       PROVE  /\ firedAs'[b] \in [1 .. fired'[b] -> Names]
              /\ DOMAIN pending'[b] \subseteq 1 .. fired'[b]
              /\ \A u \in DOMAIN pending'[b] : pending'[b][u] = firedAs'[b][u]
  <2>1. CASE b = a
    BY <1>1, <1>7, <1>8, <1>9, <2>1
  <2>2. CASE b # a
    BY <1>4, <1>10, <2>2 DEF TypeInv, EngineTyped
  <2> QED BY <2>1, <2>2
<1>12. EngineTyped'
  BY <1>1, <1>4, <1>10, <1>11 DEF TypeInv, EngineTyped
<1>13. sock' \in [Attackers -> {"none", "ok", "broken"}]
  BY DEF Fire, TypeInv, NetworkTyped
<1>14. wire' \in [Attackers -> Seq(Nat)]
  <2>1. Append(wire[a], t) \in Seq(Nat)
    BY <1>1 DEF TypeInv, NetworkTyped
  <2>2. wire' = wire \/ wire' = [wire EXCEPT ![a] = Append(wire[a], t)]
    BY <1>1 DEF Fire
  <2> QED BY <2>1, <2>2 DEF TypeInv, NetworkTyped
<1>15. sure' \in [Attackers -> SUBSET Nat] /\ \A b \in Attackers : sure'[b] \subseteq 1 .. fired'[b]
  <2> DEFINE more == {u \in {fired'[a]} : sock[a] = "ok" /\ Listening(a)}
  <2>1. sure' = [sure EXCEPT ![a] = sure[a] \cup more]
    BY DEF Fire
  <2>2. more \subseteq {t}
    BY <1>1
  <2> HIDE DEF more
  <2>3. sure[a] \cup more \subseteq 1 .. t
    BY <1>1, <1>6, <2>2 DEF TypeInv, NetworkTyped
  <2> QED BY <1>1, <1>10, <2>1, <2>3 DEF TypeInv, NetworkTyped
<1> QED BY <1>1, <1>12, <1>13, <1>14, <1>15 DEF TypeInv, NetworkTyped

LEMMA PoolTyped ==
    ASSUME EngineTyped, NEW a \in Attackers
    PROVE  \E m \in {Profiles, Size} : m \in Nat /\ pool[a] \in [1 .. m -> Profile]
BY Bounds DEF EngineTyped

\* A new population of the right type.
LEMMA PoolKeeps ==
    ASSUME EngineTyped, NEW a \in Attackers, NEW m \in {Profiles, Size},
           NEW ps \in [1 .. m -> Profile], pool' = [pool EXCEPT ![a] = ps],
           UNCHANGED <<fired, pending, firedAs, history>>, gen' \in [Attackers -> Nat]
    PROVE  EngineTyped' /\ pool'[a] = ps /\ \A b \in Attackers : b # a => pool'[b] = pool[b]
<1>1. /\ pool' \in [Attackers -> [1 .. Profiles -> Profile] \cup [1 .. Size -> Profile]]
      /\ pool'[a] = ps /\ \A b \in Attackers : b # a => pool'[b] = pool[b]
  BY DEF EngineTyped
<1> QED BY <1>1 DEF EngineTyped

\* evolve permutes the population.
LEMMA EndSortDoes ==
    ASSUME EngineTyped, NEW a \in Attackers, EndSort(a)
    PROVE  \E m \in {Profiles, Size} : \E order \in [1 .. m -> 1 .. m] :
             /\ pool[a] \in [1 .. m -> Profile]
             /\ \A i, j \in 1 .. m : order[i] = order[j] => i = j
             /\ pool' = [pool EXCEPT ![a] = [i \in 1 .. m |-> pool[a][order[i]]]]
<1>1. PICK m \in {Profiles, Size} : m \in Nat /\ pool[a] \in [1 .. m -> Profile]
  BY PoolTyped
<1>2. PICK order \in Bijection(DOMAIN pool[a], DOMAIN pool[a]) :
        pool' = [pool EXCEPT ![a] = [i \in DOMAIN pool[a] |-> pool[a][order[i]]]]
  BY DEF EndSort
<1>3. DOMAIN pool[a] = 1 .. m
  BY <1>1
<1>4. order \in [1 .. m -> 1 .. m] /\ \A i, j \in 1 .. m : order[i] = order[j] => i = j
  <2>1. order \in Bijection(1 .. m, 1 .. m)
    BY <1>3
  <2>2. /\ order \in [1 .. m -> 1 .. m] /\ IsInjective(order)
    BY <2>1 DEF Bijection, Injection
  <2> QED BY <2>2 DEF IsInjective
<1>5. pool' = [pool EXCEPT ![a] = [i \in 1 .. m |-> pool[a][order[i]]]]
  BY <1>2, <1>3
<1> QED BY <1>1, <1>4, <1>5

\* and then replaces all but the elites.
LEMMA BreedDoes ==
    ASSUME EngineTyped, NEW a \in Attackers, Breed(a)
    PROVE  \E m \in {Profiles, Size} : \E ps \in [1 .. Size -> Profile] :
             /\ pool[a] \in [1 .. m -> Profile]
             /\ pool' = [pool EXCEPT ![a] = ps]
             /\ \A i \in 1 .. Size : \/ i \in 1 .. m /\ ps[i] = pool[a][i]
                                     \/ \E name : ps[i] = Fresh(name)
<1>1. PICK m \in {Profiles, Size} : m \in Nat /\ pool[a] \in [1 .. m -> Profile]
  BY PoolTyped
<1>2. PICK kids \in [1 .. Size - Elite -> ChildNames(pool[a], gen[a])] :
        pool' = [pool EXCEPT ![a] = Bred(pool[a], kids)]
  BY DEF Breed
<1>3. gen[a] \in Nat
  BY DEF EngineTyped
<1>4. PICK ps \in [1 .. Size -> Profile] :
        /\ ps = Bred(pool[a], kids)
        /\ \A i \in 1 .. Size : \/ i \in 1 .. m /\ ps[i] = pool[a][i]
                                \/ \E name : ps[i] = Fresh(name)
  BY <1>1, <1>2, <1>3, BredTyped
<1> QED BY <1>1, <1>2, <1>4
\* What a feedback thread does to its connection.
LEMMA HandHolds ==
    ASSUME TypeInv, NEW a \in Attackers, NEW n \in Links
    PROVE  /\ feed[a][n] \in Channel
           /\ feed[a][n].hand.at # "recv" => feed[a][n].hand \in Holding
           /\ feed[a][n].hand # Nobody => feed[a][n].hand \in Holding
           /\ feed[a][n].hand.at # "recv" <=> feed[a][n].hand # Nobody
<1>1. feed[a][n] \in Channel
  BY DEF TypeInv, NetworkTyped
<1>2. feed[a][n].hand \in Holding \cup {Nobody}
  BY <1>1, ChannelFacts
<1>3. \A h \in Holding : h.at # "recv"
  BY DEF Holding
<1>4. Nobody.at = "recv"
  BY DEF Nobody
<1> QED BY <1>1, <1>2, <1>3, <1>4

LEMMA LinkIs ==
    ASSUME NEW l \in Channel, NEW inbox \in Seq(Verdict), NEW h \in Holding \cup {Nobody}
    PROVE  \E k \in Channel : /\ k = Link(l, inbox, h)
                              /\ k.open = l.open /\ k.inbox = inbox /\ k.hand = h
<1>1. /\ Link(l, inbox, h) \in Channel /\ Link(l, inbox, h).open = l.open
      /\ Link(l, inbox, h).inbox = inbox /\ Link(l, inbox, h).hand = h
  BY ChannelFacts
<1> QED BY <1>1

Taken(a, n, v, l) ==
    /\ feed[a][n].hand = Nobody /\ feed[a][n].inbox # <<>>
    /\ v = Head(feed[a][n].inbox)
    /\ Put(a, n, l) /\ l.open = feed[a][n].open /\ l.inbox = Tail(feed[a][n].inbox)
    /\ pending' = [pending EXCEPT ![a] = [t \in DOMAIN pending[a] \ {v.tag} |-> pending[a][t]]]
    /\ \/ /\ v.tag \in DOMAIN pending[a] /\ l.hand \in Holding
          /\ l.hand.tag = v.tag /\ l.hand.name = pending[a][v.tag]
       \/ l.hand = Nobody

LEMMA TakeDoes ==
    ASSUME TypeInv, NEW a \in Attackers, NEW n \in Links, Take(a, n)
    PROVE  \E v \in Verdict, l \in Channel : Taken(a, n, v, l)
<1>1. feed[a][n] \in Channel /\ feed[a][n].hand = Nobody /\ feed[a][n].inbox # <<>>
  BY HandHolds DEF Take
<1>2. feed[a][n].inbox \in Seq(Verdict)
  BY <1>1, ChannelFacts
<1>3. PICK v \in Verdict : v = Head(feed[a][n].inbox)
  BY <1>1, <1>2, HeadTailProperties
<1>4. PICK rest \in Seq(Verdict) : rest = Tail(feed[a][n].inbox)
  BY <1>1, <1>2, HeadTailProperties
<1>5. pending' = [pending EXCEPT ![a] = [t \in DOMAIN pending[a] \ {v.tag} |-> pending[a][t]]]
  BY <1>3 DEF Take
<1>6. CASE v.tag \in DOMAIN pending[a]
  <2>1. pending[a][v.tag] \in Names
    <3>1. firedAs[a] \in [1 .. fired[a] -> Names] /\ v.tag \in 1 .. fired[a]
          /\ pending[a][v.tag] = firedAs[a][v.tag]
      BY <1>6 DEF TypeInv, EngineTyped
    <3> QED BY <3>1
  <2>2. PICK h \in Holding : /\ h = Hand(v, pending[a][v.tag], "score")
                             /\ h.tag = v.tag /\ h.name = pending[a][v.tag]
    BY <2>1, HoldingFacts
  <2>3. PICK l \in Channel : /\ l = Link(feed[a][n], rest, h)
                             /\ l.open = feed[a][n].open /\ l.inbox = rest /\ l.hand = h
    BY <1>1, LinkIs
  <2>4. Put(a, n, l)
    BY <1>3, <1>4, <1>6, <2>2, <2>3 DEF Take, Put
  <2>5. Taken(a, n, v, l)
    BY <1>1, <1>3, <1>4, <1>5, <1>6, <2>2, <2>3, <2>4 DEF Taken
  <2> QED BY <2>5
<1>7. CASE v.tag \notin DOMAIN pending[a]
  <2>1. PICK l \in Channel : /\ l = Link(feed[a][n], rest, Nobody)
                             /\ l.open = feed[a][n].open /\ l.inbox = rest /\ l.hand = Nobody
    BY <1>1, LinkIs
  <2>2. Put(a, n, l)
    BY <1>3, <1>4, <1>7, <2>1, SMTT(20) DEF Take, Put
  <2>3. Taken(a, n, v, l)
    BY <1>1, <1>3, <1>4, <1>5, <2>1, <2>2, SMTT(20) DEF Taken
  <2> QED BY <2>3
<1> QED BY <1>6, <1>7

\* It goes on with what it holds.
LEMMA HandGoesOn ==
    ASSUME TypeInv, NEW a \in Attackers, NEW n \in Links, feed[a][n].hand.at # "recv",
           NEW at \in {"score", "tally", "record"},
           Put(a, n, Link(feed[a][n], feed[a][n].inbox,
                          Hand(feed[a][n].hand, feed[a][n].hand.name, at)))
    PROVE  \E l \in Channel :
             /\ Put(a, n, l) /\ l.open = feed[a][n].open /\ l.inbox = feed[a][n].inbox
             /\ l.hand \in Holding /\ l.hand.tag = feed[a][n].hand.tag
             /\ l.hand.name = feed[a][n].hand.name /\ l.hand.at = at
<1>1. feed[a][n] \in Channel /\ feed[a][n].hand \in Holding
  BY HandHolds
<1>2. PICK inbox \in Seq(Verdict) : inbox = feed[a][n].inbox
  BY <1>1, ChannelFacts
<1>3. PICK h \in Holding : /\ h = Hand(feed[a][n].hand, feed[a][n].hand.name, at)
                           /\ h.tag = feed[a][n].hand.tag /\ h.name = feed[a][n].hand.name
                           /\ h.at = at
  BY <1>1, HoldingFacts
<1>4. PICK l \in Channel : /\ l = Link(feed[a][n], inbox, h)
                           /\ l.open = feed[a][n].open /\ l.inbox = inbox /\ l.hand = h
  BY <1>1, LinkIs
<1> QED BY <1>2, <1>3, <1>4

LEMMA LineDoneDoes ==
    ASSUME TypeInv, NEW a \in Attackers, NEW n \in Links, LineDone(a, n)
    PROVE  \E l \in Channel :
             /\ Put(a, n, l) /\ l.hand = Nobody
             /\ \/ sock[a] = "none"
                \/ l.open = feed[a][n].open /\ l.inbox = feed[a][n].inbox
<1>1. PICK gone \in IF sock[a] = "none" THEN BOOLEAN ELSE {FALSE} :
        feed' = [feed EXCEPT ![a][n] =
          Link(IF gone THEN Dead(feed[a][n]) ELSE feed[a][n],
               IF gone THEN <<>> ELSE feed[a][n].inbox, Nobody)]
  BY DEF LineDone
<1>2. feed[a][n] \in Channel
  BY HandHolds
<1>3. CASE gone
  <2>1. sock[a] = "none"
    BY <1>1, <1>3
  <2>a. Dead(feed[a][n]) \in Channel /\ <<>> \in Seq(Verdict)
    BY <1>2, ChannelFacts
  <2>b. PICK dead \in Channel : dead = Dead(feed[a][n])
    BY <2>a
  <2>2. PICK empty \in Seq(Verdict) : empty = <<>>
    BY <2>a
  <2>3. PICK l \in Channel : l = Link(dead, empty, Nobody) /\ l.hand = Nobody
    BY LinkIs
  <2> QED BY <1>1, <1>3, <2>1, <2>b, <2>2, <2>3 DEF Put
<1>4. CASE ~gone
  <2>1. PICK inbox \in Seq(Verdict) : inbox = feed[a][n].inbox
    BY <1>2, ChannelFacts
  <2>2. PICK l \in Channel : /\ l = Link(feed[a][n], inbox, Nobody) /\ l.hand = Nobody
                             /\ l.open = feed[a][n].open /\ l.inbox = inbox
    BY <1>2, LinkIs
  <2> QED BY <1>1, <1>4, <2>1, <2>2 DEF Put
<1> QED BY <1>3, <1>4
\* The steps of an attacker's own threads, connections apart.
LEMMA OwnTyped ==
    ASSUME TypeInv, NEW a \in Attackers,
           \/ StartSort(a) \/ EndSort(a) \/ Breed(a)
           \/ \E n \in Links : Take(a, n) \/ Score(a, n) \/ Tally(a, n) \/ Record(a, n)
    PROVE  TypeInv'
<1>e. EngineTyped /\ NetworkTyped
  BY DEF TypeInv
<1>f. feed \in [Attackers -> [Links -> Channel]]
  BY <1>e DEF NetworkTyped
<1>1. ASSUME UNCHANGED <<network, jobs, outs, sure, fired>> PROVE NetworkTyped'
  BY <1>e, <1>1 DEF NetworkTyped, network
<1>2. ASSUME NEW n \in Links, NEW l \in Channel, Put(a, n, l),
             UNCHANGED <<sock, wire, jobs, outs, sure, fired>>
      PROVE  NetworkTyped'
  <2>1. feed' \in [Attackers -> [Links -> Channel]]
    BY <1>f, <1>2, PutTyped
  <2> QED BY <1>e, <1>2, <2>1 DEF NetworkTyped
<1>3. CASE StartSort(a)
  <2>1. gen' \in [Attackers -> Nat]
    BY <1>e, <1>3 DEF StartSort, EngineTyped
  <2>2. EngineTyped'
    BY <1>e, <1>3, <2>1 DEF StartSort, EngineTyped
  <2> QED BY <1>1, <1>3, <2>2 DEF StartSort, TypeInv
<1>4. CASE EndSort(a)
  <2>0. PICK m \in {Profiles, Size} : \E order \in [1 .. m -> 1 .. m] :
          /\ pool[a] \in [1 .. m -> Profile]
          /\ pool' = [pool EXCEPT ![a] = [i \in 1 .. m |-> pool[a][order[i]]]]
    BY <1>e, <1>4, EndSortDoes
  <2>1. PICK order \in [1 .. m -> 1 .. m] :
          /\ pool[a] \in [1 .. m -> Profile]
          /\ pool' = [pool EXCEPT ![a] = [i \in 1 .. m |-> pool[a][order[i]]]]
    BY <2>0
  <2>2. PICK ps \in [1 .. m -> Profile] : ps = [i \in 1 .. m |-> pool[a][order[i]]]
    BY <2>1
  <2>3. gen' \in [Attackers -> Nat] /\ UNCHANGED <<fired, pending, firedAs, history>>
    BY <1>e, <1>4 DEF EndSort, EngineTyped
  <2>4. EngineTyped'
    BY <1>e, <2>1, <2>2, <2>3, PoolKeeps
  <2> QED BY <1>1, <1>4, <2>4 DEF EndSort, TypeInv
<1>5. CASE Breed(a)
  <2>1. PICK ps \in [1 .. Size -> Profile] : pool' = [pool EXCEPT ![a] = ps]
    BY <1>e, <1>5, BreedDoes
  <2>3. gen' \in [Attackers -> Nat] /\ UNCHANGED <<fired, pending, firedAs, history>>
    BY <1>e, <1>5 DEF Breed, EngineTyped
  <2>4. EngineTyped'
    BY <1>e, <2>1, <2>3, PoolKeeps
  <2> QED BY <1>1, <1>5, <2>4 DEF Breed, TypeInv
<1>6. ASSUME NEW n \in Links, Take(a, n) PROVE TypeInv'
  <2>0. PICK v \in Verdict, l \in Channel : Taken(a, n, v, l)
    BY <1>6, TakeDoes
  <2>1. /\ Put(a, n, l)
        /\ pending' = [pending EXCEPT ![a] = [t \in DOMAIN pending[a] \ {v.tag} |-> pending[a][t]]]
    BY <2>0 DEF Taken
  <2>2. UNCHANGED <<fired, firedAs, gen, pool, history, sock, wire, jobs, outs, sure>>
    BY <1>6 DEF Take
  <2>3. /\ DOMAIN pending' = Attackers
        /\ DOMAIN pending'[a] \subseteq DOMAIN pending[a]
        /\ \A t \in DOMAIN pending'[a] : pending'[a][t] = pending[a][t]
        /\ \A b \in Attackers : b # a => pending'[b] = pending[b]
    BY <1>e, <2>1 DEF EngineTyped
  <2>4. \A b \in Attackers : /\ DOMAIN pending'[b] \subseteq 1 .. fired[b]
                             /\ \A t \in DOMAIN pending'[b] : pending'[b][t] = firedAs[b][t]
    BY <1>e, <2>3 DEF EngineTyped
  <2>5. EngineTyped'
    BY <1>e, <2>2, <2>3, <2>4 DEF EngineTyped
  <2> QED BY <1>2, <2>1, <2>2, <2>5 DEF TypeInv
<1>7. ASSUME NEW n \in Links, Score(a, n) PROVE TypeInv'
  <2>1. /\ feed[a][n].hand.at # "recv" /\ feed[a][n].hand \in Holding
        /\ Put(a, n, Link(feed[a][n], feed[a][n].inbox,
                          Hand(feed[a][n].hand, feed[a][n].hand.name, "tally")))
    BY <1>7, HandHolds DEF Score, Put
  <2>2. \E l \in Channel : Put(a, n, l)
    BY <2>1, HandGoesOn
  <2>3. PICK m \in {Profiles, Size} : m \in Nat /\ pool[a] \in [1 .. m -> Profile]
    BY <1>e, PoolTyped
  <2>4. PICK ps \in [1 .. m -> Profile] : pool' = [pool EXCEPT ![a] = ps]
    <3>1. Credited(pool[a], feed[a][n].hand) \in [1 .. m -> Profile]
      BY <2>1, <2>3, CreditFacts
    <3>2. \/ pool' = [pool EXCEPT ![a] = pool[a]]
          \/ pool' = [pool EXCEPT ![a] = Credited(pool[a], feed[a][n].hand)]
      BY <1>7 DEF Score
    <3> QED BY <2>3, <3>1, <3>2
  <2>5. /\ UNCHANGED <<fired, pending, firedAs, gen, history, sock, wire, jobs, outs, sure>>
        /\ gen' \in [Attackers -> Nat]
    BY <1>e, <1>7 DEF Score, EngineTyped
  <2>6. EngineTyped'
    BY <1>e, <2>4, <2>5, PoolKeeps
  <2> QED BY <1>2, <2>2, <2>5, <2>6 DEF TypeInv
<1>8. ASSUME NEW n \in Links, Tally(a, n) PROVE TypeInv'
  <2>1. PICK l \in Channel : Put(a, n, l)
    <3>1. CASE LineDone(a, n)
      BY <3>1, LineDoneDoes
    <3>2. CASE ~LineDone(a, n)
      <4>1. /\ feed[a][n].hand.at # "recv"
            /\ Put(a, n, Link(feed[a][n], feed[a][n].inbox,
                              Hand(feed[a][n].hand, feed[a][n].hand.name, "record")))
        BY <1>8, <3>2, SMTT(20) DEF Tally, Put
      <4> QED BY <4>1, HandGoesOn, SMTT(20)
    <3> QED BY <3>1, <3>2
  <2>2. UNCHANGED <<fired, pending, firedAs, gen, pool, history, sock, wire, jobs, outs, sure>>
    BY <1>8 DEF Tally
  <2> QED BY <1>2, <1>e, <2>1, <2>2, EngineKept DEF TypeInv, EngineStays
<1>9. ASSUME NEW n \in Links, Record(a, n) PROVE TypeInv'
  <2>1. PICK l \in Channel : Put(a, n, l)
    BY <1>9, LineDoneDoes DEF Record
  <2>2. UNCHANGED <<fired, pending, firedAs, gen, pool, sock, wire, jobs, outs, sure>>
    BY <1>9 DEF Record
  <2>3. PICK h \in Holding : h = feed[a][n].hand
    BY <1>9, HandHolds DEF Record
  <2>4. history' = [history EXCEPT ![a] = Append(history[a], h)]
    BY <1>9, <2>3 DEF Record
  <2>5. history' \in [Attackers -> Seq(Holding)]
    <3>1. history[a] \in Seq(Holding)
      BY <1>e DEF EngineTyped
    <3>2. Append(history[a], h) \in Seq(Holding)
      BY <3>1, AppendProperties
    <3> QED BY <1>e, <2>4, <3>2 DEF EngineTyped
  <2>6. EngineTyped'
    BY <1>e, <2>2, <2>5 DEF EngineTyped
  <2> QED BY <1>2, <2>1, <2>2, <2>6 DEF TypeInv
<1> QED BY <1>3, <1>4, <1>5, <1>6, <1>7, <1>8, <1>9
\* A verdict reaches every open connection the server holds.
LEMMA BroadcastDoes ==
    ASSUME TypeInv, NEW k, Broadcast(k)
    PROVE  /\ k \in DOMAIN outs /\ outs[k] \in Verdict
           /\ outs' = RemoveAt(outs, k) /\ outs' \in Seq(Verdict)
           /\ feed' \in [Attackers -> [Links -> Channel]]
           /\ \A b \in Attackers, m \in Links :
                /\ feed'[b][m].open = feed[b][m].open
                /\ IF <<b, m>> \in clients /\ feed[b][m].open
                     THEN feed'[b][m].inbox = Append(feed[b][m].inbox, outs[k])
                     ELSE feed'[b][m].inbox = feed[b][m].inbox
<1>1. outs \in Seq(Verdict) /\ k \in DOMAIN outs /\ outs' = RemoveAt(outs, k)
  BY DEF Broadcast, TypeInv, NetworkTyped
<1>2. outs[k] \in Verdict /\ outs' \in Seq(Verdict)
  BY <1>1, QueueFacts
<1> DEFINE F(b, m) == IF <<b, m>> \in clients /\ feed[b][m].open
                        THEN Link(feed[b][m], Append(feed[b][m].inbox, outs[k]), feed[b][m].hand)
                        ELSE feed[b][m]
<1>3. ASSUME NEW b \in Attackers, NEW m \in Links
      PROVE  /\ F(b, m) \in Channel /\ F(b, m).open = feed[b][m].open
             /\ IF <<b, m>> \in clients /\ feed[b][m].open
                  THEN F(b, m).inbox = Append(feed[b][m].inbox, outs[k])
                  ELSE F(b, m).inbox = feed[b][m].inbox
  <2>1. feed[b][m] \in Channel
    BY HandHolds
  <2>2. feed[b][m].inbox \in Seq(Verdict) /\ feed[b][m].hand \in Holding \cup {Nobody}
    BY <2>1, ChannelFacts
  <2>3. Append(feed[b][m].inbox, outs[k]) \in Seq(Verdict)
    BY <1>2, <2>2, AppendProperties
  <2>a. PICK inbox \in Seq(Verdict) : inbox = Append(feed[b][m].inbox, outs[k])
    BY <2>3
  <2>b. PICK h \in Holding \cup {Nobody} : h = feed[b][m].hand
    BY <2>2
  <2>4. PICK l \in Channel : /\ l = Link(feed[b][m], inbox, h)
                             /\ l.open = feed[b][m].open /\ l.inbox = inbox
    BY <2>1, LinkIs
  <2>5. CASE <<b, m>> \in clients /\ feed[b][m].open
    BY <2>a, <2>b, <2>4, <2>5
  <2>6. CASE ~(<<b, m>> \in clients /\ feed[b][m].open)
    BY <2>1, <2>6
  <2> QED BY <2>5, <2>6
<1>4. feed' = [b \in Attackers |-> [m \in Links |-> F(b, m)]]
  BY DEF Broadcast
<1> HIDE DEF F
<1>5. feed' \in [Attackers -> [Links -> Channel]]
  BY <1>3, <1>4
<1>6. \A b \in Attackers, m \in Links : feed'[b][m] = F(b, m)
  BY <1>4
<1> QED BY <1>1, <1>2, <1>3, <1>5, <1>6

LEMMA LessSure ==
    ASSUME NEW job \in Job, sure' = Unsure(job),
           sure \in [Attackers -> SUBSET Nat],
           \A b \in Attackers : sure[b] \subseteq 1 .. fired[b]
    PROVE  /\ sure' \in [Attackers -> SUBSET Nat]
           /\ \A b \in Attackers : sure'[b] \subseteq 1 .. fired[b]
<1>1. \A b \in Attackers : sure[b] \in SUBSET Nat
  OBVIOUS
<1>2. sure' = [sure EXCEPT ![job.of] = sure[job.of] \ {job.tag}]
  BY DEF Unsure
<1> QED BY <1>1, <1>2

LEMMA NetworkStepsTyped ==
    ASSUME TypeInv, Elsewhere \/ \E a \in Attackers : Connect(a) \/ Stop(a) \/ Report(a)
    PROVE  TypeInv'
<1>e. EngineTyped /\ NetworkTyped
  BY DEF TypeInv
<1>f. /\ feed \in [Attackers -> [Links -> Channel]]
      /\ sock \in [Attackers -> {"none", "ok", "broken"}] /\ wire \in [Attackers -> Seq(Nat)]
      /\ jobs \in Seq(Job) /\ outs \in Seq(Verdict)
      /\ sure \in [Attackers -> SUBSET Nat] /\ \A b \in Attackers : sure[b] \subseteq 1 .. fired[b]
  BY <1>e DEF NetworkTyped
<1>g. ASSUME UNCHANGED engine, NetworkTyped' PROVE TypeInv'
  BY <1>e, <1>g, EngineKept DEF TypeInv, EngineStays, engine
<1>h. ASSUME UNCHANGED engine PROVE UNCHANGED fired
  BY <1>h DEF engine
<1>1. ASSUME NEW a \in Attackers, Connect(a) PROVE TypeInv'
  <2>1. PICK n \in Links, up \in BOOLEAN : Put(a, n, Opened(feed[a][n], up))
    BY <1>1 DEF Connect, Put
  <2>2. Opened(feed[a][n], up) \in Channel
    BY HandHolds, ChannelFacts
  <2>3. feed' \in [Attackers -> [Links -> Channel]]
    BY <1>f, <2>1, <2>2, PutTyped
  <2>4. sock' \in [Attackers -> {"none", "ok", "broken"}]
    BY <1>f, <1>1 DEF Connect
  <2> QED BY <1>f, <1>g, <1>h, <1>1, <2>3, <2>4 DEF Connect, NetworkTyped
<1>2. ASSUME NEW a \in Attackers, Stop(a) PROVE TypeInv'
  BY <1>f, <1>g, <1>h, <1>2 DEF Stop, vars, network, NetworkTyped
<1>3. ASSUME NEW a \in Attackers, Report(a) PROVE TypeInv'
  <2>1. \A n \in Links : Dead(feed[a][n]) \in Channel
    BY HandHolds, ChannelFacts
  <2>2. feed' = [feed EXCEPT ![a] = [n \in Links |-> Dead(feed[a][n])]]
    BY <1>3 DEF Report
  <2>3. feed' \in [Attackers -> [Links -> Channel]]
    BY <1>f, <2>1, <2>2
  <2>4. sock' \in [Attackers -> {"none", "ok", "broken"}]
    BY <1>f, <1>3 DEF Report
  <2>5. sure' \in [Attackers -> SUBSET Nat] /\ \A b \in Attackers : sure'[b] \subseteq sure[b]
    BY <1>f, <1>3 DEF Report
  <2> QED BY <1>f, <1>g, <1>h, <1>3, <2>3, <2>4, <2>5 DEF Report, NetworkTyped
<1>4. ASSUME NEW a \in Attackers, Deliver(a) PROVE TypeInv'
  <2>1. wire[a] \in Seq(Nat) /\ wire[a] # <<>>
    BY <1>f, <1>4 DEF Deliver
  <2>2. Head(wire[a]) \in Nat /\ Tail(wire[a]) \in Seq(Nat)
    BY <2>1, QueueFacts
  <2>3. [of |-> a, tag |-> Head(wire[a])] \in Job
    BY <2>2 DEF Job
  <2>4. jobs' \in Seq(Job)
    <3>1. jobs' = Append(jobs, [of |-> a, tag |-> Head(wire[a])]) \/ jobs' = jobs
      BY <1>4 DEF Deliver
    <3>2. Append(jobs, [of |-> a, tag |-> Head(wire[a])]) \in Seq(Job)
      BY <1>f, <2>3, AppendProperties
    <3> QED BY <1>f, <3>1, <3>2
  <2>5. wire' \in [Attackers -> Seq(Nat)]
    BY <1>f, <1>4, <2>2 DEF Deliver
  <2>6. /\ sure' \in [Attackers -> SUBSET Nat]
        /\ \A b \in Attackers : sure'[b] \subseteq 1 .. fired[b]
    BY <1>f, <1>4, <2>3, LessSure DEF Deliver
  <2> QED BY <1>f, <1>g, <1>h, <1>4, <2>4, <2>5, <2>6 DEF Deliver, NetworkTyped
<1>5. ASSUME NEW a \in Attackers, CutAttack(a) PROVE TypeInv'
  <2>1. sock' \in [Attackers -> {"none", "ok", "broken"}]
    BY <1>f, <1>5 DEF CutAttack
  <2>2. wire' \in [Attackers -> Seq(Nat)]
    BY <1>f, <1>5 DEF CutAttack
  <2>3. sure' \in [Attackers -> SUBSET Nat] /\ \A b \in Attackers : sure'[b] \subseteq sure[b]
    BY <1>f, <1>5 DEF CutAttack
  <2> QED BY <1>f, <1>g, <1>h, <1>5, <2>1, <2>2, <2>3 DEF CutAttack, NetworkTyped
<1>6. ASSUME NEW a \in Attackers, NEW n \in Links, Accept(a, n) PROVE TypeInv'
  BY <1>f, <1>g, <1>h, <1>6 DEF Accept, NetworkTyped
<1>7. ASSUME NEW a \in Attackers, NEW n \in Links, CutFeedback(a, n) PROVE TypeInv'
  <2>1. Dead(feed[a][n]) \in Channel /\ Put(a, n, Dead(feed[a][n]))
    BY <1>7, HandHolds, ChannelFacts DEF CutFeedback, Put
  <2>2. feed' \in [Attackers -> [Links -> Channel]]
    BY <1>f, <2>1, PutTyped
  <2>3. sure' \in [Attackers -> SUBSET Nat] /\ \A b \in Attackers : sure'[b] \subseteq sure[b]
    BY <1>f, <1>7 DEF CutFeedback
  <2> QED BY <1>f, <1>g, <1>h, <1>7, <2>2, <2>3 DEF CutFeedback, NetworkTyped
<1>8. CASE Overflow \/ Decide
  <2>1. jobs # <<>> /\ jobs' = Tail(jobs)
    BY <1>8 DEF Overflow, Decide
  <2>2. Head(jobs) \in Job /\ jobs' \in Seq(Job)
    BY <1>f, <2>1, QueueFacts
  <2>3. ASSUME NEW v \in Verdicts
        PROVE  [of |-> Head(jobs).of, tag |-> Head(jobs).tag, verdict |-> v] \in Verdict
    BY <2>2 DEF Job, Verdict
  <2>4. outs' \in Seq(Verdict)
    <3>1. CASE UNCHANGED outs
      BY <1>f, <3>1
    <3>2. ASSUME NEW v \in Verdicts,
                 outs' = Append(outs, [of |-> Head(jobs).of, tag |-> Head(jobs).tag, verdict |-> v])
          PROVE  outs' \in Seq(Verdict)
      BY <1>f, <2>3, <3>2, AppendProperties
    <3> QED BY <1>8, <3>1, <3>2 DEF Overflow, Decide
  <2>5. /\ sure' \in [Attackers -> SUBSET Nat]
        /\ \A b \in Attackers : sure'[b] \subseteq 1 .. fired[b]
    BY <1>f, <1>8, <2>2, LessSure DEF Overflow, Decide
  <2> QED BY <1>f, <1>g, <1>h, <1>8, <2>2, <2>4, <2>5 DEF Overflow, Decide, network, NetworkTyped
<1>9. ASSUME NEW k \in {1, 2}, Broadcast(k) PROVE TypeInv'
  <2>1. outs' \in Seq(Verdict) /\ feed' \in [Attackers -> [Links -> Channel]]
    BY <1>9, BroadcastDoes
  <2> QED BY <1>f, <1>g, <1>h, <1>9, <2>1 DEF Broadcast, NetworkTyped
<1>10. CASE RestartIDS
  <2>1. \A b \in Attackers, n \in Links : Dead(feed[b][n]) \in Channel
    BY HandHolds, ChannelFacts
  <2>2. feed' \in [Attackers -> [Links -> Channel]]
    BY <1>10, <2>1 DEF RestartIDS
  <2>3. sock' \in [Attackers -> {"none", "ok", "broken"}]
    BY <1>f, <1>10 DEF RestartIDS
  <2>4. wire' \in [Attackers -> Seq(Nat)] /\ jobs' \in Seq(Job) /\ outs' \in Seq(Verdict)
        /\ sure' \in [Attackers -> SUBSET Nat] /\ \A b \in Attackers : sure'[b] = {}
    BY <1>10 DEF RestartIDS
  <2> QED BY <1>g, <1>10, <2>2, <2>3, <2>4 DEF RestartIDS, NetworkTyped
<1> QED BY <1>1, <1>2, <1>3, <1>4, <1>5, <1>6, <1>7, <1>8, <1>9, <1>10 DEF Elsewhere

LEMMA TypesInductive == TypeInv /\ [SNext]_allVars => TypeInv'
<1> SUFFICES ASSUME TypeInv, [SNext]_allVars PROVE TypeInv'
  OBVIOUS
<1>1. ASSUME NEW a \in Attackers, Own(a) PROVE TypeInv'
  BY <1>1, OwnTyped, NetworkStepsTyped DEF Own
<1>2. ASSUME NEW a \in Attackers, SFire(a) PROVE TypeInv'
  BY <1>2, FireTyped DEF SFire
<1>3. CASE Elsewhere \/ \E a \in Attackers : Stop(a) \/ Report(a)
  BY <1>3, NetworkStepsTyped
<1>4. CASE UNCHANGED allVars
  BY <1>4 DEF allVars, vars, engine, network, TypeInv, EngineTyped, NetworkTyped
<1> QED BY <1>1, <1>2, <1>3, <1>4 DEF SNext
-----------------------------------------------------------------------------
(* No verdict is lost that no fault has touched.                              *)

Of(x, a, t) == x.of = a /\ x.tag = t

\* Where the attack or its verdict is.
LEMMA ComingIs ==
    ASSUME TypeInv, NEW a \in Attackers, NEW t
    PROVE  Coming(a, t) <=>
             \/ In(t, wire[a])
             \/ In([of |-> a, tag |-> t], jobs)
             \/ \E x : Of(x, a, t) /\ In(x, outs)
             \/ \E n \in Links : \E x : Of(x, a, t) /\ In(x, feed[a][n].inbox)
BY DEF Coming, In, Of

\* While there are such attacks, both connections stand: the fault that breaks
\* one ends them.
Safe(a) ==
    /\ sure[a] # {} => sock[a] = "ok" /\ Listening(a)
    /\ \A t \in sure[a] \cap DOMAIN pending[a] : Coming(a, t)

SureInv == TypeInv /\ \A a \in Attackers : Safe(a)

\* An attacker that a step does not concern.
LEMMA Bystander ==
    ASSUME NEW b \in Attackers, Safe(b),
           sock'[b] = sock[b], sure'[b] = sure[b], wire'[b] = wire[b], feed'[b] = feed[b],
           DOMAIN pending'[b] \subseteq DOMAIN pending[b],
           clients \subseteq clients', UNCHANGED <<jobs, outs>>
    PROVE  Safe(b)'
<1>1. Listening(b) => Listening(b)'
  BY DEF Listening
<1>2. \A t : Coming(b, t) => Coming(b, t)'
  BY DEF Coming
<1> QED BY <1>1, <1>2 DEF Safe

\* One that a fault has left with no such attack.
LEMMA NothingSure == ASSUME NEW b \in Attackers, sure'[b] = {} PROVE Safe(b)'
BY DEF Safe

\* What a step on one connection may do to the attacks on their way.
LEMMA OneChannel ==
    ASSUME SureInv, TypeInv', NEW a \in Attackers, NEW n \in Links, NEW l \in Channel,
           Put(a, n, l), UNCHANGED <<sock, wire, jobs, outs, clients, sure>>,
           \A b \in Attackers : DOMAIN pending'[b] \subseteq DOMAIN pending[b],
           \/ sock[a] = "none"
           \/ /\ l.open = feed[a][n].open
              /\ \A x : In(x, feed[a][n].inbox) /\ x.tag \in DOMAIN pending'[a] => In(x, l.inbox)
    PROVE  SureInv'
<1>1. feed \in [Attackers -> [Links -> Channel]] /\ TypeInv
  BY DEF SureInv, TypeInv, NetworkTyped
<1>2. /\ feed'[a][n] = l
      /\ \A b \in Attackers, m \in Links : b # a \/ m # n => feed'[b][m] = feed[b][m]
      /\ feed' \in [Attackers -> [Links -> Channel]]
  BY <1>1, PutTyped
<1>3. ASSUME NEW b \in Attackers, b # a PROVE Safe(b)'
  <2>1. feed'[b] = feed[b]
    BY <1>1, <1>2, <1>3
  <2> QED BY <2>1, Bystander DEF SureInv
<1>4. Safe(a)'
  <2>1. CASE sock[a] = "none"
    <3>1. sure'[a] = {}
      BY <2>1 DEF SureInv, Safe
    <3> QED BY <3>1, NothingSure
  <2>2. CASE /\ l.open = feed[a][n].open
             /\ \A x : In(x, feed[a][n].inbox) /\ x.tag \in DOMAIN pending'[a] => In(x, l.inbox)
    <3>1. Listening(a) => Listening(a)'
      BY <1>2, <2>2 DEF Listening
    <3>2. ASSUME NEW t \in DOMAIN pending'[a], Coming(a, t) PROVE Coming(a, t)'
      <4>1. ASSUME NEW m \in Links, NEW x, Of(x, a, t), In(x, feed[a][m].inbox)
            PROVE  In(x, feed'[a][m].inbox)
        BY <1>2, <2>2, <4>1 DEF Of
      <4>2. CASE \E m \in Links : \E x : Of(x, a, t) /\ In(x, feed[a][m].inbox)
        BY <4>1, <4>2, ComingIs, <1>1 DEF Coming, In, Of
      <4>3. CASE \/ In(t, wire[a]) \/ In([of |-> a, tag |-> t], jobs)
                 \/ \E x : Of(x, a, t) /\ In(x, outs)
        BY <4>3 DEF Coming, In, Of
      <4> QED BY <1>1, <3>2, <4>2, <4>3, ComingIs
    <3>3. Safe(a)
      BY DEF SureInv
    <3> QED BY <3>1, <3>2, <3>3 DEF Safe
  <2> QED BY <2>1, <2>2
<1> QED BY <1>3, <1>4 DEF SureInv
LEMMA OwnSafe ==
    ASSUME SureInv, TypeInv', NEW a \in Attackers, Own(a), ~Connect(a)
    PROVE  SureInv'
<1>t. TypeInv /\ EngineTyped /\ NetworkTyped
  BY DEF SureInv, TypeInv
<1>1. CASE StartSort(a) \/ EndSort(a) \/ Breed(a)
  <2>1. UNCHANGED <<pending, sock, wire, feed, clients, jobs, outs, sure>>
    BY <1>1 DEF StartSort, EndSort, Breed, network
  <2> QED BY <2>1, Bystander DEF SureInv
<1>2. ASSUME NEW n \in Links, Take(a, n) PROVE SureInv'
  <2>0. PICK v \in Verdict, l \in Channel : Taken(a, n, v, l)
    BY <1>t, <1>2, TakeDoes, SMTT(20)
  <2>1. /\ feed[a][n].inbox # <<>> /\ v = Head(feed[a][n].inbox)
        /\ Put(a, n, l) /\ l.open = feed[a][n].open /\ l.inbox = Tail(feed[a][n].inbox)
        /\ pending' = [pending EXCEPT ![a] = [t \in DOMAIN pending[a] \ {v.tag} |-> pending[a][t]]]
    BY <2>0 DEF Taken
  <2>2. \A b \in Attackers : DOMAIN pending'[b] \subseteq DOMAIN pending[b]
    BY <1>t, <2>1 DEF EngineTyped
  <2>3. v.tag \notin DOMAIN pending'[a]
    BY <1>t, <2>1 DEF EngineTyped
  <2>4. feed[a][n].inbox \in Seq(Verdict)
    BY <1>t, HandHolds, ChannelFacts
  <2>5. \A x : In(x, feed[a][n].inbox) => x = v \/ In(x, l.inbox)
    BY <2>1, <2>4, QueueFacts
  <2>6. \A x : In(x, feed[a][n].inbox) /\ x.tag \in DOMAIN pending'[a] => In(x, l.inbox)
    BY <2>3, <2>5
  <2>7. UNCHANGED <<sock, wire, jobs, outs, clients, sure>>
    BY <1>2 DEF Take
  <2> QED BY <2>1, <2>2, <2>6, <2>7, OneChannel
<1>3. ASSUME NEW n \in Links, NEW at \in {"score", "tally", "record"},
             feed[a][n].hand.at # "recv",
             Put(a, n, Link(feed[a][n], feed[a][n].inbox,
                            Hand(feed[a][n].hand, feed[a][n].hand.name, at))),
             UNCHANGED <<pending, sock, wire, jobs, outs, clients, sure>>
      PROVE  SureInv'
  <2>1. PICK l \in Channel : Put(a, n, l) /\ l.open = feed[a][n].open /\ l.inbox = feed[a][n].inbox
    BY <1>t, <1>3, HandGoesOn
  <2> QED BY <1>3, <2>1, OneChannel
<1>4. ASSUME NEW n \in Links, LineDone(a, n),
             UNCHANGED <<pending, sock, wire, jobs, outs, clients, sure>>
      PROVE  SureInv'
  <2>1. PICK l \in Channel :
          /\ Put(a, n, l)
          /\ \/ sock[a] = "none"
             \/ l.open = feed[a][n].open /\ l.inbox = feed[a][n].inbox
    BY <1>t, <1>4, LineDoneDoes
  <2> QED BY <1>4, <2>1, OneChannel
<1>5. ASSUME NEW n \in Links, Score(a, n) PROVE SureInv'
  BY <1>3, <1>5 DEF Score, Put
<1>6. ASSUME NEW n \in Links, Tally(a, n) PROVE SureInv'
  BY <1>3, <1>4, <1>6 DEF Tally, Put
<1>7. ASSUME NEW n \in Links, Record(a, n) PROVE SureInv'
  BY <1>4, <1>7 DEF Record
<1> QED BY <1>1, <1>2, <1>5, <1>6, <1>7 DEF Own

LEMMA FireSafe ==
    ASSUME SureInv, TypeInv', NEW a \in Attackers, Fire(a) PROVE SureInv'
<1>t. TypeInv /\ EngineTyped /\ NetworkTyped
  BY DEF SureInv, TypeInv
<1>0. UNCHANGED <<feed, jobs, outs, clients>>
  BY DEF Fire
<1>1. ASSUME NEW b \in Attackers, b # a PROVE Safe(b)'
  <2>1. sock'[b] = sock[b] /\ sure'[b] = sure[b] /\ wire'[b] = wire[b] /\ pending'[b] = pending[b]
    <3>1. sock'[b] = sock[b]
      BY <1>t, <1>1 DEF Fire, NetworkTyped
    <3>2. wire'[b] = wire[b]
      BY <1>t, <1>1 DEF Fire, NetworkTyped
    <3>3. sure'[b] = sure[b]
      BY <1>t, <1>1 DEF Fire, NetworkTyped
    <3>4. pending'[b] = pending[b]
      BY <1>t, <1>1 DEF Fire, EngineTyped
    <3> QED BY <3>1, <3>2, <3>3, <3>4
  <2> QED BY <1>0, <1>1, <2>1, Bystander DEF SureInv
<1>2. /\ fired[a] \in Nat /\ fired'[a] = fired[a] + 1 /\ sure[a] \subseteq 1 .. fired[a]
      /\ DOMAIN pending'[a] = DOMAIN pending[a] \cup {fired'[a]}
  BY <1>t DEF Fire, EngineTyped, NetworkTyped, Noted
<1>3. sure'[a] = sure[a] \cup {t \in {fired'[a]} : sock[a] = "ok" /\ Listening(a)}
  BY <1>t DEF Fire, NetworkTyped
<1>4. Listening(a)' <=> Listening(a)
  BY <1>0 DEF Listening
<1>5. Safe(a)
  BY DEF SureInv
<1>6. ASSUME sock[a] = "ok" PROVE Safe(a)'
  <2>0. PICK u \in Nat : u = fired'[a]
    BY <1>2
  <2>1. sock'[a] = "ok" /\ wire'[a] = Append(wire[a], u)
    BY <1>t, <1>6, <2>0 DEF Fire, NetworkTyped
  <2>2. wire[a] \in Seq(Nat)
    BY <1>t DEF NetworkTyped
  <2>3. In(u, wire'[a]) /\ \A t : In(t, wire[a]) => In(t, wire'[a])
    BY <2>1, <2>2, QueueFacts
  <2>4. Coming(a, u)'
    BY <2>3 DEF Coming, In
  <2>5. \A t : Coming(a, t) => Coming(a, t)'
    BY <1>0, <2>3 DEF Coming, In
  <2>6. ASSUME NEW t \in sure'[a] \cap DOMAIN pending'[a] PROVE Coming(a, t)'
    <3>1. t = u \/ t \in sure[a] \cap DOMAIN pending[a]
      BY <1>2, <1>3, <2>0
    <3>2. CASE t = u
      BY <2>4, <3>2
    <3>3. CASE t \in sure[a] \cap DOMAIN pending[a]
      BY <1>5, <2>5, <3>3 DEF Safe
    <3> QED BY <3>1, <3>2, <3>3
  <2>7. sure'[a] # {} => Listening(a)'
    BY <1>3, <1>4, <1>5 DEF Safe
  <2> QED BY <2>1, <2>6, <2>7 DEF Safe
<1>7. ASSUME sock[a] # "ok" PROVE Safe(a)'
  <2>1. sure'[a] = {}
    BY <1>3, <1>5, <1>7 DEF Safe
  <2> QED BY <2>1, NothingSure
<1> QED BY <1>1, <1>6, <1>7 DEF SureInv

\* One attack is given up, and only that.
LEMMA OneGivenUp ==
    ASSUME SureInv, NEW job \in Job, sure' = Unsure(job),
           UNCHANGED <<pending, sock, feed, clients>>,
           \A b \in Attackers : \A t :
             Coming(b, t) => Coming(b, t)' \/ (b = job.of /\ t = job.tag)
    PROVE  \A b \in Attackers : Safe(b)'
<1> SUFFICES ASSUME NEW b \in Attackers PROVE Safe(b)'
  OBVIOUS
<1>1. sure'[b] \subseteq sure[b] /\ (b = job.of => job.tag \notin sure'[b])
  BY DEF Unsure, SureInv, TypeInv, NetworkTyped
<1>2. Safe(b) /\ (Listening(b)' <=> Listening(b))
  BY DEF SureInv, Listening
<1> QED BY <1>1, <1>2 DEF Safe

LEMMA NetworkSafe ==
    ASSUME SureInv, TypeInv',
           Elsewhere \/ \E a \in Attackers : Connect(a) \/ Stop(a) \/ Report(a)
    PROVE  SureInv'
<1>t. TypeInv /\ EngineTyped /\ NetworkTyped
  BY DEF SureInv, TypeInv
<1>f. /\ feed \in [Attackers -> [Links -> Channel]]
      /\ sock \in [Attackers -> {"none", "ok", "broken"}] /\ wire \in [Attackers -> Seq(Nat)]
      /\ jobs \in Seq(Job) /\ outs \in Seq(Verdict) /\ sure \in [Attackers -> SUBSET Nat]
  BY <1>t DEF NetworkTyped
<1>s. \A b \in Attackers : Safe(b)
  BY DEF SureInv
<1>1. ASSUME NEW a \in Attackers, Connect(a) PROVE SureInv'
  <2>1. PICK n \in Links, up \in BOOLEAN : Put(a, n, Opened(feed[a][n], up))
    BY <1>1 DEF Connect, Put
  <2>2. Opened(feed[a][n], up) \in Channel
    BY <1>t, HandHolds, ChannelFacts
  <2>3. \A b \in Attackers, m \in Links : b # a => feed'[b][m] = feed[b][m]
    BY <1>f, <2>1, <2>2, PutTyped
  <2>4. feed' \in [Attackers -> [Links -> Channel]]
    BY <1>f, <2>1, <2>2, PutTyped
  <2>5. UNCHANGED <<pending, wire, jobs, outs, clients, sure>> /\ sock[a] = "none"
    BY <1>1 DEF Connect, engine
  <2>6. sure'[a] = {}
    BY <1>s, <2>5 DEF Safe
  <2>7. ASSUME NEW b \in Attackers, b # a PROVE Safe(b)'
    <3>1. feed'[b] = feed[b] /\ sock'[b] = sock[b]
      BY <1>f, <1>1, <2>3, <2>4, <2>7 DEF Connect
    <3> QED BY <1>s, <2>5, <3>1, Bystander
  <2> QED BY <2>6, <2>7, NothingSure DEF SureInv
<1>2. ASSUME NEW a \in Attackers, Stop(a) PROVE SureInv'
  <2>1. UNCHANGED <<pending, sock, wire, feed, clients, jobs, outs, sure>>
    BY <1>2 DEF Stop, vars, engine, network
  <2> QED BY <1>s, <2>1, Bystander DEF SureInv
<1>3. ASSUME NEW a \in Attackers, Report(a) PROVE SureInv'
  <2>1. UNCHANGED <<pending, wire, clients, jobs, outs>> /\ sure'[a] = {}
    BY <1>f, <1>3 DEF Report, engine
  <2>2. \A b \in Attackers : b # a => feed'[b] = feed[b] /\ sock'[b] = sock[b] /\ sure'[b] = sure[b]
    BY <1>f, <1>3 DEF Report
  <2>3. ASSUME NEW b \in Attackers, b # a PROVE Safe(b)'
    BY <1>s, <2>1, <2>2, <2>3, Bystander
  <2> QED BY <2>1, <2>3, NothingSure DEF SureInv
<1>4. ASSUME NEW a \in Attackers, CutAttack(a) PROVE SureInv'
  <2>1. UNCHANGED <<pending, feed, clients, jobs, outs>> /\ sure'[a] = {}
    BY <1>f, <1>4 DEF CutAttack, engine
  <2>2. \A b \in Attackers : b # a => wire'[b] = wire[b] /\ sock'[b] = sock[b] /\ sure'[b] = sure[b]
    BY <1>f, <1>4 DEF CutAttack
  <2>3. ASSUME NEW b \in Attackers, b # a PROVE Safe(b)'
    BY <1>s, <2>1, <2>2, <2>3, Bystander
  <2> QED BY <2>1, <2>3, NothingSure DEF SureInv
<1>5. ASSUME NEW a \in Attackers, NEW n \in Links, CutFeedback(a, n) PROVE SureInv'
  <2>1. UNCHANGED <<pending, sock, wire, clients, jobs, outs>> /\ sure'[a] = {}
    BY <1>f, <1>5 DEF CutFeedback, engine
  <2>2. \A b \in Attackers : b # a => feed'[b] = feed[b] /\ sure'[b] = sure[b]
    BY <1>f, <1>5 DEF CutFeedback
  <2>3. ASSUME NEW b \in Attackers, b # a PROVE Safe(b)'
    BY <1>s, <2>1, <2>2, <2>3, Bystander
  <2> QED BY <2>1, <2>3, NothingSure DEF SureInv
<1>6. ASSUME NEW a \in Attackers, NEW n \in Links, Accept(a, n) PROVE SureInv'
  <2>1. UNCHANGED <<pending, sock, wire, feed, jobs, outs, sure>> /\ clients \subseteq clients'
    BY <1>6 DEF Accept, engine
  <2> QED BY <1>s, <2>1, Bystander DEF SureInv
<1>7. ASSUME NEW a \in Attackers, Deliver(a) PROVE SureInv'
  <2> DEFINE job == [of |-> a, tag |-> Head(wire[a])]
  <2>1. /\ UNCHANGED <<pending, sock, feed, outs, clients>> /\ wire[a] # <<>>
        /\ wire'[a] = Tail(wire[a])
        /\ \A b \in Attackers : b # a => wire'[b] = wire[b]
        /\ \/ jobs' = Append(jobs, job) /\ UNCHANGED sure
           \/ sure' = Unsure(job) /\ UNCHANGED jobs
    BY <1>f, <1>7 DEF Deliver, engine
  <2>2. wire[a] \in Seq(Nat)
    BY <1>f
  <2>3. Head(wire[a]) \in Nat /\ \A t : In(t, wire[a]) => t = Head(wire[a]) \/ In(t, wire'[a])
    BY <2>1, <2>2, QueueFacts
  <2>4. job \in Job
    BY <2>3 DEF Job
  <2> HIDE DEF job
  <2>5. ASSUME NEW b \in Attackers, NEW t, In(t, wire[b])
        PROVE  In(t, wire'[b]) \/ (b = a /\ [of |-> b, tag |-> t] = job)
    BY <2>1, <2>3, <2>5 DEF job
  <2>6. CASE jobs' = Append(jobs, job) /\ UNCHANGED sure
    <3>1. In(job, jobs') /\ \A x : In(x, jobs) => In(x, jobs')
      BY <1>f, <2>4, <2>6, QueueFacts
    <3>2. \A b \in Attackers : \A t : Coming(b, t) => Coming(b, t)'
      BY <2>1, <2>5, <3>1 DEF Coming, In
    <3>3. \A b \in Attackers : Listening(b)' <=> Listening(b)
      BY <2>1 DEF Listening
    <3> QED BY <1>s, <2>1, <2>6, <3>2, <3>3 DEF SureInv, Safe
  <2>7. CASE sure' = Unsure(job) /\ UNCHANGED jobs
    <3>1. \A b \in Attackers : \A t :
             Coming(b, t) => Coming(b, t)' \/ (b = job.of /\ t = job.tag)
      BY <2>1, <2>5, <2>7 DEF Coming, In, job
    <3> QED BY <2>1, <2>4, <2>7, <3>1, OneGivenUp DEF SureInv
  <2> QED BY <2>1, <2>6, <2>7
<1>8. CASE Overflow \/ Decide
  <2>1. /\ UNCHANGED <<pending, sock, wire, feed, clients>>
        /\ jobs # <<>> /\ jobs' = Tail(jobs)
    BY <1>8 DEF Overflow, Decide, engine, network
  <2>2. Head(jobs) \in Job /\ \A x : In(x, jobs) => x = Head(jobs) \/ In(x, jobs')
    BY <1>f, <2>1, QueueFacts
  <2>3. ASSUME NEW b \in Attackers, NEW t, Coming(b, t), \A x : In(x, outs) => In(x, outs')
        PROVE  Coming(b, t)' \/ (b = Head(jobs).of /\ t = Head(jobs).tag)
    <3>1. CASE In([of |-> b, tag |-> t], jobs)
      <4>1. In([of |-> b, tag |-> t], jobs') \/ [of |-> b, tag |-> t] = Head(jobs)
        BY <2>2, <3>1
      <4> QED BY <4>1 DEF Coming, In
    <3>2. CASE \E x : Of(x, b, t) /\ In(x, outs)
      BY <2>3, <3>2 DEF Coming, In, Of
    <3>3. CASE In(t, wire[b]) \/ \E n \in Links : \E x : Of(x, b, t) /\ In(x, feed[b][n].inbox)
      BY <2>1, <3>3 DEF Coming, In, Of
    <3> QED BY <1>t, <2>3, <3>1, <3>2, <3>3, ComingIs
  <2>4. CASE sure' = Unsure(Head(jobs)) /\ UNCHANGED outs
    BY <2>1, <2>2, <2>3, <2>4, OneGivenUp DEF SureInv
  <2>5. ASSUME NEW v \in Verdicts, UNCHANGED sure,
               outs' = Append(outs, [of |-> Head(jobs).of, tag |-> Head(jobs).tag, verdict |-> v])
        PROVE  SureInv'
    <3> DEFINE out == [of |-> Head(jobs).of, tag |-> Head(jobs).tag, verdict |-> v]
    <3>1. out \in Verdict /\ out.of = Head(jobs).of /\ out.tag = Head(jobs).tag
      BY <2>2 DEF Job, Verdict
    <3>2. outs' = Append(outs, out)
      BY <2>5
    <3> HIDE DEF out
    <3>3. In(out, outs') /\ \A x : In(x, outs) => In(x, outs')
      BY <1>f, <3>1, <3>2, QueueFacts
    <3>4. ASSUME NEW b \in Attackers, NEW t, b = Head(jobs).of, t = Head(jobs).tag
          PROVE  Coming(b, t)'
      BY <3>1, <3>3, <3>4 DEF Coming, In
    <3>5. \A b \in Attackers : \A t : Coming(b, t) => Coming(b, t)'
      BY <2>3, <3>3, <3>4
    <3>6. \A b \in Attackers : Listening(b)' <=> Listening(b)
      BY <2>1 DEF Listening
    <3> QED BY <1>s, <2>1, <2>5, <3>5, <3>6 DEF SureInv, Safe
  <2> QED BY <1>8, <2>4, <2>5 DEF Overflow, Decide
<1>9. ASSUME NEW k \in {1, 2}, Broadcast(k) PROVE SureInv'
  <2>1. /\ k \in DOMAIN outs /\ outs[k] \in Verdict /\ outs' = RemoveAt(outs, k)
        /\ \A b \in Attackers, m \in Links :
             /\ feed'[b][m].open = feed[b][m].open
             /\ IF <<b, m>> \in clients /\ feed[b][m].open
                  THEN feed'[b][m].inbox = Append(feed[b][m].inbox, outs[k])
                  ELSE feed'[b][m].inbox = feed[b][m].inbox
    BY <1>t, <1>9, BroadcastDoes
  <2>2. /\ UNCHANGED <<pending, sock, wire, jobs, sure>>
        /\ clients' = {c \in clients : feed[c[1]][c[2]].open}
    BY <1>9 DEF Broadcast, engine
  <2>3. \A b \in Attackers, m \in Links :
          feed[b][m].open /\ <<b, m>> \in clients => <<b, m>> \in clients'
    BY <2>2
  <2>4. \A b \in Attackers : Listening(b) => Listening(b)'
    BY <2>1, <2>3 DEF Listening
  <2>5. \A x : In(x, outs) => x = outs[k] \/ In(x, outs')
    BY <1>f, <2>1, QueueFacts
  <2>6. \A b \in Attackers, m \in Links : feed[b][m].inbox \in Seq(Verdict)
    BY <1>t, HandHolds, ChannelFacts
  <2>7. ASSUME NEW b \in Attackers, NEW m \in Links
        PROVE  /\ \A x : In(x, feed[b][m].inbox) => In(x, feed'[b][m].inbox)
               /\ <<b, m>> \in clients /\ feed[b][m].open => In(outs[k], feed'[b][m].inbox)
    <3>1. CASE <<b, m>> \in clients /\ feed[b][m].open
      <4>1. feed'[b][m].inbox = Append(feed[b][m].inbox, outs[k])
        BY <2>1, <3>1
      <4>2. PICK s \in Seq(Verdict) : s = feed[b][m].inbox
        BY <2>6
      <4>3. In(outs[k], Append(s, outs[k])) /\ \A x : In(x, s) => In(x, Append(s, outs[k]))
        BY <2>1, QueueFacts
      <4> QED BY <4>1, <4>2, <4>3
    <3>2. CASE ~(<<b, m>> \in clients /\ feed[b][m].open)
      BY <2>1, <3>2
    <3> QED BY <3>1, <3>2
  <2>8. ASSUME NEW b \in Attackers, Listening(b), NEW t, Coming(b, t) PROVE Coming(b, t)'
    <3>1. PICK n \in Links : feed[b][n].open /\ <<b, n>> \in clients
      BY <2>8 DEF Listening
    <3>2. CASE \E x : Of(x, b, t) /\ In(x, outs)
      <4>1. PICK x : Of(x, b, t) /\ (In(x, outs') \/ In(x, feed'[b][n].inbox))
        BY <2>5, <2>7, <3>1, <3>2
      <4> QED BY <4>1 DEF Coming, In, Of
    <3>3. CASE \E m \in Links : \E x : Of(x, b, t) /\ In(x, feed[b][m].inbox)
      <4>1. PICK m \in Links : \E x : Of(x, b, t) /\ In(x, feed'[b][m].inbox)
        BY <2>7, <3>3
      <4> QED BY <4>1 DEF Coming, In, Of
    <3>4. CASE In(t, wire[b]) \/ In([of |-> b, tag |-> t], jobs)
      BY <2>2, <3>4 DEF Coming, In
    <3> QED BY <1>t, <2>8, <3>2, <3>3, <3>4, ComingIs
  <2> QED BY <1>s, <2>2, <2>4, <2>8 DEF SureInv, Safe
<1>10. CASE RestartIDS
  <2>1. \A b \in Attackers : sure'[b] = {}
    BY <1>10 DEF RestartIDS
  <2> QED BY <2>1, NothingSure DEF SureInv
<1> QED BY <1>1, <1>2, <1>3, <1>4, <1>5, <1>6, <1>7, <1>8, <1>9, <1>10 DEF Elsewhere

\* The server keeps every verdict for every connection it holds, and an attacker
\* loses none to a fault of another's connections: what is pending, was sent while
\* both of its own stood and none has broken since, and neither was displaced
\* from the bus nor made the handler raise, is still on its way.
THEOREM VerdictsArrive == SSpec => []NoVerdictLost
<1>1. SInit => SureInv
  <2> SUFFICES ASSUME SInit PROVE SureInv
    OBVIOUS
  <2>1. \A a \in Attackers : sure[a] = {}
    BY DEF SInit, Init
  <2>2. \A a \in Attackers : Safe(a)
    BY <2>1 DEF Safe
  <2> QED BY <2>2, TypedInit DEF SureInv
<1>2. SureInv /\ [SNext]_allVars => SureInv'
  <2> SUFFICES ASSUME SureInv, [SNext]_allVars PROVE SureInv'
    OBVIOUS
  <2>1. TypeInv'
    BY TypesInductive DEF SureInv
  <2>2. ASSUME NEW a \in Attackers, Own(a) PROVE SureInv'
    BY <2>1, <2>2, OwnSafe, NetworkSafe
  <2>3. ASSUME NEW a \in Attackers, SFire(a) PROVE SureInv'
    BY <2>1, <2>3, FireSafe DEF SFire
  <2>4. CASE Elsewhere \/ \E a \in Attackers : Stop(a) \/ Report(a)
    BY <2>1, <2>4, NetworkSafe
  <2>5. CASE UNCHANGED allVars
    <3>1. UNCHANGED <<pending, sock, wire, feed, clients, jobs, outs, sure>>
      BY <2>5 DEF allVars, vars, engine, network
    <3> QED BY <2>1, <3>1, Bystander DEF SureInv
  <2> QED BY <2>2, <2>3, <2>4, <2>5 DEF SNext
<1>3. SureInv => NoVerdictLost
  BY DEF SureInv, Safe, NoVerdictLost
<1> QED BY <1>1, <1>2, <1>3, PTL DEF SSpec
-----------------------------------------------------------------------------
(* Every answered attack is in one thread's hands, in one place of the history *)
(* and to the credit of one profile at most.                                   *)

HandsApart(a) ==
    \A n \in Links : feed[a][n].hand # Nobody =>
      /\ feed[a][n].hand.tag \in Answered(a, feed[a][n].hand.name)
      /\ \A m \in Links \ {n} :
           feed[a][m].hand # Nobody => feed[a][m].hand.tag # feed[a][n].hand.tag

HistoryApart(a) ==
    \A i \in 1 .. Len(history[a]) :
      /\ history[a][i].tag \in Answered(a, history[a][i].name)
      /\ \A j \in 1 .. Len(history[a]) \ {i} : history[a][j].tag # history[a][i].tag
      /\ \A n \in Links : feed[a][n].hand # Nobody => feed[a][n].hand.tag # history[a][i].tag

CreditsApart(a) ==
    \A i \in DOMAIN pool[a] :
      /\ pool[a][i].sent = Cardinality(pool[a][i].heard) /\ IsFiniteSet(pool[a][i].heard)
      /\ pool[a][i].heard \subseteq Answered(a, pool[a][i].name)
      /\ \A j \in DOMAIN pool[a] \ {i} : pool[a][i].heard \cap pool[a][j].heard = {}
      /\ \A n \in Links : feed[a][n].hand.at = "score" =>
                            feed[a][n].hand.tag \notin pool[a][i].heard

Apart(a) == HandsApart(a) /\ HistoryApart(a) /\ CreditsApart(a)

TagInv == TypeInv /\ \A a \in Attackers : Apart(a)

\* An answered attack stays answered, under its name.
Grows(a) == \A name : Answered(a, name) \subseteq Answered(a, name)'

\* The threads hold nothing new.
Fewer(a) ==
    \A n \in Links :
      /\ feed'[a][n].hand # Nobody =>
           /\ feed[a][n].hand # Nobody
           /\ feed'[a][n].hand.tag = feed[a][n].hand.tag
           /\ feed'[a][n].hand.name = feed[a][n].hand.name
      /\ feed'[a][n].hand.at = "score" =>
           feed[a][n].hand.at = "score" /\ feed'[a][n].hand.tag = feed[a][n].hand.tag

LEMMA GrowsBy ==
    ASSUME NEW a \in Attackers, firedAs'[a] = firedAs[a],
           DOMAIN pending'[a] \subseteq DOMAIN pending[a]
    PROVE  Grows(a)
BY DEF Grows, Answered

LEMMA HandsKeep == ASSUME NEW a \in Attackers, HandsApart(a), Grows(a), Fewer(a) PROVE HandsApart(a)'
<1> SUFFICES ASSUME NEW n \in Links, feed'[a][n].hand # Nobody
             PROVE  /\ (feed[a][n].hand.tag \in Answered(a, feed[a][n].hand.name))'
                    /\ \A m \in Links \ {n} : feed'[a][m].hand # Nobody =>
                                                feed'[a][m].hand.tag # feed'[a][n].hand.tag
  BY DEF HandsApart
<1>1. /\ feed[a][n].hand # Nobody /\ feed'[a][n].hand.tag = feed[a][n].hand.tag
      /\ feed'[a][n].hand.name = feed[a][n].hand.name
  BY DEF Fewer
<1>2. PICK name : name = feed[a][n].hand.name
  OBVIOUS
<1>3. feed[a][n].hand.tag \in Answered(a, name)
  BY <1>1, <1>2 DEF HandsApart
<1>4. feed[a][n].hand.tag \in Answered(a, name)'
  BY <1>3 DEF Grows
<1>5. (feed[a][n].hand.tag \in Answered(a, feed[a][n].hand.name))'
  BY <1>1, <1>2, <1>4 DEF Answered
<1>6. \A m \in Links \ {n} : feed'[a][m].hand # Nobody => feed'[a][m].hand.tag # feed'[a][n].hand.tag
  BY <1>1 DEF HandsApart, Fewer
<1> QED BY <1>5, <1>6

LEMMA HistoryKeeps ==
    ASSUME NEW a \in Attackers, HistoryApart(a), Grows(a), Fewer(a), history'[a] = history[a]
    PROVE  HistoryApart(a)'
BY DEF HistoryApart, Grows, Fewer

LEMMA CreditsKeep ==
    ASSUME NEW a \in Attackers, CreditsApart(a), Grows(a), Fewer(a), pool'[a] = pool[a]
    PROVE  CreditsApart(a)'
BY DEF CreditsApart, Grows, Fewer

\* Steps that do not touch what an attacker keeps.
LEMMA ApartKept ==
    ASSUME NEW a \in Attackers, Apart(a), Fewer(a), firedAs'[a] = firedAs[a],
           DOMAIN pending'[a] \subseteq DOMAIN pending[a],
           history'[a] = history[a], pool'[a] = pool[a]
    PROVE  Apart(a)'
BY GrowsBy, HandsKeep, HistoryKeeps, CreditsKeep DEF Apart

LEMMA TagsInitial == SInit => TagInv
<1> SUFFICES ASSUME SInit PROVE TagInv
  OBVIOUS
<1>1. Init
  BY DEF SInit
<1>2. ASSUME NEW a \in Attackers PROVE Apart(a)
  <2>1. \A n \in Links : feed[a][n].hand = Nobody
    BY <1>1 DEF Init, NoLink
  <2>2. Nobody.at # "score"
    BY DEF Nobody
  <2>3. HandsApart(a)
    BY <2>1 DEF HandsApart
  <2>4. HistoryApart(a)
    <3>1. history[a] = <<>>
      BY <1>1 DEF Init
    <3>2. 1 .. Len(history[a]) = {}
      BY <3>1
    <3> QED BY <3>2 DEF HistoryApart
  <2>5. CreditsApart(a)
    <3>1. \A i \in DOMAIN pool[a] : pool[a][i].sent = 0 /\ pool[a][i].heard = {}
      BY <1>1 DEF Init, Fresh
    <3> QED BY <2>1, <2>2, <3>1, FS_EmptySet DEF CreditsApart
  <2> QED BY <2>3, <2>4, <2>5 DEF Apart
<1> QED BY <1>2, TypedInit DEF TagInv

\* Steps that leave the engine's records alone and what the threads hold.
LEMMA QuietSteps ==
    ASSUME TagInv, TypeInv', HandsKept, UNCHANGED <<firedAs, pool, history>>
    PROVE  TagInv'
<1>1. ASSUME NEW a \in Attackers PROVE Apart(a)'
  <2>1. Fewer(a)
    BY DEF HandsKept, Fewer
  <2> QED BY <2>1, ApartKept DEF TagInv, HandsKept
<1> QED BY <1>1 DEF TagInv

\* An attack that is fired is pending.
LEMMA FireGrows == ASSUME TypeInv, NEW a \in Attackers, Fire(a) PROVE Grows(a)
<1>1. PICK t : t = fired'[a]
  OBVIOUS
<1>2. t = fired[a] + 1 /\ fired[a] \in Nat /\ DOMAIN firedAs[a] = 1 .. fired[a]
  BY <1>1 DEF Fire, TypeInv, EngineTyped
<1>3. PICK name : /\ pending'[a] = Noted(pending[a], t, name)
                  /\ firedAs'[a] = Noted(firedAs[a], t, name)
  BY <1>1 DEF Fire, TypeInv, EngineTyped
<1>4. t \notin DOMAIN firedAs[a]
  BY <1>2
<1>5. \A u \in DOMAIN firedAs[a] : /\ u \in DOMAIN firedAs'[a] /\ firedAs'[a][u] = firedAs[a][u]
                                   /\ u \in DOMAIN pending'[a] => u \in DOMAIN pending[a]
  BY <1>3, <1>4 DEF Noted
<1> QED BY <1>5 DEF Grows, Answered

LEMMA FireTags ==
    ASSUME TagInv, TypeInv', NEW a \in Attackers, Fire(a) PROVE TagInv'
<1>e. TypeInv /\ EngineTyped
  BY DEF TagInv, TypeInv
<1>1. UNCHANGED <<feed, pool, history>>
  BY DEF Fire
<1>2. \A b \in Attackers : Fewer(b)
  BY <1>1 DEF Fewer
<1>3. ASSUME NEW b \in Attackers, b # a PROVE Apart(b)'
  <2>1. firedAs'[b] = firedAs[b] /\ pending'[b] = pending[b]
    BY <1>e, <1>3 DEF Fire, EngineTyped
  <2> QED BY <1>1, <1>2, <2>1, ApartKept DEF TagInv
<1>4. Grows(a)
  BY <1>e, FireGrows
<1>5. Apart(a)'
  BY <1>1, <1>2, <1>4, HandsKeep, HistoryKeeps, CreditsKeep DEF TagInv, Apart
<1> QED BY <1>3, <1>5 DEF TagInv
\* evolve only moves the profiles.
LEMMA EndSortTags ==
    ASSUME TagInv, TypeInv', NEW a \in Attackers, EndSort(a) PROVE TagInv'
<1>e. TypeInv /\ EngineTyped
  BY DEF TagInv, TypeInv
<1>1. UNCHANGED <<feed, firedAs, pending, history>>
  BY DEF EndSort, network
<1>2. \A b \in Attackers : Fewer(b) /\ Grows(b)
  BY <1>1, GrowsBy DEF Fewer
<1>3. PICK m \in {Profiles, Size} : \E order \in [1 .. m -> 1 .. m] :
        /\ pool[a] \in [1 .. m -> Profile]
        /\ \A i, j \in 1 .. m : order[i] = order[j] => i = j
        /\ pool' = [pool EXCEPT ![a] = [i \in 1 .. m |-> pool[a][order[i]]]]
  BY <1>e, EndSortDoes
<1>4. PICK order \in [1 .. m -> 1 .. m] :
        /\ pool[a] \in [1 .. m -> Profile]
        /\ \A i, j \in 1 .. m : order[i] = order[j] => i = j
        /\ pool' = [pool EXCEPT ![a] = [i \in 1 .. m |-> pool[a][order[i]]]]
  BY <1>3
<1>5. /\ pool'[a] = [i \in 1 .. m |-> pool[a][order[i]]]
      /\ \A b \in Attackers : b # a => pool'[b] = pool[b]
  BY <1>e, <1>4 DEF EngineTyped
<1>6. ASSUME NEW b \in Attackers, b # a PROVE Apart(b)'
  BY <1>1, <1>2, <1>5, <1>6, ApartKept DEF TagInv
<1>7. CreditsApart(a)
  BY DEF TagInv, Apart
<1>8. \A i \in 1 .. m : pool'[a][i] = pool[a][order[i]] /\ order[i] \in DOMAIN pool[a]
  <2>1. DOMAIN pool[a] = 1 .. m
    BY <1>4
  <2>2. \A i \in 1 .. m : order[i] \in DOMAIN pool[a]
    BY <2>1
  <2>3. \A i \in 1 .. m : pool'[a][i] = pool[a][order[i]]
    BY <1>5
  <2> QED BY <2>2, <2>3
<1>9. DOMAIN pool'[a] = 1 .. m
  BY <1>5
<1>10. CreditsApart(a)'
  <2>1. ASSUME NEW i \in 1 .. m
        PROVE  /\ pool'[a][i].sent = Cardinality(pool'[a][i].heard) /\ IsFiniteSet(pool'[a][i].heard)
               /\ (pool[a][i].heard \subseteq Answered(a, pool[a][i].name))'
               /\ \A n \in Links : feed'[a][n].hand.at = "score" =>
                                     feed'[a][n].hand.tag \notin pool'[a][i].heard
    <3>1. PICK p : p = pool[a][order[i]]
      OBVIOUS
    <3>2. /\ p.sent = Cardinality(p.heard) /\ IsFiniteSet(p.heard)
          /\ p.heard \subseteq Answered(a, p.name)
          /\ \A n \in Links : feed[a][n].hand.at = "score" => feed[a][n].hand.tag \notin p.heard
      BY <1>7, <1>8, <3>1 DEF CreditsApart
    <3>3. pool'[a][i] = p
      BY <1>8, <3>1
    <3>4. (pool[a][i].heard \subseteq Answered(a, pool[a][i].name))'
      BY <1>1, <3>2, <3>3 DEF Answered
    <3> QED BY <1>1, <3>2, <3>3, <3>4
  <2>2. ASSUME NEW i \in 1 .. m, NEW j \in 1 .. m \ {i}
        PROVE  pool'[a][i].heard \cap pool'[a][j].heard = {}
    <3>1. PICK p, q : p = order[i] /\ q = order[j]
      OBVIOUS
    <3>2. p \in DOMAIN pool[a] /\ q \in DOMAIN pool[a] \ {p}
      BY <1>4, <3>1
    <3>3. pool[a][p].heard \cap pool[a][q].heard = {}
      BY <1>7, <3>2 DEF CreditsApart
    <3> QED BY <1>8, <3>1, <3>3
  <2> QED BY <1>9, <2>1, <2>2 DEF CreditsApart
<1>11. Apart(a)'
  BY <1>1, <1>2, <1>10, HandsKeep, HistoryKeeps DEF TagInv, Apart
<1> QED BY <1>6, <1>11 DEF TagInv

\* The elites keep their credit and the children have none.
LEMMA BreedTags ==
    ASSUME TagInv, TypeInv', NEW a \in Attackers, Breed(a) PROVE TagInv'
<1>e. TypeInv /\ EngineTyped
  BY DEF TagInv, TypeInv
<1>1. UNCHANGED <<feed, firedAs, pending, history>>
  BY DEF Breed, network
<1>2. \A b \in Attackers : Fewer(b) /\ Grows(b)
  BY <1>1, GrowsBy DEF Fewer
<1>3. PICK m \in {Profiles, Size} : \E ps \in [1 .. Size -> Profile] :
        /\ pool[a] \in [1 .. m -> Profile]
        /\ pool' = [pool EXCEPT ![a] = ps]
        /\ \A i \in 1 .. Size : \/ i \in 1 .. m /\ ps[i] = pool[a][i]
                                \/ \E name : ps[i] = Fresh(name)
  BY <1>e, BreedDoes
<1>4. PICK ps \in [1 .. Size -> Profile] :
        /\ pool[a] \in [1 .. m -> Profile]
        /\ pool' = [pool EXCEPT ![a] = ps]
        /\ \A i \in 1 .. Size : \/ i \in 1 .. m /\ ps[i] = pool[a][i]
                                \/ \E name : ps[i] = Fresh(name)
  BY <1>3
<1>5. /\ pool'[a] = ps /\ DOMAIN pool'[a] = 1 .. Size
      /\ \A b \in Attackers : b # a => pool'[b] = pool[b]
  BY <1>e, <1>4 DEF EngineTyped
<1>6. ASSUME NEW b \in Attackers, b # a PROVE Apart(b)'
  BY <1>1, <1>2, <1>5, <1>6, ApartKept DEF TagInv
<1>7. CreditsApart(a)
  BY DEF TagInv, Apart
<1>8. \A i \in 1 .. Size : \/ i \in DOMAIN pool[a] /\ ps[i] = pool[a][i]
                           \/ ps[i].sent = 0 /\ ps[i].heard = {}
  <2>1. DOMAIN pool[a] = 1 .. m
    BY <1>4
  <2>2. ASSUME NEW i \in 1 .. Size, NEW name, ps[i] = Fresh(name)
        PROVE  ps[i].sent = 0 /\ ps[i].heard = {}
    BY <2>2 DEF Fresh
  <2> QED BY <1>4, <2>1, <2>2
<1>9. CreditsApart(a)'
  <2>1. ASSUME NEW i \in 1 .. Size
        PROVE  /\ ps[i].sent = Cardinality(ps[i].heard) /\ IsFiniteSet(ps[i].heard)
               /\ ps[i].heard \subseteq Answered(a, ps[i].name)
               /\ \A n \in Links : feed[a][n].hand.at = "score" =>
                                     feed[a][n].hand.tag \notin ps[i].heard
    <3>1. CASE i \in DOMAIN pool[a] /\ ps[i] = pool[a][i]
      BY <1>7, <3>1 DEF CreditsApart
    <3>2. CASE ps[i].sent = 0 /\ ps[i].heard = {}
      BY <3>2, FS_EmptySet
    <3> QED BY <1>8, <3>1, <3>2
  <2>2. ASSUME NEW i \in 1 .. Size, NEW j \in 1 .. Size \ {i}
        PROVE  ps[i].heard \cap ps[j].heard = {}
    BY <1>7, <1>8 DEF CreditsApart
  <2> QED BY <1>1, <1>5, <2>1, <2>2 DEF CreditsApart, Answered
<1>10. Apart(a)'
  BY <1>1, <1>2, <1>9, HandsKeep, HistoryKeeps DEF TagInv, Apart
<1> QED BY <1>6, <1>10 DEF TagInv
\* What a step on one connection does to what the threads hold.
LEMMA OneHand ==
    ASSUME TypeInv, NEW a \in Attackers, NEW n \in Links, NEW l \in Channel, Put(a, n, l)
    PROVE  /\ feed'[a][n].hand = l.hand
           /\ \A m \in Links : m # n => feed'[a][m].hand = feed[a][m].hand
           /\ \A b \in Attackers : b # a => Fewer(b)
           /\ l.hand = Nobody => Fewer(a)
           /\ /\ feed[a][n].hand # Nobody /\ l.hand.tag = feed[a][n].hand.tag
              /\ l.hand.name = feed[a][n].hand.name /\ l.hand.at # "score"
              => Fewer(a)
<1>1. feed \in [Attackers -> [Links -> Channel]]
  BY DEF TypeInv, NetworkTyped
<1>2. /\ feed'[a][n] = l
      /\ \A b \in Attackers, m \in Links : b # a \/ m # n => feed'[b][m] = feed[b][m]
  BY <1>1, PutTyped
<1>3. Nobody.at # "score"
  BY DEF Nobody
<1> QED BY <1>2, <1>3 DEF Fewer

\* A thread that takes a tag is the only one to hold it, and nothing was
\* credited for it before.
LEMMA TakeTags ==
    ASSUME TagInv, TypeInv', NEW a \in Attackers, NEW n \in Links, Take(a, n) PROVE TagInv'
<1>e. TypeInv /\ EngineTyped /\ HandsApart(a) /\ HistoryApart(a) /\ CreditsApart(a)
  BY DEF TagInv, TypeInv, Apart
<1>0. PICK v \in Verdict, l \in Channel : Taken(a, n, v, l)
  BY <1>e, TakeDoes, SMTT(20)
<1>1. /\ Put(a, n, l) /\ feed[a][n].hand = Nobody
      /\ pending' = [pending EXCEPT ![a] = [t \in DOMAIN pending[a] \ {v.tag} |-> pending[a][t]]]
      /\ \/ /\ v.tag \in DOMAIN pending[a] /\ l.hand \in Holding
            /\ l.hand.tag = v.tag /\ l.hand.name = pending[a][v.tag]
         \/ l.hand = Nobody
  BY <1>0 DEF Taken
<1>2. UNCHANGED <<firedAs, pool, history>>
  BY DEF Take
<1>3. \A b \in Attackers : DOMAIN pending'[b] \subseteq DOMAIN pending[b]
  BY <1>e, <1>1 DEF EngineTyped
<1>4. ASSUME NEW b \in Attackers, b # a PROVE Apart(b)'
  BY <1>e, <1>1, <1>2, <1>3, <1>4, OneHand, ApartKept DEF TagInv
<1>5. Grows(a)
  BY <1>2, <1>3, GrowsBy
<1>6. ASSUME l.hand = Nobody PROVE Apart(a)'
  BY <1>e, <1>1, <1>2, <1>3, <1>6, OneHand, ApartKept DEF TagInv
<1>7. ASSUME l.hand # Nobody PROVE Apart(a)'
  <2>1. /\ v.tag \in DOMAIN pending[a] /\ l.hand.tag = v.tag /\ l.hand.name = pending[a][v.tag]
    BY <1>1, <1>7
  <2>2. PICK t, name : t = l.hand.tag /\ name = l.hand.name
    OBVIOUS
  <2>3. t \in DOMAIN pending[a] /\ t \in DOMAIN firedAs[a] /\ firedAs[a][t] = name
        /\ t \notin DOMAIN pending'[a]
    BY <1>e, <1>1, <2>1, <2>2 DEF EngineTyped
  <2>4. t \in Answered(a, name)'
    BY <1>2, <2>3 DEF Answered
  <2>5. \A other : t \notin Answered(a, other)
    BY <2>3 DEF Answered
  <2>6. feed'[a][n].hand = l.hand /\ \A m \in Links : m # n => feed'[a][m].hand = feed[a][m].hand
    BY <1>e, <1>1, OneHand
  <2>7. HandsApart(a)'
    <3>1. \A m \in Links : m # n /\ feed[a][m].hand # Nobody => feed[a][m].hand.tag # t
      BY <1>e, <2>5 DEF HandsApart
    <3>2. ASSUME NEW m \in Links, feed'[a][m].hand # Nobody
          PROVE  (feed[a][m].hand.tag \in Answered(a, feed[a][m].hand.name))'
      <4>1. CASE m = n
        BY <2>2, <2>4, <2>6, <4>1 DEF Answered
      <4>2. CASE m # n
        <5>1. PICK u, who : u = feed[a][m].hand.tag /\ who = feed[a][m].hand.name
          OBVIOUS
        <5>2. u \in Answered(a, who)
          BY <1>e, <2>6, <3>2, <4>2, <5>1 DEF HandsApart
        <5>3. u \in Answered(a, who)'
          BY <1>5, <5>2 DEF Grows
        <5> QED BY <2>6, <4>2, <5>1, <5>3 DEF Answered
      <4> QED BY <4>1, <4>2
    <3>3. ASSUME NEW m \in Links, NEW k \in Links, m # k,
                 feed'[a][m].hand # Nobody, feed'[a][k].hand # Nobody
          PROVE  feed'[a][k].hand.tag # feed'[a][m].hand.tag
      BY <1>e, <2>2, <2>6, <3>1, <3>3 DEF HandsApart
    <3> QED BY <3>2, <3>3 DEF HandsApart
  <2>8. HistoryApart(a)'
    <3>1. \A i \in 1 .. Len(history[a]) : t # history[a][i].tag
      BY <1>e, <2>5 DEF HistoryApart
    <3>2. \A i \in 1 .. Len(history[a]) : \A m \in Links :
             feed'[a][m].hand # Nobody => feed'[a][m].hand.tag # history[a][i].tag
      BY <1>e, <2>2, <2>6, <3>1 DEF HistoryApart
    <3>3. \A i \in 1 .. Len(history[a]) : \A q :
            history[a][i].name = q => history[a][i].tag \in Answered(a, q)'
      BY <1>e, <1>5 DEF HistoryApart, Grows
    <3> QED BY <1>e, <1>2, <3>2, <3>3 DEF HistoryApart
  <2>9. CreditsApart(a)'
    <3>1. \A i \in DOMAIN pool[a] : t \notin pool[a][i].heard
      BY <1>e, <2>5 DEF CreditsApart
    <3>2. \A i \in DOMAIN pool[a] : \A m \in Links :
             feed'[a][m].hand.at = "score" => feed'[a][m].hand.tag \notin pool[a][i].heard
      BY <1>e, <2>2, <2>6, <3>1 DEF CreditsApart
    <3>3. \A i \in DOMAIN pool[a] : \A q :
            pool[a][i].name = q => pool[a][i].heard \subseteq Answered(a, q)'
      BY <1>e, <1>5 DEF CreditsApart, Grows
    <3> QED BY <1>e, <1>2, <3>2, <3>3 DEF CreditsApart
  <2> QED BY <2>7, <2>8, <2>9 DEF Apart
<1> QED BY <1>4, <1>6, <1>7 DEF TagInv

\* What it holds is credited once.
LEMMA ScoreTags ==
    ASSUME TagInv, TypeInv', NEW a \in Attackers, NEW n \in Links, Score(a, n) PROVE TagInv'
<1>e. TypeInv /\ EngineTyped /\ HandsApart(a) /\ HistoryApart(a) /\ CreditsApart(a)
  BY DEF TagInv, TypeInv, Apart
<1>1. /\ feed[a][n].hand.at = "score" /\ feed[a][n].hand # Nobody
      /\ Put(a, n, Link(feed[a][n], feed[a][n].inbox,
                        Hand(feed[a][n].hand, feed[a][n].hand.name, "tally")))
  BY <1>e, HandHolds DEF Score, Put
<1>2. PICK l \in Channel : /\ Put(a, n, l) /\ l.hand.tag = feed[a][n].hand.tag
                           /\ l.hand.name = feed[a][n].hand.name /\ l.hand.at = "tally"
  BY <1>e, <1>1, HandGoesOn
<1>3. UNCHANGED <<firedAs, pending, history>>
  BY DEF Score
<1>4. \A b \in Attackers : Fewer(b) /\ Grows(b)
  BY <1>e, <1>1, <1>2, <1>3, OneHand, GrowsBy
<1>5. PICK h \in Holding : h = feed[a][n].hand
  BY <1>e, <1>1, HandHolds
<1>6. pool' = [pool EXCEPT ![a] = pool[a]] \/ pool' = [pool EXCEPT ![a] = Credited(pool[a], h)]
  BY <1>5 DEF Score
<1>7. ASSUME NEW b \in Attackers, b # a PROVE Apart(b)'
  <2>1. pool'[b] = pool[b]
    BY <1>e, <1>6, <1>7 DEF EngineTyped
  <2> QED BY <1>3, <1>4, <2>1, ApartKept DEF TagInv
<1>8. PICK m \in {Profiles, Size} : m \in Nat /\ pool[a] \in [1 .. m -> Profile]
  BY <1>e, PoolTyped
<1>9. pool'[a] = pool[a] \/ pool'[a] = Credited(pool[a], h)
  BY <1>e, <1>6 DEF EngineTyped
<1>10. \/ pool'[a] = pool[a]
       \/ \E i \in 1 .. m : /\ pool[a][i].name = h.name
                            /\ pool'[a] = [pool[a] EXCEPT ![i] = Outcome(pool[a][i], h)]
  <2>1. \/ Credited(pool[a], h) = pool[a]
        \/ \E i \in 1 .. m : CreditedTo(i, pool[a], h)
    BY <1>8, CreditFacts
  <2> QED BY <1>9, <2>1 DEF CreditedTo
<1>11. ASSUME pool'[a] = pool[a] PROVE CreditsApart(a)'
  BY <1>e, <1>4, <1>11, CreditsKeep
<1>12. ASSUME NEW i \in 1 .. m, pool[a][i].name = h.name,
              pool'[a] = [pool[a] EXCEPT ![i] = Outcome(pool[a][i], h)]
       PROVE  CreditsApart(a)'
  <2>1. /\ DOMAIN pool[a] = 1 .. m /\ DOMAIN pool'[a] = 1 .. m
        /\ pool'[a][i] = Outcome(pool[a][i], h)
        /\ \A j \in 1 .. m : j # i => pool'[a][j] = pool[a][j]
    BY <1>8, <1>12
  <2>2. PICK p \in Profile : p = pool[a][i]
    BY <1>8
  <2>3. PICK q \in Profile : /\ q = pool'[a][i] /\ q.name = p.name /\ q.sent = p.sent + 1
                             /\ q.heard = p.heard \cup {h.tag}
    <3>1. /\ Outcome(p, h) \in Profile /\ Outcome(p, h).name = p.name
          /\ Outcome(p, h).sent = p.sent + 1 /\ Outcome(p, h).heard = p.heard \cup {h.tag}
      BY OutcomeFacts
    <3> QED BY <2>1, <2>2, <3>1
  <2>4. \A j \in 1 .. m : h.tag \notin pool[a][j].heard
    BY <1>e, <1>1, <1>5, <2>1 DEF CreditsApart
  <2>5. p.sent = Cardinality(p.heard) /\ IsFiniteSet(p.heard)
        /\ p.heard \subseteq Answered(a, p.name) /\ h.tag \notin p.heard
    BY <1>e, <2>1, <2>2, <2>4 DEF CreditsApart
  <2>6. q.sent = Cardinality(q.heard) /\ IsFiniteSet(q.heard)
    <3>1. /\ IsFiniteSet(p.heard \cup {h.tag})
          /\ Cardinality(p.heard \cup {h.tag}) = Cardinality(p.heard) + 1
      BY <2>5, FS_AddElement
    <3> QED BY <2>3, <2>5, <3>1
  <2>7. h.tag \in Answered(a, q.name)
    BY <1>e, <1>1, <1>5, <1>12, <2>2, <2>3 DEF HandsApart
  <2>8. q.heard \subseteq Answered(a, q.name)
    BY <2>3, <2>5, <2>7
  <2>9. \A k \in Links : feed'[a][k].hand.at = "score" =>
           /\ feed[a][k].hand.at = "score" /\ feed'[a][k].hand.tag = feed[a][k].hand.tag
           /\ k # n /\ feed[a][k].hand.tag # h.tag
    <3>1. feed'[a][n].hand = l.hand /\ \A k \in Links : k # n => feed'[a][k].hand = feed[a][k].hand
      BY <1>e, <1>2, OneHand
    <3>2. \A k \in Links : k # n /\ feed[a][k].hand.at = "score" => feed[a][k].hand.tag # h.tag
      BY <1>e, <1>1, <1>5, HandHolds DEF HandsApart
    <3> QED BY <1>2, <3>1, <3>2
  <2>10. ASSUME NEW j \in 1 .. m
         PROVE  /\ pool'[a][j].sent = Cardinality(pool'[a][j].heard) /\ IsFiniteSet(pool'[a][j].heard)
                /\ (pool[a][j].heard \subseteq Answered(a, pool[a][j].name))'
                /\ \A k \in Links : feed'[a][k].hand.at = "score" =>
                                      feed'[a][k].hand.tag \notin pool'[a][j].heard
    <3>1. CASE j = i
      <4>1. \A k \in Links : feed'[a][k].hand.at = "score" => feed'[a][k].hand.tag \notin q.heard
        BY <1>e, <2>1, <2>2, <2>3, <2>9 DEF CreditsApart
      <4>2. (pool[a][j].heard \subseteq Answered(a, pool[a][j].name))'
        BY <1>3, <2>3, <2>8, <3>1 DEF Answered
      <4> QED BY <2>3, <2>6, <3>1, <4>1, <4>2
    <3>2. CASE j # i
      <4>1. pool'[a][j] = pool[a][j] /\ j \in DOMAIN pool[a]
        BY <2>1, <3>2
      <4>2. /\ pool[a][j].sent = Cardinality(pool[a][j].heard) /\ IsFiniteSet(pool[a][j].heard)
            /\ pool[a][j].heard \subseteq Answered(a, pool[a][j].name)
            /\ \A k \in Links : feed[a][k].hand.at = "score" =>
                                  feed[a][k].hand.tag \notin pool[a][j].heard
        BY <1>e, <4>1 DEF CreditsApart
      <4>3. (pool[a][j].heard \subseteq Answered(a, pool[a][j].name))'
        BY <1>3, <4>1, <4>2 DEF Answered
      <4> QED BY <2>9, <4>1, <4>2, <4>3
    <3> QED BY <3>1, <3>2
  <2>11. ASSUME NEW j \in 1 .. m, NEW k \in 1 .. m \ {j}
         PROVE  pool'[a][j].heard \cap pool'[a][k].heard = {}
    <3>1. pool[a][j].heard \cap pool[a][k].heard = {}
      BY <1>e, <2>1 DEF CreditsApart
    <3>2. \A x \in 1 .. m : pool'[a][x].heard \subseteq pool[a][x].heard \cup {h.tag}
      BY <2>1, <2>2, <2>3
    <3>3. j = i => pool'[a][k].heard = pool[a][k].heard
      BY <2>1
    <3>4. j # i => pool'[a][j].heard = pool[a][j].heard
      BY <2>1
    <3> QED BY <2>4, <3>1, <3>2, <3>3, <3>4
  <2> QED BY <2>1, <2>10, <2>11 DEF CreditsApart
<1>13. CreditsApart(a)'
  BY <1>10, <1>11, <1>12
<1>14. Apart(a)'
  BY <1>e, <1>3, <1>4, <1>13, HandsKeep, HistoryKeeps DEF Apart
<1> QED BY <1>7, <1>14 DEF TagInv

LEMMA TallyTags ==
    ASSUME TagInv, TypeInv', NEW a \in Attackers, NEW n \in Links, Tally(a, n) PROVE TagInv'
<1>e. TypeInv
  BY DEF TagInv
<1>1. UNCHANGED <<firedAs, pending, history, pool>>
  BY DEF Tally
<1>2. feed[a][n].hand.at = "tally" /\ feed[a][n].hand # Nobody
  BY <1>e, HandHolds DEF Tally
<1>3. \A b \in Attackers : Fewer(b)
  <2>1. CASE LineDone(a, n)
    BY <1>e, <2>1, LineDoneDoes, OneHand
  <2>2. CASE ~LineDone(a, n)
    <3>1. Put(a, n, Link(feed[a][n], feed[a][n].inbox,
                         Hand(feed[a][n].hand, feed[a][n].hand.name, "record")))
      BY <2>2 DEF Tally, Put
    <3>2. PICK l \in Channel : /\ Put(a, n, l) /\ l.hand.tag = feed[a][n].hand.tag
                               /\ l.hand.name = feed[a][n].hand.name /\ l.hand.at = "record"
      BY <1>e, <1>2, <3>1, HandGoesOn
    <3> QED BY <1>e, <1>2, <3>2, OneHand
  <2> QED BY <2>1, <2>2
<1>4. ASSUME NEW b \in Attackers PROVE Apart(b)'
  BY <1>1, <1>3, ApartKept DEF TagInv
<1> QED BY <1>4 DEF TagInv

\* The history takes what the thread held.
LEMMA RecordTags ==
    ASSUME TagInv, TypeInv', NEW a \in Attackers, NEW n \in Links, Record(a, n) PROVE TagInv'
<1>e. TypeInv /\ EngineTyped /\ HandsApart(a) /\ HistoryApart(a) /\ CreditsApart(a)
  BY DEF TagInv, TypeInv, Apart
<1>1. UNCHANGED <<firedAs, pending, pool>>
  BY DEF Record
<1>2. PICK h \in Holding : h = feed[a][n].hand /\ h # Nobody
  BY <1>e, HandHolds DEF Record
<1>3. PICK l \in Channel : Put(a, n, l) /\ l.hand = Nobody
  BY <1>e, LineDoneDoes DEF Record
<1>4. \A b \in Attackers : Fewer(b) /\ Grows(b)
  BY <1>e, <1>1, <1>3, OneHand, GrowsBy
<1>5. history' = [history EXCEPT ![a] = Append(history[a], h)]
  BY <1>2 DEF Record
<1>6. ASSUME NEW b \in Attackers, b # a PROVE Apart(b)'
  <2>1. history'[b] = history[b]
    BY <1>e, <1>5, <1>6 DEF EngineTyped
  <2> QED BY <1>1, <1>4, <2>1, ApartKept DEF TagInv
<1>7. history[a] \in Seq(Holding) /\ history'[a] = Append(history[a], h)
  BY <1>e, <1>5 DEF EngineTyped
<1>8. PICK k \in Nat : k = Len(history[a])
  BY <1>7, LenProperties
<1>9. /\ Len(history'[a]) = k + 1 /\ history'[a][k + 1] = h
      /\ \A i \in 1 .. k : history'[a][i] = history[a][i]
  BY <1>7, <1>8, AppendProperties
<1>10. HistoryApart(a)'
  <2>1. \A i \in 1 .. k : /\ history[a][i].tag \in Answered(a, history[a][i].name)
                          /\ history[a][i].tag # h.tag
                          /\ \A j \in 1 .. k \ {i} : history[a][j].tag # history[a][i].tag
                          /\ \A m \in Links : feed[a][m].hand # Nobody =>
                                                feed[a][m].hand.tag # history[a][i].tag
    BY <1>e, <1>2, <1>8 DEF HistoryApart
  <2>2. feed'[a][n].hand = Nobody /\ \A m \in Links : m # n => feed'[a][m].hand = feed[a][m].hand
    BY <1>e, <1>3, OneHand
  <2>3. /\ h.tag \in Answered(a, h.name)
        /\ \A m \in Links : feed'[a][m].hand # Nobody => feed'[a][m].hand.tag # h.tag
    BY <1>e, <1>2, <2>2 DEF HandsApart
  <2>4. ASSUME NEW i \in 1 .. k + 1
        PROVE  /\ (history[a][i].tag \in Answered(a, history[a][i].name))'
               /\ \A m \in Links : feed'[a][m].hand # Nobody =>
                                     feed'[a][m].hand.tag # history'[a][i].tag
    <3>1. CASE i = k + 1
      <4>1. (history[a][i].tag \in Answered(a, history[a][i].name))'
        BY <1>1, <1>9, <2>3, <3>1 DEF Answered
      <4> QED BY <1>9, <2>3, <3>1, <4>1
    <3>2. CASE i \in 1 .. k
      <4>1. (history[a][i].tag \in Answered(a, history[a][i].name))'
        BY <1>1, <1>9, <2>1, <3>2 DEF Answered
      <4>2. \A m \in Links : feed'[a][m].hand # Nobody => feed'[a][m].hand.tag # history[a][i].tag
        BY <2>1, <2>2, <3>2
      <4> QED BY <1>9, <3>2, <4>1, <4>2
    <3> QED BY <3>1, <3>2
  <2>5. ASSUME NEW i \in 1 .. k + 1, NEW j \in 1 .. k + 1 \ {i}
        PROVE  history'[a][j].tag # history'[a][i].tag
    <3>1. CASE i = k + 1
      <4>1. j \in 1 .. k
        BY <3>1
      <4> QED BY <1>9, <2>1, <3>1, <4>1
    <3>2. CASE j = k + 1
      <4>1. i \in 1 .. k
        BY <3>2
      <4> QED BY <1>9, <2>1, <3>2, <4>1
    <3>3. CASE i \in 1 .. k /\ j \in 1 .. k
      BY <1>9, <2>1, <3>3
    <3> QED BY <3>1, <3>2, <3>3
  <2> QED BY <1>9, <2>4, <2>5 DEF HistoryApart
<1>11. Apart(a)'
  BY <1>e, <1>1, <1>4, <1>10, HandsKeep, CreditsKeep DEF Apart
<1> QED BY <1>6, <1>11 DEF TagInv
LEMMA TagsInductive == TagInv /\ [SNext]_allVars => TagInv'
<1> SUFFICES ASSUME TagInv, [SNext]_allVars PROVE TagInv'
  OBVIOUS
<1>t. TypeInv'
  BY TypesInductive DEF TagInv
<1>s. Shape
  BY DEF TagInv, TypeInv, NetworkTyped, Shape
<1>1. ASSUME Elsewhere \/ \E a \in Attackers : StartSort(a) \/ Connect(a) \/ Report(a)
      PROVE  TagInv'
  <2>1. HandsKept
    BY <1>1, <1>s, HandsKeptBy, SMTT(20)
  <2>2. UNCHANGED <<firedAs, pool, history>>
    BY <1>1 DEF Elsewhere, StartSort, Connect, Report, Deliver, CutAttack, Accept, CutFeedback,
                Overflow, Decide, Broadcast, RestartIDS, engine
  <2> QED BY <1>t, <2>1, <2>2, QuietSteps
<1>2. ASSUME UNCHANGED vars PROVE TagInv'
  <2>1. UNCHANGED <<fired, pending, stats, feed, firedAs, pool, history>>
    BY <1>2 DEF vars, engine, network
  <2>2. HandsKept
    BY <1>s, <2>1 DEF HandsKept, Shape
  <2> QED BY <1>t, <2>1, <2>2, QuietSteps
<1>3. ASSUME NEW a \in Attackers, Own(a) PROVE TagInv'
  <2>1. CASE StartSort(a) \/ Connect(a)
    BY <1>1, <2>1
  <2>2. CASE EndSort(a) \/ Breed(a)
    BY <1>t, <2>2, EndSortTags, BreedTags
  <2>3. ASSUME NEW n \in Links, Take(a, n) \/ Score(a, n) \/ Tally(a, n) \/ Record(a, n)
        PROVE  TagInv'
    BY <1>t, <2>3, TakeTags, ScoreTags, TallyTags, RecordTags
  <2> QED BY <1>3, <2>1, <2>2, <2>3 DEF Own
<1>4. ASSUME NEW a \in Attackers, SFire(a) PROVE TagInv'
  BY <1>t, <1>4, FireTags DEF SFire
<1>5. ASSUME NEW a \in Attackers, Stop(a) PROVE TagInv'
  BY <1>2, <1>5 DEF Stop
<1>6. CASE UNCHANGED allVars
  BY <1>2, <1>6 DEF allVars
<1> QED BY <1>1, <1>3, <1>4, <1>5, <1>6 DEF SNext

\* Whatever profile a verdict is credited to was fired under its name, and no
\* attack is credited twice, whenever evolve replaces the population.
THEOREM CreditIsTrue == SSpec => []CreditIsEarned
<1>1. TagInv => CreditIsEarned
  BY DEF TagInv, Apart, CreditsApart, CreditIsEarned
<1> QED BY <1>1, TagsInitial, TagsInductive, PTL DEF SSpec
-----------------------------------------------------------------------------
(* The report.                                                                *)

LEMMA AnswersStay ==
    ASSUME TypeInv, [SNext]_allVars, NEW b \in Attackers PROVE Grows(b)
<1>1. ASSUME UNCHANGED <<firedAs, pending>> PROVE Grows(b)
  BY <1>1, GrowsBy
<1>2. CASE Elsewhere
  BY <1>1, <1>2 DEF Elsewhere, Deliver, CutAttack, Accept, CutFeedback, Overflow, Decide, Broadcast,
                    RestartIDS, engine
<1>3. ASSUME NEW a \in Attackers, Fire(a) PROVE Grows(b)
  <2>1. CASE a = b
    BY <1>3, <2>1, FireGrows
  <2>2. CASE a # b
    <3>1. firedAs'[b] = firedAs[b] /\ pending'[b] = pending[b]
      BY <1>3, <2>2 DEF Fire, TypeInv, EngineTyped
    <3> QED BY <3>1, GrowsBy
  <2> QED BY <2>1, <2>2
<1>4. ASSUME NEW a \in Attackers, NEW n \in Links, Take(a, n) PROVE Grows(b)
  <2>1. PICK v \in Verdict, l \in Channel : Taken(a, n, v, l)
    BY <1>4, TakeDoes, SMTT(20)
  <2>2. DOMAIN pending'[b] \subseteq DOMAIN pending[b]
    BY <2>1, SMTT(20) DEF Taken, TypeInv, EngineTyped
  <2> QED BY <1>4, <2>2, GrowsBy DEF Take
<1>5. ASSUME NEW a \in Attackers, Own(a) PROVE Grows(b)
  BY <1>1, <1>4, <1>5 DEF Own, StartSort, EndSort, Breed, Connect, Score, Tally, Record, engine
<1>6. ASSUME NEW a \in Attackers, Stop(a) \/ Report(a) PROVE Grows(b)
  BY <1>1, <1>6 DEF Stop, Report, vars, engine
<1>7. CASE UNCHANGED allVars
  BY <1>1, <1>7 DEF allVars, vars, engine
<1> QED BY <1>2, <1>3, <1>5, <1>6, <1>7 DEF SNext, SFire

LEMMA FiniteTags ==
    ASSUME NEW n \in Nat, NEW T, T \subseteq 1 .. n
    PROVE  IsFiniteSet(T) /\ Cardinality(T) \in Nat
<1>1. IsFiniteSet(1 .. n)
  <2>1. 1 \in Int /\ n \in Int
    OBVIOUS
  <2> QED BY <2>1, FS_Interval
<1>2. IsFiniteSet(T)
  BY <1>1, FS_Subset
<1> QED BY <1>2, FS_CardinalityType

LEMMA FiniteAnswers ==
    ASSUME TypeInv, NEW a \in Attackers, NEW name
    PROVE  IsFiniteSet(Answered(a, name)) /\ Cardinality(Answered(a, name)) \in Nat
<1>1. fired[a] \in Nat /\ Answered(a, name) \subseteq 1 .. fired[a]
  BY DEF TypeInv, EngineTyped, Answered
<1> QED BY <1>1, FiniteTags

\* A verdict is of one of the three kinds.
LEMMA RowAddsUp ==
    ASSUME NEW a \in Attackers, NEW is, IsFiniteSet(is)
    PROVE  /\ Row(a, is).sent = Cardinality(is)
           /\ Row(a, is).sent = Row(a, is).blocked + Row(a, is).evaded + Row(a, is).alerted
<1> DEFINE ones(k) == {i \in is : Kind(history[a][i].verdict) = k}
<1>1. /\ Row(a, is).sent = Cardinality(is)
      /\ Row(a, is).blocked = Cardinality(ones("blocked"))
      /\ Row(a, is).evaded = Cardinality(ones("evaded"))
      /\ Row(a, is).alerted = Cardinality(ones("alerted"))
  BY DEF Row
<1>2. \A i \in is : Kind(history[a][i].verdict) \in {"blocked", "evaded", "alerted"}
  BY DEF Kind
<1>3. PICK b, e, l : b = ones("blocked") /\ e = ones("evaded") /\ l = ones("alerted")
  OBVIOUS
<1>4. /\ is = (b \cup e) \cup l /\ b \cap e = {} /\ (b \cup e) \cap l = {}
      /\ b \subseteq is /\ e \subseteq is /\ l \subseteq is
  BY <1>2, <1>3
<1> HIDE DEF ones
<1>5. IsFiniteSet(b) /\ IsFiniteSet(e) /\ IsFiniteSet(l)
  BY <1>4, FS_Subset
<1>6. Cardinality(b) \in Nat /\ Cardinality(e) \in Nat /\ Cardinality(l) \in Nat
  BY <1>5, FS_CardinalityType
<1>7. IsFiniteSet(b \cup e) /\ Cardinality(b \cup e) = Cardinality(b) + Cardinality(e)
  <2>1. /\ IsFiniteSet(b \cup e)
        /\ Cardinality(b \cup e) = Cardinality(b) + Cardinality(e) - Cardinality(b \cap e)
    BY <1>5, FS_Union
  <2> QED BY <1>4, <1>6, <2>1, FS_EmptySet
<1>8. Cardinality((b \cup e) \cup l) = Cardinality(b) + Cardinality(e) + Cardinality(l)
  <2>1. PICK u : u = b \cup e
    OBVIOUS
  <2>2. Cardinality(u \cup l) = Cardinality(u) + Cardinality(l) - Cardinality(u \cap l)
    BY <1>5, <1>7, <2>1, FS_Union
  <2>3. Cardinality(u \cap l) = 0
    BY <1>4, <2>1, FS_EmptySet
  <2> QED BY <1>6, <1>7, <2>1, <2>2, <2>3
<1> QED BY <1>1, <1>3, <1>4, <1>8

\* Different outcomes of a name are those of different attacks.
LEMMA RowsAnswered ==
    ASSUME TagInv, NEW a \in Attackers, NEW name, NEW is,
           is \subseteq {i \in 1 .. Len(history[a]) : history[a][i].name = name}
    PROVE  IsFiniteSet(is) /\ Cardinality(is) <= Cardinality(Answered(a, name))
<1>1. \A i \in is : history[a][i].tag \in Answered(a, name)
  BY DEF TagInv, Apart, HistoryApart
<1>2. \A i, j \in is : history[a][i].tag = history[a][j].tag => i = j
  BY DEF TagInv, Apart, HistoryApart
<1> DEFINE f == [i \in is |-> history[a][i].tag]
<1>3. f \in [is -> Answered(a, name)] /\ \A i, j \in is : f[i] = f[j] => i = j
  BY <1>1, <1>2
<1>4. f \in Injection(is, Answered(a, name))
  BY <1>3 DEF Injection, IsInjective
<1>5. IsFiniteSet(Answered(a, name))
  BY FiniteAnswers DEF TagInv
<1> QED BY <1>4, <1>5, FS_Injection

RowsInv ==
    /\ TagInv /\ ReportIsEarned /\ DOMAIN rows = Attackers
    /\ \A a \in Attackers : \A name \in DOMAIN rows[a] : rows[a][name].sent \in Nat

LEMMA LatestOnes ==
    ASSUME TypeInv, NEW a \in Attackers PROVE Latest(a) \subseteq 1 .. Len(history[a])
<1>1. PICK k \in Int : k = Len(history[a]) + 1 - Recent
  <2>1. Len(history[a]) \in Nat
    BY LenProperties DEF TypeInv, EngineTyped
  <2>2. Len(history[a]) + 1 - Recent \in Int
    BY <2>1, RecentAssumption
  <2> QED BY <2>2
<1>2. \E x \in {1, k} : \A y \in {1, k} : x >= y
  OBVIOUS
<1>3. Max({1, k}) \in {1, k} /\ \A y \in {1, k} : Max({1, k}) >= y
  BY <1>2 DEF Max
<1>4. PICK x \in Int : x = Max({1, k}) /\ x >= 1
  BY <1>3
<1> QED BY <1>1, <1>4 DEF Latest

\* What an attacker's report says of a profile is earned, whatever arrives
\* while it is read and after.
THEOREM ReportsAreTrue == SSpec => []ReportIsEarned
<1>1. SInit => RowsInv
  <2> SUFFICES ASSUME SInit PROVE RowsInv
    OBVIOUS
  <2>1. DOMAIN rows = Attackers /\ \A a \in Attackers : DOMAIN rows[a] = {}
    BY DEF SInit
  <2> QED BY <2>1, TagsInitial DEF RowsInv, ReportIsEarned
<1>2. RowsInv /\ [SNext]_allVars => RowsInv'
  <2> SUFFICES ASSUME RowsInv, [SNext]_allVars PROVE RowsInv'
    OBVIOUS
  <2>1. TagInv' /\ TypeInv /\ TypeInv'
    BY TagsInductive DEF RowsInv, TagInv
  <2>2. ASSUME NEW a \in Attackers, NEW name
        PROVE  /\ Cardinality(Answered(a, name)) <= Cardinality(Answered(a, name)')
               /\ Cardinality(Answered(a, name)) \in Nat /\ Cardinality(Answered(a, name)') \in Nat
    <3>1. Answered(a, name) \subseteq Answered(a, name)'
      BY <2>1, AnswersStay DEF Grows
    <3>2. IsFiniteSet(Answered(a, name)') /\ Cardinality(Answered(a, name)') \in Nat
      <4>1. fired'[a] \in Nat /\ Answered(a, name)' \subseteq 1 .. fired'[a]
        BY <2>1 DEF TypeInv, EngineTyped, Answered
      <4> QED BY <4>1, FiniteTags
    <3>3. Cardinality(Answered(a, name)) \in Nat
      BY <2>1, FiniteAnswers
    <3> QED BY <3>1, <3>2, <3>3, FS_Subset
  <2> DEFINE Earned(row, a, name) ==
               /\ row.sent \in Nat /\ row.sent <= Cardinality(Answered(a, name))
               /\ row.sent = row.blocked + row.evaded + row.alerted
  <2>3. \A a \in Attackers : \A name \in DOMAIN rows[a] : Earned(rows[a][name], a, name)
    BY DEF RowsInv, ReportIsEarned
  <2>4. /\ DOMAIN rows' = Attackers
        /\ \A a \in Attackers : \A name \in DOMAIN rows'[a] : Earned(rows'[a][name], a, name)
    <3>1. CASE UNCHANGED rows
      BY <2>3, <3>1 DEF RowsInv
    <3>2. ASSUME NEW a \in Attackers, Report(a)
          PROVE  /\ DOMAIN rows' = Attackers
                 /\ \A b \in Attackers : \A name \in DOMAIN rows'[b] : Earned(rows'[b][name], b, name)
      <4>1. /\ DOMAIN rows' = Attackers /\ rows'[a] = RowsOf(a)
            /\ \A b \in Attackers : b # a => rows'[b] = rows[b]
        BY <3>2 DEF Report, RowsInv
      <4>2. ASSUME NEW name \in DOMAIN RowsOf(a) PROVE Earned(RowsOf(a)[name], a, name)
        <5>1. PICK is : is = {i \in Latest(a) : history[a][i].name = name}
          OBVIOUS
        <5>2. RowsOf(a)[name] = Row(a, is)
          BY <4>2, <5>1 DEF RowsOf
        <5>3. is \subseteq {i \in 1 .. Len(history[a]) : history[a][i].name = name}
          BY <2>1, <5>1, LatestOnes
        <5>4. IsFiniteSet(is) /\ Cardinality(is) <= Cardinality(Answered(a, name))
          BY <5>3, RowsAnswered DEF RowsInv
        <5>5. Cardinality(is) \in Nat
          BY <5>4, FS_CardinalityType
        <5> QED BY <5>2, <5>4, <5>5, RowAddsUp
      <4> HIDE DEF Earned
      <4> QED BY <2>3, <4>1, <4>2
    <3>3. (\E a \in Attackers : Report(a)) \/ UNCHANGED rows
      BY DEF SNext, SFire, Stop, session, allVars
    <3> QED BY <3>1, <3>2, <3>3
  <2>5. ASSUME NEW a \in Attackers, NEW name \in DOMAIN rows'[a]
        PROVE  /\ rows'[a][name].sent \in Nat
               /\ rows'[a][name].sent <= Cardinality(Answered(a, name)')
               /\ rows'[a][name].sent =
                    rows'[a][name].blocked + rows'[a][name].evaded + rows'[a][name].alerted
    BY <2>2, <2>4
  <2> HIDE DEF Earned
  <2> QED BY <2>1, <2>4, <2>5 DEF RowsInv, ReportIsEarned
<1>3. RowsInv => ReportIsEarned
  BY DEF RowsInv
<1> QED BY <1>1, <1>2, <1>3, PTL DEF SSpec
=============================================================================
