----------------------------- MODULE AttackLoop -----------------------------
(***************************************************************************)
(* Attackers that stream tagged attacks to the IDS over one connection,    *)
(* hear its verdicts over another and evolve their profiles by them:       *)
(* AttackEngine, MutationEngine and RemoteAttackSender on the attacker's   *)
(* side, RemoteAttackListener and DecisionFeedbackServer on the IDS's.     *)
(*                                                                         *)
(* The engine's thread fires and evolves.  A feedback thread per           *)
(* connection reads verdicts and scores them.  Connections break and the   *)
(* IDS restarts: MaxCuts faults.  Between the two servers lies the bus,    *)
(* the lossy queue that EventBus implements, and a handler that takes a    *)
(* verdict of any kind or raises (other modules say which and when).       *)
(* Session puts the actions together and ends them.                        *)
(***************************************************************************)
EXTENDS Integers, Sequences, FiniteSets, TLC, SequencesExt, FiniteSetsExt

CONSTANTS
  Attackers,      \* the machines that run the attacker
  Profiles,       \* how many profiles an attacker starts with
  Verdicts,       \* the decisions the pipeline may take
  MinSent,        \* outcomes before a profile's fitness counts: 3
  Size,           \* POPULATION_SIZE: 20
  Elite,          \* ELITE_KEEP: 4
  Contestants,    \* the size of a tournament: 3
  EvolveInterval, \* attacks between two evolutions: 30
  MaxFired,       \* bound: attacks of an attacker
  MaxGen,         \* bound: evolutions of its population
  MaxLinks,       \* bound: times an attacker connects
  MaxCuts         \* bound: faults

ASSUME BoundsAssumption ==
  /\ {Profiles, MinSent, Size, Contestants, EvolveInterval, MaxLinks}
       \subseteq Nat \ {0}
  /\ {Elite, MaxFired, MaxGen, MaxCuts} \subseteq Nat
  /\ Elite <= Size /\ Elite <= Profiles
  /\ Verdicts \subseteq {"Ignore", "Log", "Alert", "Block", "Escalate"}

VARIABLES
  fired,      \* total_sent of each attacker
  pending,    \* atk_tag -> the name of the profile that fired it
  firedAs,    \* history: the names the attacks were fired under
  sure,       \* history: attacks fired while the verdicts' connection stood,
              \* but for those the bus displaced or the handler failed on
  pool,       \* the population of each MutationEngine
  phase,      \* where the engine's thread is
  gen,        \* the generation
  stats,      \* total_blocked, total_evaded, total_alerted
  history,    \* _decision_history
  sock,       \* the sender: "none" (not connected), "ok" or "broken"
  wire,       \* attacks sent and not read by the listener
  feed,       \* the feedback connections of each attacker
  jobs,       \* the attacks in the bus's queue at the IDS
  outs,       \* decoder outputs that wait for the two side threads
  clients,    \* the connections the feedback server holds
  cuts        \* faults so far

engine  == <<fired, pending, firedAs, pool, phase, gen, stats, history>>
network == <<sock, wire, feed, clients>>
vars    == <<engine, network, jobs, outs, sure, cuts>>

Tags  == 1 .. MaxFired
Links == 1 .. MaxLinks
Nobody == [name |-> <<>>, at |-> "recv"]

\* A profile nothing is known of.  A name is the base profile's number, what a
\* child appends to its parent's, and what joins the names of two parents.  The
\* tags in heard, a history, are those of the outcomes it is credited with.
Fresh(name) == [name |-> name, sent |-> 0, blocked |-> 0, evaded |-> 0,
                alerted |-> 0, heard |-> {}]
NoLink == [open |-> FALSE, used |-> FALSE, inbox |-> <<>>, hand |-> Nobody]

\* A connection whose thread has read and holds what is said.
Link(l, inbox, hand) ==
  [open |-> l.open, used |-> l.used, inbox |-> inbox, hand |-> hand]
Hand(v, name, at) ==
  [of |-> v.of, tag |-> v.tag, verdict |-> v.verdict, name |-> name, at |-> at]
Opened(l, up) == [open |-> up, used |-> TRUE, inbox |-> l.inbox, hand |-> l.hand]
Dead(l) == [open |-> FALSE, used |-> l.used, inbox |-> <<>>, hand |-> l.hand]

Init ==
  /\ fired   = [a \in Attackers |-> 0]
  /\ pending = [a \in Attackers |-> <<>>]
  /\ firedAs = [a \in Attackers |-> <<>>]
  /\ sure    = [a \in Attackers |-> {}]
  /\ pool    = [a \in Attackers |-> [i \in 1 .. Profiles |-> Fresh(<<i>>)]]
  /\ phase   = [a \in Attackers |-> "fire"]
  /\ gen     = [a \in Attackers |-> 0]
  /\ stats   = [a \in Attackers |-> [blocked |-> 0, evaded |-> 0, alerted |-> 0]]
  /\ history = [a \in Attackers |-> <<>>]
  /\ sock    = [a \in Attackers |-> "none"]
  /\ wire    = [a \in Attackers |-> <<>>]
  /\ feed    = [a \in Attackers |-> [n \in Links |-> NoLink]]
  /\ jobs = <<>> /\ outs = <<>> /\ clients = {} /\ cuts = 0

-----------------------------------------------------------------------------
(* The mutation engine. *)

\* fitness, as a fraction.  The IDS never sends the "predicted" that would make
\* it zero, and a Log counts as an alert here.
Fitness(p) ==
  IF p.sent < MinSent THEN [of |-> 1, in |-> 2]
  ELSE [of |-> Max({0, 5 * p.evaded + p.alerted - 5 * p.blocked}),
        in |-> 5 * p.sent]

Fitter(p, q) == Fitness(p).of * Fitness(q).in > Fitness(q).of * Fitness(p).in

\* While list.sort runs the keys, other threads see the list empty.
Seen(a) == IF phase[a] = "sorting" THEN <<>> ELSE pool[a]

\* ProfileFitness.record_outcome, of what a feedback thread holds.
Outcome(p, h) ==
  [p EXCEPT !.sent = @ + 1,
            !.blocked = @ + (IF h.verdict \in {"Block", "Escalate"} THEN 1 ELSE 0),
            !.evaded  = @ + (IF h.verdict = "Ignore" THEN 1 ELSE 0),
            !.alerted = @ + (IF h.verdict \in {"Alert", "Log"} THEN 1 ELSE 0),
            !.heard   = @ \cup {h.tag}]

\* MutationEngine.record_outcome: the first profile of that name, if any.
Bearers(ps, name) == {i \in DOMAIN ps : ps[i].name = name}

\* Slip: every profile of that name is credited.
CreditedAll(ps, h) ==
  [i \in DOMAIN ps |->
     IF ps[i].name = h.name THEN Outcome(ps[i], h) ELSE ps[i]]

Credited(ps, h) ==
  IF Bearers(ps, h.name) = {} THEN ps
  ELSE [ps EXCEPT ![Min(Bearers(ps, h.name))] = Outcome(@, h)]

\* A stable sort, the fittest first.
Sorts(order, ps) ==
  \A i, j \in DOMAIN ps : i < j =>
    /\ ~Fitter(ps[order[j]], ps[order[i]])
    /\ Fitter(ps[order[i]], ps[order[j]]) \/ order[i] < order[j]

\* The profiles that may win a tournament.
Winners(ps) ==
  {i \in DOMAIN ps : \E S \in kSubset(Min({Contestants, Len(ps)}), DOMAIN ps) :
                       i \in S /\ \A j \in S : ~Fitter(ps[j], ps[i])}

\* The names a child may get: siblings of one parent share theirs.
Crossed(p, q) == p \o <<0>> \o q

ChildNames(ps, g) ==
  LET parents == {ps[i].name : i \in Winners(ps)}
      stems   == parents \cup {Crossed(p, q) : p, q \in parents}
  IN  {stem \o <<-g>> : stem \in stems}

Bred(ps, kids) ==
  [i \in 1 .. Size |-> IF i <= Elite THEN ps[i] ELSE Fresh(kids[i - Elite])]

-----------------------------------------------------------------------------
(* The engine's thread: _loop. *)

\* The names of the tags up to t, which is new.
Noted(names, t, name) ==
  [u \in DOMAIN names \cup {t} |-> IF u = t THEN name ELSE names[u]]

Listening(a) == \E n \in Links : feed[a][n].open /\ <<a, n>> \in clients

\* _fire and the sender's emit.  A write on a broken connection fails and marks
\* it, or is lost in the socket's buffer.
Fire(a) ==
  /\ phase[a] = "fire"
  /\ fired[a] < MaxFired
  /\ fired' = [fired EXCEPT ![a] = @ + 1]
  /\ \E i \in DOMAIN pool[a] :
       /\ pending' = [pending EXCEPT ![a] = Noted(@, fired'[a], pool[a][i].name)]
       /\ firedAs' = [firedAs EXCEPT ![a] = Noted(@, fired'[a], pool[a][i].name)]
  /\ \/ /\ sock[a] = "ok"
        /\ wire' = [wire EXCEPT ![a] = Append(@, fired'[a])]
        /\ UNCHANGED sock
     \/ /\ sock[a] = "broken"
        /\ sock' \in {sock, [sock EXCEPT ![a] = "none"]}
        /\ UNCHANGED wire
     \/ sock[a] = "none" /\ UNCHANGED <<sock, wire>>
  /\ sure' = [sure EXCEPT ![a] =
       @ \cup {t \in {fired'[a]} : sock[a] = "ok" /\ Listening(a)}]
  /\ phase' = [phase EXCEPT ![a] =
       IF fired'[a] % EvolveInterval = 0 /\ gen[a] < MaxGen THEN "due" ELSE @]
  /\ UNCHANGED <<pool, gen, stats, history, feed, jobs, outs, clients, cuts>>

\* evolve: population.sort, in place, by fitness.
StartSort(a) ==
  /\ phase[a] = "due"
  /\ phase' = [phase EXCEPT ![a] = "sorting"]
  /\ gen' = [gen EXCEPT ![a] = @ + 1]
  /\ UNCHANGED <<fired, pending, firedAs, pool, stats, history, network, jobs, outs, sure, cuts>>

EndSort(a) ==
  /\ phase[a] = "sorting"
  /\ \E order \in Bijection(DOMAIN pool[a], DOMAIN pool[a]) :
       /\ Sorts(order, pool[a])
       /\ pool' = [pool EXCEPT ![a] = [i \in DOMAIN @ |-> @[order[i]]]]
  /\ phase' = [phase EXCEPT ![a] = "sorted"]
  /\ UNCHANGED <<fired, pending, firedAs, gen, stats, history, network, jobs, outs, sure, cuts>>

\* The elites and their children become the population.
Breed(a) ==
  /\ phase[a] = "sorted"
  /\ \E kids \in [1 .. Size - Elite -> ChildNames(pool[a], gen[a])] :
       pool' = [pool EXCEPT ![a] = Bred(@, kids)]
  /\ phase' = [phase EXCEPT ![a] = "fire"]
  /\ UNCHANGED <<fired, pending, firedAs, gen, stats, history, network, jobs, outs, sure, cuts>>

-----------------------------------------------------------------------------
(* The sender's connections. *)

\* _connect_loop reconnects once a send has failed, and starts a feedback
\* thread whose own connection may be refused.  Threads of earlier connections
\* live on if theirs is still open.
Connect(a) ==
  /\ sock[a] = "none"
  /\ \E n \in Links :
       /\ ~feed[a][n].used /\ \A m \in 1 .. n - 1 : feed[a][m].used
       /\ \E up \in BOOLEAN :
            feed' = [feed EXCEPT ![a][n] = Opened(@, up)]
  /\ sock' = [sock EXCEPT ![a] = "ok"]
  /\ UNCHANGED <<engine, wire, jobs, outs, clients, sure, cuts>>

\* The server's _accept_loop takes a connection from the backlog.
Accept(a, n) ==
  /\ feed[a][n].open /\ <<a, n>> \notin clients
  /\ clients' = clients \cup {<<a, n>>}
  /\ UNCHANGED <<engine, sock, wire, feed, jobs, outs, sure, cuts>>

\* Slip: the tag is looked up and only forgotten when the outcome is tallied.
TakeAndKeep(a, n) ==
  /\ feed[a][n].hand = Nobody /\ feed[a][n].inbox # <<>>
  /\ LET v == Head(feed[a][n].inbox) IN
       IF v.tag \in DOMAIN pending[a]
         THEN feed' = [feed EXCEPT ![a][n] =
                Link(@, Tail(@.inbox), Hand(v, pending[a][v.tag], "score"))]
         ELSE feed' = [feed EXCEPT ![a][n] = Link(@, Tail(@.inbox), Nobody)]
  /\ UNCHANGED <<engine, sock, wire, jobs, outs, clients, sure, cuts>>

\* _on_decoder_output pops the tag; it ignores a tag that is unknown or done.
Take(a, n) ==
  /\ feed[a][n].hand = Nobody /\ feed[a][n].inbox # <<>>
  /\ LET v == Head(feed[a][n].inbox) IN
       /\ IF v.tag \in DOMAIN pending[a]
            THEN feed' = [feed EXCEPT ![a][n] =
                   Link(@, Tail(@.inbox), Hand(v, pending[a][v.tag], "score"))]
            ELSE feed' = [feed EXCEPT ![a][n] = Link(@, Tail(@.inbox), Nobody)]
       /\ pending' = [pending EXCEPT ![a] = [t \in DOMAIN @ \ {v.tag} |-> @[t]]]
  /\ UNCHANGED <<fired, firedAs, pool, phase, gen, stats, history, sock, wire,
                 jobs, outs, clients, sure, cuts>>

Score(a, n) ==
  LET h == feed[a][n].hand IN
  /\ h.at = "score"
  /\ pool' = [pool EXCEPT ![a] =
       IF phase[a] = "sorting" THEN @ ELSE Credited(@, h)]
  /\ feed' = [feed EXCEPT ![a][n] = Link(@, @.inbox, Hand(h, h.name, "tally"))]
  /\ UNCHANGED <<fired, pending, firedAs, phase, gen, stats, history, sock, wire,
                 jobs, outs, clients, sure, cuts>>

Kind(v) == CASE v \in {"Block", "Escalate"} -> "blocked"
             [] v \in {"Ignore", "Log"}     -> "evaded"
             [] OTHER                       -> "alerted"

\* A line is done.  The thread ends if its loop then finds the sender
\* disconnected; lines of a chunk it has read go first.
LineDone(a, n) ==
  \E gone \in IF sock[a] = "none" THEN BOOLEAN ELSE {FALSE} :
    feed' = [feed EXCEPT ![a][n] =
      Link(IF gone THEN Dead(@) ELSE @, IF gone THEN <<>> ELSE @.inbox, Nobody)]

\* The statistics, then max() over the population, which raises while the
\* population is being sorted: the outcome is then missing from the history.
Tally(a, n) ==
  LET h == feed[a][n].hand IN
  /\ h.at = "tally"
  /\ stats' = [stats EXCEPT ![a][Kind(h.verdict)] = @ + 1]
  /\ IF Seen(a) = <<>> THEN LineDone(a, n)
     ELSE feed' = [feed EXCEPT ![a][n] = Link(@, @.inbox, Hand(h, h.name, "record"))]
  /\ UNCHANGED <<fired, pending, firedAs, pool, phase, gen, history, sock, wire,
                 jobs, outs, clients, sure, cuts>>

\* The history, outside the lock of the statistics.
Record(a, n) ==
  LET h == feed[a][n].hand IN
  /\ h.at = "record"
  /\ history' = [history EXCEPT ![a] = Append(@, h)]
  /\ LineDone(a, n)
  /\ UNCHANGED <<fired, pending, firedAs, pool, phase, gen, stats, sock, wire,
                 jobs, outs, clients, sure, cuts>>

-----------------------------------------------------------------------------
(* The IDS. *)

Unsure(job) == [sure EXCEPT ![job.of] = @ \ {job.tag}]

\* The listener's _client_reader emits the line as a network event.  The bus's
\* queue is bounded, and full whenever events from anywhere, which are left
\* out, fill it: the oldest event then gives way (Overflow), or the new one
\* does, when its emit finds the room it has made taken.
Deliver(a) ==
  /\ wire[a] # <<>>
  /\ wire' = [wire EXCEPT ![a] = Tail(@)]
  /\ LET job == [of |-> a, tag |-> Head(wire[a])] IN
       \/ jobs' = Append(jobs, job) /\ UNCHANGED sure
       \/ sure' = Unsure(job) /\ UNCHANGED jobs
  /\ UNCHANGED <<engine, sock, feed, outs, clients, cuts>>

Overflow ==
  /\ jobs # <<>>
  /\ jobs' = Tail(jobs) /\ sure' = Unsure(Head(jobs))
  /\ UNCHANGED <<engine, network, outs, cuts>>

\* on_network_event: a verdict goes out, or the handler raises before the
\* decoder has emitted one and the bus goes on with the next event.
Decide ==
  /\ jobs # <<>> /\ jobs' = Tail(jobs)
  /\ \/ /\ \E v \in Verdicts :
             outs' = Append(outs, [of |-> Head(jobs).of, tag |-> Head(jobs).tag,
                                   verdict |-> v])
        /\ UNCHANGED sure
     \/ sure' = Unsure(Head(jobs)) /\ UNCHANGED outs
  /\ UNCHANGED <<engine, network, cuts>>

\* Slip: the server stops at the first client that fails.
BroadcastUntilDead(k) ==
  /\ k \in DOMAIN outs
  /\ outs' = RemoveAt(outs, k)
  /\ LET dead == {c \in clients : ~feed[c[1]][c[2]].open} IN
       /\ feed' = [a \in Attackers |-> [n \in Links |->
            IF <<a, n>> \in clients /\ feed[a][n].open /\ dead = {}
              THEN Link(feed[a][n], Append(feed[a][n].inbox, outs[k]), feed[a][n].hand)
              ELSE feed[a][n]]]
       /\ clients' = clients \ dead
  /\ UNCHANGED <<engine, sock, wire, jobs, sure, cuts>>

\* _on_decision on one of two side threads: every client gets every verdict,
\* and one that does not answer is dropped.
Broadcast(k) ==
  /\ k \in DOMAIN outs
  /\ outs' = RemoveAt(outs, k)
  /\ feed' = [a \in Attackers |-> [n \in Links |->
       IF <<a, n>> \in clients /\ feed[a][n].open
         THEN Link(feed[a][n], Append(feed[a][n].inbox, outs[k]), feed[a][n].hand)
         ELSE feed[a][n]]]
  /\ clients' = {c \in clients : feed[c[1]][c[2]].open}
  /\ UNCHANGED <<engine, sock, wire, jobs, sure, cuts>>

-----------------------------------------------------------------------------
(* Faults. *)

\* The attack connection breaks: what it carries is lost.
CutAttack(a) ==
  /\ cuts < MaxCuts /\ sock[a] = "ok"
  /\ sock' = [sock EXCEPT ![a] = "broken"]
  /\ wire' = [wire EXCEPT ![a] = <<>>]
  /\ cuts' = cuts + 1 /\ sure' = [sure EXCEPT ![a] = {}]
  /\ UNCHANGED <<engine, feed, clients, jobs, outs>>

\* A feedback connection breaks: its thread ends and nothing starts another
\* before the attack connection fails too.
CutFeedback(a, n) ==
  /\ cuts < MaxCuts /\ feed[a][n].open
  /\ feed' = [feed EXCEPT ![a][n] = Dead(@)]
  /\ cuts' = cuts + 1 /\ sure' = [sure EXCEPT ![a] = {}]
  /\ UNCHANGED <<engine, sock, wire, clients, jobs, outs>>

\* The IDS restarts: its queues and every connection are gone.
RestartIDS ==
  /\ cuts < MaxCuts
  /\ sock' = [a \in Attackers |-> IF sock[a] = "ok" THEN "broken" ELSE sock[a]]
  /\ wire' = [a \in Attackers |-> <<>>]
  /\ feed' = [a \in Attackers |-> [n \in Links |-> Dead(feed[a][n])]]
  /\ jobs' = <<>> /\ outs' = <<>> /\ clients' = {}
  /\ cuts' = cuts + 1 /\ sure' = [a \in Attackers |-> {}]
  /\ UNCHANGED engine

-----------------------------------------------------------------------------
\* What the threads of an attacker do, but for firing.
Own(a) ==
  \/ StartSort(a) \/ EndSort(a) \/ Breed(a) \/ Connect(a)
  \/ \E n \in Links : Take(a, n) \/ Score(a, n) \/ Tally(a, n) \/ Record(a, n)

\* The network and the IDS.
Elsewhere ==
  \/ \E a \in Attackers : Deliver(a) \/ CutAttack(a)
  \/ \E a \in Attackers, n \in Links : Accept(a, n) \/ CutFeedback(a, n)
  \/ Overflow \/ Decide
  \/ \E k \in {1, 2} : Broadcast(k)
  \/ RestartIDS

-----------------------------------------------------------------------------
(* Properties. *)

Untold(a) == {n \in Links : feed[a][n].hand.at \in {"score", "tally"}}

\* An attack counts in the statistics exactly once, when its verdict has been
\* scored: until then it is pending or in one feedback thread's hands, also
\* when two threads of the sender hear every verdict.
CountedOnce ==
  \A a \in Attackers :
    stats[a].blocked + stats[a].evaded + stats[a].alerted
      + Cardinality(DOMAIN pending[a]) + Cardinality(Untold(a)) = fired[a]

Answered(a, name) ==
  {t \in DOMAIN firedAs[a] : firedAs[a][t] = name /\ t \notin DOMAIN pending[a]}

\* Every outcome to a profile's credit is that of an answered attack fired under
\* its name, and no attack is to the credit of two profiles or counted twice,
\* though siblings share a name and evolve sorts and replaces the population
\* while verdicts arrive.
CreditIsEarned ==
  \A a \in Attackers : \A i \in DOMAIN pool[a] :
    /\ pool[a][i].sent = Cardinality(pool[a][i].heard)
    /\ pool[a][i].heard \subseteq Answered(a, pool[a][i].name)
    /\ \A j \in DOMAIN pool[a] \ {i} : pool[a][i].heard \cap pool[a][j].heard = {}

\* The outcomes an attacker learns from are those of its own attacks (the tag is
\* "unique", attack_engine.py:162).
OwnVerdicts ==
  \A a \in Attackers : \A i \in DOMAIN history[a] : history[a][i].of = a

\* A pending attack that was fired while the verdicts' connection stood, that
\* no fault has touched, that the bus has not displaced and that the handler has
\* not failed on is still on its way through the IDS and back: the two servers
\* and the side threads lose no verdict, whatever becomes of other connections.
Coming(a, t) ==
  \/ \E i \in DOMAIN wire[a] : wire[a][i] = t
  \/ \E i \in DOMAIN jobs : jobs[i] = [of |-> a, tag |-> t]
  \/ \E i \in DOMAIN outs : outs[i].of = a /\ outs[i].tag = t
  \/ \E n \in Links : \E i \in DOMAIN feed[a][n].inbox :
       feed[a][n].inbox[i].of = a /\ feed[a][n].inbox[i].tag = t

NoVerdictLost ==
  \A a \in Attackers : \A t \in sure[a] \cap DOMAIN pending[a] : Coming(a, t)
=============================================================================
