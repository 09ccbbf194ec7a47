------------------------------- MODULE Session -------------------------------
(***************************************************************************)
(* The end of a session of run_attacker.py against a remote IDS (main).  The *)
(* attack engine of AttackLoop is stopped, but nobody waits for its threads:  *)
(* verdicts go on arriving until main reads the history for its report.  Then *)
(* the process exits with all its threads.  The totals of the report, read a  *)
(* moment earlier, the rates and the final population are left out.           *)
(***************************************************************************)
EXTENDS AttackLoop

CONSTANT Recent     \* the outcomes a report looks at: 200

ASSUME RecentAssumption == Recent \in Nat \ {0}

VARIABLES
  stage,      \* where main is: "on", "stopped", "gone"
  going,      \* whether the engine's loop is past its test of _running
  rows        \* by_profile

session == <<stage, going, rows>>
allVars == <<vars, session>>

SInit ==
  /\ Init
  /\ stage  = [a \in Attackers |-> "on"]
  /\ going  = [a \in Attackers |-> TRUE]
  /\ rows   = [a \in Attackers |-> <<>>]

Main(a, here, there) == stage[a] = here /\ stage' = [stage EXCEPT ![a] = there]

\* An iteration that has begun still fires, and may evolve.
SFire(a) ==
  /\ stage[a] # "gone" /\ going[a]
  /\ Fire(a)
  /\ going' = [going EXCEPT ![a] = stage[a] = "on"]
  /\ UNCHANGED <<stage, rows>>

\* The duration has passed, or a signal arrives.
Stop(a) ==
  /\ Main(a, "on", "stopped")
  /\ \E begun \in IF phase[a] = "fire" /\ fired[a] < MaxFired THEN BOOLEAN
                  ELSE {FALSE} :
       going' = [going EXCEPT ![a] = begun]
  /\ UNCHANGED <<vars, rows>>

\* The outcomes main looks at, and the row of some of them.
Latest(a) == Max({1, Len(history[a]) + 1 - Recent}) .. Len(history[a])

Row(a, is) ==
  LET ones(k) == Cardinality({i \in is : Kind(history[a][i].verdict) = k})
  IN  [sent |-> Cardinality(is), blocked |-> ones("blocked"),
       evaded |-> ones("evaded"), alerted |-> ones("alerted")]

\* Slip: an outcome joins the row of the profile that fired last.
RowsOfLast(a) ==
  [name \in {firedAs[a][fired[a]] : i \in Latest(a)} |-> Row(a, Latest(a))]

RowsOf(a) ==
  [name \in {history[a][i].name : i \in Latest(a)} |->
     Row(a, {i \in Latest(a) : history[a][i].name = name})]

\* main reads the history, writes its report and leaves with all threads: what
\* they do meanwhile no longer shows.  Both connections close, and what the
\* attack connection has carried still arrives.
Report(a) ==
  /\ Main(a, "stopped", "gone")
  /\ rows' = [rows EXCEPT ![a] = RowsOf(a)]
  /\ sock' = [sock EXCEPT ![a] = "broken"]
  /\ feed' = [feed EXCEPT ![a] = [n \in Links |-> Dead(@[n])]]
  /\ sure' = [sure EXCEPT ![a] = {}]
  /\ UNCHANGED <<engine, wire, clients, jobs, outs, cuts, going>>

\* The IDS is watched until the last attacker has gone.
SNext ==
  \/ \E a \in Attackers : stage[a] # "gone" /\ Own(a) /\ UNCHANGED session
  \/ (\E a \in Attackers : stage[a] # "gone") /\ Elsewhere /\ UNCHANGED session
  \/ \E a \in Attackers :
       SFire(a) \/ Stop(a) \/ Report(a)
  \/ (\A a \in Attackers : stage[a] = "gone") /\ UNCHANGED allVars

SSpec == SInit /\ [][SNext]_allVars

-----------------------------------------------------------------------------
\* A report's row counts answered attacks that were fired under its name, each
\* once, though verdicts arrive while the report is read, from two connections
\* perhaps, and the population has been replaced since the attacks were fired.
ReportIsEarned ==
  \A a \in Attackers : \A name \in DOMAIN rows[a] :
    /\ rows[a][name].sent <= Cardinality(Answered(a, name))
    /\ rows[a][name].sent =
         rows[a][name].blocked + rows[a][name].evaded + rows[a][name].alerted
=============================================================================
