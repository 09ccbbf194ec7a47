\* One attacker, two attacks and an evolution after the first, two
\* connections and two faults, and the report at the end.
CONSTANTS
  a1 = a1
  a2 = a2
  Attackers <- One
  Profiles = 2
  Verdicts <- Answers
  MinSent = 1
  Size = 3
  Elite = 1
  Contestants = 3
  EvolveInterval = 1
  MaxFired = 2
  MaxGen = 1
  MaxLinks = 2
  MaxCuts = 2
  Recent = 2
SPECIFICATION SSpec
INVARIANTS CountedOnce CreditIsEarned NoVerdictLost ReportIsEarned
