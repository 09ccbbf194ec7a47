------------------------------ MODULE MCFirewall ------------------------------
EXTENDS Firewall, TLC

CONSTANTS a, b, w1, w2, op

OneIp == {a}
TwoIps == {a, b}
OneWorker == {w1}
TwoWorkers == {w1, w2}
OneOperator == {op}
NoOperator == {}

Symmetry == Permutations(Ips) \cup Permutations(Blockers)
==============================================================================
