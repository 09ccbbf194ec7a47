-------------------------------- MODULE MCDecoder --------------------------------
(* The decoder with few sources and classes, and times that keep the order of   *)
(* the code's: 5 s < 10 s < 30 s < 60 s < 300 s < 600 s < 1800 s < 3600 s.       *)
EXTENDS Decoder, TLC

CONSTANTS d1, d2

TwoDecoders == {d1, d2}

TwoSources == {"s1", "s2"}
TwoHosts == {"h1", "h2"}
ThreeClasses == {"scan", "brute", "lateral"}
Lateral == {[stages |-> <<"scan", "brute", "lateral">>, gap |-> 3]}

\* One source that earns every decision (what nothing depends on is fixed), ...
Decided == {p \in Packets : /\ p.source = "s1" /\ p.host = "h1" /\ p.class = "scan"
                            /\ p.grade = "strong"
                            /\ p.high => p.earned = "Escalate"
                            /\ p.trend => p.earned \in {"Alert", "Block"}}

\* ... or several sources and classes, the last stage of the chain an Alert.
Correlated == {p \in Packets : /\ ~p.high /\ ~p.trend /\ p.host = "h1"
                               /\ p.earned = IF p.class = "lateral" THEN "Alert" ELSE "Log"
                               /\ p.grade = IF p.class = "brute" THEN "faint" ELSE "strong"}

\* Packets of one source, to be blocked.
Blocked == {p \in Decided : p.earned = "Block" /\ ~p.trend}

\* run.py decodes on one thread, run_async.py on two.
AllKinds == <<[packets |-> Decided, threads |-> {d1}],
              [packets |-> Correlated, threads |-> {d1}],
              [packets |-> Blocked, threads |-> {d1, d2}]>>
Asynchronous == <<[packets |-> Blocked, threads |-> {d1, d2}]>>
Waits == {0, 1, 3}
NoWait == {0}
==============================================================================
