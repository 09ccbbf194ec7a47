------------------------------ MODULE MCLearning ------------------------------
(* Few packets with confidences on either side of the gates; the clock's unit  *)
(* is half a minute.                                                            *)
EXTENDS Learning, TLC

CONSTANTS s1, s2, t1, t2

TwoSources == {s1, s2}
OneHost == {"h"}
TwoShapes == {"flood", "web"}
TwoThreads == {t1, t2}
OneThread == {t1}
Threads == Permutations(TwoThreads)

Packet(source, shape, label, earned, conf, odd) ==
    [source |-> source, host |-> "h", port |-> 80, shape |-> shape, label |-> label,
     earned |-> earned, conf |-> conf, trend |-> FALSE, odd |-> odd, severe |-> FALSE]

\* A missed attack, a harmless packet that is blocked, and one nobody has labelled,
\* with odd numbers.
SomePackets == {Packet(s1, "flood", "attack", "Log", 40, {}),
                Packet(s2, "flood", "benign", "Block", 76, {}),
                Packet(s2, "web", "none", "Block", 76, TI!Statistics)}

\* Harmless packets that are blocked with a confidence as high as a correction's.
Sure == {Packet(s2, "web", "benign", "Block", 97, {})}

Waits == {0, 2}

\* exp(-age / 600 s) in percent.
TenMinutes == [age \in 0..9 |-> <<100, 95, 90, 86, 82, 78, 74, 70, 67, 64>>[age + 1]]
==============================================================================
