------------------------------ MODULE MCEventBus ------------------------------
(* The event bus on small sets of producers and callbacks.                   *)
EXTENDS EventBus, TLC

CONSTANTS p1, p2, c1, c2

OneProducer == {p1}
TwoProducers == {p1, p2}
OneCallback == {c1}
TwoCallbacks == {c1, c2}

\* Producers are interchangeable, and so are callbacks.
Symmetry == Permutations(Producers) \cup Permutations(Callbacks)
==============================================================================
