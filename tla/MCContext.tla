------------------------------ MODULE MCContext ------------------------------
(* The engine with small segments, fast ticks and a quick history.            *)
EXTENDS Context

TickRates == <<1, 2, 3>>
=============================================================================
