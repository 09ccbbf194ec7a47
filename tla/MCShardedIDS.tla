----------------------------- MODULE MCShardedIDS -----------------------------
(* The sharded pipeline with few shards, producers and keys.                 *)
EXTENDS ShardedIDS, TLC

CONSTANTS p1, p2, k1, k2, main

OneProducer == {p1}
TwoProducers == {p1, p2}
OneKey == {k1}
TwoKeys == {k1, k2}
Nothing == {}

SameShard == [k \in Keys |-> NShards]
OwnShards == k1 :> 1 @@ k2 :> 2

EveryPolicy == {"Block", "Drop", "Priority", "Sample"}
Priority == {"Priority"}
==============================================================================
