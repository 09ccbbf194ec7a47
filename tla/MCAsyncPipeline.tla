---------------------------- MODULE MCAsyncPipeline ----------------------------
(* The pipeline with one worker per stage. *)
EXTENDS AsyncPipeline, TLC

CONSTANTS cnn1, rnn1, dec1, val1, db1, db2

Assign == cnn1 :> CNN @@ rnn1 :> RNN @@ dec1 :> DECODER
          @@ val1 :> VALIDATOR @@ db1 :> DB @@ db2 :> DB

StageOfSome == [w \in Workers |-> Assign[w]]

OnePerStage == {cnn1, rnn1, dec1, val1, db1}

NoneOfThem == {}
FirstOnly == {1}
==============================================================================
