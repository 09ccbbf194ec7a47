--------------------------- MODULE MCVectorGraphStore ---------------------------
(* One scope of the threat memory under the two pipelines of the program.     *)
EXTENDS VectorGraphStore, TLC

CONSTANTS dispatch, decoder, db, e1, e2

\* run.py: the dispatch thread searches for a packet and then logs it.
Synchronous == {dispatch}

\* run_async.py: a decoder worker searches, the DB worker logs.
Decoder == {decoder}
Database == {db}

OneEmbedding == {e1}
TwoEmbeddings == {e1, e2}

Symmetry == Permutations(Embeddings)
==============================================================================
