CONSTANTS
    dispatch = dispatch
    decoder = decoder
    db = db
    e1 = e1
    e2 = e2
    Readers <- Synchronous
    Writers <- Synchronous
    Logged <- TwoEmbeddings
    Embeddings <- TwoEmbeddings
    MaxSize = 3
    K = 1
    MaxInserts = 5
SPECIFICATION GraphSpec
SYMMETRY Symmetry
INVARIANTS ComparedAreJoined SearchSucceeds WithinLimit
