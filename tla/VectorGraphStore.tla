---------------------------- MODULE VectorGraphStore ----------------------------
(***************************************************************************)
(* ai-architecture/database/db_engine.py, VectorGraphStore: one scope of   *)
(* the threat memory.  The records are searched through a matrix of their  *)
(* embeddings that is rebuilt lazily, and joined by edges that name them   *)
(* by position.  No lock covers the three, and every removal renumbers.    *)
(*                                                                         *)
(* Two embeddings are similar here when they are equal.  Positions count   *)
(* from 1.  A record's id is its rank in the order of insertion, so the    *)
(* expired records are the ids up to a bound that only grows.              *)
(***************************************************************************)
EXTENDS Naturals, Sequences, FiniteSets, Order

CONSTANTS Readers,      \* threads that search: the retrieval of a packet's past
          Writers,      \* threads that insert: log_prediction
          Logged,       \* embeddings of what is inserted without a search
          Embeddings,   \* the others, up to similarity
          MaxSize,      \* max_size (max_per_scope, 5000)
          K,            \* k of search
          MaxInserts    \* bound: records inserted

NoEmbedding == "none"

ASSUME StoreAssumption ==
    /\ NoEmbedding \notin Embeddings
    /\ Logged \subseteq Embeddings \cup {NoEmbedding}
    /\ IsFiniteSet(Readers \cup Writers)
    /\ MaxSize \in Nat \ {0}
    /\ K \in Nat \ {0} /\ MaxInserts \in Nat

VARIABLES records,      \* what is remembered, in order of position
          matrix,       \* _emb_matrix; <<>> for None
          dirty,        \* _dirty
          edges,        \* adjacency_list: pairs of positions
          inserted,     \* records inserted so far
          expired,      \* the ids 1..expired are older than their TTL
          gpc, emb,     \* where each thread is, and the embedding it works on
          rec,          \* the record it inserts
          rows, valid,  \* the matrix rows and the unexpired positions it saw
          kept,         \* the positions its eviction or sweep keeps
          raised,       \* some search has raised an exception
          covered,      \* history: the ids up to covered were there when the matrix was made,
          moved,        \* history: a removal has renumbered the records since,
          misled        \* history: and then a new one has been joined to its old rows

graphVars == <<records, matrix, dirty, edges, inserted, expired, gpc, emb, rec, rows,
               valid, kept, raised, covered, moved, misled>>
locals == <<emb, rec, rows, valid, kept>>
history == <<covered, moved, misled>>

Threads == Readers \cup Writers
Confidences == {0, 1}
NoRecord == [id |-> 0, embedding |-> NoEmbedding, confidence |-> 0, seen |-> 0]

GraphInit ==
    /\ records = <<>> /\ matrix = <<>> /\ dirty = FALSE /\ edges = {}
    /\ inserted = 0 /\ expired = 0
    /\ gpc = [t \in Threads |-> "idle"]
    /\ emb = [t \in Threads |-> NoEmbedding]
    /\ rec = [t \in Threads |-> NoRecord]
    /\ rows = [t \in Threads |-> <<>>]
    /\ valid = [t \in Threads |-> {}]
    /\ kept = [t \in Threads |-> <<>>]
    /\ raised = FALSE /\ covered = 0 /\ moved = FALSE /\ misled = FALSE

Jump(t, label) == gpc' = [gpc EXCEPT ![t] = label]

Expired(r) == r.id <= expired
Fresh == {i \in DOMAIN records : ~Expired(records[i])}

\* The rows of a rebuilt matrix: records without an embedding have none.
EmbeddingRows ==
    LET has == Picked(records, {i \in DOMAIN records : records[i].embedding # NoEmbedding})
    IN  [i \in DOMAIN has |-> has[i].embedding]

------------------------------------------------------------------------------
(* search.  What follows a search is the thread's business: a thread that    *)
(* also writes goes on to log what it decided.                               *)

Leave(t) == /\ Jump(t, IF t \in Writers THEN "decided" ELSE "idle")
            /\ rows' = [rows EXCEPT ![t] = <<>>]
            /\ valid' = [valid EXCEPT ![t] = {}]

\* An exception ends the handler of the packet.
Raise(t) == /\ raised' = TRUE
            /\ Jump(t, "idle")
            /\ rows' = [rows EXCEPT ![t] = <<>>]
            /\ valid' = [valid EXCEPT ![t] = {}]

Search(t, e) ==
    /\ t \in Readers /\ gpc[t] = "idle"
    /\ emb' = [emb EXCEPT ![t] = e]
    /\ Jump(t, CASE records = <<>> -> IF t \in Writers THEN "decided" ELSE "idle"
                 [] records # <<>> /\ dirty -> "gather"
                 [] OTHER -> "compare")
    /\ UNCHANGED <<records, matrix, dirty, edges, inserted, expired, rec, rows,
                   valid, kept, raised, history>>

\* _rebuild_matrix: the list of embeddings, ...
Gather(t) ==
    /\ gpc[t] = "gather"
    /\ rows' = [rows EXCEPT ![t] = EmbeddingRows]
    /\ Jump(t, "install")
    /\ UNCHANGED <<records, matrix, dirty, edges, inserted, expired, emb, rec,
                   valid, kept, raised, history>>

\* ... the matrix made of it, ...
Install(t) ==
    /\ gpc[t] = "install"
    /\ matrix' = rows[t]
    /\ covered' = inserted /\ moved' = FALSE
    /\ Jump(t, "clean")
    /\ UNCHANGED <<records, dirty, edges, inserted, expired, locals, raised, misled>>

\* ... and the flag.
Clean(t) ==
    /\ gpc[t] = "clean"
    /\ dirty' = FALSE
    /\ Jump(t, "compare")
    /\ UNCHANGED <<records, matrix, edges, inserted, expired, locals, raised, history>>

\* The similarities, one per row of the matrix.
Compare(t) ==
    /\ gpc[t] = "compare"
    /\ IF matrix = <<>>
       THEN Leave(t)
       ELSE /\ rows' = [rows EXCEPT ![t] = matrix]
            /\ Jump(t, "weigh")
            /\ UNCHANGED valid
    /\ UNCHANGED <<records, matrix, dirty, edges, inserted, expired, emb, rec,
                   kept, raised, history>>

\* The ages and confidences, one per record: added to the similarities they
\* must be as many.
Weigh(t) ==
    /\ gpc[t] = "weigh"
    /\ CASE Len(rows[t]) # Len(records) -> Raise(t)
         [] Len(rows[t]) = Len(records) /\ Fresh = {} -> Leave(t) /\ UNCHANGED raised
         [] OTHER -> /\ valid' = [valid EXCEPT ![t] = Fresh]
                     /\ Jump(t, "expand")
                     /\ UNCHANGED <<rows, raised>>
    /\ UNCHANGED <<records, matrix, dirty, edges, inserted, expired, emb, rec,
                   kept, history>>

\* The best k positions and their neighbours, looked up in the ages and then in
\* the records.
Best(t) == {s \in SUBSET valid[t] :
                Cardinality(s) = IF Cardinality(valid[t]) < K
                                 THEN Cardinality(valid[t]) ELSE K}
Neighbours(s) == {e[2] : e \in {e \in edges : e[1] \in s}}

Expand(t) ==
    /\ gpc[t] = "expand"
    /\ \E s \in Best(t) :
           LET found == s \cup (Neighbours(s) \cap valid[t])
           IN  IF \/ \E n \in Neighbours(s) : n > Len(rows[t])
                  \/ \E n \in found : n > Len(records)
               THEN Raise(t)
               ELSE Leave(t) /\ UNCHANGED raised
    /\ UNCHANGED <<records, matrix, dirty, edges, inserted, expired, emb, rec,
                   kept, history>>

------------------------------------------------------------------------------
(* insert, _evict and sweep                                                  *)

\* The write gate turns the event away.
Drop(t) ==
    /\ gpc[t] = "decided"
    /\ Jump(t, "logged")
    /\ UNCHANGED <<records, matrix, dirty, edges, inserted, expired, locals,
                   raised, history>>

\* A reader logs the embedding it searched for.  No search comes before what
\* the file brings back at the start, a correction, the report at the end of a
\* session and, in the asynchronous pipeline, whatever the DB worker logs.
MayLog(t, e) == \/ t \in Readers /\ gpc[t] = "decided" /\ e = emb[t]
                \/ gpc[t] = "idle" /\ e \in Logged

\* The neighbours are rows of the matrix as the last search left it.
Similar(e) == IF e = NoEmbedding THEN {} ELSE {i \in DOMAIN matrix : matrix[i] = e}

Link(t, e, c) ==
    /\ t \in Writers /\ MayLog(t, e)
    /\ inserted < MaxInserts
    /\ inserted' = inserted + 1
    /\ rec' = [rec EXCEPT ![t] = [id |-> inserted', embedding |-> e, confidence |-> c,
                                  seen |-> IF moved THEN 0 ELSE covered]]
    /\ edges' = edges \cup UNION {{<<n, Len(records) + 1>>, <<Len(records) + 1, n>>} :
                                     n \in Similar(e)}
    /\ misled' = (misled \/ (moved /\ Similar(e) # {}))
    /\ Jump(t, "append")
    /\ UNCHANGED <<records, matrix, dirty, expired, emb, rows, valid, kept,
                   raised, covered, moved>>

AppendRecord(t) ==
    /\ gpc[t] = "append"
    /\ records' = Append(records, rec[t])
    /\ dirty' = TRUE
    /\ rec' = [rec EXCEPT ![t] = NoRecord]
    /\ Jump(t, IF Len(records) + 1 > MaxSize THEN "evict" ELSE "logged")
    /\ UNCHANGED <<matrix, edges, inserted, expired, emb, rows, valid, kept,
                   raised, history>>

\* The order of eviction: by confidence, the earlier position first among equals.
LessConfident(i, j) ==
    \/ records[i].confidence < records[j].confidence
    \/ records[i].confidence = records[j].confidence /\ i < j

ByConfidence(s) == InOrder(s, {p \in s \X s : LessConfident(p[1], p[2])})

\* Slip: a fifth.
AFifthLess == IF Cardinality(Fresh) > MaxSize
              THEN SubSeq(ByConfidence(Fresh), Cardinality(Fresh) \div 5 + 1, Cardinality(Fresh))
              ELSE Ascending(Fresh)

\* A quarter of the records goes, the least confident, if expiry frees too little.
Survivors == IF Cardinality(Fresh) > MaxSize
             THEN SubSeq(ByConfidence(Fresh), Cardinality(Fresh) \div 4 + 1, Cardinality(Fresh))
             ELSE Ascending(Fresh)

Keep(t, positions) ==
    /\ records' = [i \in DOMAIN positions |-> records[positions[i]]]
    /\ kept' = [kept EXCEPT ![t] = positions]
    /\ moved' = TRUE
    /\ UNCHANGED <<covered, misled>>
    /\ Jump(t, "renumber")

Evict(t) ==
    /\ gpc[t] = "evict"
    /\ Keep(t, Survivors)
    /\ UNCHANGED <<matrix, dirty, edges, inserted, expired, emb, rec, rows, valid, raised>>

\* The periodic sweep at the end of log_prediction.
Sweep(t) ==
    /\ gpc[t] = "logged"
    /\ Fresh # DOMAIN records
    /\ Keep(t, Ascending(Fresh))
    /\ UNCHANGED <<matrix, dirty, edges, inserted, expired, emb, rec, rows, valid, raised>>

\* Slip: the removed records' edges go, the others keep their old positions.
PositionsKept(positions) ==
    {e \in edges : {e[1], e[2]} \subseteq {positions[i] : i \in DOMAIN positions}}

\* old_to_new applied to both ends of every edge.
Renumbered(positions) ==
    LET at == DOMAIN positions
    IN  {p \in at \X at : <<positions[p[1]], positions[p[2]]>> \in edges}

\* Slip: the matrix counts as current after a sweep.
RenumberStaysClean(t) ==
    /\ gpc[t] = "renumber"
    /\ edges' = Renumbered(kept[t])
    /\ kept' = [kept EXCEPT ![t] = <<>>]
    /\ Jump(t, "logged")
    /\ UNCHANGED <<records, matrix, dirty, inserted, expired, emb, rec, rows, valid,
                   raised, history>>

Renumber(t) ==
    /\ gpc[t] = "renumber"
    /\ edges' = Renumbered(kept[t])
    /\ dirty' = TRUE
    /\ kept' = [kept EXCEPT ![t] = <<>>]
    /\ Jump(t, "logged")
    /\ UNCHANGED <<records, matrix, inserted, expired, emb, rec, rows, valid,
                   raised, history>>

EndLog(t) ==
    /\ gpc[t] = "logged"
    /\ Jump(t, "idle")
    /\ UNCHANGED <<records, matrix, dirty, edges, inserted, expired, locals,
                   raised, history>>

------------------------------------------------------------------------------
\* A day passes since the next record was inserted.
Age == /\ expired < inserted
       /\ expired' = expired + 1
       /\ UNCHANGED <<records, matrix, dirty, edges, inserted, gpc, locals, raised, history>>

Step(t) == \/ \E e \in Embeddings : Search(t, e)
           \/ Gather(t) \/ Install(t) \/ Clean(t) \/ Compare(t) \/ Weigh(t) \/ Expand(t)
           \/ Drop(t)
           \/ \E e \in Embeddings \cup {NoEmbedding}, c \in Confidences : Link(t, e, c)
           \/ AppendRecord(t) \/ Evict(t) \/ Sweep(t) \/ Renumber(t) \/ EndLog(t)

GraphNext == (\E t \in Threads : Step(t)) \/ Age

GraphSpec == GraphInit /\ [][GraphNext]_graphVars

------------------------------------------------------------------------------
(* Properties.                                                               *)

Quiet(labels) == \A t \in Threads : gpc[t] \notin labels

\* "Graph building: connect to existing similar records" (db_engine.py:118):
\* an edge joins two records that exist and are similar.
EdgesJoinSimilar ==
    Quiet({"append", "renumber"}) =>
        \A e \in edges : /\ e[1] \in DOMAIN records /\ e[2] \in DOMAIN records
                        /\ e[1] # e[2]
                        /\ records[e[1]].embedding = records[e[2]].embedding

\* ... and precisely the similar pairs are joined of which the older was in the
\* matrix when the younger came, through evictions that reorder the records and
\* sweeps, unless a record has been joined to rows that a removal had put out of
\* place.
Compared(r, q) == r.id <= q.seen \/ q.id <= r.seen

ComparedAreJoined ==
    ~misled /\ Quiet({"append", "renumber"}) =>
        edges = {p \in (DOMAIN records) \X (DOMAIN records) :
                    /\ p[1] # p[2] /\ records[p[1]].embedding = records[p[2]].embedding
                    /\ Compared(records[p[1]], records[p[2]])}

\* No retrieval fails, with the same exception: the matrix, the records and the
\* edges fit together at every search (db_engine.py:134-176).
SearchSucceeds == ~misled => ~raised

\* A scope outgrows its limit by no more than a record for each thread on its way
\* to evict (db_engine.py:131): the quarter that an eviction frees is at least
\* one.  A quarter of three is none, so that a smaller limit counts as three.
Limit == IF MaxSize < 3 THEN 3 ELSE MaxSize
Evicting == {t \in Threads : gpc[t] = "evict"}

WithinLimit == Len(records) <= Limit + Cardinality(Evicting)
==============================================================================
