------------------------------ MODULE SignatureStore ------------------------------
(***************************************************************************)
(* ai-architecture/database/db_engine.py, DatabaseEngine over its          *)
(* PartitionedMemoryStore: what the system learns, in memory and on disk.  *)
(* log_prediction puts a record into the scopes of the memory and a line   *)
(* into a queue; the DB-writer thread appends the lines to two files;      *)
(* export_ids_signatures, called every five seconds and by the validator,  *)
(* rewrites the second file from the memory; a restart reads it back.      *)
(*                                                                         *)
(* An event is its number; its scores are reduced to the grade they earn.  *)
(* Uploads to the cloud index change nothing here and are left out.        *)
(***************************************************************************)
EXTENDS Naturals, Sequences, FiniteSets, Functions, Order

CONSTANTS Loggers,      \* threads that call log_prediction
          Exporters,    \* threads that call export_ids_signatures
          MaxPerScope,  \* max_per_scope
          Expiring,     \* whether the process lives longer than TTL_S
          MaxEvents,    \* bound: events logged
          MaxFaults     \* bound: failed appends and exports, and restarts

ASSUME SignatureAssumption ==
    /\ MaxPerScope \in Nat \ {0} /\ MaxEvents \in Nat /\ MaxFaults \in Nat
    /\ Expiring \in BOOLEAN

VARIABLES record_id,    \* _record_id
          logged,       \* events logged so far
          grade,        \* what each event's scores and embedding let it do
          local,        \* the records of the ip, session and host scopes
          global,       \* the records of global_store
          write_queue,  \* _write_queue
          batch, fpc,   \* what the DB-writer thread has taken, and where it is
          sig,          \* the file SIG_FILE; LOG_FILE is never read
          lpc, made,    \* where each logging thread is, and its record
          epc, shot,    \* where each export is, and the signatures it will write
          exported,     \* history: signatures some export has written
          cut,          \* history: the last export broke off in the file
          faults

dbVars == <<record_id, logged, grade, local, global, write_queue, batch, fpc, sig,
            lpc, made, epc, shot, exported, cut, faults>>
memory == <<record_id, logged, grade, local, global>>
writer == <<batch, fpc>>
loggers == <<lpc, made>>
exporters == <<epc, shot, exported, cut>>

Events == 1..MaxEvents

\* dropped by the gate; kept; kept and signed (score >= 0.60 and an embedding);
\* signed and remembered in the global scope as well (MEMORY_FORCE_GATE).
Grades == {"dropped", "kept", "signed", "forced"}
Signed(e) == grade[e] \in {"signed", "forced"}

NotMade == [id |-> 0, event |-> 0]

DbInit ==
    /\ record_id = 0 /\ logged = 0 /\ grade = [e \in Events |-> "dropped"]
    /\ local = {} /\ global = {} /\ write_queue = <<>>
    /\ batch = <<>> /\ fpc = "sleep" /\ sig = <<>>
    /\ lpc = [t \in Loggers |-> "idle"] /\ made = [t \in Loggers |-> NotMade]
    /\ epc = [t \in Exporters |-> "idle"] /\ shot = [t \in Exporters |-> <<>>]
    /\ exported = {} /\ cut = FALSE /\ faults = 0

------------------------------------------------------------------------------
(* log_prediction.                                                          *)

\* The counter moves first; line 581 reads it again for the record.
Log(t) ==
    /\ lpc[t] = "idle" /\ logged < MaxEvents
    /\ \E g \in Grades : grade' = [grade EXCEPT ![logged + 1] = g]
    /\ logged' = logged + 1
    /\ record_id' = record_id + 1
    /\ made' = [made EXCEPT ![t] = [id |-> 0, event |-> logged']]
    /\ lpc' = [lpc EXCEPT ![t] = "gate"]
    /\ UNCHANGED <<local, global, write_queue, sig, writer, exporters, faults>>

\* A scope that overflows evicts: VectorGraphStore says which records; here any
\* that fit may stay.
Inserted(scope, r, size) ==
    IF Cardinality(scope) < size THEN {scope \cup {r}}
    ELSE {s \in SUBSET (scope \cup {r}) : Cardinality(s) <= size}

\* PartitionedMemoryStore.write: the gate, then the scopes of the source.
Write(t) ==
    LET e == made[t].event
        r == [id |-> record_id, event |-> e]
    IN  /\ lpc[t] = "gate"
        /\ made' = [made EXCEPT ![t] = r]
        /\ IF grade[e] = "dropped"
           THEN local' = local
           ELSE local' \in Inserted(local, r, MaxPerScope)
        /\ lpc' = [lpc EXCEPT ![t] = CASE grade[e] = "dropped" -> "sweep"
                                       [] grade[e] = "forced" -> "force"
                                       [] OTHER -> "queue"]
        /\ UNCHANGED <<record_id, logged, grade, global, write_queue, sig, writer,
                       exporters, faults>>

\* The global scope is twice as large.
WriteGlobal(t) ==
    /\ lpc[t] = "force"
    /\ global' \in Inserted(global, made[t], 2 * MaxPerScope)
    /\ lpc' = [lpc EXCEPT ![t] = "queue"]
    /\ UNCHANGED <<record_id, logged, grade, local, made, write_queue, sig, writer,
                   exporters, faults>>

Enqueue(t) ==
    /\ lpc[t] = "queue"
    /\ write_queue' = Append(write_queue, made[t].event)
    /\ lpc' = [lpc EXCEPT ![t] = "sweep"]
    /\ UNCHANGED <<memory, made, sig, writer, exporters, faults>>

\* At most every five minutes the records older than TTL_S go: ids grow with time.
SweepScopes(t) ==
    /\ lpc[t] = "sweep"
    /\ \E oldest \in IF Expiring THEN 1..(record_id + 1) ELSE {1} :
         /\ local' = {r \in local : r.id >= oldest}
         /\ global' = {r \in global : r.id >= oldest}
    /\ lpc' = [lpc EXCEPT ![t] = "idle"]
    /\ UNCHANGED <<record_id, logged, grade, made, write_queue, sig, writer, exporters,
                   faults>>

------------------------------------------------------------------------------
(* _flush_loop.  A failed write is printed, and the batch is gone.          *)

TakeBatch ==
    /\ fpc = "sleep" /\ write_queue # <<>>
    /\ batch' = write_queue /\ write_queue' = <<>>
    /\ fpc' = "log"
    /\ UNCHANGED <<memory, sig, loggers, exporters, faults>>

AppendLog ==
    /\ fpc = "log"
    /\ fpc' = "sign"
    /\ UNCHANGED <<memory, write_queue, batch, sig, loggers, exporters, faults>>

\* A write that failed may have left a torn line at the end of the file, which
\* spoils the one that is appended to it.
AppendSignatures ==
    LET signatures == Picked(batch, {i \in DOMAIN batch : Signed(batch[i])})
    IN  /\ fpc = "sign"
        /\ \E torn \in IF faults = 0 THEN {0} ELSE 0..1 :
             sig' = sig \o SubSeq(signatures, 1 + torn, Len(signatures))
        /\ batch' = <<>> /\ fpc' = "sleep"
        /\ UNCHANGED <<memory, write_queue, loggers, exporters, faults>>

FlushFails ==
    /\ fpc # "sleep" /\ faults < MaxFaults
    /\ faults' = faults + 1
    /\ batch' = <<>> /\ fpc' = "sleep"
    /\ UNCHANGED <<memory, write_queue, sig, loggers, exporters>>

------------------------------------------------------------------------------
(* export_ids_signatures.                                                   *)

\* Slip: the global scope is taken for everything worth a signature.
GlobalScope == global

\* Slip: what the sources' scopes hold is taken for everything.
SourceScopes == local

AllRecords == global \cup local

\* One record of each id, from the global scope if it is there: the first the
\* export comes to.
Firsts(c) ==
    /\ \A r, q \in c : r.id = q.id => r = q
    /\ \A r \in AllRecords : \E q \in c : q.id = r.id /\ (r \in global => q \in global)

\* Their order is the one evictions have left.
Collect(t) ==
    /\ epc[t] = "idle"
    /\ \E c \in SUBSET AllRecords :
         LET signatures == {r \in c : Signed(r.event)}
         IN  /\ Firsts(c)
             /\ \E order \in Bijection(1..Cardinality(signatures), signatures) :
                  shot' = [shot EXCEPT ![t] = [i \in DOMAIN order |-> order[i].event]]
    /\ epc' = [epc EXCEPT ![t] = "open"]
    /\ UNCHANGED <<memory, write_queue, sig, writer, loggers, exported, cut, faults>>

\* open(path, "w") empties the file.
Open(t) ==
    /\ epc[t] = "open"
    /\ sig' = <<>>
    /\ epc' = [epc EXCEPT ![t] = "write"]
    /\ UNCHANGED <<memory, write_queue, writer, loggers, shot, exported, cut, faults>>

\* The lines reach the file when it is closed, from its beginning on; of what
\* others have put there meanwhile the rest stays, and may begin with a torn line.
Close(t) ==
    /\ epc[t] = "write"
    /\ \E torn \in 0..1 :
         sig' = shot[t] \o SubSeq(sig, Len(shot[t]) + 1 + torn, Len(sig))
    /\ exported' = exported \cup {shot[t][i] : i \in DOMAIN shot[t]}
    /\ shot' = [shot EXCEPT ![t] = <<>>]
    /\ epc' = [epc EXCEPT ![t] = "idle"]
    /\ cut' = FALSE
    /\ UNCHANGED <<memory, write_queue, writer, loggers, faults>>

\* The disk refuses: the file cannot be opened and stays, or a write raises and
\* what had been written of the export is all there is of it.  bg-tasks prints
\* the error and goes on.
ExportFails(t) ==
    /\ epc[t] # "idle" /\ faults < MaxFaults
    /\ \/ epc[t] = "open" /\ UNCHANGED <<sig, cut>>
       \/ /\ epc[t] = "write" /\ cut' = TRUE
          /\ \E n \in 0..Len(shot[t]), torn \in 0..1 :
               sig' = SubSeq(shot[t], 1, n) \o SubSeq(sig, n + 1 + torn, Len(sig))
    /\ shot' = [shot EXCEPT ![t] = <<>>]
    /\ epc' = [epc EXCEPT ![t] = "idle"]
    /\ faults' = faults + 1
    /\ UNCHANGED <<memory, write_queue, writer, loggers, exported>>

------------------------------------------------------------------------------

\* Slip: the loaded records do not move the counter.
LoadedCount == 0

\* The number the records of this session continue from.
Loaded == Len(sig)

\* What the global scope may hold once every line has been inserted.
GlobalScopes ==
    LET loaded == {[id |-> i, event |-> sig[i]] : i \in DOMAIN sig}
    IN  {s \in SUBSET loaded : \/ Len(sig) <= 2 * MaxPerScope /\ s = loaded
                               \/ Len(sig) > 2 * MaxPerScope /\ Cardinality(s) <= 2 * MaxPerScope}

\* The process ends anywhere and starts again: _load_signatures reads the file.
Reopen ==
    /\ faults < MaxFaults
    /\ faults' = faults + 1
    /\ local' = {} /\ global' \in GlobalScopes
    /\ record_id' = Loaded
    /\ write_queue' = <<>> /\ batch' = <<>> /\ fpc' = "sleep"
    /\ lpc' = [t \in Loggers |-> "idle"] /\ made' = [t \in Loggers |-> NotMade]
    /\ epc' = [t \in Exporters |-> "idle"] /\ shot' = [t \in Exporters |-> <<>>]
    /\ cut' = FALSE
    /\ UNCHANGED <<logged, grade, sig, exported>>

Logger(t) == Write(t) \/ WriteGlobal(t) \/ Enqueue(t) \/ SweepScopes(t)
Writer == TakeBatch \/ AppendLog \/ AppendSignatures
Exporter(t) == Collect(t) \/ Open(t) \/ Close(t)

DbNext ==
    \/ \E t \in Loggers : Log(t) \/ Logger(t)
    \/ Writer \/ FlushFails
    \/ \E t \in Exporters : Exporter(t) \/ ExportFails(t)
    \/ Reopen

DbSpec == DbInit /\ [][DbNext]_dbVars

\* run.py exports every five seconds, the writer looks every half second, and a
\* thread finishes the call it is in.
FairDbSpec ==
    /\ DbSpec /\ WF_dbVars(Writer)
    /\ \A t \in Loggers : WF_dbVars(Logger(t))
    /\ \A t \in Exporters : WF_dbVars(Exporter(t))

------------------------------------------------------------------------------
(* Properties.                                                              *)

Elements(s) == {s[i] : i \in DOMAIN s}
Remembered(e) == \E r \in local \cup global : r.event = e
OnDisk(e) == e \in Elements(sig)

\* An id names one event, also next to the records of earlier sessions: the
\* export and the retrieval take records with the same id for one.  (With one
\* logging thread, as in run.py without the validator.)
IdsAreDistinct ==
    \A r, q \in local \cup global : r.id = q.id => r.event = q.event

\* What an export has written stays on disk for as long as it is remembered,
\* except while the next export rewrites the file and after one that broke off in
\* it, until another succeeds or the process starts again; the appends of the
\* writer thread, late as they are, take nothing away.  (With one exporting
\* thread.)
ExportsStick ==
    ~cut /\ (\A t \in Exporters : epc[t] # "write") =>
        \A e \in exported : Remembered(e) => OnDisk(e)

\* Whatever becomes of its line in the queue, a signature that stays in memory
\* gets to the disk.
EventuallyOnDisk ==
    \A e \in Events :
        (Remembered(e) /\ Signed(e)) ~> (OnDisk(e) \/ ~Remembered(e))

\* "so the IDS benefits from all previous session learning immediately"
\* (db_engine.py:516): what an export has written survives a restart.
LearningSurvives == \A e \in exported : Remembered(e) \/ OnDisk(e)
==============================================================================
