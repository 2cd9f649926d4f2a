------------------------------- MODULE OpLog -------------------------------
(***************************************************************************)
(* The op log of one dataset: storage/crsqlite/backend.go and data.go.     *)
(*                                                                         *)
(* All goroutines share one SQLite connection (SetMaxOpenConns(1)), so     *)
(* each statement and each transaction is one step and two goroutines      *)
(* interleave between them.  InsertOps is one transaction.  Compact is a   *)
(* query, one INSERT OR REPLACE per document, an UPDATE and a transaction, *)
(* with nothing around them: it runs in as many steps, and may stop after  *)
(* any of them (SQL error, request context cancelled, process killed).     *)
(* An administrator may delete a document in between (AdminDataStore).     *)
(***************************************************************************)
EXTENDS LWW

CONSTANTS
  Ops,          \* the ops that clients send
  Procs         \* goroutines that call Compact

ASSUME OpLogAssumption == Ops \subseteq CRDTOp

VARIABLES
  active,       \* rows with status 'active'
  archived,     \* rows with status 'archived'
  snapshots,    \* snapshots[d]: the fields in d's row of table snapshots
  comp,         \* comp[p]: where p is in Compact, and its local variables
  overlap,      \* history: Compact met a concurrent insert or compaction
  aborted,      \* history: a Compact stopped between archive and reactivate
  cleared       \* history: documents deleted while a Compact runs

vars == <<active, archived, snapshots, comp, overlap, aborted, cleared>>

\* The columns that InsertOps writes, as QueryOps reads them back: the
\* timestamp's device is not stored, op.DeviceID takes its place.
Row(op) == [op EXCEPT !.Timestamp = [@ EXCEPT !.DeviceID = op.DeviceID]]

Idle == [phase |-> "idle", kept |-> {}, docs |-> {}]

\* Statuses, snapshot rows and the local variables of Compact (kept, docMap).
TypeOK ==
  /\ active \in SUBSET CRDTOp
  /\ archived \in SUBSET CRDTOp
  /\ snapshots \in [DocIDs -> SUBSET CRDTOp]
  /\ comp \in [Procs -> [phase : {"idle", "write", "reactivate"},
                         kept : SUBSET CRDTOp, docs : SUBSET DocIDs]]
  /\ overlap \in BOOLEAN
  /\ aborted \in BOOLEAN
  /\ cleared \in SUBSET DocIDs

Init ==
  /\ active = {}
  /\ archived = {}
  /\ snapshots = [d \in DocIDs |-> {}]
  /\ comp = [p \in Procs |-> Idle]
  /\ overlap = FALSE
  /\ aborted = FALSE
  /\ cleared = {}

\* The WHERE clause of QueryOps: without a device in the cursor, only wall
\* time and counter are compared.
After(t, since) ==
  \/ since.WallTime < t.WallTime
  \/ since.WallTime = t.WallTime /\ since.Logical < t.Logical
  \/ /\ since.DeviceID # 0
     /\ since.WallTime = t.WallTime /\ since.Logical = t.Logical
     /\ since.DeviceID < t.DeviceID

\* The rows of S that a query since the zero HLC returns.
Visible(S) == {r \in S : After(r.Timestamp, ZeroHLC)}

QueryOps(since) == {r \in active : After(r.Timestamp, since)}

IDs(S) == {r.OpID : r \in S}

Rows == active \cup archived

\* Mutant of Unknown: op_id is no primary key, so a known op comes back.
AllSent(batch) == {Row(op) : op \in batch}

\* ON CONFLICT(op_id) DO NOTHING: the rows whose op_id is not in the table.
Unknown(batch) == {Row(op) : op \in {o \in batch : o.OpID \notin IDs(Rows)}}

\* One row for each op_id; which one depends on the order within the batch.
NewRows(batch, new) ==
  /\ IDs(new) = IDs(Unknown(batch))
  /\ \A r, s \in new : r.OpID = s.OpID => r = s

\* MergeOps: EnsureDataset changes no row and InsertOps is a transaction, so
\* a MergeOps that fails changes nothing.
MergeOps(batch) ==
  /\ \E new \in SUBSET Unknown(batch) :
       /\ NewRows(batch, new)
       /\ active' = active \cup new
       /\ overlap' = (overlap \/ (new # {} /\ \E q \in Procs : comp[q].phase = "write"))
  /\ UNCHANGED <<archived, snapshots, comp, aborted, cleared>>

-----------------------------------------------------------------------------
\* Compact, statement by statement.

\* Mutant of CompactQuery: the log is truncated to the first winner.
CompactQueryOneWinner(p) ==
  /\ comp[p] = Idle
  /\ \E kept \in SUBSET QueryOps(ZeroHLC) :
       /\ \E all \in SUBSET QueryOps(ZeroHLC) :
            IsMerge(QueryOps(ZeroHLC), all) /\ kept \subseteq all
       /\ kept = {} <=> QueryOps(ZeroHLC) = {}
       /\ \A r, s \in kept : r.DocID = s.DocID => r = s
       /\ comp' = [comp EXCEPT ![p] = [phase |-> "write", kept |-> kept,
                                       docs |-> {r.DocID : r \in kept}]]
  /\ overlap' = (overlap \/ \E q \in Procs \ {p} : comp[q] # Idle)
  /\ cleared' = {}
  /\ UNCHANGED <<active, archived, snapshots, aborted>>

\* Read the visible rows and pick the winners.
CompactQuery(p) ==
  /\ comp[p] = Idle
  /\ \E kept \in SUBSET QueryOps(ZeroHLC) :
       /\ IsMerge(QueryOps(ZeroHLC), kept)
       /\ comp' = [comp EXCEPT ![p] = [phase |-> "write", kept |-> kept,
                                       docs |-> {r.DocID : r \in kept}]]
  /\ overlap' = (overlap \/ \E q \in Procs \ {p} : comp[q] # Idle)
  /\ cleared' = {}
  /\ UNCHANGED <<active, archived, snapshots, aborted>>

\* Mutant of WriteSnapshot: only one field of the document is written.
WriteSnapshotOneField(p, d) ==
  /\ comp[p].phase = "write" /\ d \in comp[p].docs
  /\ \E r \in comp[p].kept :
       r.DocID = d /\ snapshots' = [snapshots EXCEPT ![d] = {r}]
  /\ comp' = [comp EXCEPT ![p].docs = @ \ {d}]
  /\ UNCHANGED <<active, archived, overlap, aborted, cleared>>

\* Mutant of WriteSnapshot: INSERT OR IGNORE.
WriteSnapshotOnce(p, d) ==
  /\ comp[p].phase = "write" /\ d \in comp[p].docs
  /\ snapshots' = [snapshots EXCEPT
       ![d] = IF @ = {} THEN {r \in comp[p].kept : r.DocID = d} ELSE @]
  /\ comp' = [comp EXCEPT ![p].docs = @ \ {d}]
  /\ UNCHANGED <<active, archived, overlap, aborted, cleared>>

\* Replace the snapshot row of one document; the order is that of a Go map.
WriteSnapshot(p, d) ==
  /\ comp[p].phase = "write" /\ d \in comp[p].docs
  /\ snapshots' = [snapshots EXCEPT ![d] = {r \in comp[p].kept : r.DocID = d}]
  /\ comp' = [comp EXCEPT ![p].docs = @ \ {d}]
  /\ UNCHANGED <<active, archived, overlap, aborted, cleared>>

\* Mutant of ArchiveOps: DeleteOps in its place.
ArchiveByDelete(p) ==
  /\ comp[p].phase = "write" /\ comp[p].docs = {}
  /\ active' = {}
  /\ comp' = [comp EXCEPT ![p] = IF @.kept = {} THEN Idle ELSE [@ EXCEPT !.phase = "reactivate"]]
  /\ UNCHANGED <<archived, snapshots, overlap, aborted, cleared>>

ArchiveOps(p) ==
  /\ comp[p].phase = "write" /\ comp[p].docs = {}
  /\ archived' = archived \cup active
  /\ active' = {}
  /\ comp' = [comp EXCEPT ![p] = IF @.kept = {} THEN Idle ELSE [@ EXCEPT !.phase = "reactivate"]]
  /\ UNCHANGED <<snapshots, overlap, aborted, cleared>>

\* ON CONFLICT(op_id) DO UPDATE SET status = 'active': the row that is there
\* becomes active; an op whose row is gone is inserted again.
ReactivateOps(p) ==
  LET there == {r \in archived : r.OpID \in IDs(comp[p].kept)}
      gone  == {r \in comp[p].kept : r.OpID \notin IDs(Rows)}
  IN  /\ comp[p].phase = "reactivate"
      /\ active' = active \cup there \cup gone
      /\ archived' = archived \ there
      /\ comp' = [comp EXCEPT ![p] = Idle]
      /\ cleared' = {}
      /\ UNCHANGED <<snapshots, overlap, aborted>>

\* Compact returns an error, its context is cancelled or the process dies.
CompactFail(p) ==
  /\ comp[p] # Idle
  /\ aborted' = (aborted \/ comp[p].phase = "reactivate")
  /\ comp' = [comp EXCEPT ![p] = Idle]
  /\ cleared' = {}
  /\ UNCHANGED <<active, archived, snapshots, overlap>>

-----------------------------------------------------------------------------
\* What the data browser lists.
ListDocs == {d \in DocIDs : snapshots[d] # {}}

\* Its delete: the snapshot row goes, the ops stay.
DeleteDoc(d) ==
  /\ d \in ListDocs
  /\ snapshots' = [snapshots EXCEPT ![d] = {}]
  /\ cleared' = IF \E p \in Procs : comp[p] # Idle THEN cleared \cup {d} ELSE cleared
  /\ UNCHANGED <<active, archived, comp, overlap, aborted>>

Next ==
  \/ \E batch \in SUBSET Ops : batch # {} /\ MergeOps(batch)
  \/ \E p \in Procs :
       \/ CompactQuery(p)
       \/ \E d \in DocIDs : WriteSnapshot(p, d)
       \/ ArchiveOps(p)
       \/ ReactivateOps(p)
       \/ CompactFail(p)
  \/ \E d \in DocIDs : DeleteDoc(d)

Spec == Init /\ [][Next]_vars

-----------------------------------------------------------------------------
Settled == \A p \in Procs : comp[p].phase # "reactivate"

\* A row that Compact archived is obsolete: an active row has its field and is
\* not older.  It holds whenever no compaction is between ArchiveOps and
\* ReactivateOps, as long as no compaction met another or an insert that it
\* had not read, and none stopped in between (Backend.Compact).
NoLostWrite ==
  ~overlap /\ ~aborted /\ Settled => CoveredBy(Visible(archived), active)

\* README.md:3 as written: "no data loss"; core/interfaces.go:5 calls the
\* methods of StorageBackend "safe for concurrent use".  Nothing is excluded.
LossFree == Settled => CoveredBy(Visible(archived), active)

\* A row is never deleted or rewritten, whatever overlaps or fails: what
\* MergeOps has accepted stays in the table (InsertOps, ArchiveOps,
\* ReactivateOps).
RowsAreForever == [][Rows \subseteq Rows']_vars

\* An op_id is in the log once, whichever status its row has: an op that is
\* sent again after it was archived does not come back (InsertOps).
OneRowPerOpID ==
  /\ \A r, s \in Rows : r.OpID = s.OpID => r = s
  /\ active \cap archived = {}

\* The data browser never shows an older version of a document than before:
\* a snapshot row is replaced by one that is at least as new in every field, or
\* deleted, unless compactions overlapped or lost rows (WriteSnapshot's INSERT
\* OR REPLACE compares no timestamps).
SnapshotsNeverRegress ==
  [][~overlap /\ ~aborted =>
       \A d \in DocIDs : snapshots'[d] = {} \/ CoveredBy(snapshots[d], snapshots'[d])]_vars

\* What the data browser shows after an undisturbed compaction is what the
\* devices are sent: a document's row has the active ops of that document, also
\* when it was deleted before the compaction began (Backend.Compact, DeleteDoc).
SnapshotsMatchLog ==
  [][\A p \in Procs :
       ReactivateOps(p) /\ ~overlap /\ ~aborted /\ active = {} =>
         \A d \in DocIDs \ cleared :
           snapshots'[d] = {r \in active' : r.DocID = d}]_vars

\* backend.go:123: "After compaction the active op count equals the number of
\* unique (doc, field) pairs", when nothing came in during the compaction.
CompactedToWinners ==
  [][\A p \in Procs :
       ReactivateOps(p) /\ ~overlap /\ ~aborted /\ active = {} =>
         IsMerge(Visible(Rows'), active')]_vars

-----------------------------------------------------------------------------
\* The inductive invariant.

\* What Compact holds in kept are rows of the table, one for each field, and
\* a goroutine outside Compact holds nothing.
KeptAreRows ==
  \A p \in Procs :
    /\ comp[p].kept \subseteq Visible(Rows)
    /\ \A a, b \in comp[p].kept : SameField(a, b) => a = b
    /\ comp[p].phase = "idle" => comp[p] = Idle

SnapshotsAreRows ==
  \A d \in DocIDs : snapshots[d] \subseteq {r \in Visible(Rows) : r.DocID = d}

Serial ==
  ~overlap => \A p, q \in Procs : comp[p] # Idle /\ comp[q] # Idle => p = q

\* kept stands for all that Compact is about to archive ...
WinnersCoverActive ==
  ~overlap => \A p \in Procs :
    comp[p].phase = "write" => CoveredBy(Visible(active), comp[p].kept)

\* ... and, until it is active again, for all that has been archived.
WinnersCoverArchived ==
  ~overlap /\ ~aborted => \A p \in Procs :
    comp[p].phase = "reactivate" => CoveredBy(Visible(archived), comp[p].kept)

\* Compact has written the rows of the documents it is done with, and a
\* document that has no winner has no row.
SnapshotsWritten ==
  ~overlap /\ ~aborted => \A p \in Procs :
    comp[p] # Idle => \A d \in DocIDs \ (comp[p].docs \cup cleared) :
      snapshots[d] = {r \in comp[p].kept : r.DocID = d}

\* Once it archives, Compact is done with every document.
AllWritten == \A p \in Procs : comp[p].phase = "reactivate" => comp[p].docs = {}

LogInv ==
  /\ TypeOK
  /\ OneRowPerOpID
  /\ KeptAreRows
  /\ SnapshotsAreRows
  /\ Serial
  /\ WinnersCoverActive
  /\ WinnersCoverArchived
  /\ SnapshotsWritten
  /\ AllWritten
  /\ NoLostWrite
=============================================================================
