---------------------------- MODULE OpLog_proofs ----------------------------
(***************************************************************************)
(* The op log, for any ops and any number of goroutines: LogInv is         *)
(* inductive, and what the model checker tries on a small instance follows *)
(* from it.                                                                *)
(***************************************************************************)
EXTENDS OpLog, LWW_proofs

\* The row of a well-formed op is well formed and keeps its op_id.
LEMMA RowType ==
  ASSUME NEW op \in CRDTOp
  PROVE  Row(op) \in CRDTOp /\ Row(op).OpID = op.OpID
BY DEF Row, CRDTOp, HLC

\* A row that makes a visible row obsolete is itself visible to QueryOps.
LEMMA CoverIsVisible ==
  ASSUME NEW a \in CRDTOp, NEW r \in CRDTOp, Covers(a, r), After(r.Timestamp, ZeroHLC)
  PROVE  After(a.Timestamp, ZeroHLC)
BY HLCAssumption DEF Covers, Before, After, ZeroHLC, CRDTOp, HLC, Wall

\* Being covered composes: T covers S and U covers the visible part of T.
LEMMA CoveredByTransitive ==
  ASSUME NEW S \in SUBSET CRDTOp, NEW T \in SUBSET CRDTOp, NEW U \in SUBSET CRDTOp,
         CoveredBy(Visible(S), T), CoveredBy(Visible(T), U)
  PROVE  CoveredBy(Visible(S), U)
<1> SUFFICES ASSUME NEW s \in Visible(S) PROVE \E u \in U : Covers(u, s)
  BY DEF CoveredBy
<1>1. s \in CRDTOp /\ After(s.Timestamp, ZeroHLC)
  BY DEF Visible
<1>2. PICK t \in T : Covers(t, s)
  BY DEF CoveredBy
<1>3. t \in Visible(T)
  BY <1>1, <1>2, CoverIsVisible DEF Visible
<1>4. PICK u \in U : Covers(u, t)
  BY <1>3 DEF CoveredBy
<1> QED
  BY <1>1, <1>2, <1>4, CoversTransitive

\* A set of rows covers itself.
LEMMA CoveredBySelf ==
  ASSUME NEW S \in SUBSET CRDTOp, NEW T, S \subseteq T
  PROVE  CoveredBy(S, T)
BY CoversReflexive DEF CoveredBy

\* The state is well typed in the form that the steps below use.
LEMMA CompType ==
  ASSUME TypeOK, NEW p \in Procs
  PROVE  /\ comp[p].phase \in {"idle", "write", "reactivate"}
         /\ comp[p].kept \in SUBSET CRDTOp
         /\ comp[p].docs \in SUBSET DocIDs
         /\ DOMAIN comp = Procs
         /\ comp[p] = [phase |-> comp[p].phase, kept |-> comp[p].kept, docs |-> comp[p].docs]
BY DEF TypeOK

\* LogInv holds of an empty log.
LEMMA LogInvInit == Init => LogInv
<1> SUFFICES ASSUME Init PROVE LogInv
  OBVIOUS
<1>1. \A p \in Procs : comp[p] = Idle /\ comp[p].phase = "idle" /\ comp[p].kept = {}
  BY DEF Init, Idle
<1>2. TypeOK
  BY <1>1 DEF Init, TypeOK, Idle
<1>3. OneRowPerOpID /\ SnapshotsAreRows
  BY DEF Init, OneRowPerOpID, Rows, SnapshotsAreRows
<1>4. KeptAreRows /\ Serial /\ WinnersCoverActive /\ WinnersCoverArchived
  BY <1>1 DEF KeptAreRows, Serial, WinnersCoverActive, WinnersCoverArchived
<1>5. SnapshotsWritten /\ AllWritten
  BY <1>1 DEF SnapshotsWritten, AllWritten
<1>6. NoLostWrite
  BY DEF Init, NoLostWrite, CoveredBy, Visible
<1> QED
  BY <1>2, <1>3, <1>4, <1>5, <1>6 DEF LogInv

\* Backend.MergeOps preserves LogInv: a compaction that has already read the
\* log counts as overlapped when a row is added.
LEMMA LogInvMergeOps ==
  ASSUME LogInv, NEW batch \in SUBSET Ops, MergeOps(batch)
  PROVE  LogInv'
<1>1. PICK new \in SUBSET Unknown(batch) :
        /\ NewRows(batch, new)
        /\ active' = active \cup new
        /\ overlap' = (overlap \/ (new # {} /\ \E q \in Procs : comp[q].phase = "write"))
  BY DEF MergeOps
<1>2. /\ archived' = archived /\ snapshots' = snapshots /\ comp' = comp /\ aborted' = aborted
      /\ cleared' = cleared
  BY DEF MergeOps
<1>3. \A r \in new : r \in CRDTOp /\ r.OpID \notin IDs(Rows)
  BY <1>1, OpLogAssumption, RowType DEF Unknown
<1>4. Rows' = Rows \cup new /\ Visible(Rows) \subseteq Visible(Rows')
  BY <1>1, <1>2 DEF Rows, Visible
<1>5. TypeOK'
  BY <1>1, <1>2, <1>3 DEF LogInv, TypeOK
<1>6. OneRowPerOpID'
  <2>2. \A r \in new, s \in Rows : r.OpID # s.OpID
    BY <1>3 DEF IDs
  <2>3. \A r, s \in new : r.OpID = s.OpID => r = s
    BY <1>1 DEF NewRows
  <2>4. \A r, s \in Rows' : r.OpID = s.OpID => r = s
    BY <1>4, <2>2, <2>3 DEF LogInv, OneRowPerOpID
  <2>5. active' \cap archived' = {}
    BY <1>1, <1>2, <2>2 DEF LogInv, OneRowPerOpID, Rows
  <2> QED
    BY <2>4, <2>5 DEF OneRowPerOpID
<1>7. KeptAreRows'
  BY <1>2, <1>4 DEF LogInv, KeptAreRows
<1>8. SnapshotsAreRows'
  BY <1>2, <1>4 DEF LogInv, SnapshotsAreRows
<1>9. overlap => overlap'
  BY <1>1
<1>10. Serial'
  BY <1>2, <1>9 DEF LogInv, Serial
<1>11. WinnersCoverActive'
  <2> SUFFICES ASSUME ~overlap', NEW p \in Procs, comp[p].phase = "write"
               PROVE  CoveredBy(Visible(active'), comp[p].kept)
    BY <1>2 DEF WinnersCoverActive
  <2>1. active' = active /\ ~overlap
    BY <1>1, <1>9
  <2> QED
    BY <2>1 DEF LogInv, WinnersCoverActive
<1>12. WinnersCoverArchived'
  BY <1>2, <1>9 DEF LogInv, WinnersCoverArchived
<1>13. NoLostWrite'
  <2>1. active \subseteq active'
    BY <1>1
  <2> QED
    BY <1>2, <1>9, <2>1 DEF LogInv, NoLostWrite, Settled, CoveredBy, Visible
<1>14. SnapshotsWritten' /\ AllWritten'
  BY <1>2, <1>9 DEF LogInv, SnapshotsWritten, AllWritten
<1> QED
  BY <1>5, <1>6, <1>7, <1>8, <1>10, <1>11, <1>12, <1>13, <1>14 DEF LogInv

\* The query of Backend.Compact preserves LogInv: its winners cover all that
\* is active.
LEMMA LogInvCompactQuery ==
  ASSUME LogInv, NEW p \in Procs, CompactQuery(p)
  PROVE  LogInv'
<1>1. PICK kept \in SUBSET QueryOps(ZeroHLC) :
        /\ IsMerge(QueryOps(ZeroHLC), kept)
        /\ comp' = [comp EXCEPT ![p] = [phase |-> "write", kept |-> kept,
                                        docs |-> {r.DocID : r \in kept}]]
  BY DEF CompactQuery
<1>2. /\ active' = active /\ archived' = archived /\ snapshots' = snapshots
      /\ aborted' = aborted /\ comp[p] = Idle /\ cleared' = {}
      /\ overlap' = (overlap \/ \E q \in Procs \ {p} : comp[q] # Idle)
  BY DEF CompactQuery
<1>3. QueryOps(ZeroHLC) = Visible(active) /\ active \in SUBSET CRDTOp
  BY DEF QueryOps, Visible, LogInv, TypeOK
<1>4. Rows' = Rows /\ Visible(Rows)' = Visible(Rows) /\ Visible(active) \subseteq Visible(Rows)
  BY <1>2 DEF Rows, Visible
<1>5. DOMAIN comp = Procs
  BY DEF LogInv, TypeOK
<1>6. /\ comp'[p].phase = "write" /\ comp'[p].kept = kept
      /\ comp'[p].docs = {r.DocID : r \in kept}
      /\ \A q \in Procs : q # p => comp'[q] = comp[q]
  BY <1>1, <1>5
<1>7. TypeOK'
  <2>1. {r.DocID : r \in kept} \in SUBSET DocIDs /\ kept \in SUBSET CRDTOp
    BY <1>3 DEF Visible, CRDTOp
  <2>2. overlap' \in BOOLEAN
    BY <1>2 DEF LogInv, TypeOK
  <2> QED
    BY <1>1, <1>2, <2>1, <2>2 DEF LogInv, TypeOK
<1>8. OneRowPerOpID'
  BY <1>2, <1>4 DEF LogInv, OneRowPerOpID
<1>9. KeptAreRows'
  <2> SUFFICES ASSUME NEW q \in Procs
               PROVE  /\ comp'[q].kept \subseteq Visible(Rows)
                      /\ \A a, b \in comp'[q].kept : SameField(a, b) => a = b
                      /\ comp'[q].phase = "idle" => comp'[q] = Idle
    BY <1>4 DEF KeptAreRows
  <2>1. CASE q = p
    BY <1>1, <1>3, <1>4, <1>6, <2>1 DEF IsMerge
  <2>2. CASE q # p
    BY <1>6, <2>2 DEF LogInv, KeptAreRows
  <2> QED
    BY <2>1, <2>2
<1>10. SnapshotsAreRows'
  BY <1>2, <1>4 DEF LogInv, SnapshotsAreRows
<1>11. Serial'
  BY <1>2, <1>6 DEF Serial
<1>12. WinnersCoverActive'
  <2> SUFFICES ASSUME ~overlap', NEW q \in Procs, comp'[q].phase = "write"
               PROVE  CoveredBy(Visible(active), comp'[q].kept)
    BY <1>2 DEF WinnersCoverActive
  <2>1. CASE q = p
    BY <1>1, <1>3, <1>6, <2>1 DEF IsMerge
  <2>2. CASE q # p
    BY <1>2, <1>6, <2>2 DEF LogInv, WinnersCoverActive
  <2> QED
    BY <2>1, <2>2
<1>13. WinnersCoverArchived'
  BY <1>2, <1>6 DEF LogInv, WinnersCoverArchived
<1>14. NoLostWrite'
  <2> SUFFICES ASSUME ~overlap', ~aborted', Settled'
               PROVE  CoveredBy(Visible(archived'), active')
    BY DEF NoLostWrite
  <2>1. Settled
    BY <1>2, <1>6 DEF Settled, Idle
  <2> QED
    BY <1>2, <2>1 DEF LogInv, NoLostWrite
<1>15. SnapshotsWritten'
  <2> SUFFICES ASSUME ~overlap', ~aborted', NEW q \in Procs, comp'[q] # Idle,
                      NEW d \in DocIDs, d \notin comp'[q].docs
               PROVE  snapshots[d] = {r \in comp'[q].kept : r.DocID = d}
    BY <1>2 DEF SnapshotsWritten
  <2>1. q = p /\ \A r \in kept : r.DocID # d
    BY <1>2, <1>6
  <2>2. Settled /\ ~overlap /\ ~aborted
    <3>1. ~overlap /\ ~aborted /\ \A o \in Procs : comp[o] = Idle
      BY <1>2
    <3> QED
      BY <3>1 DEF Settled, Idle
  <2>3. CoveredBy(Visible(archived), active) /\ CoveredBy(Visible(active), kept)
    BY <1>1, <1>3, <2>2 DEF LogInv, NoLostWrite, IsMerge
  <2>4. CoveredBy(Visible(archived), kept)
    BY <1>3, <2>3, CoveredByTransitive DEF LogInv, TypeOK, Visible
  <2>5. ASSUME NEW s \in snapshots[d] PROVE FALSE
    <3>1. s.DocID = d /\ (s \in Visible(active) \/ s \in Visible(archived))
      BY DEF LogInv, SnapshotsAreRows, Visible, Rows
    <3>2. PICK t \in kept : Covers(t, s)
      BY <2>3, <2>4, <3>1 DEF CoveredBy
    <3> QED
      BY <2>1, <3>1, <3>2 DEF Covers, SameField
  <2> QED
    BY <1>6, <2>1, <2>5
<1>16. AllWritten'
  BY <1>6 DEF LogInv, AllWritten
<1> QED
  BY <1>7, <1>8, <1>9, <1>10, <1>11, <1>12, <1>13, <1>14, <1>15, <1>16 DEF LogInv

\* WriteSnapshot preserves LogInv: it only touches the snapshot and docs.
LEMMA LogInvWriteSnapshot ==
  ASSUME LogInv, NEW p \in Procs, NEW d \in DocIDs, WriteSnapshot(p, d)
  PROVE  LogInv'
<1>1. /\ active' = active /\ archived' = archived /\ overlap' = overlap /\ aborted' = aborted
      /\ comp[p].phase = "write" /\ cleared' = cleared
      /\ snapshots' = [snapshots EXCEPT ![d] = {r \in comp[p].kept : r.DocID = d}]
      /\ comp' = [comp EXCEPT ![p].docs = comp[p].docs \ {d}]
  BY DEF WriteSnapshot
<1>2. DOMAIN comp = Procs /\ DOMAIN snapshots = DocIDs
  BY DEF LogInv, TypeOK
<1>3. /\ comp[p].kept \in SUBSET CRDTOp /\ comp[p].docs \in SUBSET DocIDs
      /\ comp[p] = [phase |-> comp[p].phase, kept |-> comp[p].kept, docs |-> comp[p].docs]
  BY CompType DEF LogInv
<1>4. /\ comp'[p] = [phase |-> "write", kept |-> comp[p].kept, docs |-> comp[p].docs \ {d}]
      /\ \A q \in Procs : q # p => comp'[q] = comp[q]
  BY <1>1, <1>2, <1>3
<1>5. /\ \A q \in Procs : comp'[q].phase = comp[q].phase /\ comp'[q].kept = comp[q].kept
      /\ comp[p] # Idle
  BY <1>1, <1>4 DEF Idle
<1>6. Rows' = Rows /\ Visible(Rows)' = Visible(Rows)
  BY <1>1 DEF Rows, Visible
<1>7. TypeOK'
  <2>1. comp' \in [Procs -> [phase : {"idle", "write", "reactivate"},
                             kept : SUBSET CRDTOp, docs : SUBSET DocIDs]]
    BY <1>1, <1>2, <1>3, <1>4 DEF LogInv, TypeOK
  <2>2. snapshots' \in [DocIDs -> SUBSET CRDTOp]
    BY <1>1, <1>3 DEF LogInv, TypeOK
  <2> QED
    BY <1>1, <2>1, <2>2 DEF LogInv, TypeOK
<1>8. OneRowPerOpID'
  BY <1>1, <1>6 DEF LogInv, OneRowPerOpID
<1>9. KeptAreRows'
  <2> SUFFICES ASSUME NEW q \in Procs
               PROVE  /\ comp'[q].kept \subseteq Visible(Rows)
                      /\ \A a, b \in comp'[q].kept : SameField(a, b) => a = b
                      /\ comp'[q].phase = "idle" => comp'[q] = Idle
    BY <1>6 DEF KeptAreRows
  <2>1. comp'[q].phase = "idle" => comp'[q] = comp[q]
    BY <1>1, <1>4, <1>5
  <2> QED
    BY <1>5, <2>1 DEF LogInv, KeptAreRows
<1>10. SnapshotsAreRows'
  BY <1>1, <1>2, <1>6 DEF LogInv, SnapshotsAreRows, KeptAreRows
<1>11. Serial'
  BY <1>1, <1>4, <1>5 DEF LogInv, Serial
<1>12. WinnersCoverActive' /\ WinnersCoverArchived' /\ NoLostWrite'
  BY <1>1, <1>5 DEF LogInv, WinnersCoverActive, WinnersCoverArchived, NoLostWrite, Settled
<1>13. SnapshotsWritten'
  <2> SUFFICES ASSUME ~overlap, ~aborted, NEW q \in Procs, comp'[q] # Idle,
                      NEW e \in DocIDs, e \notin comp'[q].docs, e \notin cleared
               PROVE  snapshots'[e] = {r \in comp'[q].kept : r.DocID = e}
    BY <1>1 DEF SnapshotsWritten
  <2>1. q = p
    BY <1>4, <1>5 DEF LogInv, Serial
  <2>2. CASE e = d
    BY <1>1, <1>2, <1>4, <2>1, <2>2
  <2>3. CASE e # d
    <3>1. snapshots'[e] = snapshots[e] /\ e \notin comp[p].docs
      BY <1>1, <1>2, <1>4, <2>1, <2>3
    <3> QED
      BY <1>4, <1>5, <2>1, <3>1 DEF LogInv, SnapshotsWritten
  <2> QED
    BY <2>2, <2>3
<1>14. AllWritten'
  BY <1>1, <1>4 DEF LogInv, AllWritten
<1> QED
  BY <1>7, <1>8, <1>9, <1>10, <1>11, <1>12, <1>13, <1>14 DEF LogInv

\* ArchiveOps preserves LogInv: the winners cover the rows it archives and,
\* through them, those that were archived before.
LEMMA LogInvArchiveOps ==
  ASSUME LogInv, NEW p \in Procs, ArchiveOps(p)
  PROVE  LogInv'
<1> DEFINE kept == comp[p].kept
<1>1. /\ archived' = archived \cup active /\ active' = {} /\ snapshots' = snapshots
      /\ overlap' = overlap /\ aborted' = aborted /\ comp[p].phase = "write"
      /\ comp[p].docs = {} /\ cleared' = cleared
      /\ comp' = [comp EXCEPT ![p] = IF kept = {} THEN Idle
                                     ELSE [comp[p] EXCEPT !.phase = "reactivate"]]
  BY DEF ArchiveOps
<1>2. /\ DOMAIN comp = Procs /\ active \in SUBSET CRDTOp /\ archived \in SUBSET CRDTOp
      /\ kept \in SUBSET CRDTOp /\ comp[p].docs \in SUBSET DocIDs
      /\ comp[p] = [phase |-> comp[p].phase, kept |-> kept, docs |-> comp[p].docs]
  BY CompType DEF LogInv, TypeOK
<1>3. /\ comp'[p] = IF kept = {} THEN Idle
                    ELSE [phase |-> "reactivate", kept |-> kept, docs |-> comp[p].docs]
      /\ \A q \in Procs : q # p => comp'[q] = comp[q]
  BY <1>1, <1>2
<1>4. comp'[p].kept = kept /\ comp'[p].phase # "write" /\ comp[p] # Idle
  BY <1>1, <1>3 DEF Idle
<1>5. Rows' = Rows /\ Visible(Rows)' = Visible(Rows)
  BY <1>1 DEF Rows, Visible
<1>6. TypeOK'
  <2>1. comp'[p] \in [phase : {"idle", "write", "reactivate"},
                      kept : SUBSET CRDTOp, docs : SUBSET DocIDs]
    BY <1>2, <1>3 DEF Idle
  <2>2. comp' \in [Procs -> [phase : {"idle", "write", "reactivate"},
                             kept : SUBSET CRDTOp, docs : SUBSET DocIDs]]
    BY <1>1, <2>1, <1>3 DEF LogInv, TypeOK
  <2> QED
    BY <1>1, <1>2, <2>2 DEF LogInv, TypeOK
<1>7. OneRowPerOpID'
  BY <1>1, <1>5 DEF LogInv, OneRowPerOpID
<1>8. KeptAreRows'
  <2> SUFFICES ASSUME NEW q \in Procs
               PROVE  /\ comp'[q].kept \subseteq Visible(Rows)
                      /\ \A a, b \in comp'[q].kept : SameField(a, b) => a = b
                      /\ comp'[q].phase = "idle" => comp'[q] = Idle
    BY <1>5 DEF KeptAreRows
  <2>1. CASE q = p
    BY <1>3, <1>4, <2>1 DEF LogInv, KeptAreRows
  <2>2. CASE q # p
    BY <1>3, <2>2 DEF LogInv, KeptAreRows
  <2> QED
    BY <2>1, <2>2
<1>9. SnapshotsAreRows'
  BY <1>1, <1>5 DEF LogInv, SnapshotsAreRows
<1>10. Serial'
  BY <1>1, <1>3, <1>4 DEF LogInv, Serial
<1>11. WinnersCoverActive'
  BY <1>1 DEF WinnersCoverActive, CoveredBy, Visible
<1>12. ASSUME ~overlap, ~aborted
       PROVE  CoveredBy(Visible(archived'), kept)
  <2>1. Settled
    BY <1>1, <1>4, <1>12 DEF LogInv, Serial, Settled, Idle
  <2>2. CoveredBy(Visible(archived), active) /\ CoveredBy(Visible(active), kept)
    BY <1>1, <1>12, <2>1 DEF LogInv, NoLostWrite, WinnersCoverActive
  <2>3. CoveredBy(Visible(archived), kept)
    BY <1>2, <2>2, CoveredByTransitive
  <2> QED
    BY <1>1, <2>2, <2>3 DEF CoveredBy, Visible
<1>13. WinnersCoverArchived'
  <2> SUFFICES ASSUME ~overlap, ~aborted, NEW q \in Procs, comp'[q].phase = "reactivate"
               PROVE  CoveredBy(Visible(archived'), comp'[q].kept)
    BY <1>1 DEF WinnersCoverArchived
  <2>1. q = p
    BY <1>1, <1>3, <1>4 DEF LogInv, Serial, Idle
  <2> QED
    BY <1>4, <1>12, <2>1
<1>14. NoLostWrite'
  <2> SUFFICES ASSUME ~overlap, ~aborted, Settled'
               PROVE  CoveredBy(Visible(archived'), active')
    BY <1>1 DEF NoLostWrite
  <2>1. kept = {}
    BY <1>3 DEF Settled
  <2> QED
    BY <1>12, <2>1 DEF CoveredBy
<1>15. SnapshotsWritten'
  <2> SUFFICES ASSUME ~overlap, ~aborted, NEW q \in Procs, comp'[q] # Idle,
                      NEW d \in DocIDs, d \notin comp'[q].docs, d \notin cleared
               PROVE  snapshots[d] = {r \in comp'[q].kept : r.DocID = d}
    BY <1>1 DEF SnapshotsWritten
  <2>1. q = p
    BY <1>3, <1>4 DEF LogInv, Serial
  <2> QED
    BY <1>1, <1>4, <2>1 DEF LogInv, SnapshotsWritten
<1>16. AllWritten'
  BY <1>1, <1>3 DEF LogInv, AllWritten, Idle
<1> QED
  BY <1>6, <1>7, <1>8, <1>9, <1>10, <1>11, <1>13, <1>14, <1>15, <1>16 DEF LogInv

\* What ReactivateOps does: op_ids being unique, exactly the winners come back.
LEMMA ReactivateRestoresKept ==
  ASSUME LogInv, NEW p \in Procs, ReactivateOps(p)
  PROVE  /\ active' = active \cup comp[p].kept
         /\ archived' = archived \ comp[p].kept
         /\ comp[p].kept \subseteq Visible(Rows)
         /\ Rows' = Rows
<1> DEFINE kept == comp[p].kept
           there == {r \in archived : r.OpID \in IDs(kept)}
           gone == {r \in kept : r.OpID \notin IDs(Rows)}
<1>1. kept \subseteq Visible(Rows) /\ kept \subseteq Rows
  BY DEF LogInv, KeptAreRows, Visible
<1>2. active' = active \cup there \cup gone /\ archived' = archived \ there
  BY DEF ReactivateOps
<1>3. gone = {}
  BY <1>1 DEF IDs
<1>4. \A r \in Rows : r.OpID \in IDs(kept) => r \in kept
  BY <1>1 DEF IDs, LogInv, OneRowPerOpID
<1>5. there = archived \cap kept
  BY <1>4 DEF IDs, Rows
<1> HIDE DEF there, gone, kept
<1> QED
  BY <1>1, <1>2, <1>3, <1>5 DEF Rows, kept

\* ReactivateOps preserves LogInv: the winners that stood for the archived
\* rows are active again.
LEMMA LogInvReactivateOps ==
  ASSUME LogInv, NEW p \in Procs, ReactivateOps(p)
  PROVE  LogInv'
<1>1. /\ snapshots' = snapshots /\ overlap' = overlap /\ aborted' = aborted /\ cleared' = {}
      /\ comp[p].phase = "reactivate" /\ comp' = [comp EXCEPT ![p] = Idle]
  BY DEF ReactivateOps
<1>2. /\ DOMAIN comp = Procs /\ active \in SUBSET CRDTOp /\ archived \in SUBSET CRDTOp
      /\ comp[p].kept \in SUBSET CRDTOp
  BY CompType DEF LogInv, TypeOK
<1>3. comp'[p] = Idle /\ \A q \in Procs : q # p => comp'[q] = comp[q]
  BY <1>1, <1>2
<1>4. /\ Idle.phase = "idle" /\ Idle.kept = {} /\ comp[p] # Idle
      /\ Idle \in [phase : {"idle", "write", "reactivate"},
                   kept : SUBSET CRDTOp, docs : SUBSET DocIDs]
  BY <1>1 DEF Idle
<1>5. /\ active' = active \cup comp[p].kept /\ archived' = archived \ comp[p].kept
      /\ Rows' = Rows
  BY ReactivateRestoresKept
<1>6. Visible(Rows)' = Visible(Rows)
  BY <1>5 DEF Visible
<1>7. TypeOK'
  <2>1. comp' \in [Procs -> [phase : {"idle", "write", "reactivate"},
                             kept : SUBSET CRDTOp, docs : SUBSET DocIDs]]
    BY <1>1, <1>3, <1>4 DEF LogInv, TypeOK
  <2> QED
    BY <1>1, <1>2, <1>5, <2>1 DEF LogInv, TypeOK
<1>8. OneRowPerOpID'
  BY <1>5 DEF LogInv, OneRowPerOpID
<1>9. KeptAreRows'
  BY <1>3, <1>4, <1>6 DEF LogInv, KeptAreRows
<1>10. SnapshotsAreRows'
  BY <1>1, <1>6 DEF LogInv, SnapshotsAreRows
<1>11. Serial'
  BY <1>1, <1>3 DEF LogInv, Serial
<1>12. WinnersCoverActive'
  <2> SUFFICES ASSUME ~overlap, NEW q \in Procs, comp'[q].phase = "write" PROVE FALSE
    BY <1>1 DEF WinnersCoverActive
  <2>1. q # p /\ comp[q] # Idle
    BY <1>3, <1>4
  <2> QED
    BY <1>4, <2>1 DEF LogInv, Serial
<1>13. WinnersCoverArchived'
  <2> SUFFICES ASSUME ~overlap, NEW q \in Procs, comp'[q].phase = "reactivate" PROVE FALSE
    BY <1>1 DEF WinnersCoverArchived
  <2>1. q # p /\ comp[q] # Idle
    BY <1>3, <1>4
  <2> QED
    BY <1>4, <2>1 DEF LogInv, Serial
<1>14. NoLostWrite'
  <2> SUFFICES ASSUME ~overlap, ~aborted
               PROVE  CoveredBy(Visible(archived'), active')
    BY <1>1 DEF NoLostWrite
  <2>1. CoveredBy(Visible(archived), comp[p].kept)
    BY <1>1 DEF LogInv, WinnersCoverArchived
  <2> QED
    BY <1>5, <2>1 DEF CoveredBy, Visible
<1>15. SnapshotsWritten' /\ AllWritten'
  <2>1. ~overlap => \A q \in Procs : comp'[q] = Idle
    BY <1>3, <1>4 DEF LogInv, Serial
  <2> QED
    BY <1>1, <1>3, <1>4, <2>1 DEF LogInv, SnapshotsWritten, AllWritten
<1> QED
  BY <1>7, <1>8, <1>9, <1>10, <1>11, <1>12, <1>13, <1>14, <1>15 DEF LogInv

\* A compaction that stops preserves LogInv: before ArchiveOps it has changed
\* no row, and after it the log counts as aborted.
LEMMA LogInvCompactFail ==
  ASSUME LogInv, NEW p \in Procs, CompactFail(p)
  PROVE  LogInv'
<1>1. /\ active' = active /\ archived' = archived /\ snapshots' = snapshots
      /\ overlap' = overlap /\ aborted' = (aborted \/ comp[p].phase = "reactivate")
      /\ cleared' = {} /\ comp[p] # Idle
      /\ comp' = [comp EXCEPT ![p] = Idle]
  BY DEF CompactFail
<1>2. DOMAIN comp = Procs
  BY DEF LogInv, TypeOK
<1>3. comp'[p] = Idle /\ \A q \in Procs : q # p => comp'[q] = comp[q]
  BY <1>1, <1>2
<1>4. /\ Idle.phase = "idle" /\ Idle.kept = {}
      /\ Idle \in [phase : {"idle", "write", "reactivate"},
                   kept : SUBSET CRDTOp, docs : SUBSET DocIDs]
  BY DEF Idle
<1>5. Rows' = Rows /\ Visible(Rows)' = Visible(Rows)
  BY <1>1 DEF Rows, Visible
<1>6. TypeOK'
  <2>1. comp' \in [Procs -> [phase : {"idle", "write", "reactivate"},
                             kept : SUBSET CRDTOp, docs : SUBSET DocIDs]]
    BY <1>1, <1>3, <1>4 DEF LogInv, TypeOK
  <2>2. aborted' \in BOOLEAN
    BY <1>1 DEF LogInv, TypeOK
  <2> QED
    BY <1>1, <2>1, <2>2 DEF LogInv, TypeOK
<1>7. OneRowPerOpID' /\ SnapshotsAreRows'
  BY <1>1, <1>5 DEF LogInv, OneRowPerOpID, SnapshotsAreRows
<1>8. KeptAreRows'
  BY <1>3, <1>4, <1>5 DEF LogInv, KeptAreRows
<1>9. Serial'
  BY <1>1, <1>3 DEF LogInv, Serial
<1>10. WinnersCoverActive' /\ WinnersCoverArchived'
  BY <1>1, <1>3, <1>4 DEF LogInv, WinnersCoverActive, WinnersCoverArchived
<1>11. NoLostWrite'
  <2> SUFFICES ASSUME ~overlap', ~aborted', Settled'
               PROVE  CoveredBy(Visible(archived'), active')
    BY DEF NoLostWrite
  <2>1. Settled /\ ~aborted
    BY <1>1, <1>3 DEF Settled
  <2> QED
    BY <1>1, <2>1 DEF LogInv, NoLostWrite
<1>12. SnapshotsWritten' /\ AllWritten'
  <2>1. ~overlap => \A q \in Procs : comp'[q] = Idle
    BY <1>1, <1>3 DEF LogInv, Serial
  <2> QED
    BY <1>1, <1>3, <1>4, <2>1 DEF LogInv, SnapshotsWritten, AllWritten
<1> QED
  BY <1>6, <1>7, <1>8, <1>9, <1>10, <1>11, <1>12 DEF LogInv

\* Deleting a document preserves LogInv: it changes no row of the log, and a
\* compaction that has written the document's snapshot remembers it.
LEMMA LogInvDeleteDoc ==
  ASSUME LogInv, NEW d \in DocIDs, DeleteDoc(d)
  PROVE  LogInv'
<1>1. /\ active' = active /\ archived' = archived /\ comp' = comp
      /\ overlap' = overlap /\ aborted' = aborted
      /\ snapshots' = [snapshots EXCEPT ![d] = {}]
      /\ cleared' = IF \E p \in Procs : comp[p] # Idle THEN cleared \cup {d} ELSE cleared
  BY DEF DeleteDoc
<1>2. /\ DOMAIN snapshots = DocIDs /\ snapshots'[d] = {}
      /\ \A e \in DocIDs : e # d => snapshots'[e] = snapshots[e]
  BY <1>1 DEF LogInv, TypeOK
<1>3. TypeOK'
  BY <1>1, <1>2 DEF LogInv, TypeOK
<1>4. OneRowPerOpID' /\ KeptAreRows' /\ Serial' /\ WinnersCoverActive'
  BY <1>1 DEF LogInv, OneRowPerOpID, KeptAreRows, Serial, WinnersCoverActive, Rows, Visible
<1>5. WinnersCoverArchived' /\ NoLostWrite' /\ AllWritten'
  BY <1>1 DEF LogInv, WinnersCoverArchived, NoLostWrite, AllWritten, Settled, Visible
<1>6. SnapshotsAreRows'
  BY <1>1, <1>2 DEF LogInv, SnapshotsAreRows, Rows, Visible
<1>7. SnapshotsWritten'
  <2> SUFFICES ASSUME ~overlap, ~aborted, NEW q \in Procs, comp[q] # Idle,
                      NEW e \in DocIDs, e \notin comp[q].docs, e \notin cleared'
               PROVE  snapshots'[e] = {r \in comp[q].kept : r.DocID = e}
    BY <1>1 DEF SnapshotsWritten
  <2>1. e # d /\ e \notin cleared
    BY <1>1
  <2> QED
    BY <1>2, <2>1 DEF LogInv, SnapshotsWritten
<1> QED
  BY <1>3, <1>4, <1>5, <1>6, <1>7 DEF LogInv

\* Every step of the log preserves LogInv.
LEMMA LogInvStep == LogInv /\ [Next]_vars => LogInv'
<1> SUFFICES ASSUME LogInv, [Next]_vars PROVE LogInv'
  OBVIOUS
<1>1. CASE UNCHANGED vars
  BY <1>1 DEF vars, LogInv, TypeOK, OneRowPerOpID, KeptAreRows, SnapshotsAreRows,
              Serial, WinnersCoverActive, WinnersCoverArchived, SnapshotsWritten,
              AllWritten, NoLostWrite, Settled, Rows, Visible
<1>2. CASE Next
  BY <1>2, LogInvMergeOps, LogInvCompactQuery, LogInvWriteSnapshot, LogInvArchiveOps,
     LogInvReactivateOps, LogInvCompactFail, LogInvDeleteDoc DEF Next
<1> QED
  BY <1>1, <1>2

\* LogInv is an invariant of the log.
THEOREM LogInvInductive == Spec => []LogInv
BY LogInvInit, LogInvStep, PTL DEF Spec

\* Statuses and the local variables of Compact keep their types.
THEOREM LogTypeCorrect == Spec => []TypeOK
BY LogInvInductive, PTL DEF LogInv

\* No accepted write is lost by Backend.Compact unless compactions overlap
\* with one another or with an insert, or one of them stops half way.
THEOREM LogLosesNoWrite == Spec => []NoLostWrite
BY LogInvInductive, PTL DEF LogInv

\* An op_id has one row and one status, whatever is sent again (InsertOps).
THEOREM LogOneRowPerOpID == Spec => []OneRowPerOpID
BY LogInvInductive, PTL DEF LogInv

\* What a step adds to the table: MergeOps stores every op_id it is sent and
\* nothing that it is not sent, and removes nothing (InsertOps).
LEMMA MergeOpsStores ==
  ASSUME LogInv, NEW batch \in SUBSET Ops, MergeOps(batch)
  PROVE  /\ Rows \subseteq Rows'
         /\ Rows' \subseteq Rows \cup {Row(op) : op \in batch}
         /\ IDs(batch) \subseteq IDs(Rows')
<1>1. PICK new \in SUBSET Unknown(batch) : NewRows(batch, new) /\ active' = active \cup new
  BY DEF MergeOps
<1>2. Rows' = Rows \cup new
  BY <1>1 DEF MergeOps, Rows
<1>3. new \subseteq {Row(op) : op \in batch}
  BY <1>1 DEF Unknown
<1>4. ASSUME NEW op \in batch PROVE op.OpID \in IDs(Rows')
  <2>1. CASE op.OpID \in IDs(Rows)
    BY <1>2, <2>1 DEF IDs
  <2>2. CASE op.OpID \notin IDs(Rows)
    <3>1. Row(op) \in Unknown(batch) /\ Row(op).OpID = op.OpID
      BY <2>2, OpLogAssumption, RowType DEF Unknown
    <3>2. op.OpID \in IDs(new)
      BY <1>1, <3>1 DEF NewRows, IDs
    <3> QED
      BY <1>2, <3>2 DEF IDs
  <2> QED
    BY <2>1, <2>2
<1>5. IDs(batch) \subseteq IDs(Rows')
  <2>1. \A id \in IDs(batch) : \E op \in batch : id = op.OpID
    BY DEF IDs
  <2> QED
    BY <1>4, <2>1
<1> QED
  BY <1>2, <1>3, <1>5

\* A compaction moves rows and neither adds nor removes one (Backend.Compact).
LEMMA CompactKeepsRows ==
  ASSUME LogInv, NEW p \in Procs,
         \/ CompactQuery(p) \/ ArchiveOps(p) \/ ReactivateOps(p) \/ CompactFail(p)
         \/ \E d \in DocIDs : WriteSnapshot(p, d)
  PROVE  Rows' = Rows
<1>1. CASE CompactQuery(p) \/ CompactFail(p) \/ \E d \in DocIDs : WriteSnapshot(p, d)
  BY <1>1 DEF CompactQuery, CompactFail, WriteSnapshot, Rows
<1>2. CASE ArchiveOps(p)
  BY <1>2 DEF ArchiveOps, Rows
<1>3. CASE ReactivateOps(p)
  BY <1>3, ReactivateRestoresKept
<1> QED
  BY <1>1, <1>2, <1>3

\* No statement of the log deletes or rewrites a row.
THEOREM LogRowsAreForever == Spec => RowsAreForever
<1>1. LogInv /\ [Next]_vars => [Rows \subseteq Rows']_vars
  <2> SUFFICES ASSUME LogInv, Next PROVE Rows \subseteq Rows'
    OBVIOUS
  <2>1. ASSUME NEW d \in DocIDs, DeleteDoc(d) PROVE Rows \subseteq Rows'
    BY <2>1 DEF DeleteDoc, Rows
  <2> QED
    BY <2>1, MergeOpsStores, CompactKeepsRows DEF Next
<1> QED
  BY <1>1, LogInvInductive, PTL DEF Spec, RowsAreForever

\* A snapshot row is only replaced by one that is at least as new in every
\* field: the winners of a compaction cover all that was ever in a snapshot.
THEOREM LogSnapshotsNeverRegress == Spec => SnapshotsNeverRegress
<1>1. LogInv /\ [Next]_vars =>
        [~overlap /\ ~aborted =>
           \A d \in DocIDs :
             snapshots'[d] = {} \/ CoveredBy(snapshots[d], snapshots'[d])]_vars
  <2> SUFFICES ASSUME LogInv, Next, ~overlap, ~aborted, NEW d \in DocIDs,
                      snapshots'[d] # {}
               PROVE  CoveredBy(snapshots[d], snapshots'[d])
    OBVIOUS
  <2>1. snapshots[d] \in SUBSET CRDTOp /\ DOMAIN snapshots = DocIDs
    BY DEF LogInv, TypeOK
  <2>2. CASE snapshots' = snapshots
    BY <2>1, <2>2, CoveredBySelf
  <2>3. ASSUME NEW p \in Procs, NEW e \in DocIDs, WriteSnapshot(p, e)
        PROVE  CoveredBy(snapshots[d], snapshots'[d])
    <3>1. /\ comp[p].phase = "write"
          /\ snapshots' = [snapshots EXCEPT ![e] = {r \in comp[p].kept : r.DocID = e}]
      BY <2>3 DEF WriteSnapshot
    <3>2. CASE d # e
      BY <2>1, <3>1, <3>2, CoveredBySelf
    <3>3. CASE d = e
      <4>1. Settled
        BY <3>1 DEF LogInv, Serial, Settled, Idle
      <4>2. CoveredBy(Visible(archived), active) /\ CoveredBy(Visible(active), comp[p].kept)
        BY <3>1, <4>1 DEF LogInv, NoLostWrite, WinnersCoverActive
      <4>3. /\ active \in SUBSET CRDTOp /\ archived \in SUBSET CRDTOp
            /\ comp[p].kept \in SUBSET CRDTOp
        BY CompType DEF LogInv, TypeOK
      <4>4. CoveredBy(Visible(archived), comp[p].kept)
        BY <4>2, <4>3, CoveredByTransitive
      <4>5. ASSUME NEW s \in snapshots[d]
            PROVE  \E t \in snapshots'[d] : Covers(t, s)
        <5>1. s \in Visible(Rows) /\ s.DocID = d
          BY DEF LogInv, SnapshotsAreRows
        <5>2. s \in Visible(active) \/ s \in Visible(archived)
          BY <5>1 DEF Visible, Rows
        <5>3. PICK t \in comp[p].kept : Covers(t, s)
          BY <4>2, <4>4, <5>2 DEF CoveredBy
        <5>4. t.DocID = d
          BY <5>1, <5>3 DEF Covers, SameField
        <5> QED
          BY <2>1, <3>1, <3>3, <5>3, <5>4
      <4> QED
        BY <4>5 DEF CoveredBy
    <3> QED
      BY <3>2, <3>3
  <2>4. ASSUME NEW e \in DocIDs, DeleteDoc(e)
        PROVE  CoveredBy(snapshots[d], snapshots'[d])
    <3>1. snapshots'[d] = snapshots[d]
      BY <2>1, <2>4 DEF DeleteDoc
    <3> QED
      BY <2>1, <3>1, CoveredBySelf
  <2> QED
    BY <2>2, <2>3, <2>4 DEF Next, MergeOps, CompactQuery, ArchiveOps, ReactivateOps, CompactFail
<1> QED
  BY <1>1, LogInvInductive, PTL DEF Spec, SnapshotsNeverRegress

\* A compaction that nothing came across leaves one active row for each field
\* that has a visible op, and that row is a newest one (Backend.Compact).
THEOREM LogCompactedToWinners == Spec => CompactedToWinners
<1>1. LogInv /\ [Next]_vars =>
        [\A p \in Procs :
           ReactivateOps(p) /\ ~overlap /\ ~aborted /\ active = {} =>
             IsMerge(Visible(Rows'), active')]_vars
  <2> SUFFICES ASSUME LogInv, NEW p \in Procs, ReactivateOps(p),
                      ~overlap, ~aborted, active = {}
               PROVE  IsMerge(Visible(Rows'), active')
    OBVIOUS
  <2>1. active' = comp[p].kept /\ comp[p].kept \subseteq Visible(Rows) /\ Rows' = Rows
    BY ReactivateRestoresKept
  <2>2. Rows = archived
    BY DEF Rows
  <2>3. CoveredBy(Visible(archived), comp[p].kept)
    BY DEF ReactivateOps, LogInv, WinnersCoverArchived
  <2>4. \A a, b \in comp[p].kept : SameField(a, b) => a = b
    BY DEF LogInv, KeptAreRows
  <2> QED
    BY <2>1, <2>2, <2>3, <2>4 DEF IsMerge
<1> QED
  BY <1>1, LogInvInductive, PTL DEF Spec, CompactedToWinners

\* After such a compaction the snapshot rows are the merged documents, deleted
\* ones included: DeleteDoc only lasts until the next Compact.
THEOREM LogSnapshotsMatch == Spec => SnapshotsMatchLog
<1>1. LogInv /\ [Next]_vars =>
        [\A p \in Procs :
           ReactivateOps(p) /\ ~overlap /\ ~aborted /\ active = {} =>
             \A d \in DocIDs \ cleared :
               snapshots'[d] = {r \in active' : r.DocID = d}]_vars
  <2> SUFFICES ASSUME LogInv, NEW p \in Procs, ReactivateOps(p), ~overlap, ~aborted,
                      active = {}, NEW d \in DocIDs \ cleared
               PROVE  snapshots'[d] = {r \in active' : r.DocID = d}
    OBVIOUS
  <2>1. active' = comp[p].kept
    BY ReactivateRestoresKept
  <2>2. snapshots' = snapshots /\ comp[p].phase = "reactivate" /\ comp[p] # Idle
    BY DEF ReactivateOps, Idle
  <2>3. comp[p].docs = {}
    BY <2>2 DEF LogInv, AllWritten
  <2> QED
    BY <2>1, <2>2, <2>3 DEF LogInv, SnapshotsWritten
<1> QED
  BY <1>1, LogInvInductive, PTL DEF Spec, SnapshotsMatchLog
=============================================================================
