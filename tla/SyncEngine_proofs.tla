-------------------------- MODULE SyncEngine_proofs --------------------------
(***************************************************************************)
(* What SyncEngine promises for any number of requests, messages, ops and  *)
(* times.  The log's own invariant comes from OpLog_proofs: the engine is  *)
(* shown to use the log as OpLog allows.                                   *)
(***************************************************************************)
EXTENDS SyncEngine, LWW_proofs, FiniteSetTheorems, WellFoundedInduction

LP == INSTANCE OpLog_proofs WITH Procs <- Reqs

-----------------------------------------------------------------------------
\* Log and LP are the same log.

\* The data and the zero timestamp.
LEMMA SameData ==
  /\ CRDTOp = LP!CRDTOp /\ CRDTOp = Log!CRDTOp
  /\ HLC = LP!HLC /\ HLC = Log!HLC
  /\ ZeroHLC = LP!ZeroHLC /\ ZeroHLC = Log!ZeroHLC
BY DEF CRDTOp, LP!CRDTOp, Log!CRDTOp, HLC, LP!HLC, Log!HLC, Wall, LP!Wall, Log!Wall,
       ZeroHLC, LP!ZeroHLC, Log!ZeroHLC

\* OpLog's assumptions hold of the engine's constants.
LEMMA LogAssumptions == LP!HLCAssumption /\ LP!OpLogAssumption
BY HLCAssumption, EngineAssumption, SameData DEF LP!HLCAssumption, LP!OpLogAssumption

\* The order of timestamps, and when one op covers another.
LEMMA SameOrder ==
  ASSUME NEW a, NEW b
  PROVE  /\ Log!Before(a, b) <=> Before(a, b)
         /\ LP!Before(a, b) <=> Before(a, b)
         /\ Log!Covers(a, b) <=> Covers(a, b)
         /\ LP!Covers(a, b) <=> Covers(a, b)
         /\ LP!SameField(a, b) <=> SameField(a, b)
         /\ LP!After(a, b) <=> Log!After(a, b)
BY DEF Log!Before, LP!Before, Before, Log!Covers, LP!Covers, Covers, LP!SameField, Log!SameField,
       SameField, LP!After, Log!After

\* What a set of ops is a merge of, and what queries see of it.
LEMMA SameCover ==
  ASSUME NEW S, NEW T
  PROVE  /\ Log!CoveredBy(S, T) <=> CoveredBy(S, T)
         /\ LP!CoveredBy(S, T) <=> CoveredBy(S, T)
         /\ Log!IsMerge(S, T) <=> IsMerge(S, T)
         /\ LP!IsMerge(S, T) <=> IsMerge(S, T)
         /\ LP!Visible(S) = Log!Visible(S)
         /\ LP!IDs(S) = Log!IDs(S)
BY DEF Log!Before, LP!Before, Before, Log!Covers, LP!Covers, Covers, LP!SameField, Log!SameField,
       SameField, LP!After, Log!After, Log!CoveredBy, LP!CoveredBy, CoveredBy, Log!IsMerge, LP!IsMerge,
       IsMerge, LP!Visible, Log!Visible, LP!IDs, Log!IDs, LP!ZeroHLC, Log!ZeroHLC

\* The rows, the idle compaction and the queries.
LEMMA SameRows ==
  /\ LP!Rows = Log!Rows /\ LP!Idle = Log!Idle
  /\ \A t : LP!QueryOps(t) = Log!QueryOps(t)
  /\ \A op : LP!Row(op) = Log!Row(op)
BY DEF LP!Rows, Log!Rows, LP!Idle, Log!Idle, LP!QueryOps, Log!QueryOps, LP!After, Log!After, LP!Row, Log!Row

\* The type invariant.
LEMMA SameTypeOK == LP!TypeOK <=> Log!TypeOK
BY SameData DEF LP!TypeOK, Log!TypeOK

\* The initial states.
LEMMA SameInit == LP!Init <=> Log!Init
BY SameRows DEF LP!Init, Log!Init

\* The transaction of MergeOps.
LEMMA SameMergeOps ==
  ASSUME NEW batch
  PROVE  LP!MergeOps(batch) <=> Log!MergeOps(batch)
<1>1. LP!Unknown(batch) = Log!Unknown(batch)
  BY DEF LP!Unknown, Log!Unknown, LP!Row, Log!Row, LP!IDs, Log!IDs, LP!Rows, Log!Rows
<1>2. \A new : LP!NewRows(batch, new) <=> Log!NewRows(batch, new)
  BY <1>1 DEF LP!NewRows, Log!NewRows, LP!IDs, Log!IDs
<1> QED
  BY <1>1, <1>2 DEF LP!MergeOps, Log!MergeOps

\* The statements of Compact.
LEMMA SameCompact ==
  ASSUME NEW p \in Reqs
  PROVE  /\ LP!CompactQuery(p) <=> Log!CompactQuery(p)
         /\ \A d \in DocIDs : LP!WriteSnapshot(p, d) <=> Log!WriteSnapshot(p, d)
         /\ LP!ArchiveOps(p) <=> Log!ArchiveOps(p)
         /\ LP!ReactivateOps(p) <=> Log!ReactivateOps(p)
         /\ LP!CompactFail(p) <=> Log!CompactFail(p)
<1>1. LP!CompactQuery(p) <=> Log!CompactQuery(p)
  BY SameData, SameRows, SameCover, Zenon DEF LP!CompactQuery, Log!CompactQuery
<1>2. \A d \in DocIDs : LP!WriteSnapshot(p, d) <=> Log!WriteSnapshot(p, d)
  BY DEF LP!WriteSnapshot, Log!WriteSnapshot
<1>3. LP!ArchiveOps(p) <=> Log!ArchiveOps(p)
  BY SameRows DEF LP!ArchiveOps, Log!ArchiveOps
<1>4. LP!ReactivateOps(p) <=> Log!ReactivateOps(p)
  BY SameRows DEF LP!ReactivateOps, Log!ReactivateOps, LP!IDs, Log!IDs
<1>5. LP!CompactFail(p) <=> Log!CompactFail(p)
  BY SameRows DEF LP!CompactFail, Log!CompactFail
<1> QED
  BY <1>1, <1>2, <1>3, <1>4, <1>5

\* The inductive invariant, part by part.
LEMMA SameLogInv == LP!LogInv <=> Log!LogInv
<1>1. LP!OneRowPerOpID <=> Log!OneRowPerOpID
  BY SameRows DEF LP!OneRowPerOpID, Log!OneRowPerOpID
<1>2. LP!KeptAreRows <=> Log!KeptAreRows
  BY SameRows, SameCover DEF LP!KeptAreRows, Log!KeptAreRows, LP!SameField, Log!SameField
<1>3. LP!SnapshotsAreRows <=> Log!SnapshotsAreRows
  BY SameRows, SameCover DEF LP!SnapshotsAreRows, Log!SnapshotsAreRows
<1>4. LP!Serial <=> Log!Serial
  BY SameRows DEF LP!Serial, Log!Serial
<1>5. (LP!WinnersCoverActive <=> Log!WinnersCoverActive)
  BY SameCover DEF LP!WinnersCoverActive, Log!WinnersCoverActive
<1>6. LP!WinnersCoverArchived <=> Log!WinnersCoverArchived
  BY SameCover DEF LP!WinnersCoverArchived, Log!WinnersCoverArchived
<1>7. LP!SnapshotsWritten <=> Log!SnapshotsWritten
  BY SameRows DEF LP!SnapshotsWritten, Log!SnapshotsWritten
<1>8. LP!AllWritten <=> Log!AllWritten
  BY DEF LP!AllWritten, Log!AllWritten
<1>9. LP!NoLostWrite <=> Log!NoLostWrite
  BY SameCover DEF LP!NoLostWrite, Log!NoLostWrite, LP!Settled, Log!Settled
<1> QED
  BY <1>1, <1>2, <1>3, <1>4, <1>5, <1>6, <1>7, <1>8, <1>9, SameTypeOK DEF LP!LogInv, Log!LogInv

\* The steps of the log that the engine takes preserve the log's invariant and
\* remove no row; only MergeOps adds some, and no more than it is sent.
LEMMA LogMergeOps ==
  ASSUME Log!LogInv, IsFiniteSet(Log!Rows),
         NEW batch \in SUBSET Ops, IsFiniteSet(batch), Log!MergeOps(batch)
  PROVE  /\ Log!LogInv' /\ IsFiniteSet(Log!Rows')
         /\ Log!IDs(Log!Rows) \subseteq Log!IDs(Log!Rows')
         /\ Log!IDs(batch) \subseteq Log!IDs(Log!Rows')
         /\ Log!IDs(Log!Rows') = Log!IDs(Log!Rows) \cup Log!IDs(batch)
<1>1. LP!LogInv /\ LP!MergeOps(batch)
  BY SameLogInv, SameMergeOps
<1>2. LP!LogInv'
  BY <1>1, LogAssumptions, LP!LogInvMergeOps
<1>3. /\ LP!Rows \subseteq LP!Rows'
      /\ LP!Rows' \subseteq LP!Rows \cup {LP!Row(op) : op \in batch}
      /\ LP!IDs(batch) \subseteq LP!IDs(LP!Rows')
  BY <1>1, LogAssumptions, LP!MergeOpsStores
<1>4. LP!Rows = Log!Rows /\ LP!Rows' = Log!Rows'
  BY DEF LP!Rows, Log!Rows
<1>5. IsFiniteSet(Log!Rows')
  <2>1. IsFiniteSet({LP!Row(op) : op \in batch})
    <3>1. PICK f : f = [op \in batch |-> LP!Row(op)]
      OBVIOUS
    <3>2. PICK T : T = {LP!Row(op) : op \in batch}
      OBVIOUS
    <3>3. f \in Surjection(batch, T)
      BY <3>1, <3>2 DEF Surjection
    <3> QED
      BY <3>2, <3>3, FS_Surjection
  <2>2. IsFiniteSet(Log!Rows \cup {LP!Row(op) : op \in batch})
    BY <2>1, FS_Union
  <2> QED
    BY <1>3, <1>4, <2>2, FS_Subset
<1>6. Log!LogInv'
  BY <1>2, SameLogInv, PTL
<1>7. Log!IDs(batch) \subseteq Log!IDs(Log!Rows')
  BY <1>3, <1>4 DEF LP!IDs, Log!IDs
<1>8. Log!IDs(Log!Rows) \subseteq Log!IDs(Log!Rows')
  BY <1>3, <1>4 DEF Log!IDs
<1>9. Log!IDs(Log!Rows') \subseteq Log!IDs(Log!Rows) \cup Log!IDs(batch)
  <2> SUFFICES ASSUME NEW r \in Log!Rows'
               PROVE  r.OpID \in Log!IDs(Log!Rows) \cup Log!IDs(batch)
    BY DEF Log!IDs
  <2>1. CASE r \in Log!Rows
    BY <2>1 DEF Log!IDs
  <2>2. CASE r \notin Log!Rows
    <3>1. PICK op \in batch : r = LP!Row(op)
      BY <1>3, <1>4, <2>2
    <3>2. r.OpID = op.OpID
      <4>1. op \in CRDTOp
        BY EngineAssumption
      <4> QED
        BY <3>1, <4>1, Zenon DEF LP!Row, CRDTOp
    <3> QED
      BY <3>2 DEF Log!IDs
  <2> QED
    BY <2>1, <2>2
<1> QED
  BY <1>5, <1>6, <1>7, <1>8, <1>9

\* The statements of Compact preserve the log's invariant, and keep its rows.
LEMMA LogCompact ==
  ASSUME Log!LogInv, NEW p \in Reqs,
         \/ Log!CompactQuery(p) \/ Log!ArchiveOps(p) \/ Log!ReactivateOps(p) \/ Log!CompactFail(p)
         \/ \E d \in DocIDs : Log!WriteSnapshot(p, d)
  PROVE  Log!LogInv' /\ Log!Rows' = Log!Rows
<1>1. /\ LP!LogInv
      /\ \/ LP!CompactQuery(p) \/ LP!ArchiveOps(p) \/ LP!ReactivateOps(p) \/ LP!CompactFail(p)
         \/ \E d \in DocIDs : LP!WriteSnapshot(p, d)
  BY SameLogInv, SameCompact
<1>2. LP!LogInv'
  BY <1>1, LogAssumptions, LP!LogInvCompactQuery, LP!LogInvArchiveOps, LP!LogInvReactivateOps,
     LP!LogInvCompactFail, LP!LogInvWriteSnapshot
<1>3. LP!Rows' = LP!Rows
  BY <1>1, LogAssumptions, LP!CompactKeepsRows
<1>4. LP!Rows = Log!Rows /\ LP!Rows' = Log!Rows'
  BY DEF LP!Rows, Log!Rows
<1>5. Log!LogInv'
  BY <1>2, SameLogInv, PTL
<1> QED
  BY <1>3, <1>4, <1>5

\* So does a step that is not the log's.
LEMMA LogUnchanged ==
  ASSUME Log!LogInv, UNCHANGED logVars
  PROVE  Log!LogInv' /\ Log!Rows' = Log!Rows
<1>1. LP!LogInv /\ UNCHANGED LP!vars
  BY SameLogInv DEF logVars, LP!vars
<1>2. LP!LogInv'
  BY <1>1, LogAssumptions, LP!LogInvStep
<1>3. Log!LogInv'
  BY <1>2, SameLogInv, PTL
<1> QED
  BY <1>3 DEF Log!Rows, logVars

-----------------------------------------------------------------------------
\* Timestamps.

\* What QueryOps takes to be after a cursor is after it (QueryOps, crdt.Before).
LEMMA AfterIsBefore ==
  ASSUME NEW t \in HLC, NEW s \in HLC, Log!After(t, s)
  PROVE  Before(s, t)
BY HLCAssumption DEF Log!After, Before, HLC, Wall

\* An op that is not older than one after the cursor is after the cursor too.
LEMMA AfterUpwards ==
  ASSUME NEW t \in HLC, NEW u \in HLC, NEW s \in HLC, Log!After(t, s), ~Before(u, t)
  PROVE  Log!After(u, s)
BY HLCAssumption DEF Log!After, Before, HLC, Wall

\* Finitely many timestamps have a greatest one: of the sets of later ones, a
\* smallest is empty.
LEMMA FiniteHasMax ==
  ASSUME NEW S \in SUBSET HLC, IsFiniteSet(S), S # {}
  PROVE  \E t \in S : \A u \in S : ~Before(t, u)
<1> DEFINE Later(t) == {u \in S : Before(t, u)}
           T == {Later(t) : t \in S}
<1>1. IsWellFoundedOn(StrictSubsetOrdering(S), FiniteSubsetsOf(S))
  BY FS_StrictSubsetOrderingWellFounded
<1>2. T \subseteq FiniteSubsetsOf(S) /\ T # {}
  <2>1. \A t \in S : Later(t) \in SUBSET S
    OBVIOUS
  <2>2. \A U \in SUBSET S : IsFiniteSet(U)
    BY FS_Subset
  <2> QED
    BY <2>1, <2>2, Zenon DEF FiniteSubsetsOf
<1>3. PICK x \in T : \A y \in T : ~(<<y, x>> \in StrictSubsetOrdering(S))
  <2> HIDE DEF T
  <2> QED
    BY <1>1, <1>2, WFMin
<1>4. PICK t \in S : x = Later(t)
  BY <1>3
<1>5. ASSUME NEW u \in S, Before(t, u) PROVE FALSE
  <2>1. Later(u) \subseteq Later(t)
    BY <1>5, BeforeTransitive
  <2>2. u \in Later(t) /\ u \notin Later(u)
    BY <1>5, BeforeAsymmetric
  <2>3. Later(u) \in SUBSET S /\ Later(t) \in SUBSET S
    OBVIOUS
  <2>4. <<Later(u), Later(t)>> \in StrictSubsetOrdering(S)
    <3> HIDE DEF Later
    <3> QED
      BY <2>1, <2>2, <2>3 DEF StrictSubsetOrdering
  <2> QED
    BY <1>3, <1>4, <2>4
<1> QED
  BY <1>5

\* The loop of GetDelta finds the greatest timestamp of the ops and of the
\* zero HLC it starts from.
LEMMA MaxHLCIsMax ==
  ASSUME NEW ops \in SUBSET CRDTOp, IsFiniteSet(ops)
  PROVE  /\ MaxHLC(ops) \in HLC /\ ~Before(MaxHLC(ops), ZeroHLC)
         /\ MaxHLC(ops) = ZeroHLC \/ \E op \in ops : MaxHLC(ops) = op.Timestamp
         /\ \A op \in ops : ~Before(MaxHLC(ops), op.Timestamp)
<1> DEFINE S == {ZeroHLC} \cup {op.Timestamp : op \in ops}
<1>1. S \in SUBSET HLC /\ S # {}
  <2>1. ZeroHLC \in HLC
    BY HLCAssumption DEF ZeroHLC, HLC, Wall
  <2>2. \A op \in ops : op.Timestamp \in HLC
    BY DEF CRDTOp
  <2> QED
    BY <2>1, <2>2, Zenon
<1>2. IsFiniteSet(S)
  <2>1. IsFiniteSet({op.Timestamp : op \in ops})
    <3>1. PICK f : f = [op \in ops |-> op.Timestamp]
      OBVIOUS
    <3>2. PICK T : T = {op.Timestamp : op \in ops}
      OBVIOUS
    <3>3. f \in Surjection(ops, T)
      BY <3>1, <3>2 DEF Surjection
    <3> QED
      BY <3>2, <3>3, FS_Surjection
  <2>2. IsFiniteSet({ZeroHLC})
    BY FS_Singleton
  <2> QED
    BY <2>1, <2>2, FS_Union
<1>3. PICK t \in S : \A u \in S : ~Before(t, u)
  <2> HIDE DEF S
  <2> QED
    BY <1>1, <1>2, FiniteHasMax
<1>4. \E m \in S : ~Before(m, ZeroHLC) /\ \A op \in ops : ~Before(m, op.Timestamp)
  BY <1>3
<1>5. /\ MaxHLC(ops) \in S /\ ~Before(MaxHLC(ops), ZeroHLC)
      /\ \A op \in ops : ~Before(MaxHLC(ops), op.Timestamp)
  BY <1>4, Zenon DEF MaxHLC
<1> QED
  BY <1>1, <1>5

-----------------------------------------------------------------------------
\* The local variables of a request.

Locals == [pc : PC, msg : Msgs, serverClock : HLC, needsSnap : BOOLEAN,
           snapshot : SUBSET CRDTOp, delta : SUBSET CRDTOp,
           newClock : HLC, wrapped : BOOLEAN]

\* The local variables of a request, field by field.
LEMMA LocalTypes ==
  ASSUME TypeOK, NEW p \in Reqs
  PROVE  /\ req \in [Reqs -> Locals] /\ req[p] \in Locals /\ DOMAIN req = Reqs
         /\ req[p].pc \in PC /\ req[p].msg \in Msgs
         /\ req[p].serverClock \in HLC /\ req[p].newClock \in HLC
         /\ req[p].delta \in SUBSET CRDTOp /\ req[p].wrapped \in BOOLEAN
         /\ req[p].msg.Clock \in HLC /\ req[p].msg.Ops \in SUBSET Ops
         /\ IsFiniteSet(req[p].msg.Ops)
<1>1. req \in [Reqs -> Locals]
  BY Zenon DEF TypeOK, Locals
<1>2. req[p] \in Locals /\ DOMAIN req = Reqs
  BY <1>1
<1>3. /\ req[p].pc \in PC /\ req[p].msg \in Msgs
      /\ req[p].serverClock \in HLC /\ req[p].newClock \in HLC
      /\ req[p].delta \in SUBSET CRDTOp /\ req[p].wrapped \in BOOLEAN
  BY <1>2, Zenon DEF Locals
<1>4. req[p].msg.Clock \in HLC /\ req[p].msg.Ops \in SUBSET Ops /\ IsFiniteSet(req[p].msg.Ops)
  BY <1>3, EngineAssumption DEF SyncMessage
<1> QED
  BY <1>1, <1>2, <1>3, <1>4

\* Goto.
LEMMA SetPc ==
  ASSUME NEW r \in Locals, NEW l \in PC
  PROVE  /\ [r EXCEPT !.pc = l] \in Locals
         /\ [r EXCEPT !.pc = l].pc = l
         /\ [r EXCEPT !.pc = l].msg = r.msg
         /\ [r EXCEPT !.pc = l].serverClock = r.serverClock
         /\ [r EXCEPT !.pc = l].delta = r.delta
         /\ [r EXCEPT !.pc = l].snapshot = r.snapshot
         /\ [r EXCEPT !.pc = l].newClock = r.newClock
         /\ [r EXCEPT !.pc = l].wrapped = r.wrapped
BY Zenon DEF Locals

\* What EngineInv says of one request.
Right(p) ==
  /\ At(p, "merge") => req[p].msg.Ops # {}
  /\ req[p].pc \in PC \ {"receive", "schema", "snapshot", "merge", "failed"} =>
       Log!IDs(req[p].msg.Ops) \subseteq Log!IDs(Log!Rows)
  /\ req[p].pc \notin {"receive", "failed"} /\ ~req[p].wrapped =>
       Before(req[p].msg.Clock, req[p].serverClock) /\ req[p].serverClock.WallTime >= 1
  /\ req[p].pc \in {"version", "event", "done"} /\ ~req[p].wrapped =>
       /\ Before(req[p].msg.Clock, req[p].newClock)
       /\ \A r \in req[p].delta : ~Log!After(r.Timestamp, req[p].newClock)
  /\ AnswerOps(p) \subseteq Log!IDs(Log!Rows)

\* EngineInv, as one statement about each request.
LEMMA EngineInvParts ==
  EngineInv <=> /\ TypeOK /\ Log!LogInv /\ IsFiniteSet(Log!Rows) /\ AnnouncedAfterCommit
                /\ \A p \in Reqs : Right(p)
BY Zenon DEF EngineInv, Committed, ServerAhead, CursorBetween, GivenIsStored, Right

\* A step of request p: what is left to show is about p and about the log.
LEMMA EngineInvLocal ==
  ASSUME EngineInv, NEW p \in Reqs,
         Log!LogInv', IsFiniteSet(Log!Rows'),
         Log!IDs(Log!Rows) \subseteq Log!IDs(Log!Rows'),
         clock' \in HLC, schemaVersion' = schemaVersion,
         notified' \subseteq notified \cup {p}, events' \subseteq events \cup {p},
         p \in notified' \cup events' =>
           p \in notified \cup events \/ Log!IDs(req[p].msg.Ops) \subseteq Log!IDs(Log!Rows'),
         req' = [q \in Reqs |-> req'[q]],
         \A q \in Reqs : q # p => req'[q] = req[q],
         req'[p] \in Locals, req'[p].msg = req[p].msg, Right(p)'
  PROVE  EngineInv'
<1>0. TypeOK /\ AnnouncedAfterCommit /\ \A q \in Reqs : Right(q)
  BY EngineInvParts
<1>1. \A q \in Reqs : req'[q] \in Locals /\ req'[q].msg = req[q].msg
  BY <1>0, LocalTypes
<1>2. req' \in [Reqs -> Locals]
  BY <1>1
<1>3. TypeOK'
  <2>1. Log!TypeOK'
    BY DEF Log!LogInv
  <2>2. /\ schemaVersion' \in 1 .. MaxVersion
        /\ notified' \in SUBSET Reqs /\ events' \in SUBSET Reqs
    BY <1>0 DEF TypeOK
  <2> QED
    BY <1>2, <2>1, <2>2, Zenon DEF TypeOK, Locals
<1>4. AnnouncedAfterCommit'
  <2> SUFFICES ASSUME NEW q \in notified' \cup events'
               PROVE  Log!IDs(req'[q].msg.Ops) \subseteq Log!IDs(Log!Rows')
    BY DEF AnnouncedAfterCommit, Log!IDs
  <2>1. q \in Reqs /\ notified \cup events \subseteq Reqs
    BY <1>0 DEF TypeOK
  <2>2. CASE q \in notified \cup events
    <3>1. Log!IDs(req[q].msg.Ops) \subseteq Log!IDs(Log!Rows)
      BY <1>0, <2>2 DEF AnnouncedAfterCommit
    <3> QED
      BY <1>1, <2>1, <3>1
  <2>3. CASE q \notin notified \cup events
    BY <1>1, <2>1, <2>3
  <2> QED
    BY <2>2, <2>3
<1>5. ASSUME NEW q \in Reqs, q # p PROVE Right(q)'
  <2>1. Right(q) /\ req'[q] = req[q]
    BY <1>0, <1>5
  <2>2. req[q].pc \in PC \ {"receive", "schema", "snapshot", "merge", "failed"} =>
          Log!IDs(req[q].msg.Ops) \subseteq Log!IDs(Log!Rows')
    BY <2>1 DEF Right
  <2>3. Log!IDs(req[q].msg.Ops)' = Log!IDs(req[q].msg.Ops)
    BY <2>1 DEF Log!IDs
  <2>4. \A r : Log!After(r.Timestamp, req[q].newClock)' <=> Log!After(r.Timestamp, req[q].newClock)
    BY <2>1 DEF Log!After
  <2>5. AnswerOps(q)' = AnswerOps(q) /\ AnswerOps(q) \subseteq Log!IDs(Log!Rows')
    BY <2>1 DEF Right, AnswerOps, Log!IDs
  <2> QED
    BY <2>1, <2>2, <2>3, <2>4, <2>5, Zenon DEF Right, At, Log!IDs, Log!After, Before
<1>6. \A q \in Reqs : Right(q)'
  BY <1>5
<1> QED
  BY <1>3, <1>4, <1>6, Zenon DEF EngineInv, Committed, ServerAhead, CursorBetween, GivenIsStored, Right

-----------------------------------------------------------------------------
\* The steps.

\* What Goto changes.
LEMMA GotoLabel ==
  ASSUME TypeOK, NEW p \in Reqs, NEW l \in PC, Goto(p, l)
  PROVE  /\ req' = [q \in Reqs |-> req'[q]]
         /\ \A q \in Reqs : q # p => req'[q] = req[q]
         /\ req'[p] \in Locals /\ req'[p].pc = l /\ req'[p].msg = req[p].msg
         /\ req'[p].serverClock = req[p].serverClock /\ req'[p].delta = req[p].delta
         /\ req'[p].newClock = req[p].newClock /\ req'[p].wrapped = req[p].wrapped
      /\ req'[p].snapshot = req[p].snapshot
         /\ req'[p].snapshot = req[p].snapshot
<1>1. req \in [Reqs -> Locals] /\ req[p] \in Locals /\ DOMAIN req = Reqs
  BY LocalTypes
<1>2. /\ req'[p] = [req[p] EXCEPT !.pc = l]
      /\ \A q \in Reqs : q # p => req'[q] = req[q]
      /\ req' = [q \in Reqs |-> req'[q]]
  BY <1>1, Zenon DEF Goto
<1>3. /\ req'[p] \in Locals /\ req'[p].pc = l /\ req'[p].msg = req[p].msg
      /\ req'[p].serverClock = req[p].serverClock /\ req'[p].delta = req[p].delta
      /\ req'[p].newClock = req[p].newClock /\ req'[p].wrapped = req[p].wrapped
      /\ req'[p].snapshot = req[p].snapshot
  BY <1>1, <1>2, SetPc
<1> QED
  BY <1>2, <1>3

\* A step that moves a request on and computes no cursor.
LEMMA EngineInvGoto ==
  ASSUME EngineInv, NEW p \in Reqs, NEW l \in PC, Goto(p, l),
         Log!LogInv', IsFiniteSet(Log!Rows'),
         Log!IDs(Log!Rows) \subseteq Log!IDs(Log!Rows'),
         clock' = clock, schemaVersion' = schemaVersion,
         notified' \subseteq notified \cup {p}, events' \subseteq events \cup {p},
         p \in notified' \cup events' =>
           p \in notified \cup events \/ Log!IDs(req[p].msg.Ops) \subseteq Log!IDs(Log!Rows'),
         l # "merge", l # "receive", req[p].pc \notin {"receive", "failed"},
         l \in {"schema", "snapshot", "failed"} \/
           Log!IDs(req[p].msg.Ops) \subseteq Log!IDs(Log!Rows'),
         l \in {"version", "event", "done"} => req[p].pc \in {"version", "event"}
  PROVE  EngineInv'
<1>0. TypeOK /\ Right(p)
  BY EngineInvParts
<1>1. /\ req' = [q \in Reqs |-> req'[q]]
      /\ \A q \in Reqs : q # p => req'[q] = req[q]
      /\ req'[p] \in Locals /\ req'[p].pc = l /\ req'[p].msg = req[p].msg
      /\ req'[p].serverClock = req[p].serverClock /\ req'[p].delta = req[p].delta
      /\ req'[p].newClock = req[p].newClock /\ req'[p].wrapped = req[p].wrapped
      /\ req'[p].snapshot = req[p].snapshot
  BY <1>0, GotoLabel
<1>2. clock' \in HLC
  BY <1>0 DEF TypeOK
<1>3. Right(p)'
  <2>1. At(p, "merge")' => FALSE
    BY <1>1 DEF At
  <2>2. l \in PC \ {"receive", "schema", "snapshot", "merge", "failed"} =>
          Log!IDs(req[p].msg.Ops) \subseteq Log!IDs(Log!Rows')
    OBVIOUS
  <2>3. ~req[p].wrapped =>
          Before(req[p].msg.Clock, req[p].serverClock) /\ req[p].serverClock.WallTime >= 1
    BY <1>0, Zenon DEF Right
  <2>4. l \in {"version", "event", "done"} /\ ~req[p].wrapped =>
          /\ Before(req[p].msg.Clock, req[p].newClock)
          /\ \A r \in req[p].delta : ~Log!After(r.Timestamp, req[p].newClock)
    BY <1>0, Zenon DEF Right
  <2>5. AnswerOps(p)' \subseteq Log!IDs(Log!Rows')
    BY <1>0, <1>1 DEF Right, AnswerOps, Log!IDs
  <2> QED
    BY <1>1, <2>1, <2>2, <2>3, <2>4, <2>5, Zenon DEF Right, At, Log!IDs, Log!After, Before
<1> QED
  BY <1>1, <1>2, <1>3, EngineInvLocal

\* A step that leaves the log as it is.
LEMMA LogStays ==
  ASSUME EngineInv, UNCHANGED logVars
  PROVE  /\ Log!LogInv' /\ Log!Rows' = Log!Rows /\ IsFiniteSet(Log!Rows')
         /\ Log!IDs(Log!Rows) \subseteq Log!IDs(Log!Rows')
BY LogUnchanged DEF EngineInv

\* e.clock.Receive: the server's clock is now ahead of the client's.
LEMMA EngineInvReceive ==
  ASSUME EngineInv, NEW p \in Reqs, Receive(p)
  PROVE  EngineInv'
<1>0. TypeOK /\ Right(p) /\ clock \in HLC
  BY EngineInvParts DEF TypeOK
<1>1. PICK wall \in Walls : clock' = ReceiveHLC(clock, req[p].msg.Clock, wall, serverID)
  BY DEF Receive
<1>2. /\ wall \in Wall /\ wall \in Int /\ wall >= 1 /\ serverID \in Nat
  BY EngineAssumption, HLCAssumption DEF Wall
<1>3. /\ req[p].msg.Clock \in HLC /\ req \in [Reqs -> Locals] /\ req[p] \in Locals
      /\ DOMAIN req = Reqs
  BY <1>0, LocalTypes
<1>4. PICK b \in BOOLEAN : b = (AtLimit(clock) \/ AtLimit(req[p].msg.Clock))
  BY Zenon
<1>5. /\ clock' \in HLC
      /\ ~b => Before(req[p].msg.Clock, clock') /\ clock'.WallTime >= wall
  BY <1>0, <1>1, <1>2, <1>3, <1>4, ReceiveAdvances
<1>6. /\ UNCHANGED logVars /\ schemaVersion' = schemaVersion
      /\ notified' = notified /\ events' = events
  BY DEF Receive
<1>7. /\ req'[p] = [req[p] EXCEPT !.pc = "schema", !.serverClock = clock', !.wrapped = b]
      /\ \A q \in Reqs : q # p => req'[q] = req[q]
      /\ req' = [q \in Reqs |-> req'[q]]
  BY <1>3, <1>4, Zenon DEF Receive
<1>8. /\ req'[p] \in Locals /\ req'[p].pc = "schema" /\ req'[p].msg = req[p].msg
      /\ req'[p].serverClock = clock' /\ req'[p].wrapped = b
      /\ req'[p].delta = req[p].delta /\ req'[p].snapshot = req[p].snapshot
  <2>1. PICK c \in HLC : c = clock'
    BY <1>5
  <2>2. PICK r2 : r2 = req'[p]
    OBVIOUS
  <2>3. r2 = [req[p] EXCEPT !.pc = "schema", !.serverClock = c, !.wrapped = b]
    BY <1>7, <2>1, <2>2
  <2>4. /\ r2 \in Locals /\ r2.pc = "schema" /\ r2.msg = req[p].msg
        /\ r2.serverClock = c /\ r2.wrapped = b
        /\ r2.delta = req[p].delta /\ r2.snapshot = req[p].snapshot
    <3>1. PICK r \in Locals : r = req[p]
      BY <1>3
    <3>2. r2 = [r EXCEPT !.pc = "schema", !.serverClock = c, !.wrapped = b]
      BY <2>3, <3>1, Zenon
    <3>3. /\ r2 \in Locals /\ r2.pc = "schema" /\ r2.msg = r.msg
          /\ r2.serverClock = c /\ r2.wrapped = b
          /\ r2.delta = r.delta /\ r2.snapshot = r.snapshot
      BY <3>2, Zenon DEF Locals, PC
    <3> QED
      BY <3>1, <3>3, Zenon
  <2> QED
    BY <2>1, <2>2, <2>4
<1>9. Right(p)'
  <2>1. ~b => clock'.WallTime >= 1
    BY <1>2, <1>5 DEF HLC, Wall
  <2>2. AnswerOps(p)' \subseteq Log!IDs(Log!Rows')
    BY <1>0, <1>6, <1>8, LogStays DEF Right, AnswerOps, Log!IDs
  <2> QED
    BY <1>5, <1>8, <2>1, <2>2, Zenon DEF Right, At, Before, AnswerOps, Log!IDs
<1> QED
  BY <1>5, <1>6, <1>7, <1>8, <1>9, LogStays, EngineInvLocal

\* A request past the snapshot has something to merge, or nothing to commit.
LEMMA PastSnapshotRight ==
  ASSUME TypeOK, NEW p \in Reqs
  PROVE  /\ PastSnapshot(p) \in PC
         /\ PastSnapshot(p) = "merge" => req[p].msg.Ops # {}
         /\ PastSnapshot(p) # "merge" =>
              PastSnapshot(p) = "delta" /\ Log!IDs(req[p].msg.Ops) = {}
BY DEF PastSnapshot, PC, Log!IDs

\* NeedsSnapshot and GetSnapshot.
LEMMA EngineInvSnapshot ==
  ASSUME EngineInv, NEW p \in Reqs, NeedsSnapshot(p) \/ GetSnapshot(p)
  PROVE  EngineInv'
<1>0. TypeOK /\ Right(p)
  BY EngineInvParts
<1>1. req \in [Reqs -> Locals] /\ req[p] \in Locals /\ DOMAIN req = Reqs
  BY <1>0, LocalTypes
<1>2. /\ UNCHANGED logVars /\ schemaVersion' = schemaVersion /\ clock' = clock
      /\ notified' = notified /\ events' = events /\ req[p].pc \in {"schema", "snapshot"}
  BY DEF NeedsSnapshot, GetSnapshot, ReadsLog, At
<1>3. ASSUME NEW l \in {"snapshot", PastSnapshot(p)},
             req' = [q \in Reqs |-> req'[q]],
             \A q \in Reqs : q # p => req'[q] = req[q],
             req'[p] \in Locals, req'[p].pc = l, req'[p].msg = req[p].msg,
             req'[p].serverClock = req[p].serverClock, req'[p].wrapped = req[p].wrapped,
             req'[p].delta = req[p].delta,
             req'[p].snapshot \subseteq req[p].snapshot \cup Log!Rows
      PROVE  EngineInv'
  <2>1. clock' \in HLC
    BY <1>0, <1>2 DEF TypeOK
  <2>2. /\ l = "merge" => req[p].msg.Ops # {}
        /\ l \notin {"snapshot", "merge"} => l = "delta" /\ Log!IDs(req[p].msg.Ops) = {}
    BY <1>0, PastSnapshotRight
  <2>3. ~req[p].wrapped =>
          Before(req[p].msg.Clock, req[p].serverClock) /\ req[p].serverClock.WallTime >= 1
    BY <1>0, <1>2, Zenon DEF Right
  <2>4. /\ req'[p].pc \in {"snapshot", "merge", "delta"}
        /\ At(p, "merge")' => req'[p].msg.Ops # {}
        /\ req'[p].pc = "delta" => Log!IDs(req'[p].msg.Ops) = {}
    BY <1>3, <2>2 DEF At
  <2>5. /\ At(p, "merge")' => req'[p].msg.Ops # {}
        /\ req'[p].pc \in PC \ {"receive", "schema", "snapshot", "merge", "failed"} =>
             Log!IDs(req'[p].msg.Ops) \subseteq Log!IDs(Log!Rows')
        /\ ~(req'[p].pc \in {"version", "event", "done"})
    BY <2>4
  <2>6. ~req'[p].wrapped =>
          Before(req'[p].msg.Clock, req'[p].serverClock) /\ req'[p].serverClock.WallTime >= 1
    BY <1>3, <2>3, Zenon
  <2>7. AnswerOps(p)' \subseteq Log!IDs(Log!Rows')
    BY <1>0, <1>2, <1>3, LogStays DEF Right, AnswerOps, Log!IDs
  <2>8. Right(p)'
    BY <2>5, <2>6, <2>7, Zenon DEF Right, Before, AnswerOps, Log!IDs
  <2> QED
    BY <1>2, <1>3, <2>1, <2>8, LogStays, EngineInvLocal
<1>4. CASE NeedsSnapshot(p)
  <2>1. PICK b \in BOOLEAN : b = (schemaVersion > req[p].msg.ClientSchemaVersion)
    <3>1. schemaVersion \in Int /\ req[p].msg.ClientSchemaVersion \in Int
      BY <1>0, LocalTypes, EngineAssumption DEF TypeOK, SyncMessage
    <3>2. (schemaVersion > req[p].msg.ClientSchemaVersion) \in BOOLEAN
      BY <3>1
    <3> QED
      BY <3>2
  <2>2. PICK l \in {"snapshot", PastSnapshot(p)} : l = IF b THEN "snapshot" ELSE PastSnapshot(p)
    OBVIOUS
  <2>3. /\ req'[p] = [req[p] EXCEPT !.pc = l, !.needsSnap = b]
        /\ \A q \in Reqs : q # p => req'[q] = req[q]
        /\ req' = [q \in Reqs |-> req'[q]]
    BY <1>1, <1>4, <2>1, <2>2, Zenon DEF NeedsSnapshot
  <2>4. l \in PC
    BY <1>0, PastSnapshotRight DEF PC
  <2>5. /\ req'[p] \in Locals /\ req'[p].pc = l /\ req'[p].msg = req[p].msg
        /\ req'[p].serverClock = req[p].serverClock /\ req'[p].wrapped = req[p].wrapped
        /\ req'[p].delta = req[p].delta /\ req'[p].snapshot = req[p].snapshot
    <3>1. PICK r \in Locals : r = req[p]
      BY <1>1
    <3>2. PICK r2 : r2 = [r EXCEPT !.pc = l, !.needsSnap = b]
      OBVIOUS
    <3>3. /\ r2 \in Locals /\ r2.pc = l /\ r2.msg = r.msg
          /\ r2.serverClock = r.serverClock /\ r2.wrapped = r.wrapped
          /\ r2.delta = r.delta /\ r2.snapshot = r.snapshot
      BY <2>4, <3>2, Zenon DEF Locals
    <3>4. req'[p] = r2
      BY <2>3, <3>1, <3>2, Zenon
    <3> QED
      BY <3>1, <3>3, <3>4
  <2> QED
    BY <1>3, <2>3, <2>5
<1>5. CASE GetSnapshot(p)
  <2>1. PICK l : l = PastSnapshot(p)
    OBVIOUS
  <2>2. PICK flat \in SUBSET Log!QueryOps(ZeroHLC) :
          /\ req'[p] = [req[p] EXCEPT !.pc = l, !.snapshot = flat]
          /\ \A q \in Reqs : q # p => req'[q] = req[q]
          /\ req' = [q \in Reqs |-> req'[q]]
    BY <1>1, <1>5, <2>1, Zenon DEF GetSnapshot
  <2>3. l \in PC /\ flat \in SUBSET CRDTOp /\ flat \in SUBSET Log!Rows
    <3>1. Log!QueryOps(ZeroHLC) \subseteq CRDTOp
      BY <1>0, SameData DEF TypeOK, Log!TypeOK, Log!QueryOps
    <3>2. Log!QueryOps(ZeroHLC) \subseteq Log!Rows
      BY DEF Log!QueryOps, Log!Rows
    <3> QED
      BY <1>0, <2>1, <3>1, <3>2, PastSnapshotRight
  <2>4. /\ req'[p] \in Locals /\ req'[p].pc = l /\ req'[p].msg = req[p].msg
        /\ req'[p].serverClock = req[p].serverClock /\ req'[p].wrapped = req[p].wrapped
        /\ req'[p].delta = req[p].delta /\ req'[p].snapshot = flat
    <3>1. PICK r \in Locals : r = req[p]
      BY <1>1
    <3>2. PICK r2 : r2 = [r EXCEPT !.pc = l, !.snapshot = flat]
      OBVIOUS
    <3>3. /\ r2 \in Locals /\ r2.pc = l /\ r2.msg = r.msg
          /\ r2.serverClock = r.serverClock /\ r2.wrapped = r.wrapped
          /\ r2.delta = r.delta /\ r2.snapshot = flat
      BY <2>3, <3>2, Zenon DEF Locals
    <3>4. req'[p] = r2
      BY <2>2, <3>1, <3>2, Zenon
    <3> QED
      BY <3>1, <3>3, <3>4
  <2> QED
    BY <1>3, <2>1, <2>2, <2>3, <2>4
<1> QED
  BY <1>4, <1>5

\* MergeOps stores the ops of a request, and the request goes on.
LEMMA EngineInvMergeOps ==
  ASSUME EngineInv, NEW p \in Reqs, MergeOps(p)
  PROVE  EngineInv'
<1>0. TypeOK /\ Log!LogInv /\ IsFiniteSet(Log!Rows)
  BY EngineInvParts
<1>1. /\ At(p, "merge") /\ Log!MergeOps(req[p].msg.Ops) /\ Goto(p, "notify")
      /\ UNCHANGED <<clock, schemaVersion, notified, events>>
  BY DEF MergeOps
<1>2. req[p].msg.Ops \in SUBSET Ops /\ IsFiniteSet(req[p].msg.Ops)
  BY <1>0, LocalTypes
<1>3. /\ Log!LogInv' /\ IsFiniteSet(Log!Rows')
      /\ Log!IDs(Log!Rows) \subseteq Log!IDs(Log!Rows')
      /\ Log!IDs(req[p].msg.Ops) \subseteq Log!IDs(Log!Rows')
  BY <1>0, <1>1, <1>2, LogMergeOps
<1>4. "notify" \in PC /\ req[p].pc \notin {"receive", "failed"}
  BY <1>1 DEF PC, At
<1> QED
  BY <1>1, <1>3, <1>4, EngineInvGoto

\* What a request has committed stays committed while the log only grows.
LEMMA StaysCommitted ==
  ASSUME EngineInv, NEW p \in Reqs,
         req[p].pc \in PC \ {"receive", "schema", "snapshot", "merge", "failed"},
         Log!IDs(Log!Rows) \subseteq Log!IDs(Log!Rows')
  PROVE  Log!IDs(req[p].msg.Ops) \subseteq Log!IDs(Log!Rows')
BY DEF EngineInv, Committed

\* The statements of a compaction.
LEMMA EngineInvCompact ==
  ASSUME EngineInv, NEW p \in Reqs, CompactQuery(p) \/ CompactStatement(p) \/ CompactAbandoned(p)
  PROVE  EngineInv'
<1>0. TypeOK /\ Log!LogInv /\ IsFiniteSet(Log!Rows)
  BY EngineInvParts
<1>1. PICK l \in {"compacting", "delta"} : Goto(p, l)
  BY DEF CompactQuery, CompactStatement, CompactAbandoned
<1>2. /\ UNCHANGED <<clock, schemaVersion, notified, events>>
      /\ req[p].pc \in {"count", "compact", "compacting"}
  BY DEF CompactQuery, CompactStatement, CompactAbandoned, At
<1>3. Log!LogInv' /\ Log!Rows' = Log!Rows
  <2>1. \/ UNCHANGED logVars
        \/ Log!CompactQuery(p) \/ Log!ArchiveOps(p) \/ Log!ReactivateOps(p) \/ Log!CompactFail(p)
        \/ \E d \in DocIDs : Log!WriteSnapshot(p, d)
    BY DEF CompactQuery, CompactStatement, CompactAbandoned
  <2> QED
    BY <1>0, <2>1, LogCompact, LogUnchanged
<1>4. IsFiniteSet(Log!Rows') /\ Log!IDs(Log!Rows) \subseteq Log!IDs(Log!Rows')
  BY <1>0, <1>3
<1>5. Log!IDs(req[p].msg.Ops) \subseteq Log!IDs(Log!Rows')
  <2>1. req[p].pc \in PC \ {"receive", "schema", "snapshot", "merge", "failed"}
    BY <1>2 DEF PC
  <2> QED
    BY <1>4, <2>1, StaysCommitted
<1>6. /\ l \in PC /\ l # "merge" /\ l # "receive" /\ l \notin {"version", "event", "done"}
      /\ req[p].pc \notin {"receive", "failed"}
  BY <1>2 DEF PC
<1> QED
  BY <1>1, <1>2, <1>3, <1>4, <1>5, <1>6, EngineInvGoto

\* Notify, the count of MaybeCompact, the response, the sync event, and an
\* error of the store.
LEMMA EngineInvOther ==
  ASSUME EngineInv, NEW p \in Reqs,
         Notify(p) \/ MaybeCompact(p) \/ Respond(p) \/ WriteSyncEvent(p) \/ Fail(p)
  PROVE  EngineInv'
<1>1. /\ UNCHANGED logVars /\ clock' = clock /\ schemaVersion' = schemaVersion
  BY DEF Notify, MaybeCompact, Respond, WriteSyncEvent, Fail, ReadsLog
<1>2. /\ Log!LogInv' /\ IsFiniteSet(Log!Rows')
      /\ Log!IDs(Log!Rows) \subseteq Log!IDs(Log!Rows')
  BY <1>1, LogStays
<1>3. notified' \subseteq notified \cup {p} /\ events' \subseteq events \cup {p}
  BY DEF Notify, MaybeCompact, Respond, WriteSyncEvent, Fail, ReadsLog
<1>4. CASE Fail(p)
  <2>1. /\ Goto(p, "failed") /\ notified' = notified /\ events' = events
        /\ req[p].pc \notin {"receive", "failed"} /\ "failed" \in PC
    BY <1>4 DEF Fail, ReadsLog, PC
  <2> QED
    BY <1>1, <1>2, <1>3, <2>1, EngineInvGoto
<1>5. CASE ~Fail(p)
  <2>1. PICK l \in {"count", "compact", "delta", "event", "done"} :
          /\ Goto(p, l)
          /\ l \in {"event", "done"} => req[p].pc \in {"version", "event"}
    BY <1>5 DEF Notify, MaybeCompact, Respond, WriteSyncEvent, At
  <2>2. req[p].pc \in {"notify", "count", "version", "event"}
    BY <1>5 DEF Notify, MaybeCompact, Respond, WriteSyncEvent, At
  <2>3. Log!IDs(req[p].msg.Ops) \subseteq Log!IDs(Log!Rows')
    <3>1. req[p].pc \in PC \ {"receive", "schema", "snapshot", "merge", "failed"}
      BY <2>2 DEF PC
    <3> QED
      BY <1>2, <3>1, StaysCommitted
  <2>4. /\ l \in PC /\ l # "merge" /\ l # "receive"
        /\ l \in {"version", "event", "done"} => req[p].pc \in {"version", "event"}
        /\ req[p].pc \notin {"receive", "failed"}
    BY <2>1, <2>2 DEF PC
  <2> QED
    BY <1>1, <1>2, <1>3, <2>1, <2>3, <2>4, EngineInvGoto
<1> QED
  BY <1>4, <1>5

\* The cursor that GetDelta computes, or the server's clock in its place: after
\* the client's, and not before anything in the delta.
LEMMA CursorOfDelta ==
  ASSUME TypeOK, IsFiniteSet(active), NEW c \in HLC, NEW s \in HLC,
         NEW delta, delta = Log!QueryOps(c), Before(c, s), s.WallTime >= 1,
         NEW new, new = IF MaxHLC(delta).WallTime = 0 THEN s ELSE MaxHLC(delta)
  PROVE  new \in HLC /\ Before(c, new) /\ \A r \in delta : ~Log!After(r.Timestamp, new)
<1>1. delta \in SUBSET CRDTOp /\ delta \in SUBSET active
  BY SameData DEF TypeOK, Log!TypeOK, Log!QueryOps
<1>2. IsFiniteSet(delta)
  BY <1>1, FS_Subset
<1>3. \A r \in delta : r.Timestamp \in HLC /\ Log!After(r.Timestamp, c)
  BY <1>1 DEF Log!QueryOps, CRDTOp
<1>4. PICK m : m = MaxHLC(delta)
  OBVIOUS
<1>5. /\ m \in HLC /\ ~Before(m, ZeroHLC) /\ \A r \in delta : ~Before(m, r.Timestamp)
      /\ m = ZeroHLC \/ \E r \in delta : m = r.Timestamp
  BY <1>1, <1>2, <1>4, MaxHLCIsMax
<1>6. CASE m.WallTime = 0
  <2>1. new = s
    BY <1>4, <1>6
  <2>2. ASSUME NEW r \in delta PROVE ~Log!After(r.Timestamp, s)
    <3>1. ~Before(m, r.Timestamp) /\ r.Timestamp \in HLC
      BY <1>3, <1>5
    <3>2. r.Timestamp.WallTime <= 0
      BY <1>5, <1>6, <3>1, HLCAssumption DEF Before, HLC, Wall
    <3> QED
      BY <3>1, <3>2, HLCAssumption DEF Log!After, HLC, Wall
  <2> QED
    BY <2>1, <2>2
<1>7. CASE m.WallTime # 0
  <2>1. new = m /\ m # ZeroHLC
    BY <1>4, <1>7 DEF ZeroHLC
  <2>2. PICK r \in delta : m = r.Timestamp
    BY <1>5, <2>1
  <2>3. Before(c, m)
    BY <1>3, <1>5, <2>2, AfterIsBefore
  <2>4. \A q \in delta : ~Log!After(q.Timestamp, m)
    BY <1>3, <1>5, AfterIsBefore
  <2> QED
    BY <1>5, <2>1, <2>3, <2>4
<1> QED
  BY <1>6, <1>7

\* What GetDelta puts into the local variables.
LEMMA GetDeltaLocals ==
  ASSUME EngineInv, NEW p \in Reqs, GetDelta(p)
  PROVE  \E new \in HLC, delta \in SUBSET CRDTOp :
           /\ delta = Log!QueryOps(req[p].msg.Clock)
           /\ new = IF MaxHLC(delta).WallTime = 0 THEN req[p].serverClock ELSE MaxHLC(delta)
           /\ req' = [q \in Reqs |-> req'[q]]
           /\ \A q \in Reqs : q # p => req'[q] = req[q]
           /\ req'[p] \in Locals /\ req'[p].pc = "version" /\ req'[p].msg = req[p].msg
           /\ req'[p].serverClock = req[p].serverClock /\ req'[p].wrapped = req[p].wrapped
           /\ req'[p].delta = delta /\ req'[p].newClock = new
           /\ req'[p].snapshot = req[p].snapshot
<1>0. TypeOK /\ IsFiniteSet(Log!Rows)
  BY EngineInvParts
<1>1. req \in [Reqs -> Locals] /\ req[p] \in Locals /\ DOMAIN req = Reqs
  BY <1>0, LocalTypes
<1>2. PICK delta : delta = Log!QueryOps(req[p].msg.Clock)
  OBVIOUS
<1>3. PICK new : new = IF MaxHLC(delta).WallTime = 0 THEN req[p].serverClock ELSE MaxHLC(delta)
  OBVIOUS
<1>4. delta \in SUBSET CRDTOp /\ IsFiniteSet(delta)
  <2>1. delta \in SUBSET CRDTOp /\ delta \in SUBSET Log!Rows
    BY <1>0, <1>2, SameData DEF TypeOK, Log!TypeOK, Log!QueryOps, Log!Rows
  <2> QED
    BY <1>0, <2>1, FS_Subset
<1>5. new \in HLC
  <2>1. MaxHLC(delta) \in HLC /\ req[p].serverClock \in HLC
    BY <1>0, <1>4, MaxHLCIsMax, LocalTypes
  <2> QED
    BY <1>3, <2>1
<1>6. PICK r \in Locals : r = req[p]
  BY <1>1
<1>7. PICK r2 : r2 = [r EXCEPT !.pc = "version", !.delta = delta, !.newClock = new]
  OBVIOUS
<1>8. /\ r2 \in Locals /\ r2.pc = "version" /\ r2.msg = r.msg
      /\ r2.serverClock = r.serverClock /\ r2.wrapped = r.wrapped
      /\ r2.delta = delta /\ r2.newClock = new /\ r2.snapshot = r.snapshot
  BY <1>4, <1>5, <1>7, Zenon DEF Locals, PC
<1>9. /\ req'[p] = r2
      /\ \A q \in Reqs : q # p => req'[q] = req[q]
      /\ req' = [q \in Reqs |-> req'[q]]
  BY <1>1, <1>2, <1>3, <1>6, <1>7, Zenon DEF GetDelta
<1>10. /\ req'[p] \in Locals /\ req'[p].pc = "version" /\ req'[p].msg = req[p].msg
       /\ req'[p].serverClock = req[p].serverClock /\ req'[p].wrapped = req[p].wrapped
       /\ req'[p].delta = delta /\ req'[p].newClock = new
       /\ req'[p].snapshot = req[p].snapshot
  BY <1>6, <1>8, <1>9, Zenon
<1> QED
  BY <1>2, <1>3, <1>4, <1>5, <1>9, <1>10, Zenon

\* GetDelta's cursor is between what it returns and what it does not.
LEMMA EngineInvGetDelta ==
  ASSUME EngineInv, NEW p \in Reqs, GetDelta(p)
  PROVE  EngineInv'
<1>0. TypeOK /\ IsFiniteSet(Log!Rows) /\ Right(p) /\ clock \in HLC
  BY EngineInvParts DEF TypeOK
<1>1. PICK new \in HLC, delta \in SUBSET CRDTOp :
           /\ delta = Log!QueryOps(req[p].msg.Clock)
           /\ new = IF MaxHLC(delta).WallTime = 0 THEN req[p].serverClock ELSE MaxHLC(delta)
           /\ req' = [q \in Reqs |-> req'[q]]
           /\ \A q \in Reqs : q # p => req'[q] = req[q]
           /\ req'[p] \in Locals /\ req'[p].pc = "version" /\ req'[p].msg = req[p].msg
           /\ req'[p].serverClock = req[p].serverClock /\ req'[p].wrapped = req[p].wrapped
           /\ req'[p].delta = delta /\ req'[p].newClock = new
           /\ req'[p].snapshot = req[p].snapshot
  BY GetDeltaLocals
<1>2. /\ At(p, "delta") /\ UNCHANGED logVars /\ clock' = clock
      /\ schemaVersion' = schemaVersion /\ notified' = notified /\ events' = events
  BY DEF GetDelta, ReadsLog
<1>3. /\ Log!LogInv' /\ IsFiniteSet(Log!Rows')
      /\ Log!IDs(Log!Rows) \subseteq Log!IDs(Log!Rows')
  BY <1>2, LogStays
<1>4. Log!IDs(req[p].msg.Ops) \subseteq Log!IDs(Log!Rows')
  <2>1. req[p].pc \in PC \ {"receive", "schema", "snapshot", "merge", "failed"}
    BY <1>2 DEF PC, At
  <2> QED
    BY <1>3, <2>1, StaysCommitted
<1>5. ~req[p].wrapped =>
        Before(req[p].msg.Clock, req[p].serverClock) /\ req[p].serverClock.WallTime >= 1
  BY <1>0, <1>2, Zenon DEF Right, At
<1>6. ASSUME ~req[p].wrapped
      PROVE  Before(req[p].msg.Clock, new) /\ \A r \in delta : ~Log!After(r.Timestamp, new)
  <2>1. PICK c \in HLC, s \in HLC : c = req[p].msg.Clock /\ s = req[p].serverClock
    BY <1>0, LocalTypes
  <2>2. IsFiniteSet(active)
    <3>1. active \in SUBSET Log!Rows
      BY DEF Log!Rows
    <3> QED
      BY <1>0, <3>1, FS_Subset
  <2>3. Before(c, s) /\ s.WallTime >= 1
    BY <1>5, <1>6, <2>1
  <2>4. delta = Log!QueryOps(c)
    BY <1>1, <2>1
  <2>5. new = IF MaxHLC(delta).WallTime = 0 THEN s ELSE MaxHLC(delta)
    BY <1>1, <2>1
  <2>6. Before(c, new) /\ \A r \in delta : ~Log!After(r.Timestamp, new)
    BY <1>0, <2>2, <2>3, <2>4, <2>5, CursorOfDelta
  <2> QED
    BY <2>1, <2>6
<1>7. AnswerOps(p)' \subseteq Log!IDs(Log!Rows')
  <2>1. delta \subseteq Log!Rows
    BY <1>1 DEF Log!QueryOps, Log!Rows
  <2> QED
    BY <1>0, <1>1, <1>3, <2>1 DEF Right, AnswerOps, Log!IDs
<1>8. Right(p)'
  BY <1>1, <1>4, <1>5, <1>6, <1>7, Zenon DEF Right, At, AnswerOps, Log!IDs, Log!After, Before
<1> QED
  BY <1>0, <1>1, <1>2, <1>3, <1>8, EngineInvLocal

\* The log is empty, the clock is zero and every request waits to be read.
LEMMA EngineInvInit == Init => EngineInv
<1> SUFFICES ASSUME Init PROVE EngineInv
  OBVIOUS
<1>1. Log!LogInv
  <2>1. LP!Init
    BY SameInit DEF Init
  <2>2. LP!LogInv
    BY <2>1, LogAssumptions, LP!LogInvInit
  <2> QED
    BY <2>2, SameLogInv
<1>2. Log!Rows = {} /\ IsFiniteSet(Log!Rows)
  BY FS_EmptySet DEF Init, Log!Init, Log!Rows
<1>3. PICK m \in [Reqs -> Msgs] :
        req = [p \in Reqs |->
               [pc |-> "receive", msg |-> m[p], serverClock |-> ZeroHLC,
                needsSnap |-> FALSE, snapshot |-> {}, delta |-> {},
                newClock |-> ZeroHLC, wrapped |-> FALSE]]
  BY DEF Init
<1>4. ZeroHLC \in HLC
  BY HLCAssumption DEF ZeroHLC, HLC, Wall
<1>5. \A p \in Reqs : /\ req[p] \in Locals /\ req[p].pc = "receive"
                    /\ req[p].delta = {} /\ req[p].snapshot = {}
  BY <1>3, <1>4, Zenon DEF Locals, PC
<1>6. req \in [Reqs -> Locals]
  BY <1>3, <1>5, Zenon
<1>7. TypeOK
  <2>1. /\ Log!TypeOK /\ clock \in HLC /\ notified \in SUBSET Reqs /\ events \in SUBSET Reqs
    BY <1>1, <1>4 DEF Log!LogInv, Init
  <2>2. schemaVersion \in 1 .. MaxVersion
    BY EngineAssumption DEF Init
  <2> QED
    BY <1>6, <2>1, <2>2, Zenon DEF TypeOK, Locals
<1>8. AnnouncedAfterCommit
  BY DEF Init, AnnouncedAfterCommit
<1>9. \A p \in Reqs : Right(p)
  BY <1>5 DEF Right, At, AnswerOps, Log!IDs
<1> QED
  BY <1>1, <1>2, <1>7, <1>8, <1>9, EngineInvParts

\* Nothing of a request or of the log changes: a new schema version, a restart
\* of the process, the end.
LEMMA EngineInvBetween ==
  ASSUME EngineInv, UNCHANGED <<logVars, notified, events, req>>,
         clock' \in HLC, schemaVersion' \in 1 .. MaxVersion
  PROVE  EngineInv'
<1>0. TypeOK /\ AnnouncedAfterCommit /\ \A p \in Reqs : Right(p)
  BY EngineInvParts
<1>1. Log!LogInv' /\ Log!Rows' = Log!Rows /\ IsFiniteSet(Log!Rows')
  BY LogStays
<1>2. TypeOK'
  <2>1. Log!TypeOK'
    BY <1>1 DEF Log!LogInv
  <2>2. req' \in [Reqs -> Locals] /\ notified' \in SUBSET Reqs /\ events' \in SUBSET Reqs
    BY <1>0, Zenon DEF TypeOK, Locals
  <2> QED
    BY <2>1, <2>2, Zenon DEF TypeOK, Locals
<1>3. AnnouncedAfterCommit'
  BY <1>0, <1>1 DEF AnnouncedAfterCommit, Log!IDs
<1>4. ASSUME NEW p \in Reqs PROVE Right(p)'
  <2>1. Right(p) /\ req' = req
    BY <1>0
  <2> QED
    BY <1>1, <2>1, Zenon DEF Right, At, AnswerOps, Log!IDs, Log!After, Before
<1> QED
  BY <1>1, <1>2, <1>3, <1>4, Zenon DEF EngineInv, Committed, ServerAhead, CursorBetween, GivenIsStored, Right

\* One case per action of Next.
LEMMA EngineInvStep == EngineInv /\ [Next]_vars => EngineInv'
<1> SUFFICES ASSUME EngineInv, [Next]_vars PROVE EngineInv'
  OBVIOUS
<1>0. clock \in HLC /\ schemaVersion \in 1 .. MaxVersion
  BY DEF EngineInv, TypeOK
<1>1. CASE \E p \in Reqs : Step(p)
  BY <1>1, EngineInvReceive, EngineInvSnapshot, EngineInvMergeOps, EngineInvCompact, EngineInvGetDelta,
     EngineInvOther
     DEF Step
<1>2. CASE SetSchemaVersion
  BY <1>0, <1>2, EngineInvBetween DEF SetSchemaVersion
<1>3. CASE Restart
  <2>1. ZeroHLC \in HLC
    BY HLCAssumption DEF ZeroHLC, HLC, Wall
  <2> QED
    BY <1>0, <1>3, <2>1, EngineInvBetween DEF Restart
<1>4. CASE UNCHANGED vars
  BY <1>0, <1>4, EngineInvBetween DEF vars
<1> QED
  BY <1>1, <1>2, <1>3, <1>4 DEF Next

-----------------------------------------------------------------------------
\* The inductive invariant of the sync engine and the log under it.
THEOREM EngineInvInductive == Spec => []EngineInv
BY EngineInvInit, EngineInvStep, PTL DEF Spec

\* Requests, clock, schema version and log keep their types.
THEOREM EngineTypeCorrect == Spec => []TypeOK
BY EngineInvInductive, PTL DEF EngineInv

\* Nothing is announced before it is committed (Engine.Sync, SyncHandler).
THEOREM EngineAnnouncesAfterCommit == Spec => []AnnouncedAfterCommit
BY EngineInvInductive, PTL DEF EngineInv

\* The cursor of a response is after the one of its request, over any number of
\* restarts of the server's clock (Engine.Sync).
THEOREM EngineCursorAdvances == Spec => []CursorAdvances
<1>1. EngineInv => CursorAdvances
  BY Zenon DEF EngineInv, CursorBetween, CursorAdvances, Answered, At
<1> QED
  BY <1>1, EngineInvInductive, PTL

\* A client that comes back with the cursor of a response gets nothing of it
\* again (GetDelta and its fallback in Engine.Sync).
THEOREM EngineSendsNothingTwice == Spec => []NothingSentTwice
<1>1. EngineInv => NothingSentTwice
  BY Zenon DEF EngineInv, CursorBetween, NothingSentTwice, Answered, At
<1> QED
  BY <1>1, EngineInvInductive, PTL

-----------------------------------------------------------------------------
\* The promise.

\* A step of a request that has not ended changes its own locals only, and never
\* its message.
LEMMA StepLocals ==
  ASSUME EngineInv, NEW p \in Reqs, Step(p)
  PROVE  /\ req[p].pc \notin {"done", "failed"}
         /\ \A q \in Reqs : q # p => req'[q] = req[q]
         /\ req'[p].msg = req[p].msg
<1>0. TypeOK
  BY DEF EngineInv
<1>1. req \in [Reqs -> Locals] /\ req[p] \in Locals /\ DOMAIN req = Reqs
  BY <1>0, LocalTypes
<1>2. req[p].pc \notin {"done", "failed"}
  BY DEF Step, Receive, NeedsSnapshot, GetSnapshot, MergeOps, Notify, MaybeCompact,
         CompactQuery, CompactStatement, CompactAbandoned, GetDelta, Respond, WriteSyncEvent, Fail, At
<1>3. ASSUME NEW r, req' = [req EXCEPT ![p] = r], r.msg = req[p].msg
      PROVE  /\ \A q \in Reqs : q # p => req'[q] = req[q]
             /\ req'[p].msg = req[p].msg
  BY <1>1, <1>3, Zenon
<1>4. ASSUME NEW l, Goto(p, l)
      PROVE  /\ \A q \in Reqs : q # p => req'[q] = req[q]
             /\ req'[p].msg = req[p].msg
  <2>1. PICK r : r = [req[p] EXCEPT !.pc = l]
    OBVIOUS
  <2>2. r.msg = req[p].msg
    BY <1>1, <2>1, Zenon DEF Locals
  <2>3. req' = [req EXCEPT ![p] = r]
    BY <1>4, <2>1 DEF Goto
  <2> QED
    BY <1>3, <2>2, <2>3
<1>5. CASE Receive(p)
  <2>1. PICK r : r = [req[p] EXCEPT !.pc = "schema", !.serverClock = clock',
                                    !.wrapped = AtLimit(clock) \/ AtLimit(req[p].msg.Clock)]
    OBVIOUS
  <2>2. r.msg = req[p].msg
    BY <1>1, <2>1, Zenon DEF Locals
  <2>3. req' = [req EXCEPT ![p] = r]
    BY <1>5, <2>1 DEF Receive
  <2> QED
    BY <1>2, <1>3, <2>2, <2>3
<1>6. CASE NeedsSnapshot(p)
  <2>1. PICK needs : req' = [req EXCEPT ![p] =
           [@ EXCEPT !.pc = IF needs THEN "snapshot" ELSE PastSnapshot(p), !.needsSnap = needs]]
    BY <1>6 DEF NeedsSnapshot
  <2>2. PICK r : r = [req[p] EXCEPT !.pc = IF needs THEN "snapshot" ELSE PastSnapshot(p),
                                    !.needsSnap = needs]
    OBVIOUS
  <2>3. r.msg = req[p].msg
    BY <1>1, <2>2, Zenon DEF Locals
  <2>4. req' = [req EXCEPT ![p] = r]
    BY <2>1, <2>2
  <2> QED
    BY <1>2, <1>3, <2>3, <2>4
<1>7. CASE GetSnapshot(p)
  <2>1. PICK flat : req' = [req EXCEPT ![p] = [@ EXCEPT !.pc = PastSnapshot(p), !.snapshot = flat]]
    BY <1>7 DEF GetSnapshot
  <2>2. PICK r : r = [req[p] EXCEPT !.pc = PastSnapshot(p), !.snapshot = flat]
    OBVIOUS
  <2>3. r.msg = req[p].msg
    BY <1>1, <2>2, Zenon DEF Locals
  <2>4. req' = [req EXCEPT ![p] = r]
    BY <2>1, <2>2
  <2> QED
    BY <1>2, <1>3, <2>3, <2>4
<1>8. CASE GetDelta(p)
  BY <1>2, <1>8, GetDeltaLocals
<1>9. CASE ~(Receive(p) \/ NeedsSnapshot(p) \/ GetSnapshot(p) \/ GetDelta(p))
  <2>1. PICK l : Goto(p, l)
    BY <1>9 DEF Step, MergeOps, Notify, MaybeCompact, CompactQuery, CompactStatement,
         CompactAbandoned, Respond, WriteSyncEvent, Fail
  <2> QED
    BY <1>2, <1>4, <2>1
<1> QED
  BY <1>5, <1>6, <1>7, <1>8, <1>9

\* MergeOps adds the ops of its request to the log; no other step adds any.
LEMMA StepStores ==
  ASSUME EngineInv, NEW p \in Reqs, Step(p)
  PROVE  /\ MergeOps(p) =>
              Log!IDs(Log!Rows') = Log!IDs(Log!Rows) \cup Log!IDs(req[p].msg.Ops)
         /\ ~MergeOps(p) => Log!Rows' = Log!Rows
<1>0. TypeOK /\ Log!LogInv /\ IsFiniteSet(Log!Rows)
  BY DEF EngineInv
<1>1. ASSUME MergeOps(p)
      PROVE  Log!IDs(Log!Rows') = Log!IDs(Log!Rows) \cup Log!IDs(req[p].msg.Ops)
  <2>1. req[p].msg.Ops \in SUBSET Ops /\ IsFiniteSet(req[p].msg.Ops)
    BY <1>0, LocalTypes
  <2>2. Log!MergeOps(req[p].msg.Ops)
    BY <1>1 DEF MergeOps
  <2> QED
    BY <1>0, <2>1, <2>2, LogMergeOps
<1>2. ASSUME ~MergeOps(p) PROVE Log!Rows' = Log!Rows
  <2>1. \/ UNCHANGED logVars
        \/ Log!CompactQuery(p) \/ Log!ArchiveOps(p) \/ Log!ReactivateOps(p) \/ Log!CompactFail(p)
        \/ \E d \in DocIDs : Log!WriteSnapshot(p, d)
    BY <1>2 DEF Step, Receive, NeedsSnapshot, GetSnapshot, Notify, MaybeCompact, CompactQuery,
         CompactStatement, CompactAbandoned, GetDelta, Respond, WriteSyncEvent, Fail, ReadsLog
  <2> QED
    BY <1>0, <2>1, LogCompact, LogUnchanged
<1> QED
  BY <1>1, <1>2

\* What SyncPromise sees of the engine.
Stored == Log!IDs(Log!Rows)

Sent == [p \in Reqs |-> Log!IDs(req[p].msg.Ops)]

Outcome(p) ==
  IF At(p, "done") THEN [kind |-> "given", ops |-> AnswerOps(p)]
  ELSE [kind |-> IF At(p, "failed") THEN "refused" ELSE "none", ops |-> {}]

Answers == [p \in Reqs |-> Outcome(p)]

\* A step of a request is one of the promise: it stores the ops of the request,
\* answers it, refuses it, or changes nothing that the promise is about.
LEMMA StepKeepsPromise ==
  ASSUME EngineInv, EngineInv', NEW p \in Reqs, Step(p)
  PROVE  [Promise!Next]_(Promise!vars)
<1>1. /\ req[p].pc \notin {"done", "failed"}
      /\ \A q \in Reqs : q # p => req'[q] = req[q]
      /\ req'[p].msg = req[p].msg
  BY StepLocals
<1>2. Sent' = Sent
  <2>1. \A q \in Reqs : req'[q].msg = req[q].msg
    BY <1>1
  <2> QED
    BY <2>1 DEF Sent, Log!IDs
<1>3. \A q \in Reqs : q # p => Outcome(q)' = Outcome(q)
  <2>1. ASSUME NEW q \in Reqs, q # p PROVE Outcome(q)' = Outcome(q)
    <3>1. req'[q] = req[q]
      BY <1>1, <2>1
    <3> QED
      BY <3>1 DEF Outcome, At, AnswerOps, Log!IDs
  <2> QED
    BY <2>1
<1>4. Answers' = [Answers EXCEPT ![p] = Outcome(p)'] /\ Answers[p] = Outcome(p)
  BY <1>3 DEF Answers
<1>5. Outcome(p) = Promise!NoAnswer
  BY <1>1 DEF Outcome, At, Promise!NoAnswer
<1>6. CASE MergeOps(p)
  <2>1. Stored' = Stored \cup Sent[p]
    BY <1>6, StepStores DEF Stored, Sent, Log!IDs
  <2>2. req'[p].pc = "notify"
    <3>1. Goto(p, "notify") /\ "notify" \in PC /\ TypeOK
      BY <1>6 DEF MergeOps, PC, EngineInv
    <3> QED
      BY <3>1, GotoLabel
  <2>3. Outcome(p)' = Promise!NoAnswer
    BY <2>2 DEF Outcome, At, Promise!NoAnswer
  <2>4. Answers' = Answers
    <3>1. Answers = [q \in Reqs |-> Answers[q]]
      BY DEF Answers
    <3> QED
      BY <1>4, <1>5, <2>3, <3>1
  <2>5. Promise!Push(p)
    BY <1>2, <1>4, <1>5, <2>1, <2>4, Zenon DEF Promise!Push, Stored, Sent, Answers, Outcome
  <2> QED
    BY <2>5 DEF Promise!Next
<1>7. CASE ~MergeOps(p)
  <2>1. Stored' = Stored
    BY <1>7, StepStores DEF Stored, Log!IDs
  <2>2. CASE req'[p].pc = "done"
    <3>1. Outcome(p)' = Promise!Given(AnswerOps(p)')
      BY <2>2 DEF Outcome, At, Promise!Given
    <3>2. AnswerOps(p)' \in SUBSET Stored
      BY <2>1 DEF EngineInv, GivenIsStored, Stored
    <3>3. Sent[p] \subseteq Stored
      <4>1. Sent'[p] \subseteq Stored'
        BY <2>2 DEF EngineInv, Committed, PC, Sent, Stored, Log!IDs
      <4> QED
        BY <1>2, <2>1, <4>1
    <3>4. Promise!Answer(p)
      BY <1>2, <1>4, <1>5, <2>1, <3>1, <3>2, <3>3, Zenon
         DEF Promise!Answer, Stored, Sent, Answers, Outcome
    <3> QED
      BY <3>4 DEF Promise!Next
  <2>3. CASE req'[p].pc = "failed"
    <3>1. Outcome(p)' = Promise!Refused
      BY <2>3 DEF Outcome, At, Promise!Refused
    <3>2. Promise!Refuse(p)
      BY <1>2, <1>4, <1>5, <2>1, <3>1, Zenon DEF Promise!Refuse, Stored, Sent, Answers, Outcome
    <3> QED
      BY <3>2 DEF Promise!Next
  <2>4. CASE req'[p].pc \notin {"done", "failed"}
    <3>1. Outcome(p)' = Outcome(p)
      BY <1>5, <2>4 DEF Outcome, At, Promise!NoAnswer
    <3>2. Answers' = Answers
      <4>1. Answers = [q \in Reqs |-> Answers[q]]
        BY DEF Answers
      <4> QED
        BY <1>4, <3>1, <4>1
    <3> QED
      BY <1>2, <2>1, <3>2 DEF Promise!vars, Stored, Sent, Answers, Outcome
  <2> QED
    BY <2>2, <2>3, <2>4
<1> QED
  BY <1>6, <1>7

\* The engine keeps the promise: for any requests, ops and times, and however the
\* requests' calls and the statements of compactions interleave or fail, the ops
\* of a request are stored together and for good before it is answered.
THEOREM EngineKeepsPromise == Spec => PromiseSpec
<1>1. Init => Promise!Init
  <2> SUFFICES ASSUME Init PROVE Promise!Init
    OBVIOUS
  <2>1. EngineInv
    BY EngineInvInit
  <2>2. Stored = {}
    BY DEF Init, Log!Init, Stored, Log!Rows, Log!IDs
  <2>3. Sent \in [Reqs -> SUBSET OpIDs]
    <3>1. ASSUME NEW p \in Reqs PROVE Log!IDs(req[p].msg.Ops) \subseteq OpIDs
      <4>1. req[p].msg.Ops \subseteq CRDTOp
        BY <2>1, LocalTypes, EngineAssumption DEF EngineInv
      <4> QED
        BY <4>1 DEF Log!IDs, CRDTOp
    <3> QED
      BY <3>1 DEF Sent
  <2>4. \A p \in Reqs : Outcome(p) = Promise!NoAnswer
    <3>1. \A p \in Reqs : req[p].pc = "receive"
      <4>1. PICK m \in [Reqs -> Msgs] :
              req = [p \in Reqs |->
                     [pc |-> "receive", msg |-> m[p], serverClock |-> ZeroHLC,
                      needsSnap |-> FALSE, snapshot |-> {}, delta |-> {},
                      newClock |-> ZeroHLC, wrapped |-> FALSE]]
        BY DEF Init
      <4> QED
        BY <4>1, Zenon
    <3> QED
      BY <3>1 DEF Outcome, At, Promise!NoAnswer
  <2>5. Answers = [p \in Reqs |-> Promise!NoAnswer]
    BY <2>4 DEF Answers
  <2> QED
    BY <2>2, <2>3, <2>5, Zenon DEF Promise!Init, Stored, Sent, Answers, Outcome
<1>2. EngineInv /\ EngineInv' /\ [Next]_vars => [Promise!Next]_(Promise!vars)
  <2> SUFFICES ASSUME EngineInv, EngineInv', [Next]_vars PROVE [Promise!Next]_(Promise!vars)
    OBVIOUS
  <2>1. CASE \E p \in Reqs : Step(p)
    BY <2>1, StepKeepsPromise
  <2>2. CASE SetSchemaVersion \/ Restart \/ UNCHANGED vars
    <3>1. UNCHANGED <<active, archived, req>>
      BY <2>2 DEF SetSchemaVersion, Restart, vars, logVars
    <3> QED
      BY <3>1 DEF Promise!vars, Log!Rows, Log!IDs, At, AnswerOps
  <2> QED
    BY <2>1, <2>2 DEF Next
<1> QED
  BY <1>1, <1>2, EngineInvInductive, PTL DEF Spec, PromiseSpec, Promise!Spec

-----------------------------------------------------------------------------
\* The responses.

\* A request is moved on by its own goroutine: which step it was is told by
\* where the request is before and after.
LEMMA OwnStep ==
  ASSUME EngineInv, Next, NEW p \in Reqs, req'[p].pc # req[p].pc
  PROVE  Step(p)
<1>0. TypeOK /\ DOMAIN req = Reqs
  BY LocalTypes DEF EngineInv
<1>1. req' # req
  OBVIOUS
<1>2. PICK q \in Reqs : Step(q)
  BY <1>1 DEF Next, SetSchemaVersion, Restart, vars
<1>3. CASE q # p
  <2>1. PICK r : req' = [req EXCEPT ![q] = r]
    BY <1>2, Zenon DEF Step, Receive, NeedsSnapshot, GetSnapshot, MergeOps, Notify, MaybeCompact,
         CompactQuery, CompactStatement, CompactAbandoned, GetDelta, Respond, WriteSyncEvent, Fail, Goto
  <2>2. req'[p] = req[p]
    BY <1>0, <1>3, <2>1
  <2> QED
    BY <2>2
<1> QED
  BY <1>2, <1>3

\* Every step moves on the request that takes it to one of these places.
LEMMA StepFrom ==
  ASSUME EngineInv, NEW p \in Reqs, Step(p)
  PROVE  /\ At(p, "delta") /\ At(p, "version")' => GetDelta(p)
         /\ At(p, "snapshot") /\ ~At(p, "failed")' => GetSnapshot(p)
<1>0. TypeOK
  BY DEF EngineInv
<1>1. At(p, "delta") => GetDelta(p) \/ Fail(p)
  BY DEF Step, Receive, NeedsSnapshot, GetSnapshot, MergeOps, Notify, MaybeCompact,
       CompactQuery, CompactStatement, CompactAbandoned, GetDelta, Respond, WriteSyncEvent, Fail, At
<1>2. At(p, "snapshot") => GetSnapshot(p) \/ Fail(p)
  BY DEF Step, Receive, NeedsSnapshot, GetSnapshot, MergeOps, Notify, MaybeCompact,
       CompactQuery, CompactStatement, CompactAbandoned, GetDelta, Respond, WriteSyncEvent, Fail, At
<1>3. Fail(p) => At(p, "failed")'
  <2>1. "failed" \in PC
    BY DEF PC
  <2>2. Fail(p) => Goto(p, "failed")
    BY DEF Fail
  <2> QED
    BY <1>0, <2>1, <2>2, GotoLabel DEF At
<1> QED
  BY <1>1, <1>2, <1>3 DEF At

\* While no compaction disturbs another or an insert, the active rows stand for
\* all rows.
LEMMA CalmCovers ==
  ASSUME EngineInv, Calm, NEW r \in Log!Visible(Log!Rows)
  PROVE  \E a \in active : Covers(a, r) /\ a \in CRDTOp /\ r \in CRDTOp
<1>1. active \subseteq CRDTOp /\ archived \subseteq CRDTOp
  BY SameData DEF EngineInv, TypeOK, Log!TypeOK
<1>2. r \in active \/ r \in Log!Visible(archived)
  BY DEF Log!Visible, Log!Rows
<1>3. r \in CRDTOp
  BY <1>1 DEF Log!Visible, Log!Rows
<1>4. CASE r \in active
  BY <1>3, <1>4, CoversReflexive
<1>5. CASE r \in Log!Visible(archived)
  <2>1. Log!CoveredBy(Log!Visible(archived), active)
    BY DEF EngineInv, Log!LogInv, Log!NoLostWrite, Calm
  <2>2. CoveredBy(Log!Visible(archived), active)
    BY <2>1, SameCover
  <2> QED
    BY <1>1, <1>3, <1>5, <2>2 DEF CoveredBy
<1> QED
  BY <1>2, <1>4, <1>5

\* A delta covers every row after the client's cursor (Backend.GetDelta), for
\* any log.
THEOREM EngineDeltaComplete == Spec => DeltaComplete
<1>1. ASSUME EngineInv, Next, NEW p \in Reqs, At(p, "delta"), At(p, "version")', Calm
      PROVE  CoveredBy({r \in Log!Visible(Log!Rows) : Log!After(r.Timestamp, req[p].msg.Clock)},
                       req'[p].delta)
  <2>1. GetDelta(p)
    <3>1. req'[p].pc # req[p].pc
      BY <1>1 DEF At
    <3> QED
      BY <1>1, <3>1, OwnStep, StepFrom
  <2>2. req'[p].delta = Log!QueryOps(req[p].msg.Clock)
    BY <1>1, <2>1, GetDeltaLocals
  <2>3. PICK c \in HLC : c = req[p].msg.Clock
    BY <1>1, LocalTypes DEF EngineInv
  <2>4. ASSUME NEW r \in Log!Visible(Log!Rows), Log!After(r.Timestamp, c)
        PROVE  \E d \in Log!QueryOps(c) : Covers(d, r)
    <3>1. PICK a \in active : Covers(a, r) /\ a \in CRDTOp /\ r \in CRDTOp
      BY <1>1, CalmCovers
    <3>2. a.Timestamp \in HLC /\ r.Timestamp \in HLC /\ ~Before(a.Timestamp, r.Timestamp)
      BY <3>1 DEF Covers, CRDTOp
    <3>3. Log!After(a.Timestamp, c)
      BY <2>4, <3>2, AfterUpwards
    <3> QED
      BY <3>1, <3>3 DEF Log!QueryOps
  <2> QED
    BY <2>2, <2>3, <2>4 DEF CoveredBy
<1>2. EngineInv /\ [Next]_vars =>
        [\A p \in Reqs : At(p, "delta") /\ At(p, "version")' /\ Calm =>
           CoveredBy({r \in Log!Visible(Log!Rows) : Log!After(r.Timestamp, req[p].msg.Clock)},
                     req'[p].delta)]_vars
  BY <1>1, Zenon
<1> QED
  BY <1>2, EngineInvInductive, PTL DEF Spec, DeltaComplete

\* A snapshot covers every op ever stored, except a field that another one
\* hides by having the same key (Backend.GetSnapshot), for any log.
THEOREM EngineSnapshotComplete == Spec => SnapshotComplete
<1>1. ASSUME EngineInv, Next, NEW p \in Reqs, At(p, "snapshot"), ~At(p, "failed")',
             req'[p].pc # req[p].pc, Calm, NEW r \in Log!Visible(Log!Rows)
      PROVE  \E s \in req'[p].snapshot :
               Covers(s, r) \/ (Key(s) = Key(r) /\ ~SameField(s, r))
  <2>0. TypeOK /\ active \subseteq CRDTOp /\ ZeroHLC \in HLC
    BY <1>1, SameData, HLCAssumption DEF EngineInv, TypeOK, Log!TypeOK, ZeroHLC, HLC, Wall
  <2>1. GetSnapshot(p)
    BY <1>1, OwnStep, StepFrom
  <2>2. PICK kept \in SUBSET Log!QueryOps(ZeroHLC), flat \in SUBSET Log!QueryOps(ZeroHLC) :
          /\ IsMerge(Log!QueryOps(ZeroHLC), kept)
          /\ IsFlat(kept, flat)
          /\ req' = [req EXCEPT ![p] = [@ EXCEPT !.pc = PastSnapshot(p), !.snapshot = flat]]
    BY <2>1 DEF GetSnapshot
  <2>3. req'[p].snapshot = flat
    <3>1. req[p] \in Locals /\ DOMAIN req = Reqs
      BY <2>0, LocalTypes
    <3> QED
      BY <2>2, <3>1, Zenon DEF Locals
  <2>4. PICK a \in active : Covers(a, r) /\ a \in CRDTOp /\ r \in CRDTOp
    BY <1>1, CalmCovers
  <2>5. a \in Log!QueryOps(ZeroHLC)
    <3>1. a.Timestamp \in HLC /\ r.Timestamp \in HLC /\ ~Before(a.Timestamp, r.Timestamp)
      BY <2>4 DEF Covers, CRDTOp
    <3>2. Log!After(r.Timestamp, ZeroHLC)
      BY SameData DEF Log!Visible
    <3>3. Log!After(a.Timestamp, ZeroHLC)
      BY <2>0, <3>1, <3>2, AfterUpwards
    <3> QED
      BY <3>3 DEF Log!QueryOps
  <2>6. PICK k \in kept : Covers(k, a)
    BY <2>2, <2>5 DEF IsMerge, CoveredBy
  <2>7. k \in CRDTOp /\ Covers(k, r)
    <3>1. k \in CRDTOp
      BY <2>0 DEF Log!QueryOps
    <3> QED
      BY <2>4, <2>6, <3>1, CoversTransitive
  <2>8. PICK s \in flat : Key(s) = Key(k)
    <3>1. Key(k) \in {Key(op) : op \in flat}
      BY <2>2 DEF IsFlat
    <3> QED
      BY <3>1
  <2>9. Key(k) = Key(r)
    BY <2>7 DEF Covers, SameField, Key
  <2>10. CASE SameField(s, r)
    <3>1. s \in kept /\ SameField(s, k)
      BY <2>2, <2>7, <2>10 DEF IsFlat, Covers, SameField
    <3>2. s = k
      BY <2>2, <3>1 DEF IsMerge
    <3> QED
      BY <2>3, <2>7, <3>2
  <2>11. CASE ~SameField(s, r)
    BY <2>3, <2>8, <2>9, <2>11
  <2> QED
    BY <2>10, <2>11
<1>2. EngineInv /\ [Next]_vars =>
        [\A p \in Reqs :
           At(p, "snapshot") /\ ~At(p, "failed")' /\ req'[p].pc # req[p].pc /\ Calm =>
             \A r \in Log!Visible(Log!Rows) : \E s \in req'[p].snapshot :
               Covers(s, r) \/ (Key(s) = Key(r) /\ ~SameField(s, r))]_vars
  BY <1>1, Zenon
<1> QED
  BY <1>2, EngineInvInductive, PTL DEF Spec, SnapshotComplete
=============================================================================
