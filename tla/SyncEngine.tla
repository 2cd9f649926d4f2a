----------------------------- MODULE SyncEngine -----------------------------
(***************************************************************************)
(* SyncHandler (server/handlers/sync.go) and Engine.Sync                   *)
(* (core/sync/engine.go) over the op log of one dataset, with              *)
(* NeedsSnapshot (core/crdt/schema.go) and MaybeCompact                    *)
(* (core/crdt/compaction.go).  Each request runs in a goroutine of its     *)
(* own; a step is one call that reaches the clock or the database, and     *)
(* goroutines interleave between steps.  Any call may fail, and a request  *)
(* may be cut off by its client or by the end of the process.              *)
(***************************************************************************)
EXTENDS LWW, FiniteSets, Sequences

CONSTANTS
  Reqs,         \* requests, each served once
  Msgs,         \* the sync messages that clients send
  Ops,          \* the ops in them
  Walls,        \* what time.Now may report
  serverID,     \* the device name of the engine's clock
  threshold,    \* compaction threshold
  MaxVersion    \* bound on schema versions

SyncMessage == [Clock : HLC, Ops : SUBSET Ops, ClientSchemaVersion : Nat]

ASSUME EngineAssumption ==
  /\ DocIDs \cup Fields \subseteq Seq(STRING)  \* names, character by character
  /\ Ops \subseteq CRDTOp
  /\ Msgs \subseteq SyncMessage
  /\ \A m \in Msgs : IsFiniteSet(m.Ops)  \* a slice
  /\ Walls \subseteq 1 .. MaxWall
  /\ serverID \in Nat \ {0}
  /\ threshold \in Nat /\ MaxVersion \in Nat \ {0}

VARIABLES
  active, archived, snapshots, comp, overlap, aborted, cleared,  \* the op log: OpLog
  clock,          \* last timestamp of e.clock
  schemaVersion,  \* schema_version of the dataset, 1 when it has no row
  notified,       \* requests whose Notify woke the user's devices
  events,         \* requests with a row in sync_events
  req             \* req[p]: local variables and response of request p

logVars == <<active, archived, snapshots, comp, overlap, aborted, cleared>>
vars == <<logVars, clock, schemaVersion, notified, events, req>>

Log == INSTANCE OpLog WITH Procs <- Reqs

PC == {"receive", "schema", "snapshot", "merge", "notify", "count", "compact",
       "compacting", "delta", "version", "event", "done", "failed"}

\* The local variables of every request, and what the log, the clock and the
\* schema version hold.
TypeOK ==
  /\ Log!TypeOK
  /\ clock \in HLC
  /\ schemaVersion \in 1 .. MaxVersion
  /\ notified \in SUBSET Reqs
  /\ events \in SUBSET Reqs
  /\ req \in [Reqs -> [pc : PC, msg : Msgs, serverClock : HLC, needsSnap : BOOLEAN,
                       snapshot : SUBSET CRDTOp, delta : SUBSET CRDTOp,
                       newClock : HLC, wrapped : BOOLEAN]]

Init ==
  /\ Log!Init
  /\ clock = ZeroHLC
  /\ schemaVersion = 1
  /\ notified = {}
  /\ events = {}
  /\ \E m \in [Reqs -> Msgs] :
       req = [p \in Reqs |->
               [pc |-> "receive", msg |-> m[p], serverClock |-> ZeroHLC,
                needsSnap |-> FALSE, snapshot |-> {}, delta |-> {},
                newClock |-> ZeroHLC, wrapped |-> FALSE]]

At(p, label) == req[p].pc = label

Goto(p, label) == req' = [req EXCEPT ![p].pc = label]

\* The engine reads the log but the step does not write it.
ReadsLog == UNCHANGED <<logVars, clock, schemaVersion, notified, events>>

\* if len(msg.Ops) > 0
PastSnapshot(p) == IF req[p].msg.Ops = {} THEN "delta" ELSE "merge"

\* e.clock.Receive(msg.Clock); wrapped records an int64 overflow.
Receive(p) ==
  /\ At(p, "receive")
  /\ \E wall \in Walls : clock' = ReceiveHLC(clock, req[p].msg.Clock, wall, serverID)
  /\ req' = [req EXCEPT ![p] =
       [@ EXCEPT !.pc = "schema", !.serverClock = clock',
                 !.wrapped = AtLimit(clock) \/ AtLimit(req[p].msg.Clock)]]
  /\ UNCHANGED <<logVars, schemaVersion, notified, events>>

NeedsSnapshot(p) ==
  LET needs == schemaVersion > req[p].msg.ClientSchemaVersion
  IN  /\ At(p, "schema")
      /\ req' = [req EXCEPT ![p] =
           [@ EXCEPT !.pc = IF needs THEN "snapshot" ELSE PastSnapshot(p),
                     !.needsSnap = needs]]
      /\ ReadsLog

\* The key of a field in the map that is sent.
Key(op) == op.DocID \o <<".">> \o op.Field

\* Fields with the same key: the one that the loop over a Go map visits last stays.
IsFlat(kept, flat) ==
  /\ flat \subseteq kept
  /\ {Key(op) : op \in flat} = {Key(op) : op \in kept}
  /\ \A a, b \in flat : Key(a) = Key(b) => a = b

\* Mutant of GetSnapshot: the view is built from what is new to the client.
GetSnapshotSince(p) ==
  /\ At(p, "snapshot")
  /\ \E kept \in SUBSET Log!QueryOps(req[p].msg.Clock) :
       /\ IsMerge(Log!QueryOps(req[p].msg.Clock), kept)
       /\ req' = [req EXCEPT ![p] = [@ EXCEPT !.pc = PastSnapshot(p), !.snapshot = kept]]
  /\ ReadsLog

\* Backend.GetSnapshot: the merged view of what QueryOps returns, flattened.
GetSnapshot(p) ==
  /\ At(p, "snapshot")
  /\ \E kept, flat \in SUBSET Log!QueryOps(ZeroHLC) :
       /\ IsMerge(Log!QueryOps(ZeroHLC), kept)
       /\ IsFlat(kept, flat)
       /\ req' = [req EXCEPT ![p] = [@ EXCEPT !.pc = PastSnapshot(p), !.snapshot = flat]]
  /\ ReadsLog

\* Mutant of MergeOps: Notify comes before the ops are stored.
MergeOpsAfterNotify(p) ==
  /\ At(p, "merge")
  /\ IF p \in notified
     THEN Log!MergeOps(req[p].msg.Ops) /\ Goto(p, "count") /\ UNCHANGED notified
     ELSE notified' = notified \cup {p} /\ UNCHANGED <<logVars, req>>
  /\ UNCHANGED <<clock, schemaVersion, events>>

\* Mutant of MergeOps: the ops are inserted one by one, without a transaction.
MergeOpsOneByOne(p) ==
  /\ At(p, "merge")
  /\ \E op \in req[p].msg.Ops :
       /\ op.OpID \notin Log!IDs(Log!Rows) \/ Log!IDs(req[p].msg.Ops) \subseteq Log!IDs(Log!Rows)
       /\ Log!MergeOps({op})
  /\ Goto(p, IF Log!IDs(req[p].msg.Ops) \subseteq Log!IDs(Log!Rows)' THEN "notify" ELSE "merge")
  /\ UNCHANGED <<clock, schemaVersion, notified, events>>

MergeOps(p) ==
  /\ At(p, "merge")
  /\ Log!MergeOps(req[p].msg.Ops)
  /\ Goto(p, "notify")
  /\ UNCHANGED <<clock, schemaVersion, notified, events>>

\* The error that Notify may return is dropped.
Notify(p) ==
  /\ At(p, "notify")
  /\ notified' = notified \cup {p}
  /\ Goto(p, "count")
  /\ UNCHANGED <<logVars, clock, schemaVersion, events>>

\* The rows that are not archived, whatever their timestamp.
OpCount == Cardinality(active)

\* MaybeCompact: OpCount, then Compact above the threshold.
MaybeCompact(p) ==
  /\ At(p, "count")
  /\ Goto(p, IF OpCount > threshold THEN "compact" ELSE "delta")
  /\ ReadsLog

\* Backend.Compact, statement by statement.
CompactQuery(p) ==
  /\ At(p, "compact")
  /\ Log!CompactQuery(p)
  /\ Goto(p, "compacting")
  /\ UNCHANGED <<clock, schemaVersion, notified, events>>

CompactStatement(p) ==
  /\ At(p, "compacting")
  /\ \/ \E d \in DocIDs : Log!WriteSnapshot(p, d)
     \/ Log!ArchiveOps(p)
     \/ Log!ReactivateOps(p)
  /\ Goto(p, IF comp'[p] = Log!Idle THEN "delta" ELSE "compacting")
  /\ UNCHANGED <<clock, schemaVersion, notified, events>>

\* Mutant of CompactAbandoned: the error is returned to nobody.
CompactStuck(p) ==
  /\ At(p, "compacting")
  /\ Log!CompactFail(p)
  /\ UNCHANGED <<clock, schemaVersion, notified, events, req>>

\* An error of MaybeCompact is dropped and the request goes on.
CompactAbandoned(p) ==
  /\ \/ At(p, "compacting") /\ Log!CompactFail(p)
     \/ (At(p, "count") \/ At(p, "compact")) /\ UNCHANGED logVars
  /\ Goto(p, "delta")
  /\ UNCHANGED <<clock, schemaVersion, notified, events>>

\* Mutant of MaxHLC: the timestamp of the first op returned.
FirstHLC(ops) ==
  IF ops = {} THEN ZeroHLC
  ELSE CHOOSE t \in {op.Timestamp : op \in ops} : \A op \in ops : ~Before(op.Timestamp, t)

\* The loop over ops in GetDelta, which starts from the zero HLC.
MaxHLC(ops) ==
  CHOOSE t \in {ZeroHLC} \cup {op.Timestamp : op \in ops} :
    ~Before(t, ZeroHLC) /\ \A op \in ops : ~Before(t, op.Timestamp)

\* Mutant of GetDelta: an empty delta leaves the client where it was.
GetDeltaNoFallback(p) ==
  LET delta == Log!QueryOps(req[p].msg.Clock)
  IN  /\ At(p, "delta")
      /\ req' = [req EXCEPT ![p] =
           [@ EXCEPT !.pc = "version", !.delta = delta, !.newClock = MaxHLC(delta)]]
      /\ ReadsLog

\* Mutant of GetDelta: the cursor is the server's clock instead of the
\* client's, so that only what was written since the request is returned.
GetDeltaSinceServer(p) ==
  LET delta == Log!QueryOps(req[p].serverClock)
  IN  /\ At(p, "delta")
      /\ req' = [req EXCEPT ![p] =
           [@ EXCEPT !.pc = "version", !.delta = delta,
                     !.newClock = IF MaxHLC(delta).WallTime = 0 THEN req[p].serverClock
                                  ELSE MaxHLC(delta)]]
      /\ ReadsLog

\* GetDelta(msg.Clock); a zero wall time falls back on the server's clock.
GetDelta(p) ==
  LET delta == Log!QueryOps(req[p].msg.Clock)
      newClock == MaxHLC(delta)
  IN  /\ At(p, "delta")
      /\ req' = [req EXCEPT ![p] =
           [@ EXCEPT !.pc = "version", !.delta = delta,
                     !.newClock = IF newClock.WallTime = 0 THEN req[p].serverClock
                                  ELSE newClock]]
      /\ ReadsLog

\* The second read of the schema version, whose error is dropped, and the
\* response; the version in it decides nothing on the server.
Respond(p) ==
  /\ At(p, "version")
  /\ Goto(p, IF req[p].msg.Ops = {} THEN "done" ELSE "event")
  /\ ReadsLog

\* SyncHandler after Engine.Sync: the sync event of a request with ops is
\* written if the store lets it, and the response is sent either way.
WriteSyncEvent(p) ==
  /\ At(p, "event")
  /\ events' \in {events, events \cup {p}}
  /\ Goto(p, "done")
  /\ UNCHANGED <<logVars, clock, schemaVersion, notified>>

\* A call of the store returns an error, or the process dies (later on a death
\* only loses the response).
Fail(p) ==
  /\ req[p].pc \in {"schema", "snapshot", "merge", "notify", "delta"}
  /\ Goto(p, "failed")
  /\ ReadsLog

\* MetaDB.SetSchemaVersion, called by whoever upgrades the dataset.
SetSchemaVersion ==
  /\ schemaVersion' \in 1 .. MaxVersion
  /\ UNCHANGED <<logVars, clock, notified, events, req>>

\* The process starts again: the log persists, the clock does not.
Restart ==
  /\ \A p \in Reqs : req[p].pc \in {"receive", "done", "failed"}
  /\ clock # ZeroHLC
  /\ clock' = ZeroHLC
  /\ UNCHANGED <<logVars, schemaVersion, notified, events, req>>

Ended(p) == req[p].pc \in {"done", "failed"}

\* What the goroutine of p does next: SyncHandler.ServeHTTP once the body is
\* read and decoded.
Step(p) ==
  \/ Receive(p) \/ NeedsSnapshot(p) \/ GetSnapshot(p)
  \/ MergeOps(p) \/ Notify(p)
  \/ MaybeCompact(p) \/ CompactQuery(p) \/ CompactStatement(p) \/ CompactAbandoned(p)
  \/ GetDelta(p) \/ Respond(p) \/ WriteSyncEvent(p) \/ Fail(p)

Next ==
  \/ \E p \in Reqs : Step(p)
  \/ SetSchemaVersion
  \/ Restart
  \/ (\A p \in Reqs : Ended(p)) /\ UNCHANGED vars

\* Every goroutine is scheduled, and every database call returns.
Fairness == \A p \in Reqs : WF_vars(Step(p))

Spec == Init /\ [][Next]_vars

FairSpec == Spec /\ Fairness

-----------------------------------------------------------------------------
Calm == ~overlap /\ ~aborted /\ Log!Settled

Answered(p) == At(p, "done")

\* Every row the client has not seen, judged by its cursor, is in the delta or
\* made obsolete by a row that is, whatever compaction did to the log before,
\* unless one overlapped, was cut off or is under way (Backend.GetDelta).
DeltaComplete ==
  [][\A p \in Reqs : At(p, "delta") /\ At(p, "version")' /\ Calm =>
       CoveredBy({r \in Log!Visible(Log!Rows) : Log!After(r.Timestamp, req[p].msg.Clock)},
                 req'[p].delta)]_vars

\* A client behind the schema discards what it has: the snapshot it gets covers
\* every op ever stored, archived ones included, under the same conditions and
\* except for a field that another one hides by having the same key once document
\* and field are joined (Backend.GetSnapshot, which reads the active rows only).
SnapshotComplete ==
  [][\A p \in Reqs : At(p, "snapshot") /\ ~At(p, "failed")' /\ req'[p].pc # req[p].pc /\ Calm =>
       \A r \in Log!Visible(Log!Rows) : \E s \in req'[p].snapshot :
         Covers(s, r) \/ (Key(s) = Key(r) /\ ~SameField(s, r))]_vars

\* The cursor a client gets is after the one it sent, unless a wall time
\* overflowed: a client that polls never goes back or stands still, even over
\* a restart of the server's clock (Engine.Sync).
CursorAdvances ==
  \A p \in Reqs : Answered(p) /\ ~req[p].wrapped =>
    Before(req[p].msg.Clock, req[p].newClock)

\* Nothing in a response would be sent again to a client that comes back with
\* the response's cursor (GetDelta's maximum and its fallback in Engine.Sync).
NothingSentTwice ==
  \A p \in Reqs : Answered(p) /\ ~req[p].wrapped =>
    \A r \in req[p].delta : ~Log!After(r.Timestamp, req[p].newClock)

\* Nothing is announced before it is committed: a device that pulls on a
\* notification finds the ops in the log, and so does an administrator who
\* reads the sync event (Engine.Sync, SyncHandler).
AnnouncedAfterCommit ==
  \A p \in notified \cup events : Log!IDs(req[p].msg.Ops) \subseteq Log!IDs(Log!Rows)

\* The ops that the response of request p brings.
AnswerOps(p) == Log!IDs(req[p].delta \cup req[p].snapshot)

Promise == INSTANCE SyncPromise WITH
  stored <- Log!IDs(Log!Rows),
  sent <- [p \in Reqs |-> Log!IDs(req[p].msg.Ops)],
  answer <- [p \in Reqs |->
    IF At(p, "done") THEN [kind |-> "given", ops |-> AnswerOps(p)]
    ELSE [kind |-> IF At(p, "failed") THEN "refused" ELSE "none", ops |-> {}]]

\* The handler, the engine and the log together keep what SyncPromise promises,
\* however requests and the statements of compactions interleave and wherever
\* they are cut off: the ops of a request are stored together, before it is
\* answered, and never leave the log again.
PromiseSpec == Promise!Spec

\* Every request is answered or fails, whatever the others do and whatever
\* happens to a compaction it runs.
RequestsEnd == \A p \in Reqs : <>Ended(p)

\* README.md:3 as written: "no data loss".  No row is missing from what a
\* client holds below its cursor: no row is stored between the cursor it sent
\* and the one it got without being in the response.
NoHoleBelowCursor ==
  \A p \in Reqs : Answered(p) /\ ~req[p].wrapped /\ Calm =>
    CoveredBy({r \in Log!Visible(Log!Rows) :
                 /\ Log!After(r.Timestamp, req[p].msg.Clock)
                 /\ ~Log!After(r.Timestamp, req[p].newClock)},
              req[p].delta)

-----------------------------------------------------------------------------
\* The inductive invariant.

\* A request has something to merge, and has merged it before it goes on.
Committed ==
  \A p \in Reqs :
    /\ At(p, "merge") => req[p].msg.Ops # {}
    /\ req[p].pc \in PC \ {"receive", "schema", "snapshot", "merge", "failed"} =>
         Log!IDs(req[p].msg.Ops) \subseteq Log!IDs(Log!Rows)

\* The server's clock is ahead of the client's, and at a time that
\* time.Now can report.
ServerAhead ==
  \A p \in Reqs : req[p].pc \notin {"receive", "failed"} /\ ~req[p].wrapped =>
    Before(req[p].msg.Clock, req[p].serverClock) /\ req[p].serverClock.WallTime >= 1

\* The response's cursor is between what was returned and what was not.
CursorBetween ==
  \A p \in Reqs : req[p].pc \in {"version", "event", "done"} /\ ~req[p].wrapped =>
    /\ Before(req[p].msg.Clock, req[p].newClock)
    /\ \A r \in req[p].delta : ~Log!After(r.Timestamp, req[p].newClock)

\* What a request has been given so far is in the log.
GivenIsStored == \A p \in Reqs : AnswerOps(p) \subseteq Log!IDs(Log!Rows)

EngineInv ==
  /\ TypeOK
  /\ Log!LogInv
  /\ IsFiniteSet(Log!Rows)
  /\ AnnouncedAfterCommit
  /\ Committed
  /\ ServerAhead
  /\ CursorBetween
  /\ GivenIsStored
=============================================================================
