-------------------------------- MODULE LWW --------------------------------
(***************************************************************************)
(* Field mutations (core.CRDTOp) and last-writer-wins merging.  The same   *)
(* loop is written three times: crdt.Merge, mergeOpsLocal and the winMap   *)
(* loop of Backend.Compact.  MergeLoop runs it op by op; here is what it   *)
(* computes.  A sequence of ops with equal timestamps may leave any one of *)
(* them as the winner, depending on the order they come in.                *)
(***************************************************************************)
EXTENDS HLC

CONSTANTS
  OpIDs, DocIDs, Fields, Values

CRDTOp == [OpID : OpIDs, DocID : DocIDs, Field : Fields, Value : Values,
           Timestamp : HLC, DeviceID : Nat]

\* The key of winMap and of the nested maps of Merge.
SameField(a, b) == a.DocID = b.DocID /\ a.Field = b.Field

\* a makes b obsolete: the same field, and a not older.
Covers(a, b) == SameField(a, b) /\ ~Before(a.Timestamp, b.Timestamp)

CoveredBy(S, T) == \A s \in S : \E t \in T : Covers(t, s)

\* kept holds one winner for each (doc, field) of ops.
IsMerge(ops, kept) ==
  /\ kept \subseteq ops
  /\ CoveredBy(ops, kept)
  /\ \A a, b \in kept : SameField(a, b) => a = b

\* The map from doc and field to value that Merge builds from its winners.
Result(kept) ==
  {[DocID |-> op.DocID, Field |-> op.Field, Value |-> op.Value] : op \in kept}

\* No two values of a field compete with the same timestamp.
Untied(ops) ==
  \A a, b \in ops :
    SameField(a, b) /\ a.Timestamp = b.Timestamp => a.Value = b.Value
=============================================================================
