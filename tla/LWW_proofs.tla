----------------------------- MODULE LWW_proofs -----------------------------
(***************************************************************************)
(* Facts about timestamps and last-writer-wins merging that the other      *)
(* proofs rest on.  Before is a strict total order; Tick and Receive       *)
(* return a timestamp after everything they start from unless one of their *)
(* operands is the last timestamp an int64 and a uint32 can hold.          *)
(***************************************************************************)
EXTENDS LWW, TLAPS

\* Before never relates a timestamp to itself or to an earlier one
\* (crdt.Before, beforeHLC).
LEMMA BeforeAsymmetric ==
  ASSUME NEW a \in HLC, NEW b \in HLC, Before(a, b)
  PROVE  ~Before(b, a)
BY HLCAssumption DEF Before, HLC, Wall

\* Before is transitive (crdt.Before, beforeHLC).
LEMMA BeforeTransitive ==
  ASSUME NEW a \in HLC, NEW b \in HLC, NEW c \in HLC, Before(a, b), Before(b, c)
  PROVE  Before(a, c)
BY HLCAssumption DEF Before, HLC, Wall

\* Not being after is transitive too: what a last-writer-wins merge relies on.
LEMMA NotBeforeTransitive ==
  ASSUME NEW a \in HLC, NEW b \in HLC, NEW c \in HLC, ~Before(a, b), ~Before(b, c)
  PROVE  ~Before(a, c)
BY HLCAssumption DEF Before, HLC, Wall

\* Two timestamps that differ are ordered one way or the other, so distinct
\* timestamps leave a merge no choice (crdt.Before, beforeHLC).
LEMMA BeforeTotal ==
  ASSUME NEW a \in HLC, NEW b \in HLC, a # b
  PROVE  Before(a, b) \/ Before(b, a)
BY HLCAssumption DEF Before, HLC, Wall

\* The carry of advanceLogicalWall stays within int64 and uint32.
LEMMA AdvanceInRange ==
  ASSUME NEW w \in Wall, NEW l \in 0 .. MaxLogical
  PROVE  /\ advanceLogicalWall(w, l).wall \in Wall
         /\ advanceLogicalWall(w, l).logical \in 0 .. MaxLogical
BY HLCAssumption DEF advanceLogicalWall, IncWall, Wall

\* Clock.Tick returns a well-formed timestamp, and a strictly greater one
\* unless the counter has reached the end of its range.
LEMMA TickAdvances ==
  ASSUME NEW t \in HLC, NEW wall \in Wall, NEW dev \in Nat
  PROVE  /\ TickHLC(t, wall, dev) \in HLC
         /\ ~AtLimit(t) => Before(t, TickHLC(t, wall, dev))
BY HLCAssumption
   DEF TickHLC, Stamp, advanceLogicalWall, IncWall, AtLimit, Before, HLC, Wall

\* Clock.Receive returns a well-formed timestamp after both its own last
\* one and the remote one, and not before the local time, unless one of them
\* is at the end of the range.
LEMMA ReceiveAdvances ==
  ASSUME NEW t \in HLC, NEW m \in HLC, NEW wall \in Wall, NEW dev \in Nat
  PROVE  /\ ReceiveHLC(t, m, wall, dev) \in HLC
         /\ ~AtLimit(t) /\ ~AtLimit(m) =>
              /\ Before(t, ReceiveHLC(t, m, wall, dev))
              /\ Before(m, ReceiveHLC(t, m, wall, dev))
              /\ ReceiveHLC(t, m, wall, dev).WallTime >= wall
<1> DEFINE w == max3(wall, t.WallTime, m.WallTime)
           l == max2u(t.Logical, m.Logical)
           r == ReceiveHLC(t, m, wall, dev)
<1>1. /\ w \in Wall /\ t.WallTime <= w /\ m.WallTime <= w /\ wall <= w
      /\ l \in 0 .. MaxLogical /\ t.Logical <= l /\ m.Logical <= l
      /\ t.Logical = l \/ m.Logical = l
  BY HLCAssumption DEF max3, max2u, HLC, Wall
<1>2. /\ t.WallTime \in Wall /\ t.Logical \in 0 .. MaxLogical
      /\ m.WallTime \in Wall /\ m.Logical \in 0 .. MaxLogical
  BY DEF HLC
<1> HIDE DEF w, l
<1>3. CASE w = t.WallTime /\ w = m.WallTime
  <2>1. r = Stamp(advanceLogicalWall(w, l), dev)
    BY <1>3 DEF ReceiveHLC, w, l
  <2> QED
    BY <1>1, <1>2, <1>3, <2>1, HLCAssumption
       DEF Stamp, advanceLogicalWall, IncWall, AtLimit, Before, HLC, Wall
<1>4. CASE w = t.WallTime /\ w # m.WallTime
  <2>1. r = Stamp(advanceLogicalWall(w, t.Logical), dev)
    BY <1>4 DEF ReceiveHLC, w
  <2> QED
    BY <1>1, <1>2, <1>4, <2>1, HLCAssumption
       DEF Stamp, advanceLogicalWall, IncWall, AtLimit, Before, HLC, Wall
<1>5. CASE w # t.WallTime /\ w = m.WallTime
  <2>1. r = Stamp(advanceLogicalWall(w, m.Logical), dev)
    BY <1>5 DEF ReceiveHLC, w
  <2> QED
    BY <1>1, <1>2, <1>5, <2>1, HLCAssumption
       DEF Stamp, advanceLogicalWall, IncWall, AtLimit, Before, HLC, Wall
<1>6. CASE w # t.WallTime /\ w # m.WallTime
  <2>1. r = Stamp([wall |-> w, logical |-> 0], dev)
    BY <1>6 DEF ReceiveHLC, w
  <2> QED
    BY <1>1, <1>2, <1>6, <2>1, HLCAssumption DEF Stamp, Before, HLC, Wall
<1> QED
  BY <1>3, <1>4, <1>5, <1>6

-----------------------------------------------------------------------------
\* An op covers itself.
LEMMA CoversReflexive ==
  ASSUME NEW a \in CRDTOp
  PROVE  Covers(a, a)
BY BeforeAsymmetric DEF Covers, SameField, CRDTOp

\* Covers is transitive: what a winner makes obsolete stays obsolete.
LEMMA CoversTransitive ==
  ASSUME NEW a \in CRDTOp, NEW b \in CRDTOp, NEW c \in CRDTOp, Covers(a, b), Covers(b, c)
  PROVE  Covers(a, c)
<1>1. a.Timestamp \in HLC /\ b.Timestamp \in HLC /\ c.Timestamp \in HLC
  BY DEF CRDTOp
<1> QED
  BY <1>1, NotBeforeTransitive DEF Covers, SameField

\* When no field has two values with one timestamp, a set of ops has only one
\* merge: its values do not depend on the order of the loop.
LEMMA MergeUnique ==
  ASSUME NEW S \in SUBSET CRDTOp, Untied(S), NEW V, NEW W, IsMerge(S, V), IsMerge(S, W)
  PROVE  Result(V) \subseteq Result(W)
<1> SUFFICES ASSUME NEW v \in V
             PROVE  \E w \in W : /\ w.DocID = v.DocID /\ w.Field = v.Field
                                 /\ w.Value = v.Value
  BY DEF Result
<1>1. V \subseteq S /\ W \subseteq S
  BY DEF IsMerge
<1>2. PICK w \in W : Covers(w, v)
  BY <1>1 DEF IsMerge, CoveredBy
<1>3. PICK u \in V : Covers(u, w)
  BY <1>1 DEF IsMerge, CoveredBy
<1>4. u = v
  BY <1>2, <1>3 DEF IsMerge, Covers, SameField
<1>5. w.Timestamp = v.Timestamp
  <2>1. w.Timestamp \in HLC /\ v.Timestamp \in HLC
    BY <1>1 DEF CRDTOp
  <2> QED
    BY <1>2, <1>3, <1>4, <2>1, BeforeTotal DEF Covers
<1> QED
  BY <1>1, <1>2, <1>5 DEF Untied, Covers, SameField
=============================================================================
