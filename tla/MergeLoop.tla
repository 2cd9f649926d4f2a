----------------------------- MODULE MergeLoop -----------------------------
(***************************************************************************)
(* The loop of crdt.Merge (and of its copy mergeOpsLocal), run by several  *)
(* replicas that got ops in an order of their own, some of them twice.     *)
(* One step is one iteration.                                              *)
(***************************************************************************)
EXTENDS LWW, Sequences

CONSTANTS
  Replicas,     \* callers of Merge
  Ops,          \* the ops in circulation
  MaxLen        \* bound on the length of the argument

ASSUME MergeAssumption == Ops \subseteq CRDTOp /\ MaxLen \in Nat

VARIABLES
  todo,         \* todo[r]: what the range loop has still to visit
  wins,         \* wins[r]: the ops that the map wins holds
  seen          \* history: seen[r], the ops visited so far

mergeVars == <<todo, wins, seen>>

\* Each replica merges a list of ops and keeps a set of winners.
MergeTypeOK ==
  /\ todo \in [Replicas -> Seq(Ops)]
  /\ wins \in [Replicas -> SUBSET Ops]
  /\ seen \in [Replicas -> SUBSET Ops]

MergeInit ==
  /\ todo \in [Replicas -> UNION {[1 .. n -> Ops] : n \in 0 .. MaxLen}]
  /\ wins = [r \in Replicas |-> {}]
  /\ seen = [r \in Replicas |-> {}]

\* Mutant of Visit: the op visited last wins.
VisitOverwrites(W, op) == {w \in W : ~SameField(w, op)} \cup {op}

\* The map after the body of the loop has seen op.
Visit(W, op) ==
  LET cur == {w \in W : SameField(w, op)}
  IN  IF \A w \in cur : Before(w.Timestamp, op.Timestamp)
      THEN (W \ cur) \cup {op}
      ELSE W

Iterate(r) ==
  /\ todo[r] # <<>>
  /\ wins' = [wins EXCEPT ![r] = Visit(@, Head(todo[r]))]
  /\ seen' = [seen EXCEPT ![r] = @ \cup {Head(todo[r])}]
  /\ todo' = [todo EXCEPT ![r] = Tail(@)]

MergeNext == \E r \in Replicas : Iterate(r)

MergeSpec == MergeInit /\ [][MergeNext]_mergeVars

-----------------------------------------------------------------------------
\* At every iteration wins holds exactly one winner for each field visited,
\* and no op visited is newer (crdt.Merge, mergeOpsLocal).
WinnersAreMerge == \A r \in Replicas : IsMerge(seen[r], wins[r])

\* Replicas that merged the same ops, in whatever order and however often
\* each came, hold the same values, provided that no field has two values
\* with one timestamp (crdt.Merge; core/types.go calls an op "commutative
\* and idempotent").
Converged ==
  \A r, s \in Replicas :
    /\ todo[r] = <<>> /\ todo[s] = <<>>
    /\ seen[r] = seen[s] /\ Untied(seen[r])
    => Result(wins[r]) = Result(wins[s])

\* The inductive form of the invariants above.
MergeInv == MergeTypeOK /\ WinnersAreMerge
=============================================================================
