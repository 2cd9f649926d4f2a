---------------------------- MODULE CRDT_proofs ----------------------------
(***************************************************************************)
(* core/crdt: a Clock, for every range of wall times and counters and for  *)
(* any number of calls, and the merge loop, for any ops, any number of     *)
(* replicas and any order.                                                 *)
(***************************************************************************)
EXTENDS HLCClock, MergeLoop, LWW_proofs

\* What Clock.Tick and Clock.Receive share: when the timestamp they return is
\* after last, the history of returned timestamps stays increasing.
LEMMA ReturnPreserves ==
  ASSUME ClockInv, NEW call \in {"Tick", "Receive"}, NEW t \in HLC, Return(call, t)
  PROVE  /\ last' \in HLC
         /\ returned' \in Seq(Call)
         /\ returned' # <<>> /\ last' = returned'[Len(returned')].hlc
         /\ ~wrapped /\ Before(last, t) => Increasing(returned')
<1> DEFINE c == [by |-> call, hlc |-> t]
<1>1. /\ c \in Call /\ returned \in Seq(Call) /\ last \in HLC
      /\ returned' = Append(returned, c) /\ last' = t
  BY DEF ClockInv, TypeOK, Return, Call
<1>2. /\ Len(returned) \in Nat
      /\ returned' \in Seq(Call)
      /\ Len(returned') = Len(returned) + 1
      /\ DOMAIN returned' = 1 .. Len(returned) + 1
      /\ DOMAIN returned = 1 .. Len(returned)
      /\ \A i \in 1 .. Len(returned) : returned'[i] = returned[i] /\ returned[i] \in Call
      /\ returned'[Len(returned) + 1] = c
  BY <1>1
<1>3. ASSUME ~wrapped, Before(last, t)
      PROVE  Increasing(returned')
  <2> SUFFICES ASSUME NEW i \in DOMAIN returned', NEW j \in DOMAIN returned', i < j
               PROVE  Before(returned'[i].hlc, returned'[j].hlc)
    BY DEF Increasing
  <2>1. CASE j \in 1 .. Len(returned)
    BY <1>2, <1>3, <2>1 DEF ClockInv, StrictlyIncreasing, Increasing
  <2>2. CASE j = Len(returned) + 1
    <3>1. i \in 1 .. Len(returned) /\ returned # <<>>
      BY <1>2, <2>2
    <3>2. returned[i].hlc = last \/ Before(returned[i].hlc, last)
      <4>1. last = returned[Len(returned)].hlc /\ Len(returned) \in DOMAIN returned
        BY <1>2, <3>1 DEF ClockInv
      <4>2. i = Len(returned) \/ i < Len(returned)
        BY <1>2, <3>1
      <4> QED
        BY <1>2, <1>3, <3>1, <4>1, <4>2 DEF ClockInv, StrictlyIncreasing, Increasing
    <3>3. returned'[j].hlc = t /\ returned'[i] = returned[i] /\ returned[i].hlc \in HLC
      BY <1>2, <2>2, <3>1 DEF Call
    <3> QED
      BY <1>1, <1>3, <3>2, <3>3, BeforeTransitive
  <2> QED
    BY <1>2, <2>1, <2>2
<1> QED
  BY <1>1, <1>2, <1>3

\* ClockInv is inductive: every call of Tick and Receive preserves it.
THEOREM ClockInvInductive == Spec => []ClockInv
<1>1. Init => ClockInv
  <2> SUFFICES ASSUME Init PROVE ClockInv
    OBVIOUS
  <2>1. ZeroHLC \in HLC
    BY HLCAssumption DEF ZeroHLC, HLC, Wall
  <2>2. returned \in Seq(Call) /\ DOMAIN returned = {}
    BY DEF Init
  <2>3. StrictlyIncreasing
    BY <2>2 DEF StrictlyIncreasing, Increasing
  <2> QED
    BY <2>1, <2>2, <2>3 DEF Init, ClockInv, TypeOK, ReceivedIsPast
<1>2. ClockInv /\ [Next]_vars => ClockInv'
  <2> SUFFICES ASSUME ClockInv, [Next]_vars PROVE ClockInv'
    OBVIOUS
  <2>0. /\ last \in HLC /\ wrapped \in BOOLEAN /\ heard \in SUBSET HLC
        /\ deviceID \in Nat
    BY ClockAssumption DEF ClockInv, TypeOK
  <2>1. ASSUME NEW wall \in Wall, Tick(wall) PROVE ClockInv'
    <3> DEFINE t == TickHLC(last, wall, deviceID)
    <3>1. t \in HLC /\ (~AtLimit(last) => Before(last, t))
      BY <2>0, TickAdvances
    <3>2. Return("Tick", t) /\ heard' = heard /\ wrapped' = (wrapped \/ AtLimit(last))
      BY <2>1 DEF Tick
    <3> HIDE DEF t
    <3>3. last' = t
      BY <3>2 DEF Return
    <3>4. /\ last' \in HLC /\ returned' \in Seq(Call)
          /\ returned' # <<>> /\ last' = returned'[Len(returned')].hlc
          /\ ~wrapped /\ Before(last, t) => Increasing(returned')
      BY <3>1, <3>2, ReturnPreserves
    <3>5. ReceivedIsPast'
      BY <2>0, <3>1, <3>2, <3>3, BeforeTransitive DEF ClockInv, ReceivedIsPast
    <3>6. StrictlyIncreasing'
      BY <3>1, <3>2, <3>4 DEF StrictlyIncreasing
    <3>7. TypeOK'
      BY <2>0, <3>2, <3>4 DEF TypeOK, AtLimit
    <3> QED
      BY <3>4, <3>5, <3>6, <3>7 DEF ClockInv
  <2>2. ASSUME NEW wall \in Wall, NEW remote \in WireClocks, Receive(remote, wall)
        PROVE  ClockInv'
    <3> DEFINE t == ReceiveHLC(last, remote, wall, deviceID)
    <3>0. remote \in HLC
      BY ClockAssumption
    <3>1. /\ t \in HLC
          /\ ~AtLimit(last) /\ ~AtLimit(remote) => Before(last, t) /\ Before(remote, t)
      BY <2>0, <3>0, ReceiveAdvances
    <3>2. /\ Return("Receive", t) /\ heard' = heard \cup {remote}
          /\ wrapped' = (wrapped \/ AtLimit(last) \/ AtLimit(remote))
      BY <2>2 DEF Receive
    <3> HIDE DEF t
    <3>3. last' = t
      BY <3>2 DEF Return
    <3>4. /\ last' \in HLC /\ returned' \in Seq(Call)
          /\ returned' # <<>> /\ last' = returned'[Len(returned')].hlc
          /\ ~wrapped /\ Before(last, t) => Increasing(returned')
      BY <3>1, <3>2, ReturnPreserves
    <3>5. ReceivedIsPast'
      BY <2>0, <3>0, <3>1, <3>2, <3>3, BeforeTransitive DEF ClockInv, ReceivedIsPast
    <3>6. StrictlyIncreasing'
      BY <3>1, <3>2, <3>4 DEF StrictlyIncreasing
    <3>7. TypeOK'
      BY <2>0, <3>0, <3>2, <3>4 DEF TypeOK, AtLimit
    <3> QED
      BY <3>4, <3>5, <3>6, <3>7 DEF ClockInv
  <2>3. CASE UNCHANGED vars
    BY <2>3 DEF vars, ClockInv, TypeOK, StrictlyIncreasing, ReceivedIsPast, Increasing
  <2> QED
    BY <2>1, <2>2, <2>3 DEF Next
<1> QED
  BY <1>1, <1>2, PTL DEF Spec

\* A Clock only ever holds and returns well-formed timestamps.
THEOREM ClockTypeCorrect == Spec => []TypeOK
BY ClockInvInductive, PTL DEF ClockInv

\* The timestamps a Clock returns strictly increase until its wall time
\* leaves int64 (Clock.Tick, Clock.Receive).
THEOREM ClockStrictlyIncreasing == Spec => []StrictlyIncreasing
BY ClockInvInductive, PTL DEF ClockInv

\* A Clock is always after every remote timestamp it has received, until its
\* wall time leaves int64 (Clock.Receive).
THEOREM ClockReceivedIsPast == Spec => []ReceivedIsPast
BY ClockInvInductive, PTL DEF ClockInv

-----------------------------------------------------------------------------
\* One iteration of the loop turns a merge of S into a merge of S and op
\* (crdt.Merge, mergeOpsLocal, winMap in Backend.Compact).
LEMMA VisitMerges ==
  ASSUME NEW S \in SUBSET CRDTOp, NEW W, IsMerge(S, W), NEW op \in CRDTOp
  PROVE  IsMerge(S \cup {op}, Visit(W, op))
<1> DEFINE cur == {w \in W : SameField(w, op)}
<1>1. W \subseteq S /\ W \subseteq CRDTOp
  BY DEF IsMerge
<1>2. \A a \in CRDTOp : Covers(a, a)
  BY CoversReflexive
<1>3. CASE \A w \in cur : Before(w.Timestamp, op.Timestamp)
  <2>1. Visit(W, op) = (W \ cur) \cup {op}
    BY <1>3 DEF Visit
  <2>2. \A w \in cur : Covers(op, w)
    BY <1>1, <1>3, BeforeAsymmetric DEF Covers, SameField, CRDTOp
  <2>3. ASSUME NEW s \in S \cup {op}
        PROVE  \E t \in (W \ cur) \cup {op} : Covers(t, s)
    <3>1. CASE s = op
      BY <1>2, <3>1
    <3>2. CASE s \in S
      <4>1. PICK t \in W : Covers(t, s)
        BY <3>2 DEF IsMerge, CoveredBy
      <4> QED
        BY <1>1, <2>2, <3>2, <4>1, CoversTransitive
    <3> QED
      BY <3>1, <3>2
  <2>4. \A a, b \in (W \ cur) \cup {op} : SameField(a, b) => a = b
    BY DEF IsMerge, SameField
  <2> QED
    BY <1>1, <2>1, <2>3, <2>4 DEF IsMerge, CoveredBy
<1>4. CASE \E w \in cur : ~Before(w.Timestamp, op.Timestamp)
  <2>1. Visit(W, op) = W
    BY <1>4 DEF Visit
  <2>2. \E t \in W : Covers(t, op)
    BY <1>4 DEF Covers
  <2> QED
    BY <2>1, <2>2 DEF IsMerge, CoveredBy
<1> QED
  BY <1>3, <1>4

\* MergeInv is inductive: every iteration preserves it.
THEOREM MergeInvInductive == MergeSpec => []MergeInv
<1>1. MergeInit => MergeInv
  <2> SUFFICES ASSUME MergeInit PROVE MergeInv
    OBVIOUS
  <2>1. todo \in [Replicas -> Seq(Ops)]
    <3>1. UNION {[1 .. n -> Ops] : n \in 0 .. MaxLen} \subseteq Seq(Ops)
      BY MergeAssumption
    <3> QED
      BY <3>1 DEF MergeInit
  <2>2. WinnersAreMerge
    BY DEF MergeInit, WinnersAreMerge, IsMerge, CoveredBy
  <2> QED
    BY <2>1, <2>2 DEF MergeInit, MergeInv, MergeTypeOK
<1>2. MergeInv /\ [MergeNext]_mergeVars => MergeInv'
  <2> SUFFICES ASSUME MergeInv, [MergeNext]_mergeVars PROVE MergeInv'
    OBVIOUS
  <2>1. ASSUME NEW r \in Replicas, Iterate(r) PROVE MergeInv'
    <3> DEFINE op == Head(todo[r])
    <3>1. /\ todo[r] \in Seq(Ops) /\ todo[r] # <<>>
          /\ wins' = [wins EXCEPT ![r] = Visit(wins[r], op)]
          /\ seen' = [seen EXCEPT ![r] = seen[r] \cup {op}]
          /\ todo' = [todo EXCEPT ![r] = Tail(todo[r])]
      BY <2>1 DEF MergeInv, MergeTypeOK, Iterate
    <3>2. op \in Ops /\ Tail(todo[r]) \in Seq(Ops)
      BY <3>1
    <3> HIDE DEF op
    <3>3. /\ seen[r] \in SUBSET CRDTOp /\ op \in CRDTOp
          /\ IsMerge(seen[r], wins[r])
      BY <3>2, MergeAssumption DEF MergeInv, MergeTypeOK, WinnersAreMerge
    <3>4. IsMerge(seen[r] \cup {op}, Visit(wins[r], op))
      BY <3>3, VisitMerges
    <3>5. Visit(wins[r], op) \in SUBSET Ops
      BY <3>2 DEF Visit, MergeInv, MergeTypeOK
    <3>6. MergeTypeOK'
      BY <3>1, <3>2, <3>5 DEF MergeInv, MergeTypeOK
    <3>7. WinnersAreMerge'
      <4> SUFFICES ASSUME NEW q \in Replicas PROVE IsMerge(seen'[q], wins'[q])
        BY DEF WinnersAreMerge
      <4>1. CASE q = r
        BY <3>1, <3>4, <4>1 DEF MergeInv, MergeTypeOK
      <4>2. CASE q # r
        BY <3>1, <4>2 DEF MergeInv, MergeTypeOK, WinnersAreMerge
      <4> QED
        BY <4>1, <4>2
    <3> QED
      BY <3>6, <3>7 DEF MergeInv
  <2>2. CASE UNCHANGED mergeVars
    BY <2>2 DEF mergeVars, MergeInv, MergeTypeOK, WinnersAreMerge
  <2> QED
    BY <2>1, <2>2 DEF MergeNext
<1> QED
  BY <1>1, <1>2, PTL DEF MergeSpec

\* crdt.Merge holds one winner per field, and none is older than an op seen.
THEOREM MergePicksWinners == MergeSpec => []WinnersAreMerge
BY MergeInvInductive, PTL DEF MergeInv

\* crdt.Merge is commutative and idempotent on ops without ties.
THEOREM MergeConverges == MergeSpec => []Converged
<1>1. MergeInv => Converged
  <2> SUFFICES ASSUME MergeInv, NEW r \in Replicas, NEW s \in Replicas,
                      seen[r] = seen[s], Untied(seen[r])
               PROVE  Result(wins[r]) = Result(wins[s])
    BY DEF Converged
  <2>1. /\ seen[r] \in SUBSET CRDTOp
        /\ IsMerge(seen[r], wins[r]) /\ IsMerge(seen[r], wins[s])
    BY MergeAssumption DEF MergeInv, MergeTypeOK, WinnersAreMerge
  <2>2. Result(wins[r]) \subseteq Result(wins[s])
    BY <2>1, MergeUnique
  <2>3. Result(wins[s]) \subseteq Result(wins[r])
    BY <2>1, MergeUnique
  <2> QED
    BY <2>2, <2>3
<1> QED
  BY <1>1, MergeInvInductive, PTL
=============================================================================
