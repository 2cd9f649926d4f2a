------------------------------ MODULE HLCClock ------------------------------
(***************************************************************************)
(* A Clock object of core/crdt/hlc.go.  Tick and Receive hold c.mu from    *)
(* their first line to their last, so each call is one step, whichever     *)
(* goroutine makes it.  Local time is whatever time.Now reports: it may    *)
(* stand still or jump back.  A remote timestamp is whatever a request     *)
(* carries: clocks of other devices arrive late, twice or out of order.    *)
(***************************************************************************)
EXTENDS HLC, Sequences

CONSTANTS
  deviceID,     \* the argument of NewClock, not the empty string
  WireClocks,   \* timestamps that requests carry
  MaxCalls      \* bound on the number of calls

ASSUME ClockAssumption ==
  /\ deviceID \in Nat \ {0}
  /\ WireClocks \subseteq HLC
  /\ MaxCalls \in Nat

VARIABLES
  last,         \* the field c.last
  returned,     \* history: the calls made and the timestamps they returned
  heard,        \* history: the remote timestamps given to Receive
  wrapped       \* history: WallTime has left the int64 range

vars == <<last, returned, heard, wrapped>>

Call == [by : {"Tick", "Receive"}, hlc : HLC]

\* A Clock holds and returns well-formed timestamps (core.HLC).
TypeOK ==
  /\ last \in HLC
  /\ returned \in Seq(Call)
  /\ heard \in SUBSET HLC
  /\ wrapped \in BOOLEAN

\* NewClock
Init ==
  /\ last = ZeroHLC
  /\ returned = <<>>
  /\ heard = {}
  /\ wrapped = FALSE

\* What Tick and Receive share: keep the new timestamp and return it.
Return(call, t) ==
  /\ Len(returned) < MaxCalls
  /\ last' = t
  /\ returned' = Append(returned, [by |-> call, hlc |-> t])

Tick(wall) ==
  /\ Return("Tick", TickHLC(last, wall, deviceID))
  /\ wrapped' = (wrapped \/ AtLimit(last))
  /\ UNCHANGED heard

Receive(remote, wall) ==
  /\ Return("Receive", ReceiveHLC(last, remote, wall, deviceID))
  /\ wrapped' = (wrapped \/ AtLimit(last) \/ AtLimit(remote))
  /\ heard' = heard \cup {remote}

Next ==
  \/ \E wall \in Wall : Tick(wall)
  \/ \E wall \in Wall, remote \in WireClocks : Receive(remote, wall)

Spec == Init /\ [][Next]_vars

-----------------------------------------------------------------------------
Increasing(s) == \A i, j \in DOMAIN s : i < j => Before(s[i].hlc, s[j].hlc)

\* The timestamps a Clock returns strictly increase, however time.Now moves
\* and whatever is received in between, as long as its wall time has not
\* left int64 (Clock.Tick, Clock.Receive).
StrictlyIncreasing == ~wrapped => Increasing(returned)

\* Every timestamp a Clock holds, hence every later one it returns, is after
\* every remote timestamp it has received: causality is never inverted
\* (Clock.Receive).
ReceivedIsPast == ~wrapped => \A m \in heard : Before(m, last)

\* The inductive form of the invariants above: last is the latest of the
\* timestamps returned.
ClockInv ==
  /\ TypeOK
  /\ StrictlyIncreasing
  /\ ReceivedIsPast
  /\ returned # <<>> => last = returned[Len(returned)].hlc
=============================================================================
