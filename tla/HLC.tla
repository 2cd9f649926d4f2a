-------------------------------- MODULE HLC --------------------------------
(***************************************************************************)
(* Hybrid logical clock timestamps: core/types.go (HLC) and the pure part  *)
(* of core/crdt/hlc.go.                                                    *)
(*                                                                         *)
(* WallTime is an int64 and wraps from MaxWall to MinWall; Logical is a    *)
(* uint32 whose greatest value is MaxLogical.  A device name is its place  *)
(* in the string order, so 0 is the empty string.                          *)
(***************************************************************************)
EXTENDS Integers

CONSTANTS
  MinWall,      \* math.MinInt64
  MaxWall,      \* math.MaxInt64
  MaxLogical    \* math.MaxUint32

ASSUME HLCAssumption ==
  /\ MinWall \in Int /\ MaxWall \in Int /\ MinWall < 0 /\ 0 < MaxWall
  /\ MaxLogical \in Nat \ {0}

Wall == MinWall .. MaxWall

HLC == [WallTime : Wall, Logical : 0 .. MaxLogical, DeviceID : Nat]

\* core.HLC{}: what a new Clock holds and what a first-time client sends.
ZeroHLC == [WallTime |-> 0, Logical |-> 0, DeviceID |-> 0]

Before(a, b) ==
  \/ a.WallTime < b.WallTime
  \/ a.WallTime = b.WallTime /\ a.Logical < b.Logical
  \/ a.WallTime = b.WallTime /\ a.Logical = b.Logical /\ a.DeviceID < b.DeviceID

max3(a, b, c) == IF a >= b /\ a >= c THEN a ELSE IF b >= c THEN b ELSE c

max2u(a, b) == IF a > b THEN a ELSE b

\* wallTime + 1 in int64 arithmetic.
IncWall(wallTime) == IF wallTime = MaxWall THEN MinWall ELSE wallTime + 1

advanceLogicalWall(wallTime, logical) ==
  IF logical = MaxLogical
  THEN [wall |-> IncWall(wallTime), logical |-> 0]
  ELSE [wall |-> wallTime, logical |-> logical + 1]

Stamp(adv, deviceID) ==
  [WallTime |-> adv.wall, Logical |-> adv.logical, DeviceID |-> deviceID]

\* Mutant of TickHLC: Logical++ wraps and no carry reaches WallTime.
TickWithoutCarry(last, wall, deviceID) ==
  Stamp(IF wall <= last.WallTime
        THEN [wall |-> last.WallTime, logical |-> (last.Logical + 1) % (MaxLogical + 1)]
        ELSE [wall |-> wall, logical |-> 0],
        deviceID)

\* Clock.Tick at local time wall; Tick spells the carry out again inline.
TickHLC(last, wall, deviceID) ==
  Stamp(IF wall <= last.WallTime
        THEN advanceLogicalWall(last.WallTime, last.Logical)
        ELSE [wall |-> wall, logical |-> 0],
        deviceID)

\* Mutant of ReceiveHLC: on equal wall times remote.Logical is forgotten.
ReceiveOwnLogical(last, remote, wall, deviceID) ==
  LET maxWall == max3(wall, last.WallTime, remote.WallTime)
  IN  Stamp(IF maxWall = last.WallTime
            THEN advanceLogicalWall(maxWall, last.Logical)
            ELSE IF maxWall = remote.WallTime
            THEN advanceLogicalWall(maxWall, remote.Logical)
            ELSE [wall |-> maxWall, logical |-> 0],
            deviceID)

\* Clock.Receive of remote at local time wall.
ReceiveHLC(last, remote, wall, deviceID) ==
  LET maxWall == max3(wall, last.WallTime, remote.WallTime)
      adv == IF maxWall = last.WallTime /\ maxWall = remote.WallTime
             THEN advanceLogicalWall(maxWall, max2u(last.Logical, remote.Logical))
             ELSE IF maxWall = last.WallTime
             THEN advanceLogicalWall(maxWall, last.Logical)
             ELSE IF maxWall = remote.WallTime
             THEN advanceLogicalWall(maxWall, remote.Logical)
             ELSE [wall |-> maxWall, logical |-> 0]
  IN  Stamp(adv, deviceID)

\* The one timestamp from which the carry leaves the int64 range.
AtLimit(t) == t.WallTime = MaxWall /\ t.Logical = MaxLogical
=============================================================================
