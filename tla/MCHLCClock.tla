----------------------------- MODULE MCHLCClock -----------------------------
(* HLCClock on a small instance: a logical counter that overflows at its    *)
(* second increment and a wall clock of a few ticks, both ends in reach.    *)
EXTENDS HLCClock

MCMinWall == -1

\* Any timestamp at all, from a device before, equal to or after this one.
MCWireClocks == [WallTime : Wall, Logical : 0 .. MaxLogical, DeviceID : 0 .. deviceID + 1]
=============================================================================
