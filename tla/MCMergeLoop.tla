---------------------------- MODULE MCMergeLoop ----------------------------
(* MergeLoop with two replicas and five ops: four for one field, of which   *)
(* two are apart only in the device that breaks the tie and two are tied,   *)
(* and one for another field.                                               *)
EXTENDS MergeLoop

MCMinWall == -1

Op(id, field, value, wall, logical, dev) ==
  [OpID |-> id, DocID |-> "d1", Field |-> field, Value |-> value,
   Timestamp |-> [WallTime |-> wall, Logical |-> logical, DeviceID |-> dev],
   DeviceID |-> dev]

MCOps == {Op("o1", "f", "v1", 1, 0, 1), Op("o2", "f", "v2", 1, 0, 2),
          Op("o3", "f", "v3", 0, 1, 2), Op("o4", "g", "v1", 1, 1, 1),
          Op("o5", "f", "v3", 1, 0, 2)}
=============================================================================
