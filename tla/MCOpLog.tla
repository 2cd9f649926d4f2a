------------------------------ MODULE MCOpLog ------------------------------
(* OpLog on a few ops: two versions of one field, one of another field of   *)
(* the same document, one of another document, and an op without a          *)
(* timestamp under an op_id that another op has.                            *)
EXTENDS OpLog, TLC

MCMinWall == -1

Op(id, doc, field, wall, logical, dev) ==
  [OpID |-> id, DocID |-> doc, Field |-> field, Value |-> id,
   Timestamp |-> [WallTime |-> wall, Logical |-> logical, DeviceID |-> dev],
   DeviceID |-> dev]

MCOps ==
  {Op("o1", "d1", "f", 1, 0, 1), Op("o2", "d1", "f", 1, 0, 2),
   Op("o3", "d1", "g", 0, 1, 1), Op("o4", "d2", "f", 1, 1, 2),
   Op("o4", "d2", "f", 0, 0, 2)}

MCSymmetry == Permutations(Procs)
=============================================================================
