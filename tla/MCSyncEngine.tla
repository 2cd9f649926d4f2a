---------------------------- MODULE MCSyncEngine ----------------------------
(* SyncEngine with three clients: one that pushes two versions of a field,  *)
(* one that is up to date with the first of them and pushes an older write  *)
(* to another field, made offline, and one that only pulls.                 *)
EXTENDS SyncEngine, TLC

MCMinWall == -1

Stamp3(wall, logical, dev) == [WallTime |-> wall, Logical |-> logical, DeviceID |-> dev]

Op(id, doc, field, wall, logical, dev) ==
  [OpID |-> id, DocID |-> doc, Field |-> field, Value |-> id,
   Timestamp |-> Stamp3(wall, logical, dev), DeviceID |-> dev]

MCDocIDs == {<<"d">>, <<"d", ".", "g">>}
MCFields == {<<"f">>, <<"g", ".", "f">>}

Old == Op("o1", <<"d">>, <<"f">>, 1, 0, 2)
New == Op("o2", <<"d">>, <<"f">>, 2, 0, 2)
Offline == Op("o3", <<"d">>, <<"g", ".", "f">>, 0, 1, 3)
Hiding == Op("o4", <<"d", ".", "g">>, <<"f">>, 0, 1, 3)

MCOps == {Old, New, Offline, Hiding}

MCMsgs ==
  {[Clock |-> ZeroHLC, Ops |-> {Old, New}, ClientSchemaVersion |-> 1],
   [Clock |-> Stamp3(1, 0, 2), Ops |-> {Offline, Hiding}, ClientSchemaVersion |-> 0],
   [Clock |-> ZeroHLC, Ops |-> {}, ClientSchemaVersion |-> 1]}

MCSymmetry == Permutations(Reqs)
=============================================================================
