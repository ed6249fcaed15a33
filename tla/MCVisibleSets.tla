--------------------------- MODULE MCVisibleSets ----------------------------
(* A session in which the host answers and every kind of pass touches the   *)
(* vectors of statics, one for the vectors of land and grass, and one in    *)
(* which waits give up and the host may be lost.                            *)
EXTENDS VisibleSets

Patient(passes) == [passes |-> passes, timeouts |-> 0, loss |-> FALSE]

MCSessions ==
  {Patient({"cell", "shadow", "land", "statics", "reflection", "finish", "statics_depth", "evict", "tick"}),
   Patient({"cell", "land", "land_depth", "grass", "finish"}),
   [passes |-> {"cell", "statics", "statics_depth", "evict", "tick"}, timeouts |-> 2, loss |-> TRUE]}
=============================================================================
