--------------------------- MODULE MCOutputStore ----------------------------
(* Small output trees for TLC: a marker, a small artifact, one artifact of *)
(* each deferred class, and two inputs that share some of the bodies.      *)
EXTENDS OutputStore

CONSTANTS ver, usage, s1, p1, t1, i1, i2, cur, a, b

MCGroup ==
  [f \in Files |->
     CASE f = ver -> "version" [] f = usage -> "usage" [] f = s1 -> "shard"
       [] f = p1 -> "page" [] f = t1 -> "terrain"]

(* The second input changes the shard, keeps the usage data and, when      *)
(* there are such files, has another atlas page and no terrain.            *)
MCBody ==
  [i \in Inputs |->
     [f \in Files |->
        CASE f = ver -> cur
          [] f = usage -> a
          [] f = t1 -> IF i = i1 THEN a ELSE Unlisted
          [] OTHER -> IF i = i1 THEN a ELSE b]]
=============================================================================
