----------------------------- MODULE MCDynamicVis -----------------------------
(* Two groups, two cells; any interleaving of the game, its frames and the host. *)
EXTENDS DynamicVis
===============================================================================
