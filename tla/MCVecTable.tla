------------------------------ MODULE MCVecTable ------------------------------
(* Four vectors in a row through few ids, at most two views of each.           *)
EXTENDS VecTable
===============================================================================
