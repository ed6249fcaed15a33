----------------------------- MODULE MCVecWindow ------------------------------
(* Windows of two elements, batches of up to five: three windows and the one a
   sliding view asks for in excess, or fewer than are needed.  The layout is
   checked for the requests the program makes, with every vertex count a terrain
   file may bring, and a grid of small ones around each boundary of the rounding. *)
EXTENDS VecLayout

GridRequests == (2001..2012) \X {0, 1, 7, 2048} \X {4, 8, 52, 88, 144}
AllRequests == ProgramRequests \cup GridRequests
===============================================================================
