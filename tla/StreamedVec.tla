------------------------------ MODULE StreamedVec ------------------------------
(* What a shared vector promises its two sides: a sequence the writer appends to
   and the reader takes from the front of, element by element, batch by batch.  *)
EXTENDS Naturals, Sequences

CONSTANT Elements

VARIABLES
  pushed, \* what the writer has published in this batch
  taken   \* what the reader has been handed

svars == <<pushed, taken>>

Init == pushed = <<>> /\ taken = <<>>

Clear == pushed' = <<>> /\ taken' = <<>>

Push(e) == pushed' = Append(pushed, e) /\ UNCHANGED taken

Take ==
  /\ Len(taken) < Len(pushed)
  /\ taken' = Append(taken, pushed[Len(taken) + 1])
  /\ UNCHANGED pushed

Next == Clear \/ (\E e \in Elements : Push(e)) \/ Take

Spec == Init /\ [][Next]_svars
===============================================================================
