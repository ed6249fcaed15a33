--------------------------- MODULE MCConfigDocument ---------------------------
(* Instances of ConfigDocument: a file made by hand that holds a value which does
   not decode, one that the default contradicts and a user's table, and one that
   does not parse; settings with a contradiction that the default settles, with one
   that it does not, and with none.                                               *)
EXTENDS ConfigDocument

Pair(low, high) == [k \in Keys |-> IF k = Low THEN low ELSE high]

MCChoices == {Pair(2, 0), Pair(1, 0), Pair(0, 2)}

MCHandMade ==
  { [kind |-> "toml", vals |-> Pair(2, Bad), gen |-> 0, extra |-> TRUE], Corrupt }
=============================================================================
