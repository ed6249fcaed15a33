----------------------------- MODULE MCResidency -----------------------------
(* Three merged resources on a line of cells two places wide.  From place 0 the
   first two are in range and the third can be replaced; from place 6 the last
   two are, and the first is kept.                                             *)
EXTENDS Residency

MCWhere == <<1, 3, 7>>
MCBytes == <<2, 1, 2>>
==============================================================================
