-------------------------- MODULE ResidencyPlanner --------------------------
(***************************************************************************)
(* The host's planner of merged statics: which resource the game should    *)
(* load or drop next, given where the player is and how many bytes are     *)
(* left under the cap.  A sweep visits the cells around the player, the    *)
(* cells ahead of the camera first, a few resources per call; a heading    *)
(* change reorders the cells not yet visited.  A sweep that offered        *)
(* something starts again, one that offered nothing is parked until the    *)
(* player crosses a cell.                                                  *)
(*                                                                         *)
(* The map is a line: a place is an integer, a cell is CellSize places,    *)
(* the camera looks along it (1 or -1) or gives no hint (0).  The cells    *)
(* of the sweep still ahead stand for planner_order from                   *)
(* planner_offset_cursor on; none left is a parked cursor.                 *)
(***************************************************************************)
EXTENDS Integers, SequencesExt

CONSTANTS
  Bytes,      (* residency_resources: geometry_bytes of resource 1, 2, ... *)
  Where,      (* the place of each                                         *)
  CellSize,   (* places in a cell                                          *)
  Admission,  (* admission_radius, in places                               *)
  Retain,     (* retain_radius                                             *)
  Headings,   (* directions the camera takes in play: -1, 1, 0 for no hint   *)
  PlanCells,  (* kPlannerMaxCells: cells a call finishes                   *)
  PlanRes     (* kPlannerMaxResources: resources a call looks at           *)

ASSUME PlannerAssumption ==
  /\ Bytes \in Seq(Nat \ {0}) /\ Where \in Seq(Nat) /\ Len(Bytes) = Len(Where)
  /\ CellSize \in Nat \ {0} /\ PlanCells \in Nat \ {0} /\ PlanRes \in Nat \ {0}
  /\ Headings \subseteq {-1, 0, 1}
  /\ Admission \in Nat /\ Retain >= Admission

Res == 1..Len(Bytes)
NoCell == -99   (* INT_MIN: no cell planned for yet *)

Cell(p) == p \div CellSize
Dist(r, p) == IF Where[r] > p THEN Where[r] - p ELSE p - Where[r]

(* The elements of q that are in S, in the order of q. *)
Keep(q, S) ==
  LET kept[i \in 0..Len(q)] == IF i = 0 THEN <<>>
                               ELSE IF q[i] \in S THEN Append(kept[i - 1], q[i])
                               ELSE kept[i - 1]
  IN kept[Len(q)]

Bucket(c) == Keep([r \in Res |-> r], {r \in Res : Cell(Where[r]) = c})

(* Cell offsets nearest first: (x*x + y*y, y, x). *)
Offsets == LET n == (Admission + CellSize - 1) \div CellSize
               Nearer(x, y) == x * x < y * y \/ (x * x = y * y /\ x < y)
           IN SetToSortSeq(-n..n, Nearer)

ForwardFirst(s, heading) ==
  SelectSeq(s, LAMBDA x : x * heading > 0) \o SelectSeq(s, LAMBDA x : x * heading <= 0)

(* rebuild_residency_index: no sweep is under way. *)
NewPlanner == [resident |-> {}, unavailable |-> {}, epoch |-> 0, cell |-> NoCell,
               ahead |-> Offsets, bucket |-> 0, offered |-> FALSE, heading |-> 0]

(* A new epoch or cell starts a sweep; a new heading reorders the rest of one,
   the cell it is in excepted.                                                *)
Restart(h, epoch, p, heading) ==
  IF h.epoch # epoch \/ h.cell # Cell(p)
  THEN [h EXCEPT !.epoch = epoch, !.cell = Cell(p), !.bucket = 0, !.offered = FALSE,
                 !.heading = heading, !.ahead = ForwardFirst(Offsets, heading)]
  ELSE IF heading \notin {0, h.heading}
  THEN [h EXCEPT !.heading = heading,
                 !.ahead = IF @ = <<>> THEN @ ELSE <<Head(@)>> \o ForwardFirst(Tail(@), heading)]
  ELSE h

(* The resident resource farthest from p beyond the radius, as a set of at most
   one; the lower id on a tie.                                               *)
Farthest(h, p, radius) ==
  {r \in h.resident : /\ Dist(r, p) > radius
                      /\ \A q \in h.resident \ {r} :
                            \/ Dist(q, p) < Dist(r, p)
                            \/ Dist(q, p) = Dist(r, p) /\ r < q}

(* Mutant: any resident may be displaced, also a nearer one. *)
ConsiderAny(s, r, p, cap) ==
  LET seen == [s EXCEPT !.h.bucket = @ + 1, !.seen = @ + 1]
      victims == s.h.resident
  IN IF r \in s.h.resident \cup s.h.unavailable \/ Dist(r, p) > Admission \/ Bytes[r] > cap
     THEN seen
     ELSE IF Bytes[r] <= s.free
     THEN [seen EXCEPT !.plan = Append(@, [do |-> "admit", res |-> r]),
                       !.free = @ - Bytes[r], !.h.offered = TRUE]
     ELSE IF victims # {}
     THEN [s EXCEPT !.plan = Append(@, [do |-> "evict", res |-> CHOOSE v \in victims : TRUE]),
                    !.stop = TRUE]
     ELSE seen

(* What the sweep does with one resource.  s is the sweep under way: the planner,
   the bytes left, the requests made and the cells and resources looked at.      *)
Consider(s, r, p, cap) ==
  LET h == s.h
      seen == [s EXCEPT !.h.bucket = @ + 1, !.seen = @ + 1]
      victim == Farthest(h, p, Retain)
  IN IF r \in h.resident \cup h.unavailable \/ Dist(r, p) > Admission \/ Bytes[r] > cap
     THEN seen
     ELSE IF Bytes[r] <= s.free
     THEN [seen EXCEPT !.plan = Append(@, [do |-> "admit", res |-> r]),
                       !.free = @ - Bytes[r], !.h.offered = TRUE]
     ELSE IF \E v \in victim : Dist(r, p) < Dist(v, p)
     THEN [s EXCEPT !.plan = Append(@, [do |-> "evict", res |-> CHOOSE v \in victim : TRUE]),
                    !.stop = TRUE]   (* the cursor stays on the candidate *)
     ELSE seen

SweepStep(s, p, cap) ==
  LET b == IF s.h.ahead = <<>> THEN <<>> ELSE Bucket(s.h.cell + Head(s.h.ahead))
      full == s.seen = PlanRes
  IN IF \/ s.stop \/ s.h.ahead = <<>> \/ s.cells = PlanCells
        \/ full /\ (s.h.bucket = 0 \/ s.h.bucket < Len(b))
     THEN s
     ELSE IF s.h.bucket < Len(b)
     THEN Consider(s, b[s.h.bucket + 1], p, cap)
     ELSE [s EXCEPT !.h.ahead = Tail(@), !.h.bucket = 0, !.cells = @ + 1]

Sweep(h, p, cap, free) ==
  LET start == [h |-> h, free |-> free, plan |-> <<>>, cells |-> 0, seen |-> 0, stop |-> FALSE]
      sweep[i \in 0..(PlanCells + PlanRes)] ==
        IF i = 0 THEN start ELSE SweepStep(sweep[i - 1], p, cap)
      s == sweep[PlanCells + PlanRes]
  IN [h |-> IF s.h.ahead = <<>> /\ s.h.offered /\ ~s.stop
            THEN [s.h EXCEPT !.ahead = ForwardFirst(Offsets, s.h.heading), !.bucket = 0, !.offered = FALSE]
            ELSE s.h,
      plan |-> s.plan]

(* Mutant: a debt makes room only for a nearer candidate. *)
PlanRetaining(h, epoch, p, exterior, heading, cap, free, debt) ==
  IF ~exterior THEN [h |-> h, plan |-> <<>>]
  ELSE Sweep(Restart(h, epoch, p, heading), p, cap, free)

(* plan_residency.  While the ledger is over the cap a call only names the
   farthest resident.                                                       *)
PlanResidency(h, epoch, p, exterior, heading, cap, free, debt) ==
  LET h1 == Restart(h, epoch, p, heading)
      victim == Farthest(h1, p, 0)
  IN IF ~exterior
     THEN [h |-> h, plan |-> <<>>]
     ELSE IF debt > 0 /\ victim # {}
     THEN [h |-> h1, plan |-> <<[do |-> "evict", res |-> CHOOSE v \in victim : TRUE]>>]
     ELSE Sweep(h1, p, cap, free)

(* update_residency and apply_residency_commit; the game never sends a batch
   the host would reject, nor one that names a resource twice.               *)
Commit(h, list) ==
  LET named == {c.res : c \in Range(list)}
      Becomes(state) == {c.res : c \in {d \in Range(list) : d.state = state}}
  IN [h EXCEPT !.resident = (@ \ named) \cup Becomes("resident"),
               !.unavailable = (@ \ named) \cup Becomes("unavailable")]
=============================================================================
