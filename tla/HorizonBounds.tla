---------------------------- MODULE HorizonBounds -----------------------------
(* The footprint of a box on the ground and the circle around it, with which the
   horizon tests of an object are made.  A box is given by the projections of its
   three half axes; fractions are kept as integers over a common denominator.     *)
EXTENDS Integers, SequencesExt, FiniteSetsExt, Functions, TLC

Scale(k, v) == <<k * v[1], k * v[2]>>
Plus(v, w) == <<v[1] + w[1], v[2] + w[2]>>
Cross(o, a, b) == (a[1] - o[1]) * (b[2] - o[2]) - (a[2] - o[2]) * (b[1] - o[1])

Corners(box) ==
  LET Sign(i, axis) == IF (i \div 2^(axis - 1)) % 2 = 0 THEN 1 ELSE -1
  IN [i \in 1..8 |-> Plus(Plus(Scale(Sign(i, 1), box[1]), Scale(Sign(i, 2), box[2])), Scale(Sign(i, 3), box[3]))]

\* Points of a chain that no longer turn left are dropped.
RECURSIVE Popped(_, _, _)
Popped(chain, p, least) ==
  IF Len(chain) >= least /\ Cross(chain[Len(chain) - 1], Last(chain), p) <= 0
  THEN Popped(Front(chain), p, least) ELSE chain
Chain(start, points, least) ==
  FoldLeft(LAMBDA chain, p : Append(Popped(chain, p, least), p), start, points)
(* Mutant: the upper chain may drop points of the lower. *)
HullJoined(points) ==
  LET sorted == SortSeq(points, LAMBDA a, b : a[1] < b[1] \/ (a[1] = b[1] /\ a[2] < b[2]))
  IN Front(Chain(Chain(<<>>, sorted, 2), Tail(Reverse(sorted)), 2))
(* projected_box_hull: the lower chain, then the upper one on its end. *)
Hull(points) ==
  LET sorted == SortSeq(points, LAMBDA a, b : a[1] < b[1] \/ (a[1] = b[1] /\ a[2] < b[2]))
      lower == Chain(<<>>, sorted, 2)
  IN Front(Chain(lower, Tail(Reverse(sorted)), Len(lower) + 1))

\* A hull without an area gives no footprint.
Footprint(box) == LET hull == Hull(Corners(box)) IN IF Len(hull) \in 3..6 THEN hull ELSE <<>>

---------------------------------------------------------------------------
(* The smallest circle around a footprint: one over two of its points or through
   three.  The centre is <<x, y>> / den, the square of the radius square / den^2.  *)
SquareFrom(c, p) == (p[1] * c.den - c.at[1]) * (p[1] * c.den - c.at[1])
                    + (p[2] * c.den - c.at[2]) * (p[2] * c.den - c.at[2])
OverPair(a, b) == [den |-> 2, at |-> Plus(a, b)]
ThroughThree(a, b, c) ==
  LET Square(p) == p[1] * p[1] + p[2] * p[2]
  IN [den |-> 2 * (a[1] * (b[2] - c[2]) + b[1] * (c[2] - a[2]) + c[1] * (a[2] - b[2])),
      at |-> <<Square(a) * (b[2] - c[2]) + Square(b) * (c[2] - a[2]) + Square(c) * (a[2] - b[2]),
               Square(a) * (c[1] - b[1]) + Square(b) * (a[1] - c[1]) + Square(c) * (b[1] - a[1])>>]
Sized(c, p) == c @@ [square |-> SquareFrom(c, p)]

Candidates(hull) ==
  {Sized(OverPair(hull[i], hull[j]), hull[i]) : i, j \in DOMAIN hull}
  \cup {Sized(ThroughThree(hull[i], hull[j], hull[k]), hull[i]) : i, j, k \in DOMAIN hull}
Encloses(c, hull) == \A i \in DOMAIN hull : SquareFrom(c, hull[i]) <= c.square
NoLarger(c, d) == c.square * d.den * d.den <= d.square * c.den * c.den

(* Mutant: the circle over the two points farthest apart. *)
CircleOverDiameter(hull) ==
  LET pairs == {Sized(OverPair(hull[i], hull[j]), hull[i]) : i, j \in DOMAIN hull}
  IN CHOOSE c \in pairs : \A d \in pairs : NoLarger(d, c)
MinimumEnclosingCircle(hull) ==
  LET around == {c \in Candidates(hull) : c.den # 0 /\ c.square > 0 /\ Encloses(c, hull)}
  IN CHOOSE c \in around : \A d \in around : NoLarger(c, d)

---------------------------------------------------------------------------
(* The footprint of a box holds the shadow of all eight corners, turns left at every
   vertex and is missing only where the shadow has no area.                        *)
FootprintHoldsShadow(box) ==
  LET hull == Footprint(box)
      n == Len(hull)
      corners == Range(Corners(box))
  IN IF n = 0 THEN \A a, b, c \in corners : Cross(a, b, c) = 0
     ELSE \A i \in 1..n :
            /\ \A p \in corners : Cross(hull[i], hull[(i % n) + 1], p) >= 0
            /\ Cross(hull[i], hull[(i % n) + 1], hull[((i + 1) % n) + 1]) > 0

(* The circle of the cheap test encloses the footprint, a box's or one the generator
   recorded, and no circle around a point of the grid that does is smaller.        *)
CircleIsSmallest(points, grid) ==
  LET hull == Hull(points)
      circle == MinimumEnclosingCircle(hull)
  IN Len(hull) >= 3 =>
       /\ Encloses(circle, hull)
       /\ \A at \in grid, p \in Range(hull) :
            LET other == Sized([den |-> 1, at |-> at], p)
            IN Encloses(other, hull) => NoLarger(circle, other)
===============================================================================
