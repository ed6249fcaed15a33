----------------------------- MODULE HorizonTable -----------------------------
(* The horizon table the builder makes of a height field, and the tests that hide
   an object behind it.  Lengths, heights and angles are integers; the azimuth bins
   look along the four axes; a slope is a pair of a rise and a run.  An object is
   given by the directions, distances and the top the tests derive from its disc or
   its footprint.                                                                 *)
EXTENDS Integers, Sequences, FiniteSets, FiniteSetsExt, Functions

CONSTANTS
  Nx, Ny, Spacing,      (* the base grid of the height field                      *)
  RingStep, RingCount,  (* HorizonParams                                          *)
  SampleStart, MarchStep,
  LeafSamples,          (* LEAF_SAMPLES                                           *)
  Tau,                  (* a turn, in units of angle; four of them to a bin or so *)
  Eyes,                 (* x, y and height                                        *)
  Discs, Footprints     (* objects                                                *)

Empty == -1000          \* EMPTY_HEIGHT
Bins == 0..3
Axis == << <<1, 0>>, <<0, 1>>, <<-1, 0>>, <<0, -1>> >>
Least(a, b) == IF a < b THEN a ELSE b
Most(a, b) == IF a > b THEN a ELSE b
Clamp(v, lo, hi) == Most(lo, Least(v, hi))

\* Slopes: EMPTY_SLOPE has no run.
EmptySlope == <<-1, 0>>
Below(s, t) == s[1] * t[2] < t[1] * s[2]
Steepest(s, t) == IF Below(s, t) THEN t ELSE s

---------------------------------------------------------------------------
(* The height field and its pyramid. *)

Size(n) == (n - 1) * Spacing
OnField(x, y) == x \in 0..Size(Nx) /\ y \in 0..Size(Ny)
Cell(v, spacing, n) == Clamp(v \div spacing, 0, n - 1)

SampleMaxZ(heights, x, y) ==
  IF ~OnField(x, y) THEN Empty
  ELSE LET cx == Cell(x, Spacing, Nx)  cy == Cell(y, Spacing, Ny)
       IN Max({heights[c] : c \in {c \in DOMAIN heights : c[1] - cx \in {0, 1} /\ c[2] - cy \in {0, 1}}})

\* The levels: the base, then each of half the size, rounded up, until one cell is left.
Half(n) == (n + 1) \div 2
Pyramid(heights) ==
  LET count == CHOOSE k \in 0..Nx + Ny : 2^k >= Most(Nx, Ny) /\ \A j \in 0..(k - 1) : 2^j < Most(Nx, Ny)
      level[k \in 0..count] ==
        IF k = 0 THEN [spacing |-> Spacing, nx |-> Nx, ny |-> Ny, high |-> heights]
        ELSE LET fine == level[k - 1]
             IN [spacing |-> 2 * fine.spacing, nx |-> Half(fine.nx), ny |-> Half(fine.ny),
                 high |-> [c \in (0..Half(fine.nx) - 1) \X (0..Half(fine.ny) - 1) |->
                             Max({fine.high[d] : d \in {d \in DOMAIN fine.high :
                                    d[1] \div 2 = c[1] /\ d[2] \div 2 = c[2]}})]]
  IN level

LevelForExtent(pyramid, extent) ==
  Max({0} \cup {k \in DOMAIN pyramid : k = 0 \/ 2^(k - 1) * Spacing < extent})

MaxOverAabb(level, x0, x1, y0, y1) ==
  LET bx0 == Most(x0, 0)  bx1 == Least(x1, Size(Nx))  by0 == Most(y0, 0)  by1 == Least(y1, Size(Ny))
  IN IF bx0 > bx1 \/ by0 > by1 THEN Empty
     ELSE Max({level.high[<<ix, iy>>] :
                 ix \in Cell(bx0, level.spacing, level.nx)..Cell(bx1, level.spacing, level.nx),
                 iy \in Cell(by0, level.spacing, level.ny)..Cell(by1, level.spacing, level.ny)})

---------------------------------------------------------------------------
(* The march along one bin. *)

SamplesPerBin == IF SampleStart > RingStep * RingCount THEN 0
                 ELSE (RingStep * RingCount - SampleStart) \div MarchStep + 1
Radius(i) == SampleStart + i * MarchStep
SampleRing(r) == Least(Most((r + RingStep - 1) \div RingStep - 1, 0), RingCount - 1)
Spot(at, bin, r) == <<at.x + Axis[bin + 1][1] * r, at.y + Axis[bin + 1][2] * r>>

SlopeOf(heights, at, bin, i) ==
  LET h == SampleMaxZ(heights, Spot(at, bin, Radius(i))[1], Spot(at, bin, Radius(i))[2])
  IN IF h = Empty THEN EmptySlope ELSE <<h - at.z, Most(Radius(i), 1)>>

\* Every ring gets the slope reached when a sample falls into it.
MarchSample(heights, at, bin, m, i) ==
  LET running == Steepest(m.running, SlopeOf(heights, at, bin, i))
  IN [running |-> running, rings |-> [m.rings EXCEPT ![SampleRing(Radius(i))] = Steepest(@, running)]]
Start == [running |-> EmptySlope, rings |-> [ring \in 0..(RingCount - 1) |-> EmptySlope]]

RECURSIVE MarchAll(_, _, _, _, _, _)
MarchAll(heights, at, bin, m, lo, hi) ==
  IF lo >= hi THEN m
  ELSE MarchAll(heights, at, bin, MarchSample(heights, at, bin, m, lo), lo + 1, hi)

(* Mutant: the box of the samples is taken without the cells around them. *)
BoundUnpadded(pyramid, at, bin, lo, hi) ==
  LET p == Spot(at, bin, Radius(lo))  q == Spot(at, bin, Radius(hi - 1))
      high == MaxOverAabb(pyramid[0], Least(p[1], q[1]), Most(p[1], q[1]), Least(p[2], q[2]), Most(p[2], q[2]))
  IN IF high = Empty THEN EmptySlope
     ELSE <<high - at.z, Most(IF high >= at.z THEN Radius(lo) ELSE Radius(hi - 1), 1)>>
(* Mutant: a slope below the eye is bounded at the near end. *)
BoundNear(pyramid, at, bin, lo, hi) ==
  LET p == Spot(at, bin, Radius(lo))  q == Spot(at, bin, Radius(hi - 1))
      high == MaxOverAabb(pyramid[0], Least(p[1], q[1]) - 2 * Spacing, Most(p[1], q[1]) + 2 * Spacing,
                          Least(p[2], q[2]) - 2 * Spacing, Most(p[2], q[2]) + 2 * Spacing)
  IN IF high = Empty THEN EmptySlope ELSE <<high - at.z, Most(Radius(lo), 1)>>

(* segment_upper_bound_slope *)
SegmentBound(pyramid, at, bin, lo, hi) ==
  LET p == Spot(at, bin, Radius(lo))
      q == Spot(at, bin, Radius(hi - 1))
      pad == 2 * Spacing
      x0 == Least(p[1], q[1]) - pad  x1 == Most(p[1], q[1]) + pad
      y0 == Least(p[2], q[2]) - pad  y1 == Most(p[2], q[2]) + pad
      level == pyramid[LevelForExtent(pyramid, Most(x1 - x0, y1 - y0))]
      high == MaxOverAabb(level, x0, x1, y0, y1)
  IN IF high = Empty THEN EmptySlope
     ELSE <<high - at.z, Most(IF high >= at.z THEN Radius(lo) ELSE Radius(hi - 1), 1)>>

RECURSIVE MarchSegment(_, _, _, _, _, _, _)
MarchSegment(heights, pyramid, at, bin, m, lo, hi) ==
  IF hi - lo <= LeafSamples THEN MarchAll(heights, at, bin, m, lo, hi)
  ELSE IF ~Below(m.running, SegmentBound(pyramid, at, bin, lo, hi)) THEN m
  ELSE LET mid == lo + (hi - lo) \div 2
       IN MarchSegment(heights, pyramid, at, bin,
                       MarchSegment(heights, pyramid, at, bin, m, lo, mid), mid, hi)

(* Mutant: a ring no sample fell into stays empty. *)
NoPrefix(rings) == rings
\* A ring is at least as high as the rings before it.
Prefix(rings) ==
  LET upTo[ring \in DOMAIN rings] ==
        IF ring = 0 THEN rings[0] ELSE Steepest(rings[ring], upTo[ring - 1])
  IN upTo

BuildLinear(heights, at) ==
  [bin \in Bins |-> Prefix(MarchAll(heights, at, bin, Start, 0, SamplesPerBin).rings)]
BuildHierarchical(heights, pyramid, at) ==
  [bin \in Bins |-> Prefix(MarchSegment(heights, pyramid, at, bin, Start, 0, SamplesPerBin).rings)]

---------------------------------------------------------------------------
(* Culling. *)

(* Mutant: a span over angle zero ends there. *)
BinsToZero(from, to) ==
  LET width == Tau \div 4  a == from % Tau  b == to % Tau
  IN (a \div width)..(IF a <= b THEN b \div width ELSE 3)
BinsCovering(from, to) ==
  LET width == Tau \div 4  a == from % Tau  b == to % Tau
  IN IF a <= b THEN (a \div width)..(b \div width)
     ELSE ((a \div width)..3) \cup (0..(b \div width))

\* The shortest arc over some angles: what the largest gap between neighbours leaves.
AngleSpanCovering(angles) ==
  LET sorted == CHOOSE s \in [1..Cardinality(angles) -> angles] : \A i \in 2..Cardinality(angles) : s[i - 1] < s[i]
      n == Len(sorted)
      Gap(i) == IF i = n THEN sorted[1] + Tau - sorted[n] ELSE sorted[i + 1] - sorted[i]
      widest == Max({Gap(i) : i \in 1..n})
      after == IF Gap(n) = widest THEN n ELSE Min({i \in 1..n : Gap(i) = widest})
  IN [from |-> sorted[IF after = n THEN 1 ELSE after + 1], to |-> sorted[after], span |-> Tau - Gap(after)]

Slopes(table, bins, ring) == {table[bin][ring] : bin \in bins}

\* Below every horizon of the bins, in the last ring that ends before the object.
BelowHorizon(o, bins, table, at) ==
  LET complete == o.near \div RingStep
      ring == Least(complete - 1, RingCount - 1)
      top == <<o.top - at.z, Most(IF o.top >= at.z THEN o.near ELSE o.far, 1)>>
  IN complete > 0 /\ \A s \in Slopes(table, bins, ring) : Below(top, s)

CulledDisc(o, table, at) == BelowHorizon(o, BinsCovering(o.from, o.to), table, at)

CulledFootprint(o, table, at) ==
  LET arc == AngleSpanCovering(o.angles)
  IN /\ o.near > 1 /\ 2 * arc.span < Tau
     /\ BelowHorizon(o, BinsCovering(arc.from, arc.to), table, at)

VisibleDisc(o, table, at) ==
  LET top == <<o.top - at.z, Most(IF o.top >= at.z THEN o.far ELSE o.near, 1)>>
  IN \A s \in Slopes(table, BinsCovering(o.from, o.to), SampleRing(o.far)) : Below(s, top)

---------------------------------------------------------------------------
(* The directions an object is seen in. *)
Seen(o) == {a \in 0..(Tau - 1) : \E t \in o.from..o.to : t % Tau = a}
SeenBetween(o) == {a \in 0..(Tau - 1) : \E p, q \in o.angles : 2 * ((q - p) % Tau) < Tau /\ (a - p) % Tau <= (q - p) % Tau}

(* A culled object is hidden: in every direction it is seen in, and at whatever of
   its distances its top stands, a sample nearer than the object rises above it. *)
HiddenBehind(heights, at, o, directions) ==
  \A a \in directions, d \in o.near..o.far :
    \E i \in 0..(SamplesPerBin - 1) :
      /\ Radius(i) <= o.near
      /\ Below(<<o.top - at.z, Most(d, 1)>>, SlopeOf(heights, at, a \div (Tau \div 4), i))
CulledIsHidden(heights, at, table) ==
  /\ \A o \in Discs : CulledDisc(o, table, at) => HiddenBehind(heights, at, o, Seen(o))
  /\ \A o \in Footprints :
       CulledFootprint(o, table, at) => HiddenBehind(heights, at, o, SeenBetween(o))

(* A mesh accepted by its disc would not have been culled by its footprint. *)
AcceptedIsNotCulled(at, table) ==
  \A o \in Discs : VisibleDisc(o, table, at) =>
    /\ ~CulledDisc(o, table, at)
    /\ \A p \in Footprints :
         p.top = o.top /\ o.near <= p.near /\ p.far <= o.far /\ SeenBetween(p) \subseteq Seen(o)
           => ~CulledFootprint(p, table, at)

(* The march with skipped segments finds what the linear march, the oracle of the
   tests, finds; and what is culled on it is hidden.                              *)
HorizonSound(heights) ==
  LET pyramid == Pyramid(heights)
  IN \A at \in Eyes :
       LET table == BuildHierarchical(heights, pyramid, at)
       IN /\ table = BuildLinear(heights, at)
          /\ CulledIsHidden(heights, at, table)
          /\ AcceptedIsNotCulled(at, table)
===============================================================================
