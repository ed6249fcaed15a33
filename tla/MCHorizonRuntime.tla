--------------------------- MODULE MCHorizonRuntime ---------------------------
(* Instances of HorizonRuntime: an eye on a line of four or five points; and, for
   what a session computes with, sets of placed statics for the quadtrees, height
   fields for the horizon table, boxes and points for the footprints.             *)
EXTENDS HorizonRuntime, SequencesExt

(* Statics on a plane of nine by nine: of every kind and class of size, two in one
   place, one absent, one disabled, one without faces in the last band.           *)
Static(id, x, y, r, half, top, kind) ==
  [id |-> id, x |-> x, y |-> y, r |-> r, half |-> half, top |-> top, kind |-> kind,
   enabled |-> TRUE, resident |-> TRUE, faces |-> 3, farFaces |-> 2, veryFarFaces |-> 1]
Placed ==
  << Static(1, 4, 4, 1, 1, 2, "auto"), Static(2, 2, 2, 2, 1, 1, "auto"), Static(3, -5, 4, 1, 0, 3, "near"),
     [Static(4, -4, -4, 1, 1, 1, "near") EXCEPT !.resident = FALSE, !.faces = 0],
     [Static(5, 3, 3, 1, 1, 1, "near") EXCEPT !.veryFarFaces = 0],
     Static(6, 6, -4, 2, 2, 1, "building"), Static(7, 5, 5, 1, 1, 1, "grass"),
     [Static(8, 4, -5, 1, 1, 1, "near") EXCEPT !.enabled = FALSE] >>
Some(ids) == SelectSeq(Placed, LAMBDA m : m.id \in ids)
Forests == {IF 1 \in ids THEN Reverse(Some(ids)) ELSE Some(ids) : ids \in SUBSET (1..8) \ {{}}}

AllSets == {"near", "far", "very far", "grass"}
Rect(x0, x1, y0, y1) == [x0 |-> x0, x1 |-> x1, y0 |-> y0, y1 |-> y1]
Frusta == {Rect(-9, 9, -9, 9), Rect(0, 9, 0, 9), Rect(-9, 3, -3, 9), Rect(3, 5, -9, 3)}
Horizons == {[c \in -9..9 |-> IF c > 2 THEN 2 ELSE 0], [c \in -9..9 |-> 4]}
View(coarse, sets, frustum, at, range, culls, table, banded) ==
  [coarse |-> coarse, sets |-> sets, frustum |-> frustum, eye |-> at, range |-> range,
   culls |-> culls, table |-> table, banded |-> banded, near |-> 2, far |-> 6]
Points == {[x |-> 0, y |-> 0], [x |-> -6, y |-> 5]}
MCViews ==
  {View(FALSE, AllSets, f, p, w, c, t, b) :
     f \in Frusta, p \in Points, w \in {3, 12}, c \in BOOLEAN, t \in Horizons, b \in BOOLEAN}
  \cup {View(TRUE, s, f, [x |-> 0, y |-> 0], 3, FALSE, [c \in -9..9 |-> 4], FALSE) :
          f \in Frusta, s \in {AllSets, {"land"}}}
  \cup {View(FALSE, {"land"}, f, p, w, TRUE, [c \in -9..9 |-> 4], FALSE) :
          f \in Frusta, p \in Points, w \in {3, 12}}
QT == INSTANCE QuadTree WITH TargetLeafSize <- 2, MaxDepth <- 3, MinDist <- 1,
                             FarMinSize <- 1, VeryFarMinSize <- 2, Views <- MCViews

(* Two rows of five cells, with holes; eyes on the terrain, above and beside it. *)
Fields ==
  {[c \in (0..4) \X (0..1) |-> IF c[2] = 0 THEN row[c[1]] ELSE IF flat THEN -1000 ELSE row[4 - c[1]]] :
     <<row, flat>> \in {f \in [0..4 -> {-1000, 0, 4}] \X BOOLEAN : f[2] \/ f[1][2] = 4}}
Eyes3 == {[x |-> 0, y |-> 0, z |-> 1], [x |-> 3, y |-> 1, z |-> 1], [x |-> -2, y |-> 0, z |-> 6]}
MCDiscs == {[from |-> a, to |-> a + w, near |-> n, far |-> f, top |-> t] :
              a \in {-1, 0}, w \in {0, 2}, n \in {1, 5}, f \in {5, 8}, t \in {0, 2}}
MCFootprints == {[angles |-> a, near |-> n, far |-> f, top |-> t] :
                   a \in {{0, 1}, {7, 0, 1}, {1, 3, 5}}, n \in {1, 4, 5}, f \in {5, 7}, t \in {0, 2}}
HT == INSTANCE HorizonTable WITH Nx <- 5, Ny <- 2, Spacing <- 2, RingStep <- 2, RingCount <- 5,
        SampleStart <- 1, MarchStep <- 1, LeafSamples <- 2, Tau <- 8,
        Eyes <- Eyes3, Discs <- MCDiscs, Footprints <- MCFootprints

Steps == (-1..1) \X (-1..1)
Grid == (0..2) \X (0..2)
HB == INSTANCE HorizonBounds

TreesSound == \A forest \in Forests : QT!QuadTreeSound(forest)
TablesSound == \A heights \in Fields : HT!HorizonSound(heights)
FootprintsSound ==
  /\ \A u, v, w \in Steps \cup {<<2, 0>>} : HB!FootprintHoldsShadow(<<u, v, w>>)
  /\ \A a, b \in Grid, c \in {<<2, 1>>, <<0, 2>>} : HB!CircleIsSmallest(<<<<0, 1>>, a, b, c>>, Grid)

(* What a query culls is hidden: the table it uses fits its eye and its configuration,
   the table is that of the linear march and what is below it is behind terrain, the
   footprints hold the shadows of their boxes, and a query of the trees finds what a
   look at every mesh would.                                                       *)
CullingSound == TablesFit /\ TreesSound /\ TablesSound /\ FootprintsSound
=============================================================================
