------------------------------- MODULE QuadTree -------------------------------
(* The quadtrees of the host: what a query finds in them is what a look at every
   mesh would find.  Positions are points of an integer plane and distances are
   measured in the maximum norm, so that spheres and boxes are rectangles and the
   smallest enclosing volume is exact; a horizon table is a height per column.    *)
EXTENDS Integers, FiniteSets, SequencesExt, Functions, TLC

CONSTANTS
  TargetLeafSize,  (* QUADTREE_TARGET_LEAF_SIZE                                   *)
  MaxDepth,        (* QUADTREE_MAX_DEPTH                                          *)
  MinDist,         (* QUADTREE_MIN_DIST                                           *)
  FarMinSize, VeryFarMinSize,  (* radii from which a static is far, very far      *)
  Views            (* queries                                                     *)

Quadrants == 0..3
Infinite == 1000

(* A rectangle around a point, the smallest one around two, and the tests. *)
Around(x, y, r) == [x0 |-> x - r, x1 |-> x + r, y0 |-> y - r, y1 |-> y + r]
Least(a, b) == IF a < b THEN a ELSE b
Most(a, b) == IF a > b THEN a ELSE b
Hull(a, b) == [x0 |-> Least(a.x0, b.x0), x1 |-> Most(a.x1, b.x1),
               y0 |-> Least(a.y0, b.y0), y1 |-> Most(a.y1, b.y1)]
Within(a, b) == b.x0 <= a.x0 /\ a.x1 <= b.x1 /\ b.y0 <= a.y0 /\ a.y1 <= b.y1
Disjoint(a, b) == a.x1 < b.x0 \/ b.x1 < a.x0 \/ a.y1 < b.y0 \/ b.y1 < a.y0
Reaches(a, w, e) == a.x0 - w <= e.x /\ e.x <= a.x1 + w /\ a.y0 - w <= e.y /\ e.y <= a.y1 + w

Containment(frustum, a) == IF Disjoint(frustum, a) THEN "outside"
                        ELSE IF Within(a, frustum) THEN "inside" ELSE "intersects"

Sphere(m) == Around(m.x, m.y, m.r)
Box(m) == Around(m.x, m.y, m.half)

---------------------------------------------------------------------------
(* Insertion. *)

(* The children are a function of the quadrants that have one. *)
Node(size, x, y) == [size |-> size, x |-> x, y |-> y, kids |-> <<>>, meshes |-> <<>>]
Kids(n) == DOMAIN n.kids

Quadrant(n, m) == IF m.y > n.y THEN IF m.x <= n.x THEN 1 ELSE 0
                  ELSE IF m.x < n.x THEN 2 ELSE 3
NewKid(n, q) == LET quarter == n.size \div 4
                IN Node(n.size \div 2, n.x + (IF q \in {0, 3} THEN quarter ELSE -quarter),
                                       n.y + (IF q \in {0, 1} THEN quarter ELSE -quarter))
Close(m, k) == Most(m.x - k.x, k.x - m.x) <= MinDist /\ Most(m.y - k.y, k.y - m.y) <= MinDist

(* Mutant: a full leaf takes the new mesh into a child and keeps the old ones. *)
RECURSIVE AddKeeping(_, _, _)
AddKeeping(n, m, depth) ==
  IF \/ depth = 0
     \/ Kids(n) = {} /\ Len(n.meshes) < TargetLeafSize
     \/ n.meshes # <<>> /\ Close(m, Head(n.meshes))
  THEN [n EXCEPT !.meshes = Append(@, m)]
  ELSE LET q == Quadrant(n, m)
           kid == IF q \in Kids(n) THEN n.kids[q] ELSE NewKid(n, q)
       IN [n EXCEPT !.kids = (q :> AddKeeping(kid, m, depth - 1)) @@ @]

RECURSIVE Add(_, _, _)
Add(n, m, depth) ==
  LET PushDown(node, mesh) ==
        LET q == Quadrant(node, mesh)
            kid == IF q \in Kids(node) THEN node.kids[q] ELSE NewKid(node, q)
        IN [node EXCEPT !.kids = (q :> Add(kid, mesh, depth - 1)) @@ @]
  IN IF \/ depth = 0
        \/ Kids(n) = {} /\ Len(n.meshes) < TargetLeafSize
        \/ n.meshes # <<>> /\ Close(m, Head(n.meshes))
     THEN [n EXCEPT !.meshes = Append(@, m)]
     ELSE FoldLeft(PushDown, [n EXCEPT !.meshes = <<>>], <<m>> \o n.meshes)

Tree(size, x, y, meshes) ==
  FoldLeft(LAMBDA n, m : Add(n, m, MaxDepth), Node(size, x, y), meshes)

(* optimize_node: a child that has one child is replaced by it. *)
RECURSIVE Optimized(_)
Optimized(n) ==
  [n EXCEPT !.kids =
     [q \in Kids(n) |->
        LET kid == Optimized(n.kids[q])
        IN IF Cardinality(Kids(kid)) = 1 THEN kid.kids[CHOOSE k \in Kids(kid) : TRUE]
           ELSE kid]]

(* calc_volume_node: what encloses a node, from its children when it has any. *)
Empty(vol) == vol.area.x1 < vol.area.x0
Nothing == [area |-> Around(0, 0, -Infinite), top |-> -Infinite]
Join(a, b) == [area |-> Hull(a.area, b.area), top |-> Most(a.top, b.top)]
RECURSIVE Volume(_)
Volume(n) ==
  IF Kids(n) # {} THEN FoldLeft(Join, Nothing, [i \in 1..4 |-> IF i - 1 \in Kids(n) THEN Volume(n.kids[i - 1])
                                                                ELSE Nothing])
  ELSE FoldLeft(Join, Nothing, [i \in DOMAIN n.meshes |->
                                  [area |-> Sphere(n.meshes[i]), top |-> n.meshes[i].top]])

---------------------------------------------------------------------------
(* Queries. *)

(* Below the horizon in every column of the footprint; a footprint without an area,
   or around the eye, cannot be judged.                                            *)
Hidden(area, top, v) ==
  /\ v.culls
  /\ area.x0 < area.x1 /\ area.y0 < area.y1 /\ ~Reaches(area, 0, v.eye)
  /\ \A x \in area.x0..area.x1 : top < v.table[x]

(* The cumulative face count of the band. *)
Faces(m, v) ==
  IF ~v.banded THEN m.faces
  ELSE IF Reaches(Sphere(m), v.near, v.eye) THEN m.faces
  ELSE IF Reaches(Sphere(m), v.far, v.eye) THEN m.farFaces
  ELSE m.veryFarFaces

(* Mutant: what is drawn of a node inside the frustum is taken unchecked. *)
ShowsUnchecked(m, v, inside) ==
  inside \/ (m.enabled /\ m.resident /\ Containment(v.frustum, Sphere(m)) # "outside")

Shows(m, v, inside) ==
  /\ m.enabled /\ m.resident
  /\ inside \/ CASE Containment(v.frustum, Sphere(m)) = "outside" -> FALSE
                 [] Containment(v.frustum, Sphere(m)) = "inside" -> TRUE
                 [] OTHER -> ~Disjoint(Box(m), v.frustum)
  /\ Reaches(Sphere(m), v.range, v.eye)
  /\ ~Hidden(Sphere(m), m.top, v) /\ ~Hidden(Box(m), m.top, v)
  /\ v.banded => Faces(m, v) # 0

Render(m, v) == [id |-> m.id, faces |-> Faces(m, v)]

(* Mutant: a node is judged by its own square instead of what it encloses. *)
PrunedByBox(n, v, inside) ==
  \/ ~inside /\ Containment(v.frustum, Around(n.x, n.y, n.size \div 2)) = "outside"
  \/ ~Reaches(Around(n.x, n.y, n.size \div 2), v.range, v.eye)
Pruned(n, v, inside) ==
  LET vol == Volume(n)
  IN ~Empty(vol) /\ \/ ~inside /\ Containment(v.frustum, vol.area) = "outside"
                    \/ ~Reaches(vol.area, v.range, v.eye)
                    \/ Hidden(vol.area, vol.top, v)

RECURSIVE Collect(_, _, _)
Collect(n, v, inside) ==
  IF Pruned(n, v, inside) THEN <<>>
  ELSE LET vol == Volume(n)
           within == inside \/ Containment(v.frustum, vol.area) = "inside"
           Below(q) == IF q \notin Kids(n) THEN <<>> ELSE Collect(n.kids[q], v, within)
           here == SelectSeq(n.meshes, LAMBDA m : Shows(m, v, within))
       IN Below(0) \o Below(1) \o Below(2) \o Below(3)
          \o [i \in DOMAIN here |-> Render(here[i], v)]

RECURSIVE CollectCoarse(_, _, _)
CollectCoarse(n, v, inside) ==
  LET vol == Volume(n)
      c == Containment(v.frustum, vol.area)
      within == inside \/ c = "inside"
      Below(q) == IF q \notin Kids(n) THEN <<>> ELSE CollectCoarse(n.kids[q], v, within)
      here == SelectSeq(n.meshes, LAMBDA m :
                          /\ m.enabled /\ m.resident
                          /\ within \/ Containment(v.frustum, Sphere(m)) # "outside")
  IN IF ~inside /\ c = "outside" THEN <<>>
     ELSE Below(0) \o Below(1) \o Below(2) \o Below(3)
          \o [i \in DOMAIN here |-> [id |-> here[i].id, faces |-> here[i].faces]]

---------------------------------------------------------------------------
(* The trees of a world space. *)

Trees == <<"near", "far", "very far", "grass">>

TreeFor(m) ==
  CASE m.kind = "auto" \/ m.kind = "building" ->
         LET radius == IF m.kind = "building" THEN 2 * m.r ELSE m.r
         IN IF radius <= FarMinSize THEN "near"
            ELSE IF radius <= VeryFarMinSize THEN "far" ELSE "very far"
    [] OTHER -> m.kind

(* The root square encloses every static of the world space. *)
WorldTrees(used) ==
  LET all == FoldLeft(Hull, Sphere(Head(used)), [i \in DOMAIN used |-> Sphere(used[i])])
      size == Most(all.x1 - all.x0, all.y1 - all.y0)
  IN [t \in Range(Trees) |->
        Optimized(Tree(size, (all.x0 + all.x1) \div 2, (all.y0 + all.y1) \div 2,
                       SelectSeq(used, LAMBDA m : TreeFor(m) = t)))]

(* Grass and landscape know neither bands nor horizon. *)
Plainly(v) == [v EXCEPT !.culls = FALSE, !.banded = FALSE]

CollectFromFlags(trees, land, v) ==
  LET Of(t) == LET seen == IF t = "grass" THEN Plainly(v) ELSE v
               IN IF t \notin v.sets THEN <<>>
                  ELSE IF v.coarse THEN CollectCoarse(trees[t], seen, FALSE)
                  ELSE Collect(trees[t], seen, FALSE)
  IN Of("near") \o Of("far") \o Of("very far") \o Of("grass")
     \o (IF "land" \notin v.sets THEN <<>>
         ELSE IF v.coarse THEN CollectCoarse(land, v, FALSE)
         ELSE Collect(land, Plainly(v), FALSE))

---------------------------------------------------------------------------
RECURSIVE MeshesOf(_), NodesOf(_)
MeshesOf(n) == FoldLeft(LAMBDA s, q : s \o (IF q \notin Kids(n) THEN <<>> ELSE MeshesOf(n.kids[q])),
                        n.meshes, <<0, 1, 2, 3>>)
NodesOf(n) == {n} \cup UNION {NodesOf(n.kids[q]) : q \in Kids(n)}

(* No insertion and no optimization loses or doubles a mesh, and no node has both
   meshes and children (the assertion of calc_volume_node), whose meshes it would
   not enclose.                                                                   *)
TreesKeepMeshes(used) ==
  LET trees == WorldTrees(used)
      all == FoldLeft(LAMBDA s, t : s \o MeshesOf(trees[t]), <<>>, Trees)
  IN /\ Range(all) = Range(used) /\ Len(all) = Len(used)
     /\ \A t \in Range(Trees) : \A n \in NodesOf(trees[t]) : n.meshes = <<>> \/ Kids(n) = {}

(* What one look at a mesh would decide; the landscape is drawn in a query of its own. *)
LandTree(used) == Tree(16, 0, 0, used)
TreeIn(m, v) == IF v.sets = {"land"} THEN "land" ELSE TreeFor(m)
PlainFor(m, v) == IF TreeIn(m, v) \in {"grass", "land"} THEN Plainly(v) ELSE v
Seen(m, v) ==
  /\ TreeIn(m, v) \in v.sets
  /\ IF v.coarse THEN m.enabled /\ m.resident /\ Containment(v.frustum, Sphere(m)) # "outside"
     ELSE Shows(m, PlainFor(m, v), FALSE)
Drawn(m, v) == [id |-> m.id, faces |-> IF v.coarse THEN m.faces ELSE Faces(m, PlainFor(m, v))]

(* get_visible_meshes finds the meshes a look at each of them would find, each once
   and with the faces of its band: no bound of a branch hides one that is visible. *)
QueryIsFilter(used) ==
  LET trees == WorldTrees(used)
      land == LandTree(used)
  IN \A v \in Views :
       LET found == CollectFromFlags(trees, land, v)
       IN /\ IsInjective(found)
          /\ Range(found) = {Drawn(m, v) : m \in {k \in Range(used) : Seen(k, v)}}

QuadTreeSound(used) == TreesKeepMeshes(used) /\ QueryIsFilter(used)
===============================================================================
