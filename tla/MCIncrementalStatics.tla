------------------------ MODULE MCIncrementalStatics ------------------------
(* Four meshes, two textures, two neighbouring cells.  Cell 1 has a pair that merges
   in each of two spots; one reference is never merged.  For the atlas, up to three
   textures of four sources, two of them with the same pixels, on pages on which some
   sets fit and some do not.                                                       *)
EXTENDS IncrementalStatics, Sequences

Big == [tex |-> "t1", raw |-> 2, fit |-> 2]
Other == [tex |-> "t2", raw |-> 2, fit |-> 2]
R(m, c, s, g, i) == [mesh |-> m, cell |-> c, spot |-> s, merge |-> g, n |-> i]
Shrinks == [tex |-> "t1", raw |-> 2, fit |-> 1]
Vanishes == [tex |-> "t1", raw |-> 1, fit |-> 0]
Grows == [tex |-> "t1", raw |-> 1, fit |-> 2]
MCLooks == {Big, Other, Shrinks, Vanishes, Grows}
MCRefs == {R("a", 1, 1, TRUE, 1), R("a", 1, 1, TRUE, 2), R("a", 1, 2, TRUE, 3), R("b", 1, 2, TRUE, 4),
           R("b", 2, 1, TRUE, 5), R("c", 2, 1, TRUE, 6), R("c", 2, 2, FALSE, 7), R("d", 2, 2, FALSE, 8)}
MCMeshShard == [m \in Meshes |-> IF m \in {"a", "c"} THEN 1 ELSE 2]
MCGroupShard == [g \in Cells \X (1..MaxSpot) |-> IF g[2] = 1 THEN 1 ELSE 3]
MCInput(l, refs) == [look |-> l, page |-> [t \in Textures |-> IF t = "t2" THEN 2 ELSE 1],
                     refs |-> refs, high |-> {}]
First(d) == [m \in Meshes |-> IF m = "c" THEN Other ELSE IF m = "d" THEN d ELSE Big]
MCFirst == {MCInput(First(Shrinks), MCRefs), MCInput(First(Vanishes), {r \in MCRefs : r.n # 3})}

AP == INSTANCE AtlasPages WITH Exact <- TRUE, Extrusion <- 1, Border <- 1, PageSize <- 8
Picture(image, w, h) == [image |-> image, w |-> w, h |-> h]
Sources == <<Picture("p", 1, 1), Picture("q", 1, 4), Picture("q", 1, 4), Picture("r", 1, 1)>>
Textured(f) == [k \in DOMAIN f |-> [source |-> f[k], picture |-> Sources[f[k]]]]
TextureSets == {Textured(f) : f \in UNION {[keys -> 1..4] : keys \in {{1, 2, 3}, {2, 3}, {1, 2}, {}}}}
FewTextureSets == {Textured(f) : f \in {<<1, 1, 2>>, <<1, 3, 2>>, <<4, 1, 1>>, <<2, 4, 1>>, <<1, 3, 4>>, <<1, 2, 1>>}}
Edge(g, s, w, n) == [group |-> g, slot |-> s, weight |-> w, tie |-> (s - 1) * (n + 1) + g - 1]
EdgeSets(gs, ss) ==
  UNION {{{Edge(p[1], p[2], w[p], gs) : p \in D} : w \in [D -> 1..2]} : D \in SUBSET ((1..gs) \X (1..ss))}

Generations == {<<first, second>> : first, second \in TextureSets}
               \cup {<<first, second, third>> : first, second, third \in FewTextureSets}
AtlasSound ==
  /\ \A sets \in Generations : AP!KeepsUp({}, <<>>, sets)
  /\ \A edges \in EdgeSets(2, 3) : AP!MatchingIsBest(edges, 2, 3)
  /\ \A edges \in EdgeSets(3, 2) : AP!MatchingIsBest(edges, 3, 2)

(* What a generation records of its atlas and what it leaves on the disk belong
   together: every texture is shown where its key is bound, whatever was drawn there
   before; a group that can stay where it was stays; the slots kept are the best ones. *)
AtlasKeepsPictures == TypeOK /\ AtlasSound
=============================================================================
