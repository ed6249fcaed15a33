------------------------- MODULE IncrementalStatics -------------------------
(***************************************************************************)
(* How a generation rebuilds the static meshes: from nothing, or owner by  *)
(* owner from the shards and the unit records of the generation before.    *)
(*                                                                         *)
(* The promise is that the way makes no difference: after every run the    *)
(* shards and the placements are those a rebuild from nothing would give.  *)
(* A run is one step, for nothing else touches the output while its writer *)
(* session lasts (module OutputStore models what a crash leaves).  Between *)
(* runs the game's data change, a shard's bytes may rot, and the database  *)
(* may be lost.                                                            *)
(*                                                                         *)
(* Fingerprints are exact, so each is the tuple of what it digests.  A     *)
(* mesh file is a "look": its texture and its size class before (raw) and  *)
(* after (fit) simplification: 0 is below the minimum static size, 1 is    *)
(* kept, 2 is large enough to merge.  The sphere is folded from those of   *)
(* the subsets, so that of the simplified mesh may be the larger: merge    *)
(* units are enumerated by the raw size, merges planned by the fitted one. *)
(* References of one exterior cell      *)
(* merge when the bounding-volume tree puts them in one spot.              *)
(***************************************************************************)
EXTENDS Naturals, FiniteSets, Functions

CONSTANTS
    Meshes, Textures, Pages,    \* mesh files, texture files, places in the atlas
    Looks,                      \* the contents a mesh file may have
    Cells,                      \* exterior cells, integers on a line
    Refs,                       \* references: mesh, cell, spot, merge (vis_index = 0), n
    MaxSpot,
    Shards, MeshShard, GroupShard,
    FirstInputs,                \* the data of the first run
    MaxEdits, MaxRuns           \* bounds: edits after the first run, runs

ASSUME LooksAssumption ==
    /\ Pages \subseteq Nat \ {0}
    /\ "none" \notin Textures
    /\ Looks \subseteq [tex : Textures, raw : 0..2, fit : 0..2]
ASSUME RefsAssumption ==
    /\ IsFiniteSet(Refs) /\ MaxSpot \in Nat
    /\ Refs \subseteq [mesh : Meshes, cell : Cells, spot : 1..MaxSpot, merge : BOOLEAN, n : Nat]
ASSUME ShardsAssumption ==
    /\ MeshShard \in [Meshes -> Shards]
    /\ GroupShard \in [Cells \X (1..MaxSpot) -> Shards]
ASSUME BoundsAssumption == {MaxEdits, MaxRuns} \subseteq Nat

NoLook == [tex |-> "none", raw |-> 0, fit |-> 0]
Unbound == 0
NoState == [loaded |-> FALSE]

Inputs == [look : [Meshes -> Looks \cup {NoLook}], page : [Textures -> Pages \cup {Unbound}],
           refs : SUBSET Refs, high : SUBSET Cells]
ASSUME InputsAssumption == FirstInputs \subseteq Inputs

VARIABLES
    input,      \* the game's data as the next run will see them
    edits,      \* edits so far
    runs,
    saved,      \* the generation database
    disk,       \* per shard: the records of the committed file
    rotten,     \* shards whose bytes on disk are no longer what was written
    usage,      \* the placements of the committed usage.data
    last        \* of the last run: its input, how it worked, the shards it wrote, and
                \* the cells whose groups it may have left out of date (history only)

vars == <<input, edits, runs, saved, disk, rotten, usage, last>>

-----------------------------------------------------------------------------
(* What one input means.                                                   *)

PlacedIn(in, m) == {r \in in.refs : r.mesh = m}
Units(in) == {m \in Meshes : PlacedIn(in, m) # {}}
Loaded(in) == {m \in Units(in) : in.look[m] # NoLook}
RawSize(in) == [m \in Loaded(in) |-> in.look[m].raw]
FitSize(in) == [m \in Loaded(in) |-> in.look[m].fit]

\* References that may merge, by a size for each mesh of DOMAIN size.
Candidates(in, size, c) ==
    {r \in in.refs : r.cell = c /\ r.merge /\ r.mesh \in DOMAIN size /\ size[r.mesh] = 2}

Ground(in, c) == {d \in in.high : d \in {c - 1, c, c + 1}}

MeshUnit(in) == [m \in Units(in) |-> in.look[m]]
\* Mutant: the heights around the cell are left out of the unit.
MergeUnitNoGround(in) ==
    LET members(c) == Candidates(in, RawSize(in), c)
    IN  [c \in {d \in Cells : Cardinality(members(d)) > 1} |->
            <<{}, {<<r, in.look[r.mesh]>> : r \in members(c)}>>]
MergeUnit(in) ==
    LET members(c) == Candidates(in, RawSize(in), c)
    IN  [c \in {d \in Cells : Cardinality(members(d)) > 1} |->
            <<Ground(in, c), {<<r, in.look[r.mesh]>> : r \in members(c)}>>]
MeshToMerge(in, m) ==
    {c \in DOMAIN MergeUnit(in) : \E r \in Candidates(in, RawSize(in), c) : r.mesh = m}
TextureToMesh(in) ==
    [t \in {in.look[m].tex : m \in Loaded(in)} |-> {m \in Loaded(in) : in.look[m].tex = t}]
Bindings(in) ==
    Restrict(in.page, {t \in DOMAIN TextureToMesh(in) : in.page[t] # Unbound})

\* Cells with a reference that merges, but only by its size after simplification:
\* no merge unit covers it.
Uncovered(in) ==
    {c \in Cells : Candidates(in, FitSize(in), c) \ Candidates(in, RawSize(in), c) # {}}

MeshKey(m) == <<"mesh", m>>
GroupKey(c, i) == <<"group", c, i>>
IsMesh(k) == k[1] = "mesh"
ShardOf(k) == IF IsMesh(k) THEN MeshShard[k[2]] ELSE GroupShard[<<k[2], k[3]>>]
\* Mutant: records are not split by shard.
InAnyShard(keys, s) == keys
InShard(keys, s) == {k \in keys : ShardOf(k) = s}

\* Spots of a cell that hold a group: those of one reference are dropped.  A group's
\* number is its place among them in the tree's order.
Groups(in, size, c) ==
    {p \in 1..MaxSpot : Cardinality({r \in Candidates(in, size, c) : r.spot = p}) > 1}
Ordinal(groups, p) == Cardinality({q \in groups : q <= p})
Planned(in, size) ==
    UNION {{GroupKey(c, Ordinal(Groups(in, size, c), p)) : p \in Groups(in, size, c)} : c \in Cells}
Members(in, size, k) ==
    LET groups == Groups(in, size, k[2])
    IN  {r \in Candidates(in, size, k[2]) : r.spot \in groups /\ Ordinal(groups, r.spot) = k[3]}
Swallowed(in, size) == UNION {Members(in, size, k) : k \in Planned(in, size)}
Kept(size) == {m \in DOMAIN size : size[m] > 0}
\* Meshes some reference still places once the groups took theirs.
Referenced(in, size) == {m \in Kept(size) : PlacedIn(in, m) \ Swallowed(in, size) # {}}

Surface(in, m) ==
    <<in.look[m], IF in.look[m].tex \in DOMAIN Bindings(in) THEN in.page[in.look[m].tex] ELSE Unbound>>
\* A group below the ground of its own cell comes out empty and is dropped.
Built(in, size, cells, statics) ==
    {k \in Planned(in, size) : /\ k[2] \in cells \ in.high
                               /\ \A r \in Members(in, size, k) : r.mesh \in statics}
Record(in, size, k) ==
    IF IsMesh(k) THEN Surface(in, k[2])
    ELSE <<Ground(in, k[2]), {<<r, Surface(in, r.mesh)>> : r \in Members(in, size, k)}>>
Packed(in, size, keys) == [k \in keys |-> Record(in, size, k)]

\* Placements that resolve to a record.
Placements(in, size, keys) ==
    [own |-> {r \in in.refs \ Swallowed(in, size) : MeshKey(r.mesh) \in keys},
     groups |-> Planned(in, size) \cap keys]

(* The reference: everything from nothing.                                 *)
Rebuilt(in) ==
    LET size == FitSize(in)
        keys == {MeshKey(m) : m \in Referenced(in, size)} \cup Built(in, size, Cells, Kept(size))
    IN  [shards |-> [s \in Shards |-> Packed(in, size, InShard(keys, s))],
         usage |-> Placements(in, size, keys)]

-----------------------------------------------------------------------------
(* The unit diff and its closure over owners.                              *)

Gone(old, new) == DOMAIN old \ DOMAIN new
Differs(old, new) == {k \in DOMAIN old \cap DOMAIN new : old[k] # new[k]}

\* Mutant: a moved atlas binding does not dirty the meshes that use it.
DirtyMeshesByContent(in, p) ==
    Gone(MeshUnit(in), p.mesh) \cup Differs(p.mesh, MeshUnit(in))
DirtyMeshes(in, p) ==
    Gone(MeshUnit(in), p.mesh) \cup Differs(p.mesh, MeshUnit(in))
        \cup UNION {TextureToMesh(in)[t] : t \in Differs(p.bind, Bindings(in))}
RemovedMeshes(in, p) == Gone(p.mesh, MeshUnit(in))
DirtyCells(in, p) ==
    Gone(MergeUnit(in), p.merge) \cup Differs(p.merge, MergeUnit(in))
        \cup UNION {MeshToMerge(in, m) : m \in DirtyMeshes(in, p)}
RemovedCells(in, p) == Gone(p.merge, MergeUnit(in))

\* A binding may come or go only with a change of every mesh that uses it.
BindingsExplained(in, p) ==
    /\ \A t \in Gone(Bindings(in), p.bind) : TextureToMesh(in)[t] \subseteq DirtyMeshes(in, p)
    /\ \A t \in Gone(p.bind, Bindings(in)) :
          p.textures[t] \subseteq DirtyMeshes(in, p) \cup RemovedMeshes(in, p)

OwnerIsDirty(in, p, k) ==
    IF IsMesh(k) THEN k[2] \in DirtyMeshes(in, p) \cup RemovedMeshes(in, p)
    ELSE k[2] \in DirtyCells(in, p) \cup RemovedCells(in, p)

(* Which meshes to simplify again, and the sizes that follow.              *)

\* Mutant: the partners of a dirty mesh in its cell keep their old bounds, and a
\* mesh without recorded bounds is taken as it was loaded.
ToOptimizeDirtyOnly(in, p) == DirtyMeshes(in, p) \cap Loaded(in)
ToOptimize(in, p) ==
    (DirtyMeshes(in, p) \cap Loaded(in))
        \cup (Loaded(in) \ DOMAIN p.bounds)
        \cup UNION {{r.mesh : r \in Candidates(in, RawSize(in), c)} : c \in DirtyCells(in, p)}
Selective(in, p, keys) == 4 * Cardinality(keys) < 3 * Cardinality(Loaded(in))
\* Mutant: clean meshes keep the bounds they were loaded with.
SizesAsLoaded(in, p, keys) ==
    [m \in Loaded(in) |-> IF m \in keys THEN in.look[m].fit ELSE in.look[m].raw]
\* restore_optimized_bounds; the raw size stands for "no bounds were recorded".
Sizes(in, p, keys) ==
    [m \in Loaded(in) |-> IF m \in keys THEN in.look[m].fit
                          ELSE IF m \in DOMAIN p.bounds THEN p.bounds[m] ELSE in.look[m].raw]
Bounds(size) == Restrict(size, Kept(size))

-----------------------------------------------------------------------------
(* The owner-partial attempt.                                              *)

KeysOf(p) == UNION {DOMAIN p.shards[s] : s \in Shards}

DirtyShards(in, p, size) ==
    {s \in Shards : \E k \in DOMAIN p.shards[s] : OwnerIsDirty(in, p, k)}
        \cup {MeshShard[m] : m \in DirtyMeshes(in, p)}
        \cup {ShardOf(k) : k \in {q \in Planned(in, size) : q[2] \in DirtyCells(in, p)}}

Fresh(in, p, size) ==
    {MeshKey(m) : m \in {n \in Referenced(in, size) : OwnerIsDirty(in, p, MeshKey(n))}}
        \cup Built(in, size, DirtyCells(in, p), Kept(size))
CleanGroups(in, p) == {k \in KeysOf(p) : ~IsMesh(k) /\ ~OwnerIsDirty(in, p, k)}
Assembly(in, p, size) ==
    {MeshKey(m) : m \in Referenced(in, size)}
        \cup Built(in, size, DirtyCells(in, p), Kept(size)) \cup CleanGroups(in, p)

\* A clean owner has the records it had, and its groups are still planned.
OwnersAgree(in, p, size) ==
    /\ \A m \in Meshes : ~OwnerIsDirty(in, p, MeshKey(m)) =>
          (m \in Referenced(in, size) <=> MeshKey(m) \in KeysOf(p))
    /\ CleanGroups(in, p) \subseteq Planned(in, size)

Spliced(in, p, size) ==
    [s \in Shards |->
        IF s \notin DirtyShards(in, p, size) THEN p.shards[s]
        ELSE LET old == {k \in DOMAIN p.shards[s] : /\ ~OwnerIsDirty(in, p, k)
                                                    /\ k \in Assembly(in, p, size)}
                 new == InShard(Fresh(in, p, size), s)
             IN  [k \in old \cup new |-> IF k \in new THEN Record(in, size, k) ELSE p.shards[s][k]]]
\* The key vectors of all shards equal those of the assembly.
SpliceFits(in, p, size) ==
    \A s \in Shards : DOMAIN Spliced(in, p, size)[s] = InShard(Assembly(in, p, size), s)

(* The rebuild that every refusal of the attempt falls back to.            *)
Full(in, size, statics) ==
    LET keys == {MeshKey(m) : m \in Referenced(in, size)} \cup Built(in, size, Cells, statics)
    IN  [s \in Shards |-> Packed(in, size, InShard(keys, s))]

-----------------------------------------------------------------------------
Database(in, size, shards) ==
    [loaded |-> TRUE, mesh |-> MeshUnit(in), merge |-> MergeUnit(in), textures |-> TextureToMesh(in),
     bind |-> Bindings(in), bounds |-> Bounds(size), shards |-> shards, refs |-> in.refs]

\* Everything the bundle's digest covers.
Domain(in) == <<MeshUnit(in), MergeUnit(in), in.refs, Bindings(in)>>
BundleHit(in, p) == Domain(in) = <<p.mesh, p.merge, p.refs, p.bind>>

\* Groups may be out of date in the cells that were not rebuilt while a member of
\* theirs was, or is, uncovered; a rebuild leaves none.
Stale(how) ==
    IF how \in {"full", "fallback"} THEN {}
    ELSE (last.stale \cup Uncovered(last.of) \cup Uncovered(input)) \ DirtyCells(input, saved)

\* Mutant: the recorded shards are not compared, what was built is written.
CommitAll(shards, size, placed, mayCarry, how) ==
    /\ disk' = shards
    /\ rotten' = {}
    /\ saved' = Database(input, size, shards)
    /\ usage' = placed
    /\ last' = [of |-> input, how |-> how, wrote |-> Shards, stale |-> Stale(how)]
\* Commit new shards: those equal to the recorded ones are carried, if the
\* committed bytes may be trusted.
Commit(shards, size, placed, mayCarry, how) ==
    LET write == {s \in Shards : ~mayCarry \/ saved = NoState \/ saved.shards[s] # shards[s]}
    IN  /\ disk' = [s \in Shards |-> IF s \in write THEN shards[s] ELSE disk[s]]
        /\ rotten' = rotten \ write
        /\ saved' = Database(input, size, shards)
        /\ usage' = placed
        /\ last' = [of |-> input, how |-> how, wrote |-> write, stale |-> Stale(how)]

KeysIn(shards) == UNION {DOMAIN shards[s] : s \in Shards}

RunBundle ==
    /\ saved # NoState
    /\ BundleHit(input, saved)
    /\ last' = [of |-> input, how |-> "bundle", wrote |-> {}, stale |-> Stale("bundle")]
    /\ UNCHANGED <<saved, disk, rotten, usage>>

\* What the attempt needs before it reads a shard; the sizes with it.
Attempt(evidence) ==
    /\ saved # NoState /\ ~BundleHit(input, saved)
    /\ evidence /\ BindingsExplained(input, saved)
AttemptSize ==
    LET keys == ToOptimize(input, saved)
    IN  IF Selective(input, saved, keys) THEN Sizes(input, saved, keys) ELSE FitSize(input)

\* The attempt holds: every dirty shard reads back, the clean owners agree, and
\* the spliced shards hold exactly the assembly.
Readable(size) == DirtyShards(input, saved, size) \cap rotten = {}
Holds(size) == /\ Readable(size)
               /\ OwnersAgree(input, saved, size)
               /\ SpliceFits(input, saved, size)

RunPartial(evidence) ==
    /\ Attempt(evidence)
    /\ Holds(AttemptSize)
    /\ LET size == AttemptSize
           shards == Spliced(input, saved, size)
       IN  Commit(shards, size, Placements(input, size, KeysIn(shards)), TRUE, "partial")

\* Mutant: the fallback forgets the meshes that the attempt's merge swallowed.
RunFallbackTrimmed(evidence) ==
    /\ Attempt(evidence)
    /\ ~Holds(AttemptSize)
    /\ LET size == AttemptSize
           shards == Full(input, size, IF Readable(size) THEN Referenced(input, size) ELSE Kept(size))
       IN  Commit(shards, size, Placements(input, size, KeysIn(shards)), Readable(size), "fallback")
\* Mutant: shards are carried although a committed shard was found damaged.
RunFallbackTrusting(evidence) ==
    /\ Attempt(evidence)
    /\ ~Holds(AttemptSize)
    /\ LET size == AttemptSize
           shards == Full(input, size, Kept(size))
       IN  Commit(shards, size, Placements(input, size, KeysIn(shards)), TRUE, "fallback")
\* The meshes that the attempt trimmed are put back first.
RunFallback(evidence) ==
    /\ Attempt(evidence)
    /\ ~Holds(AttemptSize)
    /\ LET size == AttemptSize
           shards == Full(input, size, Kept(size))
       IN  Commit(shards, size, Placements(input, size, KeysIn(shards)), Readable(size), "fallback")

\* No comparable state, no evidence, a binding change nobody explains, or a
\* rebuild that was asked for.
MayReuse(evidence) ==
    /\ saved # NoState
    /\ BundleHit(input, saved) \/ (evidence /\ BindingsExplained(input, saved))
RunFull(evidence, force) ==
    /\ ~(MayReuse(evidence) /\ ~force)
    /\ LET size == FitSize(input)
           shards == Full(input, size, Kept(size))
       IN  Commit(shards, size, Placements(input, size, KeysIn(shards)), ~force, "full")

Run ==
    /\ runs < MaxRuns
    /\ \/ RunBundle
       \/ \E evidence \in BOOLEAN :
             \/ RunPartial(evidence) \/ RunFallback(evidence)
             \/ \E force \in BOOLEAN : RunFull(evidence, force)
    /\ runs' = runs + 1
    /\ UNCHANGED <<input, edits>>

(* Between runs.                                                           *)
MayChange == runs \in 1..(MaxRuns - 1) /\ edits < MaxEdits /\ edits' = edits + 1
Change(in) == /\ MayChange
              /\ input' = in /\ in # input
              /\ UNCHANGED <<runs, saved, disk, rotten, usage, last>>
EditMesh == \E m \in Meshes, l \in Looks \cup {NoLook} : Change([input EXCEPT !.look[m] = l])
EditAtlas == \E t \in Textures, p \in Pages \cup {Unbound} : Change([input EXCEPT !.page[t] = p])
EditRefs == \E r \in Refs : \/ Change([input EXCEPT !.refs = @ \cup {r}])
                            \/ Change([input EXCEPT !.refs = @ \ {r}])
EditLand == \E c \in Cells : \/ Change([input EXCEPT !.high = @ \cup {c}])
                             \/ Change([input EXCEPT !.high = @ \ {c}])
\* The bytes of a shard change behind the program's back, but not their number:
\* the routine check of a committed tree does not see it.
Rot == /\ MayChange
       /\ rotten = {}
       /\ \E s \in Shards : rotten' = {s}
       /\ UNCHANGED <<input, runs, saved, disk, usage, last>>
LoseDatabase == /\ MayChange
                /\ saved # NoState
                /\ saved' = NoState
                /\ UNCHANGED <<input, runs, disk, rotten, usage, last>>

Init ==
    /\ input \in FirstInputs
    /\ edits = 0 /\ runs = 0
    /\ saved = NoState
    /\ disk = [s \in Shards |-> <<>>]
    /\ rotten = {}
    /\ usage = [own |-> {}, groups |-> {}]
    /\ last = [of |-> input, how |-> "none", wrote |-> {}, stale |-> {}]

Next == Run \/ EditMesh \/ EditAtlas \/ EditRefs \/ EditLand \/ Rot \/ LoseDatabase

Spec == Init /\ [][Next]_vars

-----------------------------------------------------------------------------
(* Every value is of its type; shards only hold the records assigned to    *)
(* them.                                                                   *)
TypeOK ==
    /\ input \in Inputs
    /\ edits \in 0..MaxEdits /\ runs \in 0..MaxRuns
    /\ rotten \subseteq Shards
    /\ last.how \in {"none", "bundle", "partial", "fallback", "full"}
    /\ last.wrote \subseteq Shards /\ last.stale \subseteq Cells
    /\ \A s \in Shards : \A k \in DOMAIN disk[s] : ShardOf(k) = s

Current(k) == IsMesh(k) \/ k[2] \notin last.stale
CurrentOf(shard) == Restrict(shard, {k \in DOMAIN shard : Current(k)})

(* Whatever a run reused, the shards it leaves are those of a rebuild from *)
(* nothing, record for record, except for bytes that rotted unseen in a    *)
(* shard it had no reason to read (plan.rs, splice.rs, statics_stage.rs),  *)
(* and for the groups of a cell with a reference that is large enough to   *)
(* merge only after simplification: the units that build_merge_units       *)
(* enumerates by the size before it miss its changes.  That error stays in *)
(* the groups of its cell, and until the cell or everything is rebuilt.    *)
IncrementalIsRebuild ==
    runs > 0 => LET rebuilt == Rebuilt(last.of).shards
                IN  \A s \in Shards \ rotten : CurrentOf(disk[s]) = CurrentOf(rebuilt[s])

(* The placements it leaves are those of a rebuild: none lost because a    *)
(* group or a mesh was thought to be there, none that names no record      *)
(* (apply_merge_usage, reconcile_usage_with_ordinals), again but for the   *)
(* groups of such a cell.                                                  *)
PlacementsAreRebuilt ==
    runs > 0 => LET rebuilt == Rebuilt(last.of).usage
                IN  /\ usage.own = rebuilt.own
                    /\ \A k \in (usage.groups \ rebuilt.groups) \cup (rebuilt.groups \ usage.groups) :
                          ~Current(k)

(* The bounds a run records are those its meshes have after                *)
(* simplification, whether it computed or restored them; the next run's    *)
(* merge plan trusts them.                                                 *)
RecordedBoundsAreFresh == saved # NoState => saved.bounds = Bounds(FitSize(last.of))

(* Damage that a run meets does not survive it: a run that has to read a   *)
(* damaged shard rewrites every shard.                                     *)
MetDamageIsHealed ==
    [][(runs' > runs /\ last'.how = "fallback"
          /\ DirtyShards(input, saved, AttemptSize) \cap rotten # {}) => rotten' = {}]_vars

(* A run that reuses rewrites no shard whose records stay as they are      *)
(* (unless the committed bytes turned out damaged).                        *)
WritesOnlyWhatChanged ==
    [][(runs' > runs /\ last'.how \in {"bundle", "partial"}) =>
          \A s \in last'.wrote : saved'.shards[s] # saved.shards[s]]_vars

(* Nothing of what a run leaves, for the game or for the next run, tells   *)
(* which way it took, but for the groups of cells in last.stale.           *)
WayMakesNoDifference ==
    TypeOK /\ IncrementalIsRebuild /\ PlacementsAreRebuilt /\ RecordedBoundsAreFresh

(* A run writes the shards it must, and no others.                         *)
ShardsWrittenAsNeeded == MetDamageIsHealed /\ WritesOnlyWhatChanged
=============================================================================
