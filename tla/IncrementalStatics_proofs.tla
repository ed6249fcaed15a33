----------------------- MODULE IncrementalStatics_proofs -----------------------
(***************************************************************************)
(* Proofs that the way a generation takes makes no difference, for any     *)
(* finite set of references, any meshes, textures, cells and shards, any   *)
(* number of runs and any edits between them.                              *)
(*                                                                         *)
(* The heart of it: the database records the units, the bindings and the   *)
(* bounds of one input, the last run's, and shards that agree with its     *)
(* rebuild but for the groups of the cells that may be out of date.  An    *)
(* owner the diff leaves clean, of a cell its units cover, has in the new  *)
(* input the records that rebuild gave it; so the bundle that is kept, the *)
(* shards that are spliced and the sizes that are restored are those of a  *)
(* rebuild of the new input, again but for cells that may be out of date.  *)
(***************************************************************************)
EXTENDS IncrementalStatics, FiniteSetTheorems, TLAPS

(* The keys of a rebuild, and what a run of it records.                    *)
Keys(in) ==
    {MeshKey(m) : m \in Referenced(in, FitSize(in))}
        \cup Built(in, FitSize(in), Cells, Kept(FitSize(in)))
Recorded(in, shards) == Database(in, FitSize(in), shards)

(* Shards, or placements, that are those of a rebuild but for the groups   *)
(* of some cells.                                                          *)
Fresher(k, stale) == IsMesh(k) \/ k[2] \notin stale
Agree(shards, in, stale) ==
    /\ shards = [s \in Shards |-> shards[s]]
    /\ \A s \in Shards : \A k \in DOMAIN shards[s] : ShardOf(k) = s
    /\ \A s \in Shards : \A k : Fresher(k, stale) =>
          /\ k \in DOMAIN shards[s] <=> k \in InShard(Keys(in), s)
          /\ k \in DOMAIN shards[s] => shards[s][k] = Record(in, FitSize(in), k)
PlacedRight(placed, in, stale) ==
    /\ placed.own = Rebuilt(in).usage.own
    /\ \A k : Fresher(k, stale) => (k \in placed.groups <=> k \in Rebuilt(in).usage.groups)

(* The database, the disk and the placements are those of the last run's   *)
(* input, unless the database was lost.                                    *)
IInv ==
    /\ TypeOK /\ last.of \in Inputs
    /\ saved # NoState => runs > 0 /\ saved = Recorded(last.of, disk)
    /\ runs > 0 => /\ Agree(disk, last.of, last.stale)
                   /\ PlacedRight(usage, last.of, last.stale)
    /\ runs = 0 => disk = [s \in Shards |-> <<>>]

-----------------------------------------------------------------------------
(* What one input means.                                                   *)

LEMMA InputTyped ==
  ASSUME NEW in \in Inputs
  PROVE  /\ in.refs \subseteq Refs /\ IsFiniteSet(in.refs)
         /\ \A r \in in.refs : r.mesh \in Meshes /\ r.cell \in Cells /\ r.spot \in 1..MaxSpot
         /\ \A m \in Meshes : in.look[m] \in Looks \cup {NoLook}
         /\ in.look \in [Meshes -> Looks \cup {NoLook}]
         /\ in.page \in [Textures -> Pages \cup {Unbound}]
         /\ in.high \subseteq Cells
<1>1. in.refs \subseteq Refs
  BY DEF Inputs
<1> QED
  BY <1>1, RefsAssumption, FS_Subset DEF Inputs

LEMMA LoadedTyped ==
  ASSUME NEW in \in Inputs, NEW m \in Loaded(in)
  PROVE  /\ m \in Meshes /\ m \in Units(in) /\ in.look[m] \in Looks
         /\ in.look[m].tex \in Textures /\ in.look[m].raw \in 0..2 /\ in.look[m].fit \in 0..2
<1>1. m \in Meshes /\ m \in Units(in) /\ in.look[m] \in Looks
  BY InputTyped DEF Loaded, Units
<1> QED
  BY <1>1, LooksAssumption

LEMMA CandidatesTyped ==
  ASSUME NEW in \in Inputs, NEW size, NEW c
  PROVE  Candidates(in, size, c) \subseteq in.refs /\ IsFiniteSet(Candidates(in, size, c))
  BY InputTyped, FS_Subset DEF Candidates

(* In a cell that its units cover simplification only takes candidates     *)
(* away.                                                                   *)
LEMMA CandidatesShrink ==
  ASSUME NEW in \in Inputs, NEW c \in Cells, c \notin Uncovered(in)
  PROVE  Candidates(in, FitSize(in), c) =
           {r \in Candidates(in, RawSize(in), c) : in.look[r.mesh].fit = 2}
<1>1. Candidates(in, FitSize(in), c) \subseteq Candidates(in, RawSize(in), c)
  BY DEF Uncovered
<1>2. /\ \A r \in Candidates(in, FitSize(in), c) : in.look[r.mesh].fit = 2
      /\ \A r \in Candidates(in, RawSize(in), c) :
            in.look[r.mesh].fit = 2 => r \in Candidates(in, FitSize(in), c)
  BY DEF Candidates, FitSize, RawSize
<1> QED
  BY <1>1, <1>2

(* The groups of a cell are numbered from one, within the spots there are. *)
LEMMA OrdinalTyped ==
  ASSUME NEW in \in Inputs, NEW size, NEW c, NEW p \in Groups(in, size, c)
  PROVE  Ordinal(Groups(in, size, c), p) \in 1..MaxSpot
<1> DEFINE upto == {q \in Groups(in, size, c) : q <= p}
<1>1. upto \subseteq 1..MaxSpot /\ p \in upto /\ p \in 1..MaxSpot
  BY DEF Groups
<1>2. IsFiniteSet(1..MaxSpot) /\ Cardinality(1..MaxSpot) = MaxSpot /\ MaxSpot \in Nat
  <2>1. MaxSpot \in Nat
    BY RefsAssumption
  <2>2. IsFiniteSet(1..MaxSpot) /\ Cardinality(1..MaxSpot) = IF 1 <= MaxSpot THEN MaxSpot - 1 + 1 ELSE 0
    BY <2>1, FS_Interval
  <2> QED
    BY <2>1, <2>2
<1>3. IsFiniteSet(upto) /\ Cardinality(upto) <= MaxSpot
  BY <1>1, <1>2, FS_Subset
<1>4. Cardinality(upto) \in Nat /\ Cardinality(upto) # 0
  BY <1>1, <1>3, FS_CardinalityType, FS_EmptySet
<1> QED
  BY <1>2, <1>3, <1>4 DEF Ordinal

LEMMA PlannedAre ==
  ASSUME NEW in, NEW size, NEW k
  PROVE  k \in Planned(in, size) <=>
           \E c \in Cells : \E p \in Groups(in, size, c) :
              k = GroupKey(c, Ordinal(Groups(in, size, c), p))
  BY DEF Planned

LEMMA PlannedTyped ==
  ASSUME NEW in \in Inputs, NEW size, NEW k \in Planned(in, size)
  PROVE  /\ k[2] \in Cells /\ ~IsMesh(k) /\ ShardOf(k) \in Shards
         /\ Members(in, size, k) \subseteq Candidates(in, size, k[2])
         /\ Cardinality(Candidates(in, size, k[2])) > 1
<1>1. PICK c \in Cells : \E p \in Groups(in, size, c) :
        k = <<"group", c, Ordinal(Groups(in, size, c), p)>>
  BY PlannedAre DEF GroupKey
<1>2. PICK p \in Groups(in, size, c) : k = <<"group", c, Ordinal(Groups(in, size, c), p)>>
  BY <1>1
<1>3. k[1] = "group" /\ k[2] = c /\ k[3] \in 1..MaxSpot
  BY <1>2, OrdinalTyped
<1>4. ShardOf(k) \in Shards
  <2>1. <<c, k[3]>> \in Cells \X (1..MaxSpot)
    BY <1>3
  <2> QED
    BY <1>3, <2>1, ShardsAssumption DEF ShardOf, IsMesh
<1>5. Cardinality(Candidates(in, size, c)) > 1
  <2> DEFINE T == Candidates(in, size, c)
             S == {r \in T : r.spot = p}
  <2>1. Cardinality(S) > 1
    BY <1>2 DEF Groups
  <2>2. IsFiniteSet(T) /\ S \subseteq T
    BY CandidatesTyped
  <2>3. Cardinality(S) <= Cardinality(T) /\ IsFiniteSet(S)
    BY <2>2, FS_Subset
  <2>4. Cardinality(S) \in Nat /\ Cardinality(T) \in Nat
    BY <2>2, <2>3, FS_CardinalityType
  <2> HIDE DEF S, T
  <2>5. Cardinality(T) > 1
    BY <2>1, <2>3, <2>4
  <2> QED
    BY <2>5 DEF T
<1> QED
  BY <1>3, <1>4, <1>5 DEF Members, IsMesh

(* Where a group is planned, the cell has a merge unit.                    *)
LEMMA MergeUnitDomain ==
  ASSUME NEW in, NEW c
  PROVE  /\ c \in DOMAIN MergeUnit(in) <=>
              c \in Cells /\ Cardinality(Candidates(in, RawSize(in), c)) > 1
         /\ c \in DOMAIN MergeUnit(in) =>
              MergeUnit(in)[c] =
                <<Ground(in, c), {<<r, in.look[r.mesh]>> : r \in Candidates(in, RawSize(in), c)}>>
  BY DEF MergeUnit

LEMMA PlannedHasUnit ==
  ASSUME NEW in \in Inputs, NEW k \in Planned(in, FitSize(in)), k[2] \notin Uncovered(in)
  PROVE  k[2] \in DOMAIN MergeUnit(in)
<1> DEFINE S == Candidates(in, FitSize(in), k[2])
           T == Candidates(in, RawSize(in), k[2])
<1>1. Cardinality(S) > 1 /\ k[2] \in Cells
  BY PlannedTyped
<1>2. S \subseteq T /\ IsFiniteSet(T)
  BY <1>1, CandidatesShrink, CandidatesTyped
<1>3. Cardinality(S) <= Cardinality(T) /\ IsFiniteSet(S)
  BY <1>2, FS_Subset
<1>4. Cardinality(S) \in Nat /\ Cardinality(T) \in Nat
  BY <1>2, <1>3, FS_CardinalityType
<1>5. k[2] \in DOMAIN MergeUnit(in) <=> Cardinality(T) > 1
  BY <1>1, MergeUnitDomain
<1> HIDE DEF S, T
<1> QED
  BY <1>1, <1>3, <1>4, <1>5

-----------------------------------------------------------------------------
(* What a rebuild leaves.                                                  *)

LEMMA KeysTyped ==
  ASSUME NEW in \in Inputs, NEW k \in Keys(in)
  PROVE  /\ ShardOf(k) \in Shards
         /\ IsMesh(k) => /\ k = MeshKey(k[2]) /\ k[2] \in Loaded(in)
                         /\ k[2] \in Referenced(in, FitSize(in))
         /\ ~IsMesh(k) => k \in Built(in, FitSize(in), Cells, Kept(FitSize(in)))
<1>1. CASE k \in Built(in, FitSize(in), Cells, Kept(FitSize(in)))
  <2>1. k \in Planned(in, FitSize(in))
    BY <1>1 DEF Built
  <2> QED
    BY <1>1, <2>1, PlannedTyped
<1>2. CASE k \notin Built(in, FitSize(in), Cells, Kept(FitSize(in)))
  <2>1. PICK m \in Referenced(in, FitSize(in)) : k = MeshKey(m)
    BY <1>2 DEF Keys
  <2>2. m \in Loaded(in)
    BY <2>1 DEF Referenced, Kept, FitSize
  <2>3. k = <<"mesh", m>> /\ k[1] = "mesh" /\ k[2] = m /\ m \in Meshes
    BY <2>1, <2>2, LoadedTyped DEF MeshKey
  <2> QED
    BY <2>1, <2>2, <2>3, ShardsAssumption DEF ShardOf, IsMesh
<1> QED
  BY <1>1, <1>2

LEMMA MeshKeyIn ==
  ASSUME NEW in \in Inputs, NEW m
  PROVE  /\ MeshKey(m) \in Keys(in) <=> m \in Referenced(in, FitSize(in))
         /\ IsMesh(MeshKey(m)) /\ MeshKey(m)[2] = m
<1>1. IsMesh(MeshKey(m)) /\ MeshKey(m)[2] = m
  BY DEF MeshKey, IsMesh
<1>2. ASSUME MeshKey(m) \in Keys(in)
      PROVE  m \in Referenced(in, FitSize(in))
  BY <1>1, <1>2, KeysTyped
<1> QED
  BY <1>1, <1>2 DEF Keys

LEMMA RebuiltIs ==
  ASSUME NEW in
  PROVE  /\ Rebuilt(in).shards =
              [s \in Shards |-> Packed(in, FitSize(in), InShard(Keys(in), s))]
         /\ Rebuilt(in).usage = Placements(in, FitSize(in), Keys(in))
         /\ \A s \in Shards : DOMAIN Rebuilt(in).shards[s] = InShard(Keys(in), s)
         /\ \A s \in Shards : \A k \in InShard(Keys(in), s) :
               Rebuilt(in).shards[s][k] = Record(in, FitSize(in), k)
<1>1. /\ Rebuilt(in).shards =
            [s \in Shards |-> Packed(in, FitSize(in), InShard(Keys(in), s))]
      /\ Rebuilt(in).usage = Placements(in, FitSize(in), Keys(in))
  BY DEF Rebuilt, Keys
<1> QED
  BY <1>1 DEF Packed

(* Every key is in the shard it is assigned to; so shards that agree with  *)
(* a rebuild hold its keys, and the placements they give are its own.      *)
LEMMA RebuiltKeys ==
  ASSUME NEW in \in Inputs, NEW stale, NEW shards, Agree(shards, in, stale)
  PROVE  /\ \A k : Fresher(k, stale) => (k \in KeysIn(shards) <=> k \in Keys(in))
         /\ KeysOf(Recorded(in, shards)) = KeysIn(shards)
         /\ PlacedRight(Placements(in, FitSize(in), KeysIn(shards)), in, stale)
<1>1. \A k \in Keys(in) : \E s \in Shards : k \in InShard(Keys(in), s)
  BY KeysTyped DEF InShard
<1>2. ASSUME NEW k, Fresher(k, stale)
      PROVE  k \in KeysIn(shards) <=> k \in Keys(in)
  <2>1. \A s \in Shards : k \in DOMAIN shards[s] <=> k \in InShard(Keys(in), s)
    BY <1>2 DEF Agree
  <2>2. k \in KeysIn(shards) <=> \E s \in Shards : k \in DOMAIN shards[s]
    BY DEF KeysIn
  <2>3. k \in Keys(in) <=> \E s \in Shards : k \in InShard(Keys(in), s)
    BY <1>1 DEF InShard
  <2> QED
    BY <2>1, <2>2, <2>3
<1>3. KeysOf(Recorded(in, shards)) = KeysIn(shards)
  BY DEF KeysOf, KeysIn, Recorded, Database
<1>4. PlacedRight(Placements(in, FitSize(in), KeysIn(shards)), in, stale)
  <2>1. Rebuilt(in).usage = Placements(in, FitSize(in), Keys(in))
    BY RebuiltIs
  <2>2. \A m : MeshKey(m) \in KeysIn(shards) <=> MeshKey(m) \in Keys(in)
    BY <1>2, MeshKeyIn DEF Fresher
  <2> QED
    BY <1>2, <2>1, <2>2 DEF PlacedRight, Placements
<1> QED
  BY <1>2, <1>3, <1>4

(* A rebuild agrees with itself, whatever is left out.                     *)
LEMMA RebuiltAgrees ==
  ASSUME NEW in \in Inputs, NEW stale
  PROVE  Agree(Rebuilt(in).shards, in, stale)
<1> DEFINE shards == Rebuilt(in).shards
<1>1. shards = [s \in Shards |-> shards[s]]
  BY RebuiltIs
<1>2. \A s \in Shards : DOMAIN shards[s] = InShard(Keys(in), s)
  BY RebuiltIs
<1>3. \A s \in Shards : \A k \in InShard(Keys(in), s) : shards[s][k] = Record(in, FitSize(in), k)
  BY RebuiltIs
<1> HIDE DEF shards
<1>4. \A s \in Shards : \A k \in DOMAIN shards[s] : ShardOf(k) = s
  BY <1>2 DEF InShard
<1>5. Agree(shards, in, stale)
  BY <1>1, <1>2, <1>3, <1>4 DEF Agree
<1> QED
  BY <1>5 DEF shards

LEMMA FullIsRebuilt ==
  ASSUME NEW in
  PROVE  Full(in, FitSize(in), Kept(FitSize(in))) = Rebuilt(in).shards
  BY DEF Full, Rebuilt

LEMMA RecordedFields ==
  ASSUME NEW in, NEW d
  PROVE  /\ Recorded(in, d).mesh = MeshUnit(in) /\ Recorded(in, d).merge = MergeUnit(in)
         /\ Recorded(in, d).textures = TextureToMesh(in) /\ Recorded(in, d).bind = Bindings(in)
         /\ Recorded(in, d).bounds = Bounds(FitSize(in))
         /\ Recorded(in, d).shards = d /\ Recorded(in, d).refs = in.refs
         /\ Recorded(in, d) # NoState
  BY DEF Recorded, Database, NoState

-----------------------------------------------------------------------------
(* Owners the diff leaves clean.                                           *)

(* A mesh that is not dirty was loaded, and looks as it did.               *)
LEMMA CleanMesh ==
  ASSUME NEW in \in Inputs, NEW o \in Inputs, NEW d,
         NEW m \in Loaded(in), m \notin DirtyMeshes(in, Recorded(o, d))
  PROVE  m \in Loaded(o) /\ in.look[m] = o.look[m]
<1>1. m \in Units(in)
  BY DEF Loaded
<1>2. m \in Units(o) /\ MeshUnit(o)[m] = MeshUnit(in)[m]
  BY <1>1, RecordedFields DEF DirtyMeshes, Gone, Differs, MeshUnit
<1> QED
  BY <1>1, <1>2 DEF MeshUnit, Loaded

(* So is its place in the atlas, for bindings come and go only with the    *)
(* meshes that use them.                                                   *)
LEMMA CleanSurface ==
  ASSUME NEW in \in Inputs, NEW o \in Inputs, NEW d, BindingsExplained(in, Recorded(o, d)),
         NEW m \in Loaded(in), m \notin DirtyMeshes(in, Recorded(o, d))
  PROVE  Surface(in, m) = Surface(o, m)
<1> DEFINE t == in.look[m].tex
<1>1. m \in Loaded(o) /\ in.look[m] = o.look[m] /\ t \in Textures
  BY CleanMesh, LoadedTyped
<1>2. /\ t \in DOMAIN TextureToMesh(in) /\ m \in TextureToMesh(in)[t]
      /\ t \in DOMAIN TextureToMesh(o) /\ m \in TextureToMesh(o)[t]
  BY <1>1 DEF TextureToMesh
<1>3. /\ t \in DOMAIN Bindings(in) <=> in.page[t] # Unbound
      /\ t \in DOMAIN Bindings(in) => Bindings(in)[t] = in.page[t]
      /\ t \in DOMAIN Bindings(o) <=> o.page[t] # Unbound
      /\ t \in DOMAIN Bindings(o) => Bindings(o)[t] = o.page[t]
  BY <1>2 DEF Bindings, Restrict
<1>4. t \in DOMAIN Bindings(in) <=> t \in DOMAIN Bindings(o)
  <2>1. m \notin RemovedMeshes(in, Recorded(o, d))
    BY RecordedFields DEF RemovedMeshes, Gone, MeshUnit, Loaded
  <2>2. t \in Gone(Bindings(in), Bindings(o)) => m \in DirtyMeshes(in, Recorded(o, d))
    BY <1>2, RecordedFields DEF BindingsExplained
  <2>3. t \in Gone(Bindings(o), Bindings(in)) => m \in DirtyMeshes(in, Recorded(o, d))
    BY <1>2, <2>1, RecordedFields DEF BindingsExplained
  <2> QED
    BY <2>2, <2>3 DEF Gone
<1>5. t \in DOMAIN Bindings(in) => in.page[t] = o.page[t]
  <2>1. t \notin Differs(Bindings(o), Bindings(in))
    BY <1>2, RecordedFields DEF DirtyMeshes
  <2> QED
    BY <1>3, <1>4, <2>1 DEF Differs
<1> QED
  BY <1>1, <1>4, <1>5 DEF Surface

(* A cell with a merge unit that is not dirty: the unit is the old one.    *)
LEMMA CleanCell ==
  ASSUME NEW in \in Inputs, NEW o \in Inputs, NEW d, NEW c,
         c \in DOMAIN MergeUnit(in) \/ c \in DOMAIN MergeUnit(o),
         c \notin DirtyCells(in, Recorded(o, d)) \cup RemovedCells(in, Recorded(o, d))
  PROVE  /\ c \in DOMAIN MergeUnit(in) /\ c \in DOMAIN MergeUnit(o)
         /\ MergeUnit(in)[c] = MergeUnit(o)[c]
         /\ \A r \in Candidates(in, RawSize(in), c) : r.mesh \notin DirtyMeshes(in, Recorded(o, d))
<1>1. /\ c \in DOMAIN MergeUnit(in) /\ c \in DOMAIN MergeUnit(o)
      /\ MergeUnit(in)[c] = MergeUnit(o)[c]
  BY RecordedFields DEF DirtyCells, RemovedCells, Gone, Differs
<1>2. ASSUME NEW r \in Candidates(in, RawSize(in), c), r.mesh \in DirtyMeshes(in, Recorded(o, d))
      PROVE  FALSE
  <2>1. c \in MeshToMerge(in, r.mesh)
    BY <1>1 DEF MeshToMerge
  <2> QED
    BY <1>2, <2>1 DEF DirtyCells
<1> QED
  BY <1>1, <1>2

(* Two inputs with the same merge unit plan the same groups in that cell,  *)
(* on the same ground.                                                     *)
LEMMA SameCell ==
  ASSUME NEW in \in Inputs, NEW o \in Inputs,
         NEW c \in Cells, c \in DOMAIN MergeUnit(in), c \in DOMAIN MergeUnit(o),
         MergeUnit(in)[c] = MergeUnit(o)[c], c \notin Uncovered(in) \cup Uncovered(o)
  PROVE  /\ Ground(in, c) = Ground(o, c) /\ (c \in in.high <=> c \in o.high)
         /\ Candidates(in, FitSize(in), c) = Candidates(o, FitSize(o), c)
         /\ \A r \in Candidates(in, FitSize(in), c) : in.look[r.mesh] = o.look[r.mesh]
<1> DEFINE A == Candidates(in, RawSize(in), c)
           B == Candidates(o, RawSize(o), c)
<1>1. /\ Ground(in, c) = Ground(o, c)
      /\ {<<r, in.look[r.mesh]>> : r \in A} = {<<r, o.look[r.mesh]>> : r \in B}
  BY MergeUnitDomain
<1>2. A = B /\ \A r \in A : in.look[r.mesh] = o.look[r.mesh]
  <2> HIDE DEF A, B
  <2>1. \A r \in A : \E q \in B : <<r, in.look[r.mesh]>> = <<q, o.look[q.mesh]>>
    BY <1>1
  <2>2. \A r \in B : \E q \in A : <<r, o.look[r.mesh]>> = <<q, in.look[q.mesh]>>
    BY <1>1
  <2>3. \A r \in A : r \in B /\ in.look[r.mesh] = o.look[r.mesh]
    BY <2>1
  <2>4. \A r \in B : r \in A
    BY <2>2
  <2> QED
    BY <2>3, <2>4
<1>3. c \in in.high <=> c \in o.high
  <2>1. /\ c \in in.high <=> c \in Ground(in, c)
        /\ c \in o.high <=> c \in Ground(o, c)
    BY DEF Ground
  <2>2. Ground(in, c) = Ground(o, c)
    BY <1>1
  <2> QED
    BY <2>1, <2>2, Zenon
<1>4. /\ Candidates(in, FitSize(in), c) = {r \in A : in.look[r.mesh].fit = 2}
      /\ Candidates(o, FitSize(o), c) = {r \in B : o.look[r.mesh].fit = 2}
  BY CandidatesShrink
<1> HIDE DEF A, B
<1> QED
  BY <1>1, <1>2, <1>3, <1>4

-----------------------------------------------------------------------------
(* Groups of a clean cell.                                                 *)

(* With the same candidates a group has the same number and members.       *)
LEMMA SameGroups ==
  ASSUME NEW in \in Inputs, NEW o \in Inputs, NEW k, NEW c \in Cells,
         Candidates(in, FitSize(in), c) = Candidates(o, FitSize(o), c), k[2] = c
  PROVE  /\ k \in Planned(in, FitSize(in)) <=> k \in Planned(o, FitSize(o))
         /\ Members(in, FitSize(in), k) = Members(o, FitSize(o), k)
<1>1. Groups(in, FitSize(in), c) = Groups(o, FitSize(o), c)
  BY DEF Groups
<1>2. ASSUME NEW i \in Inputs
      PROVE  k \in Planned(i, FitSize(i)) <=>
               \E p \in Groups(i, FitSize(i), c) : k = GroupKey(c, Ordinal(Groups(i, FitSize(i), c), p))
  <2>1. ASSUME k \in Planned(i, FitSize(i))
        PROVE  \E p \in Groups(i, FitSize(i), c) : k = GroupKey(c, Ordinal(Groups(i, FitSize(i), c), p))
    <3>1. PICK d \in Cells : \E p \in Groups(i, FitSize(i), d) :
                               k = GroupKey(d, Ordinal(Groups(i, FitSize(i), d), p))
      BY <2>1, PlannedAre
    <3>2. d = c
      BY <3>1 DEF GroupKey
    <3> QED
      BY <3>1, <3>2
  <2> QED
    BY <2>1, PlannedAre
<1>3. k \in Planned(in, FitSize(in)) <=> k \in Planned(o, FitSize(o))
  BY <1>1, <1>2
<1> QED
  BY <1>1, <1>3 DEF Members

(* Every mesh of a planned group is large enough to be kept.               *)
LEMMA CandidatesKept ==
  ASSUME NEW in \in Inputs, NEW c, NEW r \in Candidates(in, FitSize(in), c)
  PROVE  /\ r.mesh \in Kept(FitSize(in)) /\ r.mesh \in Loaded(in)
         /\ c \in Cells /\ c \notin Uncovered(in) => r \in Candidates(in, RawSize(in), c)
<1>1. r.mesh \in Loaded(in) /\ FitSize(in)[r.mesh] = 2 /\ r.mesh \in DOMAIN FitSize(in)
  BY DEF Candidates, FitSize
<1>2. c \in Cells /\ c \notin Uncovered(in) => r \in Candidates(in, RawSize(in), c)
  BY CandidatesShrink
<1> QED
  BY <1>1, <1>2 DEF Kept

LEMMA BuiltAre ==
  ASSUME NEW in \in Inputs, NEW cells, NEW k
  PROVE  k \in Built(in, FitSize(in), cells, Kept(FitSize(in))) <=>
           k \in Planned(in, FitSize(in)) /\ k[2] \in cells /\ k[2] \notin in.high
<1>1. ASSUME k \in Planned(in, FitSize(in)), NEW r \in Members(in, FitSize(in), k)
      PROVE  r.mesh \in Kept(FitSize(in))
  BY <1>1, PlannedTyped, CandidatesKept
<1> QED
  BY <1>1 DEF Built

(* A group of a clean cell is one of the new rebuild iff it was one of the *)
(* old rebuild, and it is the same group.                                  *)
LEMMA CleanGroup ==
  ASSUME NEW in \in Inputs, NEW o \in Inputs, NEW d, BindingsExplained(in, Recorded(o, d)), NEW k,
         ~IsMesh(k), ~OwnerIsDirty(in, Recorded(o, d), k), k[2] \notin Uncovered(in) \cup Uncovered(o)
  PROVE  /\ k \in Keys(in) <=> k \in Keys(o)
         /\ k \in Keys(in) => Record(in, FitSize(in), k) = Record(o, FitSize(o), k)
<1>1. ASSUME NEW i \in Inputs
      PROVE  k \in Keys(i) <=> k \in Planned(i, FitSize(i)) /\ k[2] \notin i.high
  <2>1. k \in Keys(i) <=> k \in Built(i, FitSize(i), Cells, Kept(FitSize(i)))
    BY KeysTyped DEF Keys
  <2> QED
    BY <2>1, BuiltAre, PlannedTyped
<1>2. k[2] \notin DirtyCells(in, Recorded(o, d)) \cup RemovedCells(in, Recorded(o, d))
  BY DEF OwnerIsDirty
<1>3. SUFFICES ASSUME k \in Keys(in) \/ k \in Keys(o)
               PROVE  /\ k \in Keys(in) /\ k \in Keys(o)
                      /\ Record(in, FitSize(in), k) = Record(o, FitSize(o), k)
  OBVIOUS
<1>4. k[2] \in Cells /\ (k[2] \in DOMAIN MergeUnit(in) \/ k[2] \in DOMAIN MergeUnit(o))
  BY <1>1, <1>3, PlannedHasUnit, PlannedTyped
<1>5. /\ k[2] \in DOMAIN MergeUnit(in) /\ k[2] \in DOMAIN MergeUnit(o)
      /\ MergeUnit(in)[k[2]] = MergeUnit(o)[k[2]]
      /\ \A r \in Candidates(in, RawSize(in), k[2]) : r.mesh \notin DirtyMeshes(in, Recorded(o, d))
  BY <1>2, <1>4, CleanCell
<1>6. /\ Ground(in, k[2]) = Ground(o, k[2]) /\ (k[2] \in in.high <=> k[2] \in o.high)
      /\ Candidates(in, FitSize(in), k[2]) = Candidates(o, FitSize(o), k[2])
  BY <1>4, <1>5, SameCell
<1>7. /\ k \in Planned(in, FitSize(in)) <=> k \in Planned(o, FitSize(o))
      /\ Members(in, FitSize(in), k) = Members(o, FitSize(o), k)
  BY <1>4, <1>6, SameGroups
<1>8. k \in Keys(in) /\ k \in Keys(o)
  BY <1>1, <1>3, <1>6, <1>7
<1>9. \A r \in Members(in, FitSize(in), k) : Surface(in, r.mesh) = Surface(o, r.mesh)
  <2>1. TAKE r \in Members(in, FitSize(in), k)
  <2>2. r.mesh \in Loaded(in) /\ r \in Candidates(in, RawSize(in), k[2])
    BY <1>1, <1>4, <1>8, PlannedTyped, CandidatesKept
  <2>3. r.mesh \notin DirtyMeshes(in, Recorded(o, d))
    BY <1>5, <2>2
  <2> QED
    BY <2>2, <2>3, CleanSurface
<1>10. {<<r, Surface(in, r.mesh)>> : r \in Members(in, FitSize(in), k)} =
       {<<r, Surface(o, r.mesh)>> : r \in Members(o, FitSize(o), k)}
  BY <1>7, <1>9
<1> QED
  BY <1>6, <1>8, <1>10 DEF Record

(* The record of a clean owner that both rebuilds hold is the same.        *)
LEMMA CleanRecord ==
  ASSUME NEW in \in Inputs, NEW o \in Inputs, NEW d, BindingsExplained(in, Recorded(o, d)),
         NEW k \in Keys(in), k \in Keys(o), ~OwnerIsDirty(in, Recorded(o, d), k),
         Fresher(k, Uncovered(in) \cup Uncovered(o))
  PROVE  Record(in, FitSize(in), k) = Record(o, FitSize(o), k)
<1>1. CASE IsMesh(k)
  <2>1. k[2] \in Loaded(in) /\ k[2] \notin DirtyMeshes(in, Recorded(o, d))
    BY <1>1, KeysTyped DEF OwnerIsDirty
  <2> QED
    BY <1>1, <2>1, CleanSurface DEF Record
<1>2. CASE ~IsMesh(k)
  BY <1>2, CleanGroup DEF Fresher
<1> QED
  BY <1>1, <1>2

-----------------------------------------------------------------------------
(* The three ways that reuse something.                                    *)

(* The sizes restored for clean meshes are those simplification would give *)
(* them.                                                                   *)
LEMMA RestoredSizes ==
  ASSUME NEW in \in Inputs, NEW o \in Inputs, NEW d
  PROVE  Sizes(in, Recorded(o, d), ToOptimize(in, Recorded(o, d))) = FitSize(in)
<1> DEFINE keys == ToOptimize(in, Recorded(o, d))
<1>1. ASSUME NEW m \in Loaded(in), m \notin keys
      PROVE  m \in DOMAIN Recorded(o, d).bounds /\ Recorded(o, d).bounds[m] = in.look[m].fit
  <2> DEFINE p == Recorded(o, d)
  <2>1. m \notin ToOptimize(in, p)
    BY <1>1
  <2>2. m \in DOMAIN p.bounds /\ m \notin DirtyMeshes(in, p)
    <3> HIDE DEF p
    <3> QED
      BY <1>1, <2>1 DEF ToOptimize
  <2>3. m \in Loaded(o) /\ in.look[m] = o.look[m]
    BY <2>2, CleanMesh
  <2>4. p.bounds = Bounds(FitSize(o))
    BY RecordedFields
  <2>5. Bounds(FitSize(o))[m] = o.look[m].fit
    BY <2>2, <2>3, <2>4 DEF Bounds, Restrict, FitSize, Kept
  <2> QED
    BY <2>2, <2>3, <2>4, <2>5
<1>2. \A m \in Loaded(in) :
         (IF m \in keys THEN in.look[m].fit
          ELSE IF m \in DOMAIN Recorded(o, d).bounds THEN Recorded(o, d).bounds[m] ELSE in.look[m].raw)
            = in.look[m].fit
  BY <1>1
<1> HIDE DEF keys
<1>3. Sizes(in, Recorded(o, d), keys) = FitSize(in)
  BY <1>2 DEF Sizes, FitSize
<1> QED
  BY <1>3 DEF keys

(* The bundle is kept only for an input with the same meshes, and with the *)
(* same groups where its units cover them.                                 *)
LEMMA SameMeshes ==
  ASSUME NEW in \in Inputs, NEW o \in Inputs, in.refs = o.refs, MeshUnit(in) = MeshUnit(o)
  PROVE  /\ Units(in) = Units(o) /\ Loaded(in) = Loaded(o)
         /\ \A m \in Units(in) : in.look[m] = o.look[m]
         /\ FitSize(in) = FitSize(o) /\ TextureToMesh(in) = TextureToMesh(o)
<1>1. Units(in) = Units(o)
  BY DEF Units, PlacedIn
<1>2. \A m \in Units(in) : MeshUnit(in)[m] = in.look[m] /\ MeshUnit(o)[m] = o.look[m]
  BY <1>1 DEF MeshUnit
<1>3. \A m \in Units(in) : in.look[m] = o.look[m]
  BY <1>2
<1>4. Loaded(in) = Loaded(o) /\ \A m \in Loaded(in) : in.look[m] = o.look[m]
  BY <1>1, <1>3 DEF Loaded
<1>5. FitSize(in) = FitSize(o)
  BY <1>4 DEF FitSize
<1>6. TextureToMesh(in) = TextureToMesh(o)
  <2> DEFINE L == Loaded(in)
             a == in.look
             b == o.look
  <2>1. /\ TextureToMesh(in) = [t \in {a[m].tex : m \in L} |-> {m \in L : a[m].tex = t}]
        /\ TextureToMesh(o) = [t \in {b[m].tex : m \in L} |-> {m \in L : b[m].tex = t}]
        /\ \A m \in L : a[m] = b[m]
    BY <1>4 DEF TextureToMesh
  <2> HIDE DEF L, a, b
  <2>2. {a[m].tex : m \in L} = {b[m].tex : m \in L}
    BY <2>1
  <2>3. \A t : {m \in L : a[m].tex = t} = {m \in L : b[m].tex = t}
    BY <2>1
  <2> QED
    BY <2>1, <2>2, <2>3
<1> QED
  BY <1>1, <1>3, <1>4, <1>5, <1>6

LEMMA BundleIsRebuilt ==
  ASSUME NEW in \in Inputs, NEW o \in Inputs, NEW d, BundleHit(in, Recorded(o, d)), NEW k,
         Fresher(k, Uncovered(in) \cup Uncovered(o))
  PROVE  /\ k \in Keys(in) <=> k \in Keys(o)
         /\ k \in Keys(in) => Record(in, FitSize(in), k) = Record(o, FitSize(o), k)
<1>1. /\ in.refs = o.refs /\ MeshUnit(in) = MeshUnit(o)
      /\ MergeUnit(in) = MergeUnit(o) /\ Bindings(in) = Bindings(o)
  BY RecordedFields DEF BundleHit, Domain
<1>2. /\ Loaded(in) = Loaded(o) /\ FitSize(in) = FitSize(o) /\ TextureToMesh(in) = TextureToMesh(o)
      /\ \A m \in Loaded(in) : in.look[m] = o.look[m]
  BY <1>1, SameMeshes DEF Loaded
<1> DEFINE size == FitSize(in)
<1>3. \A c : Candidates(in, size, c) = Candidates(o, size, c)
  BY <1>1 DEF Candidates
<1>4. \A c : Groups(in, size, c) = Groups(o, size, c)
  <2>1. TAKE c
  <2>2. Candidates(in, size, c) = Candidates(o, size, c)
    BY <1>3
  <2> QED
    BY <2>2 DEF Groups
<1>5. Planned(in, size) = Planned(o, size)
  BY <1>4 DEF Planned
<1>6. \A g : Members(in, size, g) = Members(o, size, g)
  BY <1>3, <1>4 DEF Members
<1>7. Swallowed(in, size) = Swallowed(o, size)
  <2>1. {Members(in, size, g) : g \in Planned(in, size)} = {Members(o, size, g) : g \in Planned(o, size)}
    BY <1>5, <1>6
  <2> QED
    BY <2>1 DEF Swallowed
<1>8. Referenced(in, size) = Referenced(o, size)
  BY <1>1, <1>7 DEF Referenced, PlacedIn
<1>9. k \in Planned(in, size) => Ground(in, k[2]) = Ground(o, k[2]) /\ (k[2] \in in.high <=> k[2] \in o.high)
  <2>1. SUFFICES ASSUME k \in Planned(in, size)
                 PROVE  Ground(in, k[2]) = Ground(o, k[2]) /\ (k[2] \in in.high <=> k[2] \in o.high)
    OBVIOUS
  <2>2. k[2] \in Cells /\ k[2] \notin Uncovered(in) \cup Uncovered(o)
    BY <2>1, PlannedTyped DEF Fresher
  <2>3. k[2] \in DOMAIN MergeUnit(in)
    BY <2>1, <2>2, PlannedHasUnit
  <2> QED
    BY <1>1, <2>2, <2>3, SameCell
<1>10. k \in Built(in, size, Cells, Kept(size)) <=> k \in Built(o, size, Cells, Kept(size))
  <2>1. Members(in, size, k) = Members(o, size, k)
    BY <1>6
  <2>2. k \in Planned(in, size) <=> k \in Planned(o, size)
    BY <1>5
  <2> QED
    BY <1>9, <2>1, <2>2 DEF Built
<1>11. k \in Keys(in) <=> k \in Keys(o)
  BY <1>2, <1>8, <1>10 DEF Keys
<1>12. \A m \in Loaded(in) : Surface(in, m) = Surface(o, m)
  <2>1. TAKE m \in Loaded(in)
  <2>2. in.look[m] = o.look[m]
    BY <1>2
  <2>3. in.look[m].tex \in DOMAIN Bindings(in) => in.page[in.look[m].tex] = o.page[in.look[m].tex]
    <3>1. ASSUME NEW t \in DOMAIN Bindings(in)
          PROVE  in.page[t] = o.page[t]
      <4>1. Bindings(in)[t] = in.page[t] /\ Bindings(o)[t] = o.page[t]
        BY <1>1, <3>1 DEF Bindings, Restrict
      <4> QED
        BY <1>1, <4>1
    <3> QED
      BY <3>1
  <2> QED
    BY <1>1, <2>2, <2>3 DEF Surface
<1>13. k \in Keys(in) => Record(in, size, k) = Record(o, size, k)
  <2>1. SUFFICES ASSUME k \in Keys(in)
                 PROVE  Record(in, size, k) = Record(o, size, k)
    OBVIOUS
  <2>2. CASE IsMesh(k)
    BY <1>12, <2>1, <2>2, KeysTyped DEF Record
  <2>3. CASE ~IsMesh(k)
    <3>1. k \in Planned(in, size)
      BY <2>1, <2>3, KeysTyped DEF Built
    <3>2. \A r \in Members(in, size, k) : Surface(in, r.mesh) = Surface(o, r.mesh)
      BY <1>12, <3>1, PlannedTyped, CandidatesKept
    <3>3. {<<r, Surface(in, r.mesh)>> : r \in Members(in, size, k)} =
          {<<r, Surface(o, r.mesh)>> : r \in Members(o, size, k)}
      BY <1>6, <3>2
    <3> QED
      BY <1>9, <2>3, <3>1, <3>3 DEF Record
  <2> QED
    BY <2>2, <2>3
<1> QED
  BY <1>2, <1>11, <1>13

(* A bundle is kept when nothing is dirty.                                 *)
LEMMA NothingDirty ==
  ASSUME NEW in \in Inputs, NEW o \in Inputs, NEW d, BundleHit(in, Recorded(o, d))
  PROVE  DirtyCells(in, Recorded(o, d)) = {}
<1> DEFINE p == Recorded(o, d)
<1>1. /\ MeshUnit(in) = p.mesh /\ MergeUnit(in) = p.merge /\ Bindings(in) = p.bind
  BY DEF BundleHit, Domain
<1> HIDE DEF p
<1>2. DirtyMeshes(in, p) = {}
  BY <1>1 DEF DirtyMeshes, Gone, Differs
<1>3. DirtyCells(in, p) = {}
  BY <1>1, <1>2 DEF DirtyCells, Gone, Differs
<1> QED
  BY <1>3 DEF p

(* So the shards and the placements on the disk serve the new input.       *)
LEMMA BundleAgrees ==
  ASSUME NEW in \in Inputs, NEW o \in Inputs, NEW d, NEW placed, NEW before, NEW stale,
         BundleHit(in, Recorded(o, d)), Agree(d, o, before), PlacedRight(placed, o, before),
         before \cup Uncovered(in) \cup Uncovered(o) \subseteq stale
  PROVE  /\ Agree(d, in, stale) /\ PlacedRight(placed, in, stale)
         /\ Recorded(in, d) = Recorded(o, d)
<1>1. \A k : Fresher(k, stale) => Fresher(k, before) /\ Fresher(k, Uncovered(in) \cup Uncovered(o))
  BY DEF Fresher
<1>2. \A k : Fresher(k, stale) =>
        /\ k \in Keys(in) <=> k \in Keys(o)
        /\ k \in Keys(in) => Record(in, FitSize(in), k) = Record(o, FitSize(o), k)
  BY <1>1, BundleIsRebuilt
<1>3. Agree(d, in, stale)
  <2>1. ASSUME NEW s \in Shards, NEW k, Fresher(k, stale)
        PROVE  /\ k \in DOMAIN d[s] <=> k \in InShard(Keys(in), s)
               /\ k \in DOMAIN d[s] => d[s][k] = Record(in, FitSize(in), k)
    <3>1. /\ k \in DOMAIN d[s] <=> k \in InShard(Keys(o), s)
          /\ k \in DOMAIN d[s] => d[s][k] = Record(o, FitSize(o), k)
      BY <1>1, <2>1 DEF Agree
    <3>2. k \in InShard(Keys(in), s) <=> k \in InShard(Keys(o), s)
      BY <1>2, <2>1 DEF InShard
    <3>3. k \in InShard(Keys(in), s) => k \in Keys(in)
      BY DEF InShard
    <3> QED
      BY <1>2, <2>1, <3>1, <3>2, <3>3
  <2> QED
    BY <2>1 DEF Agree
<1>4. /\ in.refs = o.refs /\ MeshUnit(in) = MeshUnit(o)
      /\ MergeUnit(in) = MergeUnit(o) /\ Bindings(in) = Bindings(o)
  BY RecordedFields DEF BundleHit, Domain
<1>5. FitSize(in) = FitSize(o) /\ TextureToMesh(in) = TextureToMesh(o)
  BY <1>4, SameMeshes
<1>6. Recorded(in, d) = Recorded(o, d)
  BY <1>4, <1>5 DEF Recorded, Database
<1>7. PlacedRight(placed, in, stale)
  <2> DEFINE size == FitSize(in)
  <2>1. \A c : Candidates(in, size, c) = Candidates(o, size, c)
    BY <1>4 DEF Candidates
  <2>2. \A c : Groups(in, size, c) = Groups(o, size, c)
    <3>1. TAKE c
    <3>2. Candidates(in, size, c) = Candidates(o, size, c)
      BY <2>1
    <3> QED
      BY <3>2 DEF Groups
  <2>3. Planned(in, size) = Planned(o, size)
    BY <2>2 DEF Planned
  <2>4. \A k : Members(in, size, k) = Members(o, size, k)
    BY <2>1, <2>2 DEF Members
  <2>5. {Members(in, size, k) : k \in Planned(in, size)} = {Members(o, size, k) : k \in Planned(o, size)}
    BY <2>3, <2>4
  <2>6. Swallowed(in, size) = Swallowed(o, size)
    BY <2>5 DEF Swallowed
  <2>7. \A m : MeshKey(m) \in Keys(in) <=> MeshKey(m) \in Keys(o)
    BY <1>2, MeshKeyIn DEF Fresher
  <2>8. /\ Rebuilt(in).usage = Placements(in, size, Keys(in))
        /\ Rebuilt(o).usage = Placements(o, size, Keys(o))
    BY <1>5, RebuiltIs
  <2>9. Rebuilt(in).usage.own = Rebuilt(o).usage.own
    BY <1>4, <2>6, <2>7, <2>8 DEF Placements
  <2>10. \A k : Fresher(k, stale) => (k \in Rebuilt(in).usage.groups <=> k \in Rebuilt(o).usage.groups)
    BY <1>2, <2>3, <2>8 DEF Placements
  <2> QED
    BY <1>1, <2>9, <2>10 DEF PlacedRight
<1> QED
  BY <1>3, <1>6, <1>7

(* The cells whose groups a run that reuses may leave out of date.         *)
Left(in, o, p, before) == (before \cup Uncovered(o) \cup Uncovered(in)) \ DirtyCells(in, p)

(* Spliced shards hold the assembly, and that is the keys of a rebuild:    *)
(* what is not built anew is clean.                                        *)
LEMMA AssemblyIsRebuilt ==
  ASSUME NEW in \in Inputs, NEW o \in Inputs, NEW d, NEW before, Agree(d, o, before),
         BindingsExplained(in, Recorded(o, d)), NEW k, Fresher(k, Left(in, o, Recorded(o, d), before))
  PROVE  /\ k \in Assembly(in, Recorded(o, d), FitSize(in)) <=> k \in Keys(in)
         /\ ~OwnerIsDirty(in, Recorded(o, d), k) => Fresher(k, before \cup Uncovered(in) \cup Uncovered(o))
<1> DEFINE p == Recorded(o, d)
           dirty == Built(in, FitSize(in), DirtyCells(in, p), Kept(FitSize(in)))
           all == Built(in, FitSize(in), Cells, Kept(FitSize(in)))
<1>1. DirtyCells(in, p) \cap RemovedCells(in, p) = {} /\ DirtyCells(in, p) \subseteq Cells
  BY RecordedFields, MergeUnitDomain DEF DirtyCells, RemovedCells, Gone, Differs, MeshToMerge
<1>2. \A x \in dirty \cup all \cup CleanGroups(in, p) : ~IsMesh(x)
  BY PlannedTyped DEF Built, CleanGroups
<1>3. CASE IsMesh(k)
  <2>1. k \in Assembly(in, p, FitSize(in)) <=> k \in {MeshKey(m) : m \in Referenced(in, FitSize(in))}
    BY <1>2, <1>3 DEF Assembly
  <2>2. k \in Keys(in) <=> k \in {MeshKey(m) : m \in Referenced(in, FitSize(in))}
    BY <1>2, <1>3 DEF Keys
  <2> QED
    BY <1>3, <2>1, <2>2 DEF Fresher
<1>4. CASE ~IsMesh(k)
  <2>1. \A m : k # MeshKey(m)
    BY <1>4, MeshKeyIn
  <2>2. k \in Assembly(in, p, FitSize(in)) <=> k \in dirty \/ k \in CleanGroups(in, p)
    BY <2>1 DEF Assembly
  <2>3. k \in Keys(in) <=> k \in all
    BY <2>1 DEF Keys
  <2>4. CASE k[2] \in DirtyCells(in, p)
    <3>1. OwnerIsDirty(in, p, k)
      BY <1>4, <2>4 DEF OwnerIsDirty
    <3>2. k \notin CleanGroups(in, p)
      BY <3>1 DEF CleanGroups
    <3>3. k \in dirty <=> k \in all
      BY <1>1, <2>4 DEF Built
    <3> QED
      BY <2>2, <2>3, <3>1, <3>2, <3>3
  <2>5. CASE k[2] \notin DirtyCells(in, p)
    <3>1. k[2] \notin before \cup Uncovered(in) \cup Uncovered(o)
      BY <1>4, <2>5 DEF Fresher, Left
    <3>2. Fresher(k, before) /\ Fresher(k, before \cup Uncovered(in) \cup Uncovered(o))
      BY <3>1 DEF Fresher
    <3>3. k \notin dirty
      BY <2>5 DEF Built
    <3>4. k \in CleanGroups(in, p) <=> k \in Keys(o) /\ ~OwnerIsDirty(in, p, k)
      BY <1>4, <3>2, RebuiltKeys DEF CleanGroups
    <3>5. ~OwnerIsDirty(in, p, k) => (k \in Keys(in) <=> k \in Keys(o))
      BY <1>4, <3>1, CleanGroup
    <3>6. ASSUME k \in Keys(in)
          PROVE  ~OwnerIsDirty(in, p, k)
      <4>1. k \in Planned(in, FitSize(in))
        BY <2>3, <3>6 DEF Built
      <4>2. k[2] \in DOMAIN MergeUnit(in)
        BY <3>1, <4>1, PlannedHasUnit
      <4> QED
        BY <1>4, <2>5, <4>2 DEF OwnerIsDirty, RemovedCells, Gone
    <3> QED
      BY <2>2, <3>2, <3>3, <3>4, <3>5, <3>6
  <2> QED
    BY <2>4, <2>5
<1> QED
  BY <1>3, <1>4

LEMMA SplicedAgrees ==
  ASSUME NEW in \in Inputs, NEW o \in Inputs, NEW d, NEW before, Agree(d, o, before),
         BindingsExplained(in, Recorded(o, d)), SpliceFits(in, Recorded(o, d), FitSize(in))
  PROVE  Agree(Spliced(in, Recorded(o, d), FitSize(in)), in, Left(in, o, Recorded(o, d), before))
<1> DEFINE p == Recorded(o, d)
           size == FitSize(in)
           S == Spliced(in, p, size)
           left == Left(in, o, p, before)
<1>1. \A s \in Shards : DOMAIN S[s] = InShard(Assembly(in, p, size), s)
  BY DEF SpliceFits
<1>2. S = [s \in Shards |-> S[s]]
  BY DEF Spliced
<1>3. p.shards = d
  BY RecordedFields
<1>4. ASSUME NEW s \in Shards, NEW k \in DOMAIN d[s], k \in Keys(in), ~OwnerIsDirty(in, p, k), Fresher(k, left)
      PROVE  d[s][k] = Record(in, size, k)
  <2>1. Fresher(k, before \cup Uncovered(in) \cup Uncovered(o))
    BY <1>4, AssemblyIsRebuilt
  <2>2. Fresher(k, before) /\ Fresher(k, Uncovered(in) \cup Uncovered(o))
    BY <2>1 DEF Fresher
  <2>3. k \in InShard(Keys(o), s) /\ d[s][k] = Record(o, FitSize(o), k)
    BY <2>2 DEF Agree
  <2> QED
    BY <1>4, <2>2, <2>3, CleanRecord DEF InShard
<1>5. ASSUME NEW s \in Shards, NEW k, Fresher(k, left)
      PROVE  k \in DOMAIN S[s] <=> k \in InShard(Keys(in), s)
  BY <1>1, <1>5, AssemblyIsRebuilt DEF InShard
<1>6. ASSUME NEW s \in Shards, NEW k \in DOMAIN S[s], Fresher(k, left)
      PROVE  S[s][k] = Record(in, size, k)
  <2> DEFINE old == {x \in DOMAIN p.shards[s] : ~OwnerIsDirty(in, p, x) /\ x \in Assembly(in, p, size)}
             new == InShard(Fresh(in, p, size), s)
  <2>1. k \in Keys(in)
    BY <1>5, <1>6 DEF InShard
  <2>2. CASE s \notin DirtyShards(in, p, size)
    <3>1. S[s] = d[s]
      BY <1>3, <2>2 DEF Spliced
    <3>2. \A x \in DOMAIN p.shards[s] : ~OwnerIsDirty(in, p, x)
      BY <2>2 DEF DirtyShards
    <3>3. k \in DOMAIN d[s] /\ ~OwnerIsDirty(in, p, k)
      BY <1>3, <3>1, <3>2
    <3>4. d[s][k] = Record(in, size, k)
      BY <1>4, <1>6, <2>1, <3>3
    <3> QED
      BY <3>1, <3>4
  <2>3. CASE s \in DirtyShards(in, p, size)
    <3>1. S[s] = [x \in old \cup new |-> IF x \in new THEN Record(in, size, x) ELSE p.shards[s][x]]
      BY <2>3 DEF Spliced
    <3>2. k \in old \cup new
      BY <3>1
    <3>3. ASSUME k \notin new
          PROVE  p.shards[s][k] = Record(in, size, k)
      <4>1. k \in DOMAIN d[s] /\ ~OwnerIsDirty(in, p, k)
        BY <1>3, <3>2, <3>3
      <4>2. d[s][k] = Record(in, size, k)
        BY <1>4, <1>6, <2>1, <4>1
      <4> QED
        BY <1>3, <4>2
    <3> HIDE DEF S, old, new, p, size
    <3> QED
      BY <3>1, <3>2, <3>3
  <2> QED
    BY <2>2, <2>3
<1>7. \A s \in Shards : \A k \in DOMAIN S[s] : ShardOf(k) = s
  BY <1>1 DEF InShard
<1> HIDE DEF S, left
<1>8. Agree(S, in, left)
  BY <1>2, <1>5, <1>6, <1>7 DEF Agree
<1> QED
  BY <1>8 DEF S, left

-----------------------------------------------------------------------------
(* The steps.                                                              *)

(* What a state with a database offers the next run.                       *)
LEMMA SavedIs ==
  ASSUME IInv, saved # NoState
  PROVE  /\ input \in Inputs /\ last.of \in Inputs
         /\ runs > 0 /\ saved = Recorded(last.of, disk)
         /\ Agree(disk, last.of, last.stale) /\ PlacedRight(usage, last.of, last.stale)
         /\ AttemptSize = FitSize(input)
<1>1. /\ input \in Inputs /\ last.of \in Inputs
      /\ runs > 0 /\ saved = Recorded(last.of, disk)
      /\ Agree(disk, last.of, last.stale) /\ PlacedRight(usage, last.of, last.stale)
  BY DEF IInv, TypeOK
<1> QED
  BY <1>1, RestoredSizes DEF AttemptSize

(* A run leaves the shards it made, whatever it carried over.              *)
LEMMA CommitKeeps ==
  ASSUME IInv, runs < MaxRuns, runs' = runs + 1, UNCHANGED <<input, edits>>,
         NEW shards, NEW placed, NEW mayCarry, NEW how \in {"partial", "fallback", "full"},
         Agree(shards, input, Stale(how)), PlacedRight(placed, input, Stale(how)),
         Stale(how) \subseteq Cells, Commit(shards, FitSize(input), placed, mayCarry, how)
  PROVE  IInv'
<1> DEFINE write == {s \in Shards : ~mayCarry \/ saved = NoState \/ saved.shards[s] # shards[s]}
<1>1. /\ disk' = [s \in Shards |-> IF s \in write THEN shards[s] ELSE disk[s]]
      /\ rotten' = rotten \ write
      /\ saved' = Database(input, FitSize(input), shards)
      /\ usage' = placed
      /\ last' = [of |-> input, how |-> how, wrote |-> write, stale |-> Stale(how)]
  BY DEF Commit
<1>2. /\ input \in Inputs /\ edits \in 0..MaxEdits /\ runs \in 0..MaxRuns /\ rotten \subseteq Shards
      /\ MaxRuns \in Nat
  BY BoundsAssumption DEF IInv, TypeOK
<1>3. disk' = shards
  <2>1. ASSUME NEW s \in Shards, s \notin write
        PROVE  disk[s] = shards[s]
    <3>1. saved # NoState /\ saved.shards[s] = shards[s]
      BY <2>1
    <3>2. saved = Recorded(last.of, disk)
      BY <3>1, SavedIs
    <3>3. Recorded(last.of, disk).shards = disk
      BY RecordedFields
    <3> QED
      BY <3>1, <3>2, <3>3
  <2>2. shards = [s \in Shards |-> shards[s]]
    BY DEF Agree
  <2> HIDE DEF write
  <2> QED
    BY <1>1, <2>1, <2>2
<1>4. /\ last'.of = input /\ last'.how = how /\ last'.wrote \subseteq Shards
      /\ last'.stale = Stale(how) /\ last'.stale \subseteq Cells
      /\ input' = input /\ edits' = edits /\ rotten' \subseteq Shards
      /\ runs' \in 0..MaxRuns /\ runs' > 0
  BY <1>1, <1>2
<1>5. \A s \in Shards : \A k \in DOMAIN disk'[s] : ShardOf(k) = s
  BY <1>3 DEF Agree
<1>6. TypeOK'
  BY <1>2, <1>4, <1>5 DEF TypeOK
<1>7. saved' = Recorded(last'.of, disk')
  BY <1>1, <1>3, <1>4 DEF Recorded
<1>8. Agree(disk', last'.of, last'.stale) /\ PlacedRight(usage', last'.of, last'.stale)
  BY <1>1, <1>3, <1>4
<1> QED
  BY <1>2, <1>4, <1>6, <1>7, <1>8 DEF IInv

(* What a rebuild computes agrees with itself.                             *)
LEMMA RebuildKeeps ==
  ASSUME IInv, runs < MaxRuns, runs' = runs + 1, UNCHANGED <<input, edits>>,
         NEW mayCarry, NEW how \in {"fallback", "full"},
         LET shards == Full(input, FitSize(input), Kept(FitSize(input)))
         IN  Commit(shards, FitSize(input), Placements(input, FitSize(input), KeysIn(shards)), mayCarry, how)
  PROVE  IInv'
<1> DEFINE shards == Full(input, FitSize(input), Kept(FitSize(input)))
<1>1. input \in Inputs
  BY DEF IInv, TypeOK
<1>2. Agree(shards, input, Stale(how))
  BY <1>1, FullIsRebuilt, RebuiltAgrees
<1>3. PlacedRight(Placements(input, FitSize(input), KeysIn(shards)), input, Stale(how))
  BY <1>1, <1>2, RebuiltKeys
<1>4. Stale(how) \subseteq Cells
  BY DEF Stale
<1> HIDE DEF shards
<1> QED
  BY <1>2, <1>3, <1>4, CommitKeeps DEF shards

(* Only cells may be out of date.                                          *)
LEMMA StaleTyped ==
  ASSUME IInv, saved # NoState
  PROVE  /\ Stale("partial") = Left(input, last.of, saved, last.stale) /\ Stale("bundle") = Stale("partial")
         /\ Stale("partial") \subseteq Cells
<1>1. last.stale \subseteq Cells
  BY DEF IInv, TypeOK
<1> QED
  BY <1>1 DEF Stale, Left, Uncovered

(* The four ways of a run.                                                 *)
LEMMA BundleKeeps ==
  ASSUME IInv, RunBundle, runs < MaxRuns, runs' = runs + 1, UNCHANGED <<input, edits>>
  PROVE  IInv'
<1>1. /\ saved # NoState /\ BundleHit(input, saved)
      /\ last' = [of |-> input, how |-> "bundle", wrote |-> {}, stale |-> Stale("bundle")]
      /\ UNCHANGED <<saved, disk, rotten, usage>>
  BY DEF RunBundle
<1>2. /\ input \in Inputs /\ last.of \in Inputs /\ runs > 0 /\ saved = Recorded(last.of, disk)
      /\ Agree(disk, last.of, last.stale) /\ PlacedRight(usage, last.of, last.stale)
  BY <1>1, SavedIs
<1>3. DirtyCells(input, saved) = {}
  BY <1>1, <1>2, NothingDirty
<1>4. last.stale \cup Uncovered(input) \cup Uncovered(last.of) \subseteq Stale("bundle")
  BY <1>3 DEF Stale
<1>5. /\ Agree(disk, input, Stale("bundle")) /\ PlacedRight(usage, input, Stale("bundle"))
      /\ Recorded(input, disk) = Recorded(last.of, disk)
  BY <1>1, <1>2, <1>4, BundleAgrees
<1>6. /\ last'.of = input /\ last'.how = "bundle" /\ last'.wrote \subseteq Shards
      /\ last'.stale = Stale("bundle") /\ last'.stale \subseteq Cells
      /\ runs' \in 0..MaxRuns /\ runs' > 0
  BY <1>1, BoundsAssumption, StaleTyped DEF IInv, TypeOK
<1>7. TypeOK'
  BY <1>1, <1>6 DEF IInv, TypeOK
<1> QED
  BY <1>1, <1>2, <1>5, <1>6, <1>7 DEF IInv

LEMMA PartialKeeps ==
  ASSUME IInv, NEW evidence, RunPartial(evidence),
         runs < MaxRuns, runs' = runs + 1, UNCHANGED <<input, edits>>
  PROVE  IInv'
<1> DEFINE shards == Spliced(input, saved, FitSize(input))
           placed == Placements(input, FitSize(input), KeysIn(shards))
<1>1. /\ saved # NoState /\ BindingsExplained(input, saved)
      /\ SpliceFits(input, saved, AttemptSize)
  BY DEF RunPartial, Attempt, Holds
<1>2. /\ input \in Inputs /\ last.of \in Inputs /\ saved = Recorded(last.of, disk)
      /\ Agree(disk, last.of, last.stale) /\ AttemptSize = FitSize(input)
  BY <1>1, SavedIs
<1>3. Agree(shards, input, Left(input, last.of, saved, last.stale))
  BY <1>1, <1>2, SplicedAgrees
<1>4. Agree(shards, input, Stale("partial")) /\ Stale("partial") \subseteq Cells
  BY <1>1, <1>3, StaleTyped
<1>5. PlacedRight(placed, input, Stale("partial"))
  BY <1>2, <1>4, RebuiltKeys
<1>6. Commit(shards, FitSize(input), placed, TRUE, "partial")
  BY <1>2 DEF RunPartial
<1> HIDE DEF shards, placed
<1> QED
  BY <1>4, <1>5, <1>6, CommitKeeps

LEMMA FallbackKeeps ==
  ASSUME IInv, NEW evidence, RunFallback(evidence),
         runs < MaxRuns, runs' = runs + 1, UNCHANGED <<input, edits>>
  PROVE  IInv'
<1>1. saved # NoState
  BY DEF RunFallback, Attempt
<1>2. AttemptSize = FitSize(input)
  BY <1>1, SavedIs
<1> QED
  BY <1>2, RebuildKeeps DEF RunFallback

LEMMA FullKeeps ==
  ASSUME IInv, NEW evidence, NEW force, RunFull(evidence, force),
         runs < MaxRuns, runs' = runs + 1, UNCHANGED <<input, edits>>
  PROVE  IInv'
  BY RebuildKeeps DEF RunFull

(* Between runs the recorded generation stays what it is.                  *)
LEMMA ChangeKeeps ==
  ASSUME IInv, NEW in \in Inputs, Change(in)
  PROVE  IInv'
<1>1. /\ input' = in /\ edits' = edits + 1 /\ edits < MaxEdits
      /\ UNCHANGED <<runs, saved, disk, rotten, usage, last>>
  BY DEF Change, MayChange
<1>2. edits' \in 0..MaxEdits
  BY <1>1, BoundsAssumption DEF IInv, TypeOK
<1> QED
  BY <1>1, <1>2 DEF IInv, TypeOK

LEMMA EditsTyped ==
  ASSUME NEW in \in Inputs
  PROVE  /\ \A m \in Meshes, l \in Looks \cup {NoLook} : [in EXCEPT !.look[m] = l] \in Inputs
         /\ \A t \in Textures, p \in Pages \cup {Unbound} : [in EXCEPT !.page[t] = p] \in Inputs
         /\ \A r \in Refs : /\ [in EXCEPT !.refs = @ \cup {r}] \in Inputs
                             /\ [in EXCEPT !.refs = @ \ {r}] \in Inputs
         /\ \A c \in Cells : /\ [in EXCEPT !.high = @ \cup {c}] \in Inputs
                              /\ [in EXCEPT !.high = @ \ {c}] \in Inputs
<1>1. ASSUME NEW m \in Meshes, NEW l \in Looks \cup {NoLook}
      PROVE  [in EXCEPT !.look[m] = l] \in Inputs
  BY DEF Inputs
<1>2. ASSUME NEW t \in Textures, NEW p \in Pages \cup {Unbound}
      PROVE  [in EXCEPT !.page[t] = p] \in Inputs
  BY DEF Inputs
<1>3. ASSUME NEW r \in Refs
      PROVE  [in EXCEPT !.refs = @ \cup {r}] \in Inputs /\ [in EXCEPT !.refs = @ \ {r}] \in Inputs
  BY DEF Inputs
<1>4. ASSUME NEW c \in Cells
      PROVE  [in EXCEPT !.high = @ \cup {c}] \in Inputs /\ [in EXCEPT !.high = @ \ {c}] \in Inputs
  BY DEF Inputs
<1> QED
  BY <1>1, <1>2, <1>3, <1>4

LEMMA DamageKeeps ==
  ASSUME IInv, Rot \/ LoseDatabase
  PROVE  IInv'
<1>1. edits' \in 0..MaxEdits
  BY BoundsAssumption DEF IInv, TypeOK, Rot, LoseDatabase, MayChange
<1>2. CASE Rot
  BY <1>1, <1>2 DEF Rot, IInv, TypeOK
<1>3. CASE LoseDatabase
  BY <1>1, <1>3 DEF LoseDatabase, IInv, TypeOK
<1> QED
  BY <1>2, <1>3

LEMMA RunKeeps ==
  ASSUME IInv, Run
  PROVE  IInv'
<1>1. runs < MaxRuns /\ runs' = runs + 1 /\ UNCHANGED <<input, edits>>
  BY DEF Run
<1>2. CASE RunBundle
  BY <1>1, <1>2, BundleKeeps
<1>3. CASE \E evidence \in BOOLEAN : RunPartial(evidence)
  BY <1>1, <1>3, PartialKeeps
<1>4. CASE \E evidence \in BOOLEAN : RunFallback(evidence)
  BY <1>1, <1>4, FallbackKeeps
<1>5. CASE \E evidence \in BOOLEAN : \E force \in BOOLEAN : RunFull(evidence, force)
  BY <1>1, <1>5, FullKeeps
<1> QED
  BY <1>2, <1>3, <1>4, <1>5 DEF Run

(* The first state, and every step.                                        *)
LEMMA InitEstablishes ==
  ASSUME Init
  PROVE  IInv
<1>1. input \in Inputs /\ last.of = input /\ last.how = "none" /\ last.wrote = {} /\ last.stale = {}
  BY InputsAssumption DEF Init
<1>2. TypeOK
  BY <1>1, BoundsAssumption DEF Init, TypeOK
<1> QED
  BY <1>1, <1>2 DEF Init, IInv

LEMMA NextKeeps ==
  ASSUME IInv, [Next]_vars
  PROVE  IInv'
<1>1. input \in Inputs
  BY DEF IInv, TypeOK
<1>2. CASE Run
  BY <1>2, RunKeeps
<1>3. CASE EditMesh
  BY <1>1, <1>3, EditsTyped, ChangeKeeps DEF EditMesh
<1>4. CASE EditAtlas
  BY <1>1, <1>4, EditsTyped, ChangeKeeps DEF EditAtlas
<1>5. CASE EditRefs
  BY <1>1, <1>5, EditsTyped, ChangeKeeps DEF EditRefs
<1>6. CASE EditLand
  BY <1>1, <1>6, EditsTyped, ChangeKeeps DEF EditLand
<1>7. CASE Rot \/ LoseDatabase
  BY <1>7, DamageKeeps
<1>8. CASE UNCHANGED vars
  BY <1>8 DEF vars, IInv, TypeOK
<1> QED
  BY <1>2, <1>3, <1>4, <1>5, <1>6, <1>7, <1>8 DEF Next

(* After every run the database, the shards on the disk and the placements *)
(* are those of a rebuild of its input, whatever the run reused, but for   *)
(* the groups of cells that may be out of date, and they stay so until the *)
(* next one; only the database may be lost.                                *)
THEOREM Invariance ==
  Spec => []IInv
<1>1. Init => IInv
  BY InitEstablishes
<1>2. IInv /\ [Next]_vars => IInv'
  BY NextKeeps
<1> QED
  BY <1>1, <1>2, PTL DEF Spec

(* Whether a run keeps the bundle, splices the shards of dirty owners,     *)
(* falls back or rebuilds, the shards, the placements and the recorded     *)
(* bounds it leaves are those of a rebuild from nothing, but for the       *)
(* groups of a cell with a reference that merges only by its size after    *)
(* simplification.                                                         *)
THEOREM WaysAgree ==
  Spec => []WayMakesNoDifference
<1>1. IInv => WayMakesNoDifference
  <2> SUFFICES ASSUME IInv
               PROVE  WayMakesNoDifference
    OBVIOUS
  <2>1. TypeOK /\ last.of \in Inputs
    BY DEF IInv
  <2>2. ASSUME NEW k
        PROVE  Current(k) <=> Fresher(k, last.stale)
    BY DEF Current, Fresher
  <2>3. IncrementalIsRebuild
    <3> DEFINE rebuilt == Rebuilt(last.of).shards
    <3>1. SUFFICES ASSUME runs > 0, NEW s \in Shards
                   PROVE  CurrentOf(disk[s]) = CurrentOf(rebuilt[s])
      BY DEF IncrementalIsRebuild
    <3>2. /\ Agree(disk, last.of, last.stale) /\ Agree(rebuilt, last.of, last.stale)
      BY <2>1, <3>1, RebuiltAgrees DEF IInv
    <3>3. \A k : Current(k) =>
            /\ k \in DOMAIN disk[s] <=> k \in DOMAIN rebuilt[s]
            /\ k \in DOMAIN disk[s] => disk[s][k] = rebuilt[s][k]
      BY <2>2, <3>2 DEF Agree
    <3> HIDE DEF rebuilt
    <3>4. {k \in DOMAIN disk[s] : Current(k)} = {k \in DOMAIN rebuilt[s] : Current(k)}
      BY <3>3
    <3> QED
      BY <3>3, <3>4 DEF CurrentOf, Restrict
  <2>4. PlacementsAreRebuilt
    BY <2>2 DEF IInv, PlacementsAreRebuilt, PlacedRight
  <2>5. ASSUME saved # NoState
        PROVE  saved.bounds = Bounds(FitSize(last.of))
    <3>1. saved = Recorded(last.of, disk)
      BY <2>5 DEF IInv
    <3>2. Recorded(last.of, disk).bounds = Bounds(FitSize(last.of))
      BY RecordedFields
    <3> QED
      BY <3>1, <3>2
  <2> QED
    BY <2>1, <2>3, <2>4, <2>5 DEF WayMakesNoDifference, RecordedBoundsAreFresh
<1> QED
  BY <1>1, Invariance, PTL

(* What a run's step says of the shards it wrote.                          *)
LEMMA RunsOnly ==
  ASSUME IInv, [Next]_vars, runs' > runs
  PROVE  \/ RunBundle
         \/ \E evidence \in BOOLEAN :
               \/ RunPartial(evidence) \/ RunFallback(evidence)
               \/ \E force \in BOOLEAN : RunFull(evidence, force)
<1>1. runs \in Nat
  BY DEF IInv, TypeOK
<1>2. ~UNCHANGED runs
  BY <1>1
<1> QED
  BY <1>2 DEF Next, vars, Run, EditMesh, EditAtlas, EditRefs, EditLand, Change, Rot, LoseDatabase

LEMMA Wrote ==
  ASSUME NEW shards, NEW size, NEW placed, NEW mayCarry, NEW how,
         Commit(shards, size, placed, mayCarry, how)
  PROVE  /\ last'.how = how /\ saved'.shards = shards
         /\ rotten' = rotten \ last'.wrote
         /\ last'.wrote = {s \in Shards : ~mayCarry \/ saved = NoState \/ saved.shards[s] # shards[s]}
  BY DEF Commit, Database

LEMMA HealsWhatItMeets ==
  ASSUME IInv, [Next]_vars, runs' > runs, last'.how = "fallback",
         DirtyShards(input, saved, AttemptSize) \cap rotten # {}
  PROVE  rotten' = {}
<1>1. last'.how # "bundle" => ~RunBundle
  BY DEF RunBundle
<1>2. \A evidence : RunPartial(evidence) => last'.how = "partial"
  BY Wrote DEF RunPartial
<1>3. \A evidence, force : RunFull(evidence, force) => last'.how = "full"
  BY Wrote DEF RunFull
<1>4. PICK evidence \in BOOLEAN : RunFallback(evidence)
  BY <1>1, <1>2, <1>3, RunsOnly
<1>5. ~Readable(AttemptSize)
  BY DEF Readable
<1>6. PICK shards, placed : Commit(shards, AttemptSize, placed, Readable(AttemptSize), "fallback")
  BY <1>4 DEF RunFallback
<1>7. last'.wrote = Shards /\ rotten' = rotten \ last'.wrote
  BY <1>5, <1>6, Wrote
<1> QED
  BY <1>7 DEF IInv, TypeOK

LEMMA WritesChangedOnly ==
  ASSUME IInv, [Next]_vars, runs' > runs, last'.how \in {"bundle", "partial"}, NEW s \in last'.wrote
  PROVE  saved'.shards[s] # saved.shards[s]
<1>1. RunBundle => last'.wrote = {}
  BY DEF RunBundle
<1>2. \A evidence : RunFallback(evidence) => last'.how = "fallback"
  BY Wrote DEF RunFallback
<1>3. \A evidence, force : RunFull(evidence, force) => last'.how = "full"
  BY Wrote DEF RunFull
<1>4. PICK evidence \in BOOLEAN : RunPartial(evidence)
  BY <1>1, <1>2, <1>3, RunsOnly
<1>5. saved # NoState
  BY <1>4 DEF RunPartial, Attempt
<1>6. PICK shards, placed : Commit(shards, AttemptSize, placed, TRUE, "partial")
  BY <1>4 DEF RunPartial
<1>7. saved'.shards = shards /\ last'.wrote = {x \in Shards : ~TRUE \/ saved = NoState \/ saved.shards[x] # shards[x]}
  BY <1>6, Wrote
<1>8. saved.shards[s] # shards[s]
  BY <1>5, <1>7
<1> QED
  BY <1>7, <1>8

(* A run that meets damage rewrites every shard, and one that reuses       *)
(* rewrites none whose records stay as they are.                           *)
THEOREM WritesAsNeeded ==
  Spec => ShardsWrittenAsNeeded
<1>1. ASSUME IInv, [Next]_vars
      PROVE  [(runs' > runs /\ last'.how = "fallback"
                 /\ DirtyShards(input, saved, AttemptSize) \cap rotten # {}) => rotten' = {}]_vars
  BY <1>1, HealsWhatItMeets
<1>2. ASSUME IInv, [Next]_vars
      PROVE  [(runs' > runs /\ last'.how \in {"bundle", "partial"}) =>
                 \A s \in last'.wrote : saved'.shards[s] # saved.shards[s]]_vars
  BY <1>2, WritesChangedOnly
<1> QED
  BY <1>1, <1>2, Invariance, PTL
     DEF Spec, ShardsWrittenAsNeeded, MetDamageIsHealed, WritesOnlyWhatChanged
=============================================================================
