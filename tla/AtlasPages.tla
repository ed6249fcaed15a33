------------------------------ MODULE AtlasPages ------------------------------
(* The static texture atlas of one family over a sequence of generations: textures
   of equal bytes or equal pixels share a slot, a generation reuses the slots of the
   one before and redraws only the pages it finds dirty.  Keys are ordered as their
   names are; a picture stands for the pixels of a decoded texture.                *)
EXTENDS Integers, FiniteSets, FiniteSetsExt, Sequences, SequencesExt, Functions, TLC

CONSTANTS
  Exact,        (* TextureDedupeMode::Exact                                       *)
  Extrusion,    (* ATLAS_TEXTURE_EXTRUSION; the texture padding is zero           *)
  Border,       (* ATLAS_BORDER_PADDING                                           *)
  PageSize      (* gpu_max: the side of a page                                    *)

Least(a, b) == IF a < b THEN a ELSE b
Most(a, b) == IF a > b THEN a ELSE b
Rect(x, y, w, h) == [x |-> x, y |-> y, w |-> w, h |-> h]
Encloses(a, b) == a.x <= b.x /\ a.y <= b.y /\ b.x + b.w <= a.x + a.w /\ b.y + b.h <= a.y + a.h
Intersects(a, b) == ~(b.x + b.w <= a.x \/ a.x + a.w <= b.x \/ b.y + b.h <= a.y \/ a.y + a.h <= b.y)
Earlier(s, t) == \E i \in DOMAIN s : s[i] < t[i] /\ \A j \in 1..(i - 1) : s[j] = t[j]
LeastBy(S, Score(_)) == CHOOSE a \in S : \A b \in S : ~Earlier(Score(b), Score(a))

Usable == Rect(Border, Border, PageSize - 2 * Border, PageSize - 2 * Border)
Reserve(picture) == [w |-> picture.w + 2 * Extrusion, h |-> picture.h + 2 * Extrusion]
Destination(reserved, picture) == Rect(reserved.x + Extrusion, reserved.y + Extrusion, picture.w, picture.h)
Area(picture) == Reserve(picture).w * Reserve(picture).h

---------------------------------------------------------------------------
(* Textures: a run is given, for every key, a source and the picture it decodes to. *)

Alias(keys, Mark(_)) == [k \in keys |-> Min({j \in keys : Mark(j) = Mark(k)})]

\* build_prepared_groups, over both tiers of aliases.
Groups(textures) ==
  LET keys == DOMAIN textures
      tier0 == IF Exact THEN Alias(keys, LAMBDA k : textures[k].source) ELSE [k \in keys |-> k]
      tier1 == IF Exact THEN Alias(Range(tier0), LAMBDA k : textures[k].picture) ELSE tier0
  IN {[keys |-> {k \in keys : tier1[tier0[k]] = p}, item |-> p, picture |-> textures[p].picture] :
        p \in Range(tier1)}
Key(group) == Min(group.keys)

---------------------------------------------------------------------------
(* Free rectangles of a page. *)

(* Mutant: what is left beside the node keeps its height. *)
SubtractTall(free, node) ==
  LET Split(f) ==
        IF ~Intersects(f, node) THEN {f}
        ELSE LET x1 == Most(f.x, node.x)  x2 == Least(f.x + f.w, node.x + node.w)
                 y1 == Most(f.y, node.y)  y2 == Least(f.y + f.h, node.y + node.h)
             IN {Rect(f.x, f.y, f.w, y1 - f.y), Rect(f.x, y2, f.w, f.y + f.h - y2),
                 Rect(f.x, y1, x1 - f.x, f.h), Rect(x2, y1, f.x + f.w - x2, f.h)}
  IN {r \in UNION {Split(f) : f \in free} : r.w > 0 /\ r.h > 0}
Subtract(free, node) ==
  LET Split(f) ==
        IF ~Intersects(f, node) THEN {f}
        ELSE LET x1 == Most(f.x, node.x)  x2 == Least(f.x + f.w, node.x + node.w)
                 y1 == Most(f.y, node.y)  y2 == Least(f.y + f.h, node.y + node.h)
             IN {Rect(f.x, f.y, f.w, y1 - f.y), Rect(f.x, y2, f.w, f.y + f.h - y2),
                 Rect(f.x, y1, x1 - f.x, y2 - y1), Rect(x2, y1, f.x + f.w - x2, y2 - y1)}
      next == {r \in UNION {Split(f) : f \in free} : r.w > 0 /\ r.h > 0}
  IN {r \in next : \A o \in next \ {r} : ~Encloses(o, r)}
FreeOf(occupied) == FoldSet(LAMBDA r, free : Subtract(free, r), {Usable}, occupied)

\* The places a reservation may take on a page, and the order of FitScore.
Places(page, free, need) ==
  {[page |-> page, in |-> f, at |-> Rect(f.x, f.y, need.w, need.h)] : f \in {f \in free : f.w >= need.w /\ f.h >= need.h}}
FitScore(place) ==
  <<place.in.w * place.in.h - place.at.w * place.at.h,
    Least(place.in.w - place.at.w, place.in.h - place.at.h), place.page, place.at.y + place.at.h, place.at.x>>

(* A step of placing: groups in order of falling area, each where it fits best. *)
InOrder(groups) ==
  SetToSortSeq(groups, LAMBDA a, b : Earlier(<<-Area(a.picture), Key(a)>>, <<-Area(b.picture), Key(b)>>))
Place(state, group) ==
  LET found == UNION {Places(p, state.free[p], Reserve(group.picture)) : p \in DOMAIN state.free}
  IN IF found = {} THEN [state EXCEPT !.left = @ \cup {group}]
     ELSE LET best == LeastBy(found, FitScore)
          IN [state EXCEPT !.free[best.page] = Subtract(@, best.at),
                           !.placed = Append(@, [group |-> group, page |-> best.page, at |-> best.at])]

\* The external packer: new pages, as many as it takes, in no promised arrangement.
RECURSIVE Pack(_, _)
Pack(groups, first) ==
  IF groups = {} THEN <<>>
  ELSE LET page == FoldLeft(Place, [free |-> (first :> {Usable}), placed |-> <<>>, left |-> {}], InOrder(groups))
       IN page.placed \o Pack(page.left, first + 1)

---------------------------------------------------------------------------
(* Matching of groups with the slots of the generation before. *)

Touches(e, f) == e.group = f.group \/ e.slot = f.slot
Cost(e, scale) == -(e.weight * scale) + e.tie

\* The edges along which a matching can grow by one from a group.
RECURSIVE PathsFrom(_, _, _, _)
PathsFrom(edges, matched, group, seen) ==
  UNION {LET owner == {m \in matched : m.slot = e.slot}
         IN IF owner = {} THEN {{e}}
            ELSE {{e} \cup owner \cup p :
                    p \in PathsFrom(edges, matched, (CHOOSE m \in owner : TRUE).group, seen \cup {e.slot})} :
         e \in {e \in edges \ matched : e.group = group /\ e.slot \notin seen}}

(* Mutant: a pair once made is kept. *)
MatchGreedy(edges, scale, matched) ==
  LET Add(m, e) == IF \E f \in m : Touches(e, f) THEN m ELSE m \cup {e}
  IN {FoldLeft(Add, {}, SetToSortSeq(edges, LAMBDA e, f : e.tie < f.tie))}
(* min_cost_positive_matching: shortest augmenting paths while one pays.  Of several
   shortest ones the queue of the search takes one, here any.                       *)
RECURSIVE MatchFrom(_, _, _)
MatchFrom(edges, scale, matched) ==
  LET start == {e.group : e \in edges} \ {m.group : m \in matched}
      paths == UNION {PathsFrom(edges, matched, g, {}) : g \in start}
      Length(p) == FoldSet(LAMBDA e, n : n + (IF e \in matched THEN -Cost(e, scale) ELSE Cost(e, scale)), 0, p)
      best == Min({0} \cup {Length(p) : p \in paths})
  IN IF best >= 0 THEN {matched}
     ELSE UNION {MatchFrom(edges, scale, SymDiff(matched, p)) : p \in {p \in paths : Length(p) = best}}
Matchings(edges, groups, slots) ==
  LET scale == (slots * (groups + 1) + groups + 1) * Most(1, Least(groups, slots)) + 1
  IN MatchFrom(edges, scale, {})

---------------------------------------------------------------------------
(* Allocation.  A family is what the state keeps of it: the textures it was made
   for, its pages, its slots and the slot of every key.                           *)

Slot(id, page, at, picture, provider) ==
  [id |-> id, page |-> page, reserved |-> at, dest |-> Destination(at, picture),
   provider |-> provider, picture |-> picture]
Family(textures, pages, slots, keySlot, next) ==
  [textures |-> textures, pages |-> pages, slots |-> slots, keySlot |-> keySlot, next |-> next]
Images(groups) == [p \in {g.item : g \in groups} |-> (CHOOSE g \in groups : g.item = p).picture]

\* Fresh slots are numbered by page and place.
Numbered(placed, from) ==
  LET sorted == SetToSortSeq(Range(placed), LAMBDA a, b :
                  Earlier(<<a.page, a.at.y, a.at.x, a.group.item>>, <<b.page, b.at.y, b.at.x, b.group.item>>))
  IN {[group |-> sorted[i].group,
       slot |-> Slot(from + i - 1, sorted[i].page, sorted[i].at, sorted[i].group.picture, sorted[i].group.item)] :
        i \in DOMAIN sorted}
KeySlots(given) ==
  [k \in UNION {g.group.keys : g \in given} |-> (CHOOSE g \in given : k \in g.group.keys).slot.id]
PagesOf(slots) == IF slots = {} THEN 0 ELSE 1 + Max({s.page : s \in slots})

FreshFamily(textures) ==
  LET given == Numbered(Pack(Groups(textures), 0), 0)
      slots == {g.slot : g \in given}
  IN [family |-> Family(textures, PagesOf(slots), slots, KeySlots(given), Cardinality(slots)),
      dirty |-> 0..(PagesOf(slots) - 1), images |-> Images(Groups(textures))]

KeysOf(family, slot) == {k \in DOMAIN family.keySlot : family.keySlot[k] = slot.id}
\* Pairs of a group and a slot that share keys and where the group fits.
Edges(prior, groups) ==
  LET gs == SetToSortSeq(groups, LAMBDA a, b : Key(a) < Key(b))
      ss == SetToSortSeq(prior.slots, LAMBDA a, b : a.id < b.id)
  IN {e \in {[group |-> gs[g], slot |-> ss[s], weight |-> Cardinality(gs[g].keys \cap KeysOf(prior, ss[s])),
              tie |-> (s - 1) * (Len(gs) + 1) + g - 1] : g \in DOMAIN gs, s \in DOMAIN ss} :
        /\ e.weight > 0
        /\ Reserve(e.group.picture).w <= e.slot.reserved.w /\ Reserve(e.group.picture).h <= e.slot.reserved.h}

(* Mutant: a page is dirty only when a slot of it moved. *)
ChangedMoved(old, new) == old.dest # new.dest
Changed(old, new) == old.dest # new.dest \/ old.picture # new.picture
(* Mutant: a retained slot keeps its provider whether or not the key is still of it. *)
ProviderKept(group, old) == old.provider
Provider(group, old) == IF old.provider \in group.keys THEN old.provider ELSE Key(group)

(* apply_provider_renames *)
Renamed(images, kept) ==
  LET moved == {k \in kept : k.slot.provider # k.group.item}
  IN [p \in (DOMAIN images \ {k.group.item : k \in moved}) \cup {k.slot.provider : k \in moved} |->
        IF \E k \in moved : k.slot.provider = p
        THEN images[(CHOOSE k \in moved : k.slot.provider = p).group.item] ELSE images[p]]

ReconcileWith(prior, textures, matched) ==
  LET groups == Groups(textures)
      kept == {[group |-> m.group, old |-> m.slot,
                slot |-> Slot(m.slot.id, m.slot.page, m.slot.reserved, m.group.picture, Provider(m.group, m.slot))] :
                 m \in matched}
      seeded == [p \in 0..(prior.pages - 1) |-> FreeOf({k.slot.reserved : k \in {k \in kept : k.slot.page = p}})]
      fill == FoldLeft(Place, [free |-> seeded, placed |-> <<>>, left |-> {}], InOrder(groups \ {k.group : k \in kept}))
      added == {[group |-> fill.placed[i].group,
                 slot |-> Slot(prior.next + i - 1, fill.placed[i].page, fill.placed[i].at, fill.placed[i].group.picture,
                               fill.placed[i].group.item)] : i \in DOMAIN fill.placed}
      appended == Numbered(Pack(fill.left, prior.pages), prior.next + Len(fill.placed))
      given == {[group |-> k.group, slot |-> k.slot] : k \in kept} \cup added \cup appended
      slots == {g.slot : g \in given}
  IN [family |-> Family(textures, PagesOf(slots), slots, KeySlots(given),
                        prior.next + Cardinality(added) + Cardinality(appended)),
      dirty |-> {p \in 0..(PagesOf(slots) - 1) :
                   \/ \E k \in kept : k.slot.page = p /\ Changed(k.old, k.slot)
                   \/ \E g \in added \cup appended : g.slot.page = p},
      images |-> Renamed(Images(groups), kept)]
Reconcile(prior, textures) ==
  LET groups == Groups(textures)
  IN {ReconcileWith(prior, textures, m) :
        m \in Matchings(Edges(prior, groups), Cardinality(groups), Cardinality(prior.slots))}

\* plan_domain: the same textures at the same sizes are carried as they are.
Plan(prior, textures) ==
  IF prior = {} THEN {FreshFamily(textures)}
  ELSE LET family == CHOOSE f \in prior : TRUE
       IN IF family.textures = textures THEN {[family |-> family, dirty |-> {}, images |-> <<>>]}
          ELSE Reconcile(family, textures)

\* Dirty pages are drawn from the images, the others stay as they are on the disk.
Publish(before, plan) ==
  [p \in 0..(plan.family.pages - 1) |->
     IF p \notin plan.dirty THEN IF p \in DOMAIN before THEN before[p] ELSE {}
     ELSE {[dest |-> s.dest, picture |-> IF s.provider \in DOMAIN plan.images THEN {plan.images[s.provider]} ELSE {}] :
             s \in {s \in plan.family.slots : s.page = p}}]

---------------------------------------------------------------------------
(* validate_family: what the next generation accepts of the family recorded. *)
Accepted(f) ==
  /\ f.pages = PagesOf(f.slots)
  /\ DOMAIN f.keySlot = DOMAIN f.textures
  /\ \A s \in f.slots :
       /\ Encloses(Usable, s.reserved) /\ Encloses(s.reserved, s.dest)
       /\ s.dest = Destination(s.reserved, s.picture)
       /\ Reserve(s.picture).w <= s.reserved.w /\ Reserve(s.picture).h <= s.reserved.h
       /\ s.id < f.next
       /\ s.provider \in KeysOf(f, s)
       /\ \A t \in f.slots \ {s} : s.id # t.id /\ (s.page = t.page => ~Intersects(s.reserved, t.reserved))
  /\ \A k \in DOMAIN f.keySlot : \E s \in f.slots : s.id = f.keySlot[k]

Grown(r) == Rect(r.x - Extrusion, r.y - Extrusion, r.w + 2 * Extrusion, r.h + 2 * Extrusion)
SlotOf(f, k) == CHOOSE s \in f.slots : s.id = f.keySlot[k]
\* Where a key is drawn its picture is on the disk, its extruded border included.
Shows(f, pages) ==
  \A k \in DOMAIN f.textures :
    LET s == SlotOf(f, k)
        frame == [dest |-> s.dest, picture |-> {f.textures[k].picture}]
    IN /\ frame \in pages[s.page]
       /\ \A other \in pages[s.page] \ {frame} : ~Intersects(Grown(other.dest), Grown(s.dest))

(* A group of the same keys that did not grow out of its slot stays there, and only
   pages on which something is new or has changed are drawn again.                  *)
StaysInPlace(old, plan) ==
  /\ \A g \in Groups(plan.family.textures) : \A s \in old.slots :
       (KeysOf(old, s) = g.keys /\ s.picture = g.picture)
         => \A k \in g.keys : SlotOf(plan.family, k).id = s.id /\ SlotOf(plan.family, k).dest = s.dest
  /\ \A p \in plan.dirty : \E s \in plan.family.slots :
       s.page = p /\ \A o \in old.slots : <<o.id, o.dest, o.picture>> # <<s.id, s.dest, s.picture>>

Sound(plan, pages) == Accepted(plan.family) /\ Shows(plan.family, pages)

(* A run of generations, each of which may find the family of the one before or no
   record of it, on a disk that holds what the one before left.                     *)
StaysWhereItWas(prior, plan) == \A f \in prior : StaysInPlace(f, plan)
RECURSIVE KeepsUp(_, _, _)
KeepsUp(prior, drawn, inputs) ==
  inputs = <<>> \/ \A plan \in Plan(prior, Head(inputs)) :
    LET now == Publish(drawn, plan)
    IN /\ Sound(plan, now) /\ StaysWhereItWas(prior, plan)
       /\ \A kept \in {{}, {plan.family}} : KeepsUp(kept, now, Tail(inputs))

(* The matching found is one of greatest weight and, among those, of least tie. *)
MatchingIsBest(edges, groups, slots) ==
  LET all == {m \in SUBSET edges : \A e, f \in m : e = f \/ ~Touches(e, f)}
      Value(m) == <<-FoldSet(LAMBDA e, n : n + e.weight, 0, m), FoldSet(LAMBDA e, n : n + e.tie, 0, m)>>
  IN \A m \in Matchings(edges, groups, slots) : m \in all /\ \A o \in all : ~Earlier(Value(o), Value(m))
===============================================================================
