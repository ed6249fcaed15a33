------------------------------- MODULE VecTable -------------------------------
(* Who owns a shared vector.  The host keeps a table of vectors and a queue of
   ids to reuse; the client asks for a vector, maps its header through a handle
   the host duplicated into the client process, counts its views in the header
   and gives the vector back by id.  What a vector holds is VecWindow's subject. *)
EXTENDS Naturals, SequencesExt

CONSTANTS
  Instances,   \* bound: vectors ever created, numbered from 1
  MaxViews,    \* bound: views of one vector alive at a time
  MaxTimeouts, \* bound: waits of the client that give up
  MaxFails     \* bound: steps that fail

ASSUME VecTableAssumption ==
  /\ {Instances, MaxViews, MaxTimeouts, MaxFails} \subseteq Nat
  /\ MaxViews > 0

Vec == 1..Instances
None == 0               \* an emptied table entry, or no instance
Invalid == 0            \* INVALID_VECTOR; the ids here are the host's, plus one
Ids == 1..Instances

VARIABLES
  vecs,     \* host: Server.vecs, the instance under each id or None
  freeVecs, \* host: Server.free_vecs
  created,  \* host: instances created so far
  handle32, \* the remote handles of an instance: "none", "open" or "closed"
  users32,  \* header: VecShare.users32
  mapped,   \* client: instances whose header is mapped
  views,    \* client: VecView objects alive on each instance
  known,    \* client: <<id, instance>> of every vector it was given
  returned, \* client: instances it has asked the host to free; it asks once
  rpc,      \* the command in flight
  unwind,   \* client: the instance whose half-made view awaitAllocVec still destroys
  broken,   \* client: a header was touched after it was unmapped
  spent     \* waits that gave up, and the steps that failed

tableVars == <<vecs, freeVecs, created, handle32, users32, mapped, views, known, returned, rpc, unwind, broken, spent>>
hostTable == <<vecs, freeVecs, created, handle32>>
client == <<mapped, views, known, returned, unwind, broken>>

Idle == [command |-> "none", id |-> Invalid, vec |-> None, state |-> "idle", waiting |-> FALSE]

TableInit ==
  /\ vecs = <<>> /\ freeVecs = <<>> /\ created = 0
  /\ handle32 = [v \in Vec |-> "none"]
  /\ users32 = [v \in Vec |-> 0]
  /\ mapped = {} /\ views = [v \in Vec |-> 0] /\ known = {} /\ returned = {}
  /\ rpc = Idle /\ unwind = None /\ broken = FALSE
  /\ spent = [timeouts |-> 0, failed |-> <<>>]

Fails(step) ==
  /\ Len(spent.failed) < MaxFails
  /\ spent' = [spent EXCEPT !.failed = Append(@, step)]

---------------------------------------------------------------------------
(* ClientRequests of the client; beginRpc waits for the command before. *)

Asked(c, i) == [command |-> c, id |-> i, vec |-> None, state |-> "asked", waiting |-> TRUE]

AllocVec ==
  /\ rpc.state = "idle" /\ created < Instances
  /\ rpc' = Asked("AllocVec", Invalid)
  /\ UNCHANGED <<hostTable, users32, client, spent>>

FreeVec ==
  /\ rpc.state = "idle"
  /\ \E k \in known : /\ k[2] \notin returned
                      /\ rpc' = Asked("FreeVec", k[1])
                      /\ returned' = returned \cup {k[2]}
  /\ UNCHANGED <<hostTable, users32, mapped, views, known, unwind, broken, spent>>

\* A half-made view is destroyed now, as after the answer: see Freed.
Unwound ==
  /\ broken' = (broken \/ unwind # None)
  /\ unwind' = None

GiveUp ==
  /\ rpc.state = "asked" /\ rpc.waiting
  /\ spent.timeouts < MaxTimeouts
  /\ spent' = [spent EXCEPT !.timeouts = @ + 1]
  /\ rpc' = [rpc EXCEPT !.waiting = FALSE]
  /\ Unwound
  /\ UNCHANGED <<hostTable, users32, mapped, views, known, returned>>

Answered(i, v) ==
  rpc' = IF rpc.waiting THEN [rpc EXCEPT !.state = "answered", !.id = i, !.vec = v] ELSE Idle

---------------------------------------------------------------------------
(* The host. *)

NextId == IF freeVecs = <<>> THEN Len(vecs) + 1 ELSE Head(freeVecs)
Remaining == IF freeVecs = <<>> THEN <<>> ELSE Tail(freeVecs)
\* Mutant: the id that was taken from the queue is not given back.
ReturnedLost == Remaining

\* A recycled id goes to the back of the queue when the vector was not made.
Returned == IF freeVecs = <<>> THEN <<>> ELSE Append(Tail(freeVecs), Head(freeVecs))

NewVec == created + 1

ServeAlloc == rpc.state = "asked" /\ rpc.command = "AllocVec"

\* A vector still in the new one's entry is dropped; viewed, it keeps its handles.
Displaced == IF NextId \in DOMAIN vecs THEN vecs[NextId] ELSE None

HandlesAfterAlloc ==
  [v \in Vec |-> IF v = NewVec THEN "open"
                 ELSE IF v = Displaced /\ users32[v] = 0 THEN "closed"
                 ELSE handle32[v]]

\* alloc_vec_with: the new vector takes its id's entry.
AllocSucceeds ==
  /\ ServeAlloc
  /\ vecs' = IF NextId > Len(vecs) THEN Append(vecs, NewVec) ELSE [vecs EXCEPT ![NextId] = NewVec]
  /\ freeVecs' = Remaining /\ created' = NewVec
  /\ handle32' = HandlesAfterAlloc
  /\ Answered(NextId, NewVec)
  /\ UNCHANGED <<users32, client, spent>>

\* create fails before it has written the reply: the mapping, the views, the
\* events, or a handle that cannot be duplicated, the ones made closed again.
AllocFails ==
  /\ ServeAlloc /\ Fails("create")
  /\ freeVecs' = Returned
  /\ Answered(Invalid, None)
  /\ UNCHANGED <<vecs, created, handle32, users32, client>>

\* reserve(initial_capacity) fails after id and handle are in the reply; dropping
\* the vector closes the handles the reply names.
ReserveFails ==
  /\ ServeAlloc /\ Fails("reserve")
  /\ freeVecs' = Returned /\ created' = NewVec
  /\ handle32' = [handle32 EXCEPT ![NewVec] = "closed"]
  /\ Answered(NextId, NewVec)
  /\ UNCHANGED <<vecs, users32, client>>

\* Mutant: the client's views are not asked for.
CanFreeUnasked(v) == TRUE

CanFree(v) == users32[v] = 0

ServeFree == rpc.state = "asked" /\ rpc.command = "FreeVec"

\* free_vec: an id never handed out, or a vector still viewed, is refused.
Freeable(i) == i \in DOMAIN vecs /\ (vecs[i] # None => CanFree(vecs[i]))

FreeRefused ==
  /\ ServeFree /\ ~Freeable(rpc.id)
  /\ Answered(rpc.id, None)
  /\ UNCHANGED <<hostTable, users32, client, spent>>

\* Mutant: the handles duplicated into the client stay open.
FreeKeepsHandles ==
  /\ ServeFree /\ Freeable(rpc.id)
  /\ vecs' = [vecs EXCEPT ![rpc.id] = None]
  /\ freeVecs' = Append(freeVecs, rpc.id)
  /\ Answered(rpc.id, vecs[rpc.id])
  /\ UNCHANGED <<created, handle32, users32, client, spent>>

\* An entry that is empty already is freed once more.
FreeSucceeds ==
  /\ ServeFree /\ Freeable(rpc.id)
  /\ vecs' = [vecs EXCEPT ![rpc.id] = None]
  /\ freeVecs' = Append(freeVecs, rpc.id)
  /\ handle32' = [v \in Vec |-> IF v = vecs[rpc.id] THEN "closed" ELSE handle32[v]]
  /\ Answered(rpc.id, vecs[rpc.id])
  /\ UNCHANGED <<created, users32, client, spent>>

---------------------------------------------------------------------------
(* awaitAllocVec and awaitFreeVec. *)

Alloced == rpc.state = "answered" /\ rpc.command = "AllocVec"

AllocRejected ==
  /\ Alloced /\ rpc.id = Invalid
  /\ rpc' = Idle
  /\ UNCHANGED <<hostTable, users32, client, spent>>

ViewMade ==
  /\ Alloced /\ rpc.id # Invalid /\ handle32[rpc.vec] = "open"
  /\ mapped' = mapped \cup {rpc.vec}
  /\ users32' = [users32 EXCEPT ![rpc.vec] = @ + 1]
  /\ views' = [views EXCEPT ![rpc.vec] = @ + 1]
  /\ known' = known \cup {<<rpc.id, rpc.vec>>}
  /\ rpc' = Idle
  /\ UNCHANGED <<hostTable, returned, unwind, broken, spent>>

\* MapViewOfFile fails, on a closed handle always: the id is freed at once.
HeaderFails ==
  /\ Alloced /\ rpc.id # Invalid
  /\ IF handle32[rpc.vec] = "open" THEN Fails("header") ELSE UNCHANGED spent
  /\ rpc' = Asked("FreeVec", rpc.id)
  /\ UNCHANGED <<hostTable, users32, client>>

\* view.init fails: the header is unmapped and the id freed while the view lives.
InitFails ==
  /\ Alloced /\ rpc.id # Invalid /\ handle32[rpc.vec] = "open" /\ Fails("init")
  /\ users32' = [users32 EXCEPT ![rpc.vec] = @ + 1]
  /\ unwind' = rpc.vec
  /\ rpc' = Asked("FreeVec", rpc.id)
  /\ UNCHANGED <<hostTable, mapped, views, known, returned, broken>>

\* ~VecView of that view decrements users32 through the unmapped header.
Freed ==
  /\ rpc.state = "answered" /\ rpc.command = "FreeVec"
  /\ Unwound
  /\ rpc' = Idle
  /\ UNCHANGED <<hostTable, users32, mapped, views, known, returned, spent>>

---------------------------------------------------------------------------
(* Views are copied and destroyed without the host. *)

\* Mutant: nothing bounds the copies.
CopyViewUnbounded(v) ==
  /\ rpc.state # "answered" /\ views[v] > 0 /\ users32[v] <= MaxViews
  /\ users32' = [users32 EXCEPT ![v] = @ + 1]
  /\ views' = [views EXCEPT ![v] = @ + 1]
  /\ UNCHANGED <<hostTable, mapped, known, returned, rpc, unwind, broken, spent>>

\* Mutant: the copy's own view is not counted.
CopyViewUncounted(v) ==
  /\ rpc.state # "answered" /\ views[v] \in 1..(MaxViews - 1)
  /\ views' = [views EXCEPT ![v] = @ + 1]
  /\ UNCHANGED <<hostTable, users32, mapped, known, returned, rpc, unwind, broken, spent>>

CopyView(v) ==
  /\ rpc.state # "answered" /\ views[v] \in 1..(MaxViews - 1)
  /\ users32' = [users32 EXCEPT ![v] = @ + 1]
  /\ views' = [views EXCEPT ![v] = @ + 1]
  /\ UNCHANGED <<hostTable, mapped, known, returned, rpc, unwind, broken, spent>>

\* The last view to go unmaps the header.
Left(v) == users32[v] - 1

DropView(v) ==
  /\ ~rpc.waiting /\ views[v] > 0
  /\ users32' = [users32 EXCEPT ![v] = Left(v)]
  /\ views' = [views EXCEPT ![v] = @ - 1]
  /\ mapped' = IF Left(v) = 0 THEN mapped \ {v} ELSE mapped
  /\ UNCHANGED <<hostTable, known, returned, rpc, unwind, broken, spent>>

\* VecView::operator=: the view leaves v and joins w.
AssignView(v, w) ==
  /\ ~rpc.waiting /\ v # w /\ views[v] > 0 /\ views[w] \in 1..(MaxViews - 1)
  /\ users32' = [users32 EXCEPT ![v] = Left(v), ![w] = @ + 1]
  /\ views' = [views EXCEPT ![v] = @ - 1, ![w] = @ + 1]
  /\ mapped' = IF Left(v) = 0 THEN mapped \ {v} ELSE mapped
  /\ UNCHANGED <<hostTable, known, returned, rpc, unwind, broken, spent>>

ClientRequests == AllocVec \/ FreeVec \/ GiveUp
HostSteps == AllocSucceeds \/ AllocFails \/ ReserveFails \/ FreeRefused \/ FreeSucceeds
Replies == AllocRejected \/ ViewMade \/ HeaderFails \/ InitFails \/ Freed
ViewSteps == (\E v \in Vec : CopyView(v) \/ DropView(v)) \/ (\E v, w \in Vec : AssignView(v, w))
\* A header touched after it was unmapped ends the game.
TableNext == ~broken /\ (ClientRequests \/ HostSteps \/ Replies \/ ViewSteps)

TableSpec == TableInit /\ [][TableNext]_tableVars

---------------------------------------------------------------------------
TableTypeOK ==
  /\ vecs \in Seq(Vec \cup {None}) /\ Len(vecs) <= Instances
  /\ freeVecs \in Seq(Ids)
  /\ created \in 0..Instances
  /\ handle32 \in [Vec -> {"none", "open", "closed"}]
  /\ users32 \in [Vec -> 0..MaxViews] /\ views \in [Vec -> 0..MaxViews]
  /\ mapped \subseteq Vec /\ known \subseteq Ids \X Vec /\ returned \subseteq Vec
  /\ rpc \in [command : {"none", "AllocVec", "FreeVec"}, id : Ids \cup {Invalid},
              vec : Vec \cup {None}, state : {"idle", "asked", "answered"}, waiting : BOOLEAN]
  /\ unwind \in Vec \cup {None} /\ broken \in BOOLEAN

Failed(step) == step \in ToSet(spent.failed)

\* Unless an initial capacity could not be reserved, the queue of reusable ids
\* names exactly the emptied entries, each once: none can be handed out twice.
FreeListSound ==
  ~Failed("reserve") =>
    /\ IsInjective(freeVecs)
    /\ ToSet(freeVecs) = {i \in DOMAIN vecs : vecs[i] = None}

\* Whatever fails, an emptied entry can be had again ...
NoIdLost == \A i \in DOMAIN vecs : vecs[i] = None => i \in ToSet(freeVecs)

\* ... and FreeVec never empties the entry of a vector the client views.
FreedUnviewed ==
  [][\A i \in DOMAIN vecs : vecs[i] # None /\ vecs'[i] = None => views[vecs[i]] = 0]_tableVars

\* "Vectors are only recycled after both sides have released their shared
\* ownership" (free_vec): a vector the client views still has its entry, unless
\* an initial capacity could not be reserved, after which an id may be queued twice.
RecycledWhenReleased == ~Failed("reserve") => \A k \in known : views[k[2]] > 0 => vecs[k[1]] = k[2]

\* The handles the host duplicated into the client are open exactly as long as
\* the vector is in the table: nothing leaks and nothing closed is handed out.
HandlesFollowTable ==
  ~Failed("reserve") => \A v \in Vec : handle32[v] = "open" <=> \E i \in DOMAIN vecs : vecs[i] = v

\* A header stays mapped as long as, and no longer than, a view may use it, and
\* the count the host reads is the number of those views; unless the first window
\* of a view could not be mapped, whose header goes before it.
HeaderHeld ==
  ~Failed("init") =>
    /\ ~broken
    /\ \A v \in Vec : (v \in mapped <=> views[v] > 0) /\ (unwind = None => users32[v] = views[v])

\* Ids: none lost, none handed out twice, none taken from a vector in use.
IdsSound == TableTypeOK /\ FreeListSound /\ NoIdLost /\ RecycledWhenReleased

\* What the two processes share of a vector lives as long as either uses it.
SharesSound == HandlesFollowTable /\ HeaderHeld
===============================================================================
