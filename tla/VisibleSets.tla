----------------------------- MODULE VisibleSets -----------------------------
(***************************************************************************)
(* The visible sets the 64-bit host fills for the render thread.           *)
(*                                                                         *)
(* The render thread asks for meshes by RPC: it waits for the previous     *)
(* command, fills the one parameter block, sets rpcStart and goes on.  The *)
(* host appends to a vector in shared memory and sets rpcComplete at the   *)
(* top of its loop.  An unsorted query streams: the vector has an update   *)
(* and a complete event of its own, and the render thread draws while the  *)
(* host appends.  A sorted query, or a sort, is waited for first.          *)
(*                                                                         *)
(* Meshes name Direct3D buffers.  Streamed buffers are created, committed  *)
(* to the host, and released again after the host has acknowledged their   *)
(* removal.  Releasing a buffer turns what still names it into Dangling.   *)
(*                                                                         *)
(* A pass of a frame is a list of operations in program order.  Passes may *)
(* follow each other in any order: the order of a real frame depends on    *)
(* the cell, the weather and the settings, and is one of those.            *)
(***************************************************************************)
EXTENDS Naturals, Sequences, FiniteSets

CONSTANTS
  Buffers,     (* buffers of merged statics: created and released        *)
  Ground,      (* terrain and grass geometry: never released             *)
  Dangling,    (* a pointer to a released buffer, or bytes never written *)
  Cap,         (* bound: elements a vector can hold                      *)
  Window,      (* elements per window: an update is signalled for each   *)
  Sessions     (* what a session may run into: the passes its settings   *)
               (* have, a bound on the waits for the host that give up   *)
               (* after 60 s, and whether the host process may be lost   *)

Vecs == {"land", "distant", "extra", "grass"}
PassNames == {"cell", "shadow", "land", "statics", "grass", "reflection", "finish",
              "land_depth", "statics_depth", "evict", "tick"}

Content == Buffers \cup {Ground, Dangling}
Calls == {"query", "sorted", "sort", "space", "commit", "plan", "finish"}

ASSUME VisibleSetsAssumption ==
  /\ Ground \notin Buffers
  /\ Dangling \notin Buffers \cup {Ground}
  /\ IsFiniteSet(Buffers)
  /\ Cap \in Nat \ {0}
  /\ Window \in Nat \ {0}
  /\ Sessions \subseteq [passes : SUBSET PassNames, timeouts : Nat, loss : BOOLEAN]

VARIABLES
  session,  (* one of Sessions                                            *)
  (* the shared vectors *)
  slots,    (* Vecs -> 1..Cap -> the element stored there                 *)
  size,     (* Vecs -> VecShare.size                                      *)
  upd,      (* Vecs -> the update event                                   *)
  cmp,      (* Vecs -> the complete event                                 *)
  pop,      (* Vecs -> how often each mesh was appended since the clear   *)
  (* the RPC block *)
  call,     (* command, vector and reply                                  *)
  start,    (* rpcStart                                                   *)
  done,     (* rpcComplete                                                *)
  commits,  (* the shared list of residency commits, and what it held      *)
  (* the host *)
  alive,    (* whether the process runs                                   *)
  host,     (* where its loop is                                          *)
  job,      (* the vector it works on                                     *)
  old,      (* the size a push, a sorted query or a commit has read        *)
  plan,     (* sort_scratch                                               *)
  put,      (* how much of it is written back, or of a list is applied    *)
  shown,    (* the buffers its resident meshes name                       *)
  space,    (* whether a world space is selected                          *)
  (* the render thread *)
  todo,     (* what is left of the current pass                           *)
  pending,  (* m_isRpcPending                                             *)
  timeouts, (* waits that gave up                                         *)
  found,    (* hasCurrentWorldSpace                                       *)
  res,      (* Buffers -> StaticResourceState                             *)
  at,       (* where VisibleSet::Render is                                *)
  reading,  (* reading32                                                  *)
  next,     (* m_nextIndex                                                *)
  seen,     (* the size wait_read started from                            *)
  drawn     (* how often each mesh was drawn by this Render               *)

vecs   == << slots, size, upd, cmp, pop >>
rpc    == << call, start, done, commits >>
local  == << old, plan, put >>
server == << alive, host, job, local, shown, space >>
draw   == << at, reading, next, seen, drawn >>
client == << todo, pending, timeouts, found, res, draw >>
steps  == << vecs, rpc, server, client >>
vars   == << session, steps >>

Nothing == [c \in Content |-> 0]
Count(s) == [c \in Content |-> Cardinality({i \in DOMAIN s : s[i] = c})]

Waits == {"wait", "found", "release", "confirm"}

(* An operation of a pass; when it fails, the next skip ones are left out. *)
Ops == [do : Calls \cup Waits \cup
               {"clear", "poll", "unlist", "remove", "list", "admit", "draw", "stream"},
        vec : Vecs,
        skip : 0 .. 12]

TypeOK ==
  /\ session \in Sessions
  /\ slots \in [Vecs -> [1 .. Cap -> Content]]
  /\ size \in [Vecs -> 0 .. Cap]
  /\ upd \in [Vecs -> BOOLEAN]
  /\ cmp \in [Vecs -> BOOLEAN]
  /\ pop \in [Vecs -> [Content -> Nat]]
  /\ call \in [do : Calls, vec : Vecs, reply : BOOLEAN]
  /\ start \in BOOLEAN
  /\ done \in BOOLEAN
  /\ commits \in [entries : Seq([buffer : Buffers, resident : BOOLEAN]), size : Nat]
  /\ commits.size <= Len(commits.entries)
  /\ alive \in BOOLEAN
  /\ host \in {"wait", "stream", "stored", "rewrite", "commit", "done"}
  /\ job \in Vecs
  /\ old \in Nat
  /\ plan \in Seq(Content)
  /\ put \in Nat
  /\ host = "rewrite" => put <= Len(plan)
  /\ host = "commit" => put <= old /\ old <= Len(commits.entries)
  /\ shown \in SUBSET (Buffers \cup {Dangling})
  /\ space \in BOOLEAN
  /\ todo \in Seq(Ops)
  /\ pending \in BOOLEAN
  /\ timeouts \in 0 .. session.timeouts
  /\ found \in BOOLEAN
  /\ res \in [Buffers -> {"out", "pending", "in", "leaving"}]
  /\ at \in {"idle", "first", "loop", "enter", "more", "check"}
  /\ reading \in BOOLEAN
  /\ next \in 0 .. Cap
  /\ seen \in 0 .. Cap
  /\ drawn \in [Content -> Nat]
  (* a completion is pending's, and one command is under way at a time *)
  /\ done => pending /\ host = "wait" /\ ~start
  /\ start => pending /\ host = "wait"
  /\ host # "wait" => pending

Init ==
  /\ session \in Sessions
  /\ slots = [v \in Vecs |-> [i \in 1 .. Cap |-> Dangling]]
  /\ size = [v \in Vecs |-> 0]
  /\ upd = [v \in Vecs |-> FALSE]
  /\ cmp = [v \in Vecs |-> FALSE]
  /\ pop = [v \in Vecs |-> Nothing]
  /\ call = [do |-> "finish", vec |-> "land", reply |-> FALSE]
  /\ start = FALSE
  /\ done = FALSE
  /\ commits = [entries |-> << >>, size |-> 0]
  /\ alive = TRUE
  /\ host = "wait"
  /\ job = "land"
  /\ old = 0
  /\ plan = << >>
  /\ put = 0
  /\ shown = {}
  /\ space = FALSE
  /\ todo = << >>
  /\ pending = FALSE
  /\ timeouts = 0
  /\ found = FALSE
  /\ res = [b \in Buffers |-> "out"]
  /\ at = "idle"
  /\ reading = FALSE
  /\ next = 0
  /\ seen = 0
  /\ drawn = Nothing

(***************************************************************************)
(* The host.  listen: set rpcComplete, wait for rpcStart, copy the         *)
(* parameters, dispatch.  An error of a command is logged, nothing more.   *)
(***************************************************************************)
Showable(v) == IF v \in {"land", "grass"} THEN {Ground} ELSE shown

Held(v) == [i \in 1 .. size[v] |-> slots[v][i]]

(* What sorting yields: the elements the vector holds and any visible      *)
(* meshes, in any order.  One more than fits makes reserve fail.           *)
Sorted(v) ==
  {p \in UNION {[1 .. n -> Showable(v) \cup {Held(v)[i] : i \in 1 .. size[v]}] :
                  n \in size[v] .. Cap + 1} :
     \A c \in Content :
       \/ Count(p)[c] = Count(Held(v))[c]
       \/ Count(p)[c] > Count(Held(v))[c] /\ c \in Showable(v)}

Dispatch(command) ==
  /\ alive
  /\ host = "wait"
  /\ start
  /\ call.do = command
  /\ start' = FALSE
  /\ job' = call.vec
  /\ UNCHANGED << slots, size, upd, cmp, done, commits, alive, client >>

(* Without a world space a query returns before start_write.               *)
TakeQuery ==
  /\ Dispatch("query")
  /\ host' = IF space THEN "stream" ELSE "done"
  /\ UNCHANGED << pop, call, local, shown, space >>

Rewriting(p) ==
  /\ host' = "rewrite"
  /\ plan' = p
  /\ put' = 0
  /\ old' = size[call.vec]
  /\ pop' = [pop EXCEPT ![call.vec] = Count(p)]

TakeSorted ==
  /\ Dispatch("sorted")
  /\ \/ /\ ~space \/ \E p \in Sorted(call.vec) : Len(p) > Cap
        /\ host' = "done"
        /\ UNCHANGED << pop, local >>
     \/ /\ space
        /\ \E p \in Sorted(call.vec) : Len(p) <= Cap /\ Rewriting(p)
  /\ UNCHANGED << call, shown, space >>

TakeSort ==
  /\ Dispatch("sort")
  /\ \E p \in Sorted(call.vec) : Len(p) = size[call.vec] /\ Rewriting(p)
  /\ UNCHANGED << call, shown, space >>

TakeSpace ==
  /\ Dispatch("space")
  /\ host' = "done"
  /\ space' \in BOOLEAN
  /\ call' = [call EXCEPT !.reply = space']
  /\ UNCHANGED << pop, local, shown >>

(* The whole batch is validated first.  The client's batches are valid:    *)
(* known resources, and buffers that exist when they are committed.        *)
TakeCommit ==
  /\ Dispatch("commit")
  /\ host' = "commit"
  /\ old' = commits.size
  /\ UNCHANGED << pop, call, plan, put, shown, space >>

Apply(mentioned) ==
  /\ alive
  /\ host = "commit"
  /\ put < old
  /\ put' = put + 1
  /\ shown' = mentioned
  /\ UNCHANGED << vecs, rpc, alive, host, job, old, plan, space, client >>

Entry == commits.entries[put + 1]

(* Mutant: a removal clears the residency flag and keeps the pointers.     *)
ApplyKeepingPointers == Apply(shown \cup {Entry.buffer})

(* One entry of the list as it is by now: a client that gave up on the     *)
(* command may be rewriting it.  How many are applied was read before.     *)
ApplyCommit ==
  Apply(IF Entry.resident THEN shown \cup {Entry.buffer} ELSE shown \ {Entry.buffer})

CommitsApplied ==
  /\ alive
  /\ host = "commit"
  /\ put = old
  /\ host' = "done"
  /\ put' = 0
  /\ old' = 0
  /\ call' = [call EXCEPT !.reply = TRUE]
  /\ UNCHANGED << vecs, start, done, commits, alive, job, plan, shown, space, client >>

(* Commands that touch none of these vectors: PlanResidency has vectors of *)
(* its own.                                                                *)
TakeOther ==
  /\ Dispatch("plan") \/ Dispatch("finish")
  /\ host' = "done"
  /\ UNCHANGED << pop, call, local, shown, space >>

(* SharedVec::push: the element first, then the size, then the event when  *)
(* a window was begun.                                                     *)
Store ==
  /\ alive
  /\ host = "stream"
  /\ size[job] < Cap
  /\ \E c \in Showable(job) : slots' = [slots EXCEPT ![job][size[job] + 1] = c]
  /\ old' = size[job]
  /\ host' = "stored"
  /\ UNCHANGED << size, upd, cmp, pop, rpc, alive, job, plan, put, shown, space, client >>

Publish ==
  /\ alive
  /\ host = "stored"
  /\ size' = [size EXCEPT ![job] = old + 1]
  /\ pop' = [pop EXCEPT ![job][slots[job][old + 1]] = @ + 1]
  /\ upd' = [upd EXCEPT ![job] = @ \/ old % Window = 0]
  /\ host' = "stream"
  /\ old' = 0
  /\ UNCHANGED << slots, cmp, rpc, alive, job, plan, put, shown, space, client >>

(* The traversal ends, or a push found the vector full: end_write either   *)
(* way.                                                                    *)
EndWrite ==
  /\ alive
  /\ host = "stream"
  /\ cmp' = [cmp EXCEPT ![job] = TRUE]
  /\ host' = "done"
  /\ UNCHANGED << slots, size, upd, pop, rpc, alive, job, local, shown, space, client >>

(* Writing a sorted result back: set where the vector had an element, push *)
(* beyond.  No events: these vectors are not read meanwhile.               *)
WriteBack ==
  /\ alive
  /\ host = "rewrite"
  /\ put < Len(plan)
  /\ put' = put + 1
  /\ IF put' <= old
       THEN slots' = [slots EXCEPT ![job][put'] = plan[put']] /\ size' = size
       ELSE /\ slots' = [slots EXCEPT ![job][size[job] + 1] = plan[put']]
            /\ size' = [size EXCEPT ![job] = @ + 1]
  /\ UNCHANGED << upd, cmp, pop, rpc, alive, host, job, old, plan, shown, space, client >>

WrittenBack ==
  /\ alive
  /\ host = "rewrite"
  /\ put = Len(plan)
  /\ host' = "done"
  /\ plan' = << >>
  /\ put' = 0
  /\ old' = 0
  /\ UNCHANGED << vecs, rpc, alive, job, shown, space, client >>

(* The top of the loop.                                                    *)
Complete ==
  /\ alive
  /\ host = "done"
  /\ host' = "wait"
  /\ done' = TRUE
  /\ UNCHANGED << vecs, call, start, commits, alive, job, local, shown, space, client >>

HostDies ==
  /\ session.loss
  /\ alive
  /\ alive' = FALSE
  /\ UNCHANGED << vecs, rpc, host, job, local, shown, space, client >>

(***************************************************************************)
(* The render thread: the passes.                                          *)
(***************************************************************************)
Op(do, v, skip) == [do |-> do, vec |-> v, skip |-> skip]
Ask(do, v) == << Op(do, v, 0) >>

(* renderDistantLand, also drawn inside the shadow and reflection passes.  *)
Land == Ask("clear", "land") \o Ask("query", "land") \o Ask("stream", "land")
OptionalLand == {<< >>} \cup (IF "land" \in session.passes THEN {Land} ELSE {})

(* renderReflectedStatics                                                  *)
Reflected ==
  << Op("clear", "extra", 0), Op("sorted", "extra", 2), Op("wait", "extra", 1),
     Op("draw", "extra", 0) >>

(* Mutant: only the vector of the distant statics is cleared.              *)
EvictionKeepingExtra ==
  << Op("clear", "distant", 0), Op("unlist", "extra", 3), Op("remove", "extra", 0),
     Op("commit", "extra", 1), Op("release", "extra", 0) >>

(* evictResidencyAtStage0 and tickResidencyEviction: a failed commit skips *)
(* the release, a failed poll everything.                                  *)
Eviction ==
  << Op("clear", "distant", 0), Op("clear", "extra", 0), Op("unlist", "extra", 3),
     Op("remove", "extra", 0), Op("commit", "extra", 1), Op("release", "extra", 0) >>

(* planResidency: the blocking command, whose failure changes nothing.     *)
Planning == << Op("plan", "extra", 1), Op("wait", "extra", 0) >>

Admission ==
  << Op("list", "extra", 3), Op("admit", "extra", 0), Op("commit", "extra", 1),
     Op("confirm", "extra", 0) >>

(* Mutant: the poll before a clear is left out.                            *)
Unpolled(ops) == ops

Polled(ops) == << Op("poll", "extra", Len(ops)) >> \o ops

MayEvict == \E b \in Buffers : res[b] \in {"in", "leaving"}

Scripts(pass) ==
  CASE pass = "cell" -> {<< Op("space", "extra", 1), Op("found", "extra", 0) >>}
    [] pass = "shadow" ->
         {Ask("clear", "extra") \o l : l \in OptionalLand} \cup
         {Ask("clear", "extra") \o Ask("query", "extra") \o l \o Ask("stream", "extra") :
            l \in OptionalLand}
    [] pass = "land" -> {Land}
    [] pass = "statics" ->
         {Ask("clear", "distant")} \cup
         {Ask("clear", "distant") \o [i \in 1 .. k |-> Op("query", "distant", 0)] \o
            Ask("sort", "distant") \o Ask("wait", "distant") \o Ask("draw", "distant") :
            k \in 0 .. 3}
    [] pass = "grass" ->
         {Ask("clear", "grass") \o Ask("sorted", "grass") \o Ask("wait", "grass") \o Ask("draw", "grass")}
    [] pass = "reflection" -> {Polled(l \o Reflected) : l \in OptionalLand}
    [] pass = "finish" -> {Ask("finish", "extra")}
    [] pass = "land_depth" -> {Ask("draw", "land")}
    [] pass = "statics_depth" -> {Ask("draw", "distant")}
    [] pass = "evict" -> IF MayEvict THEN {Polled(Eviction)} ELSE {}
    [] pass = "tick" ->
         {Polled(e \o p \o Admission) :
            e \in {<< >>} \cup (IF MayEvict THEN {Eviction} ELSE {}), p \in {<< >>, Planning}}

Start ==
  /\ todo = << >>
  /\ \E pass \in session.passes :
       /\ pass \in {"cell", "evict", "tick"} \/ found
       /\ todo' \in Scripts(pass)
  /\ UNCHANGED << vecs, rpc, server, pending, timeouts, found, res, draw >>

At(do) == todo # << >> /\ Head(todo).do = do
Vec == Head(todo).vec
Failed == SubSeq(todo, Head(todo).skip + 2, Len(todo))

(***************************************************************************)
(* Commands.                                                               *)
(***************************************************************************)
Answered == alive /\ done

(* Mutant: a command is sent without waiting for the previous one.         *)
FreeAlways == TRUE

Free == ~pending \/ Answered

(* A wait that fails: the process handle is signalled, or 60 seconds pass. *)
Unanswered ==
  \/ /\ ~alive
     /\ UNCHANGED timeouts
  \/ /\ alive /\ ~done
     /\ timeouts < session.timeouts
     /\ timeouts' = timeouts + 1

Begin ==
  /\ \E c \in Calls : At(c)
  /\ Free
  /\ done' = FALSE
  /\ call' = [do |-> Head(todo).do, vec |-> Vec, reply |-> FALSE]
  /\ start' = TRUE
  /\ pending' = TRUE
  /\ todo' = Tail(todo)
  /\ UNCHANGED << vecs, commits, server, timeouts, found, res, draw >>

(* WAIT_FOR_PREVIOUS_COMMAND gives up: the command is not sent.            *)
Refused ==
  /\ \E c \in Calls : At(c)
  /\ pending
  /\ Unanswered
  /\ todo' = Failed
  /\ found' = (found /\ ~At("space"))
  /\ UNCHANGED << vecs, rpc, server, pending, res, draw >>

AwaitAnswer ==
  /\ Answered
  /\ done' = FALSE
  /\ pending' = FALSE
  /\ todo' = Tail(todo)

(* Mutant: the completion is not waited for.                               *)
WaitNot ==
  /\ At("wait")
  /\ todo' = Tail(todo)
  /\ UNCHANGED << vecs, rpc, server, pending, timeouts, found, res, draw >>

(* waitForCompletion                                                       *)
Wait ==
  /\ At("wait")
  /\ AwaitAnswer
  /\ UNCHANGED << vecs, call, start, commits, server, timeouts, found, res, draw >>

Found ==
  /\ At("found")
  /\ AwaitAnswer
  /\ found' = call.reply
  /\ UNCHANGED << vecs, call, start, commits, server, timeouts, res, draw >>

WaitFails ==
  /\ \E w \in Waits : At(w)
  /\ Unanswered
  /\ todo' = Failed
  /\ found' = (found /\ ~At("found"))
  /\ UNCHANGED << vecs, rpc, server, pending, res, draw >>

(* pollRpcCompletion: a completion, when there is one, is consumed.        *)
Poll ==
  /\ At("poll")
  /\ IF Free
       THEN /\ pending' = FALSE
            /\ done' = FALSE
            /\ todo' = Tail(todo)
       ELSE /\ todo' = Failed
            /\ UNCHANGED << pending, done >>
  /\ UNCHANGED << vecs, call, start, commits, server, timeouts, found, res, draw >>

(* VisibleSet::RemoveAll: the size, nothing else.                          *)
Clear ==
  /\ At("clear")
  /\ size' = [size EXCEPT ![Vec] = 0]
  /\ pop' = [pop EXCEPT ![Vec] = Nothing]
  /\ todo' = Tail(todo)
  /\ UNCHANGED << slots, upd, cmp, rpc, server, pending, timeouts, found, res, draw >>

(***************************************************************************)
(* Residency.                                                              *)
(***************************************************************************)
InState(s) == {b \in Buffers : res[b] = s}

Moved(set, s) == [b \in Buffers |-> IF b \in set THEN s ELSE res[b]]

Emptied == commits' = [commits EXCEPT !.size = 0]

(* A batch whose removal was not acknowledged is taken up again, less what *)
(* the planner wants back.  The list is cleared, and rewritten, before the *)
(* command waits for its turn.                                             *)
Unlist ==
  /\ At("unlist")
  /\ \/ /\ InState("leaving") = {}
        /\ \E batch \in SUBSET InState("in") \ {{}} : res' = Moved(batch, "leaving")
        /\ Emptied
        /\ todo' = Tail(todo)
     \/ \E back \in SUBSET InState("leaving") :
          /\ InState("leaving") # {}
          /\ res' = Moved(back, "pending")
          /\ IF back = InState("leaving")
               THEN todo' = Failed /\ UNCHANGED commits
               ELSE todo' = Tail(todo) /\ Emptied
  /\ UNCHANGED << vecs, call, start, done, server, pending, timeouts, found, draw >>

(* Commits that did not complete are retried first; else the buffers of a  *)
(* prepared resource, when there is one, are created.                      *)
List ==
  /\ At("list")
  /\ \/ /\ InState("pending") # {}
        /\ Emptied
        /\ todo' = Tail(todo)
        /\ UNCHANGED res
     \/ /\ InState("pending") = {}
        /\ \E b \in InState("out") : res' = Moved({b}, "pending")
        /\ Emptied
        /\ todo' = Tail(todo)
     \/ /\ InState("pending") = {}
        /\ todo' = Failed
        /\ UNCHANGED << res, commits >>
  /\ UNCHANGED << vecs, call, start, done, server, pending, timeouts, found, draw >>

Listed == {commits.entries[i].buffer : i \in 1 .. commits.size}

(* push_back: what the list held beyond stays in the shared memory.        *)
PushBack(b, resident) ==
  LET n == commits.size + 1
      entry == [buffer |-> b, resident |-> resident]
  IN commits' = [entries |-> IF n > Len(commits.entries)
                               THEN Append(commits.entries, entry)
                               ELSE [commits.entries EXCEPT ![n] = entry],
                 size |-> n]

(* One entry of a batch of removals, or the one of an admission.           *)
PushCommit ==
  /\ \/ /\ At("remove")
        /\ \E b \in InState("leaving") \ Listed :
             /\ PushBack(b, FALSE)
             /\ todo' = IF InState("leaving") = Listed \cup {b} THEN Tail(todo) ELSE todo
     \/ /\ At("admit")
        /\ \E b \in InState("pending") : PushBack(b, TRUE)
        /\ todo' = Tail(todo)
  /\ UNCHANGED << vecs, call, start, done, server, pending, timeouts, found, res, draw >>

Gone(set, c) == IF c \in set THEN Dangling ELSE c

(* The removal is acknowledged: the buffers go.                            *)
Release ==
  /\ At("release")
  /\ AwaitAnswer
  /\ IF call.reply
       THEN LET gone == InState("leaving")
            IN /\ res' = Moved(gone, "out")
               /\ slots' = [v \in Vecs |-> [i \in 1 .. Cap |-> Gone(gone, slots[v][i])]]
               /\ plan' = [i \in DOMAIN plan |-> Gone(gone, plan[i])]
               /\ shown' = {Gone(gone, c) : c \in shown}
       ELSE UNCHANGED << res, slots, plan, shown >>
  /\ UNCHANGED << size, upd, cmp, pop, call, start, commits, alive, host, job, old, put, space,
                  timeouts, found, draw >>

Confirm ==
  /\ At("confirm")
  /\ AwaitAnswer
  /\ res' = IF call.reply THEN Moved(Listed, "in") ELSE res
  /\ UNCHANGED << vecs, call, start, commits, server, timeouts, found, draw >>

(***************************************************************************)
(* VisibleSet::Render.                                                     *)
(***************************************************************************)
Drawing == At("draw") \/ At("stream")

(* start_read, for a parallel read only, and restart.                      *)
DrawBegin ==
  /\ Drawing
  /\ at = "idle"
  /\ IF At("stream")
       THEN /\ at' = "first"
            /\ reading' = TRUE
            /\ seen' = size[Vec]
       ELSE /\ at' = "loop"
            /\ UNCHANGED << reading, seen >>
  /\ UNCHANGED << vecs, rpc, server, todo, pending, timeouts, found, res, next, drawn >>

Reading == at \in {"first", "more"}

(* Mutant: any wake ends the wait, as an update from earlier elements does.*)
NothingNewUnlessWoken == reading /\ size[Vec] = seen /\ ~upd[Vec]

NothingNew == reading /\ size[Vec] = seen
AfterRead == IF at = "first" THEN "loop" ELSE "check"

(* Mutant: the update event is a manual-reset event.                       *)
TakeUpdateManually ==
  /\ Reading
  /\ NothingNew
  /\ upd[Vec]
  /\ UNCHANGED steps

(* wait_read's loop: an update that brought nothing new is waited out.     *)
TakeUpdate ==
  /\ Reading
  /\ NothingNew
  /\ upd[Vec]
  /\ upd' = [upd EXCEPT ![Vec] = FALSE]
  /\ UNCHANGED << slots, size, cmp, pop, rpc, server, client >>

TakeComplete ==
  /\ Reading
  /\ NothingNew
  /\ ~upd[Vec]
  /\ cmp[Vec]
  /\ cmp' = [cmp EXCEPT ![Vec] = FALSE]
  /\ reading' = FALSE
  /\ at' = AfterRead
  /\ UNCHANGED << slots, size, upd, pop, rpc, server, todo, pending, timeouts, found, res, next, seen, drawn >>

ReadOn ==
  /\ Reading
  /\ ~NothingNew
  /\ at' = AfterRead
  /\ UNCHANGED << vecs, rpc, server, todo, pending, timeouts, found, res, reading, next, seen, drawn >>

(* Mutant: the cursor of the view, one behind after the first element.     *)
AtEndLagging(v) == IF next = 0 THEN size[v] = 0 ELSE next > size[v]

AtEnd(v) == next >= size[v]

DrawMesh ==
  /\ Drawing
  /\ at \in {"loop", "check"}
  /\ ~AtEnd(Vec)
  /\ next' = next + 1
  /\ drawn' = [drawn EXCEPT ![slots[Vec][next']] = @ + 1]
  /\ at' = "loop"
  /\ UNCHANGED << vecs, rpc, server, todo, pending, timeouts, found, res, reading, seen >>

(* at_end at the end of what is published: wait_read, and look again.      *)
WaitRead ==
  /\ Drawing
  /\ at = "loop"
  /\ AtEnd(Vec)
  /\ seen' = size[Vec]
  /\ at' = "more"
  /\ UNCHANGED << vecs, rpc, server, todo, pending, timeouts, found, res, reading, next, drawn >>

DrawEnd ==
  /\ Drawing
  /\ at = "check"
  /\ AtEnd(Vec)
  /\ at' = "idle"
  /\ reading' = FALSE
  /\ next' = 0
  /\ seen' = 0
  /\ drawn' = Nothing
  /\ todo' = Tail(todo)
  /\ UNCHANGED << vecs, rpc, server, pending, timeouts, found, res >>

HostStep ==
  \/ TakeQuery \/ TakeSorted \/ TakeSort \/ TakeSpace \/ TakeCommit \/ TakeOther
  \/ ApplyCommit \/ CommitsApplied
  \/ Store \/ Publish \/ EndWrite \/ WriteBack \/ WrittenBack \/ Complete

PassStep ==
  \/ Begin \/ Refused \/ Wait \/ Found \/ WaitFails \/ Poll \/ Clear
  \/ Unlist \/ List \/ PushCommit \/ Release \/ Confirm
  \/ DrawBegin \/ TakeUpdate \/ TakeComplete \/ ReadOn \/ DrawMesh \/ WaitRead \/ DrawEnd

Next == (HostStep \/ HostDies \/ Start \/ PassStep) /\ UNCHANGED session

Spec == Init /\ [][Next]_vars

(* The host process and the render thread are scheduled.  Nothing makes a  *)
(* pass start, a wait give up while an answer can come, or the host die.   *)
FairSpec == Spec /\ WF_steps(HostStep) /\ WF_steps(PassStep)

(***************************************************************************)
(* Properties.                                                             *)
(***************************************************************************)
(* No mesh is drawn from a released buffer, or from bytes that were never  *)
(* written: what IpcClientVector::at_end, the clears before an eviction    *)
(* and the acknowledged removal are for.                                   *)
NothingDangling == drawn[Dangling] = 0

Serving(v) ==
  /\ alive
  /\ \/ job = v /\ host \in {"stream", "stored", "rewrite"}
     \/ start /\ call.vec = v /\ call.do \in {"query", "sorted", "sort"}

(* While no wait has given up: when a render ends, the host has finished    *)
(* the set, and every mesh it put there since the clear has been drawn, as *)
(* often as it was put, in a parallel read as in one of a finished set.    *)
DrawsWholeSet ==
  alive /\ timeouts = 0 /\ Drawing /\ at = "check" /\ AtEnd(Vec) =>
    ~Serving(Vec) /\ drawn = pop[Vec]

(* "Never clear a shared vector the host may be writing": while no wait    *)
(* has given up, no pass does.                                             *)
QuietClear == [][\A v \in Vecs : timeouts = 0 /\ Serving(v) => size'[v] >= size[v]]_vars

(* Buffers are released only while neither persistent visible vector can   *)
(* name them and no command is under way, timeouts or not.                 *)
EvictionIsQuiet ==
  [][(\E b \in Buffers : res[b] = "leaving" /\ res'[b] = "out") =>
       /\ size["distant"] = 0 /\ size["extra"] = 0
       /\ host = "wait" /\ ~start]_vars

(* The host's resident meshes name only buffers that exist: a removal that *)
(* was not acknowledged keeps them, however late the host executes it.     *)
AcknowledgedPointers == \A c \in shown : c \in Buffers /\ res[c] # "out"

(* Every pass ends while the host lives and answers within 60 s: the       *)
(* render thread, and the game with it, goes on.                           *)
PassEnds == todo # << >> ~> todo = << >> \/ timeouts > 0 \/ ~alive

(* docs/architecture/ipc.md: "if the host dies the client gets ServerLost  *)
(* and distant land fails gracefully."                                     *)
FailsGracefully == ~alive /\ todo # << >> ~> todo = << >>

(* Nothing that was released is named, by the sets or by the host's meshes. *)
NothingReleasedIsNamed == TypeOK /\ NothingDangling /\ AcknowledgedPointers

(* No set is cleared and no buffer given up under a writer.                 *)
ClearsAreQuiet == QuietClear /\ EvictionIsQuiet
=============================================================================
