------------------------------ MODULE Residency ------------------------------
(***************************************************************************)
(* Streaming of merged statics in the game: the catalog of resources, the  *)
(* ledger of their bytes, the I/O thread that reads them, admission and    *)
(* eviction at the boundaries of a frame, and the cap that only falls.     *)
(*                                                                         *)
(* The host plans (ResidencyPlanner) and learns of transitions by RPC.  A  *)
(* wait for an RPC may give up: the command then runs later, with what the *)
(* shared list of commits holds when the host gets to it.  The render      *)
(* thread does one operation of `todo' per step, the I/O thread takes or   *)
(* finishes a request.                                                     *)
(***************************************************************************)
EXTENDS ResidencyPlanner

CONSTANTS
  FirstCaps,   (* the caps that may be selected when the pump gets here    *)
  Candidates,  (* caps a later sample of the memory budget may propose     *)
  Samples,     (* kMergedBudgetRatchetSamples                              *)
  Places,      (* where the player may be                                  *)
  FirstPlaces, (* where a session may begin                                *)
  AdmitRes,    (* kResidencyAdmitBudgetResources                           *)
  EvictRes,    (* kResidencyEvictBudgetResources                           *)
  ReadyLimit,  (* kReadyQueueLimitBytes                                    *)
  FreezeAfter, (* removals not acknowledged before residency freezes       *)
  MaxMoves,    (* bound: moves of the player and loaded saves              *)
  MaxLateRpcs, (* bound: RPCs whose wait gives up                          *)
  MaxFaults    (* bound: reads and Direct3D calls that fail                *)

ASSUME ResidencyAssumption ==
  /\ FirstCaps \cup Candidates \subseteq Nat
  /\ {Samples, AdmitRes, EvictRes, ReadyLimit, FreezeAfter} \subseteq Nat \ {0}
  /\ Places \subseteq Nat /\ FirstPlaces \subseteq Places
  /\ {MaxMoves, MaxLateRpcs, MaxFaults} \subseteq Nat

VARIABLES
  (* the session *)
  phase,      (* "drain", "boot", "play", "failed": what the pump does      *)
  todo,       (* operations left of the current frame                       *)
  left,       (* resources the running admission tick may still upload      *)
  pos,        (* the player's place                                         *)
  exterior,   (* current_world_space is the exterior                        *)
  moves,
  (* the catalog and its ledger *)
  st,         (* Res -> StaticResourceState                                 *)
  readmit,    (* readmitRequested                                           *)
  reserved,   (* logicalReservedMergedBytes                                 *)
  gpu,        (* logicalGpuMergedBytes                                      *)
  cap,        (* mergedStreamingCapBytes                                    *)
  lower,      (* lowerMergedBudgetSampleCount                               *)
  epoch,      (* residencyPlanEpoch                                         *)
  cell,       (* plannerCellX                                               *)
  idle,       (* residencyIdle                                              *)
  frozen,     (* residencyFrozen                                            *)
  evictQ,     (* residencyEvictQueue                                        *)
  inFlight,   (* residencyRemovalInFlight                                   *)
  commitQ,    (* residencyCommitPending                                     *)
  refused,    (* nonCompleteRemovals                                        *)
  (* the I/O thread *)
  pending, working, ready,
  (* the RPC and the host *)
  late,       (* the command a wait gave up on: "none", "update", "plan"    *)
  list,       (* the shared list of commits while one is late               *)
  planner,    (* its planner                                                *)
  timeouts, faults

session == <<phase, left, pos, exterior, moves>>
ledger == <<st, reserved, gpu>>
queues == <<readmit, evictQ, inFlight, commitQ, refused, frozen>>
plan == <<epoch, cell, idle>>
budget == <<cap, lower>>
io == <<pending, working, ready>>
rpc == <<late, list, planner, timeouts>>
streamVars == <<session, todo, ledger, queues, plan, budget, io, rpc, faults>>

ResourceStates == {"Unloaded", "IoQueued", "CommitPending", "Resident", "EvictQueued",
                   "RemovalInFlight", "Unavailable"}
HasBuffers == {"CommitPending", "Resident", "EvictQueued", "RemovalInFlight"}
HoldsBytes == HasBuffers \cup {"IoQueued"}
Requests == [res : Res, epoch : Nat]

(* The geometry of a set of resources, counted byte by byte. *)
BytesOf(S) == Cardinality(UNION {{r} \X (1..Bytes[r]) : r \in S})
Total == BytesOf(Res)
Active == ~idle /\ ~frozen                             (* residencyActive *)
Available == IF cap > reserved THEN cap - reserved ELSE 0
Minus(a, b) == IF a > b THEN a - b ELSE 0              (* a -= min(a, b) *)
PendingEviction == Active /\ (evictQ # <<>> \/ inFlight # <<>>)
Quiescent == ~Active \/ (/\ evictQ = <<>> /\ inFlight = <<>> /\ commitQ = <<>>
                         /\ pending = <<>> /\ working = <<>> /\ ready = <<>>)

StreamTypeOK ==
  /\ phase \in {"drain", "boot", "play", "failed"}
  /\ left \in 0..AdmitRes /\ pos \in Places /\ moves \in 0..MaxMoves
  /\ st \in [Res -> ResourceStates] /\ readmit \subseteq Res
  /\ {reserved, gpu, epoch} \subseteq Nat /\ lower \in 0..(Samples - 1)
  /\ cap \in Candidates \cup FirstCaps
  /\ {idle, frozen, exterior} \subseteq BOOLEAN
  /\ \A q \in {evictQ, inFlight, commitQ} : q \in Seq(Res)
  /\ \A q \in {pending, working} : q \in Seq(Requests)
  /\ ready \in Seq([req : Requests, ok : BOOLEAN])
  /\ late \in {"none", "update", "plan"}
  /\ planner.resident \subseteq Res /\ planner.unavailable \subseteq Res

(* beginResidency: the whole set fits and is drained in file order, or the planner
   runs, first for the ring around the player and then for every frame.  A cold
   start that finds no player position goes straight to play.                  *)
StreamInit ==
  /\ cap \in FirstCaps
  /\ phase \in IF Total <= cap THEN {"drain"} ELSE {"boot", "play"}
  /\ idle = (Total <= cap)
  /\ pos \in FirstPlaces /\ exterior = TRUE /\ moves = 0 /\ left = 0 /\ todo = <<>>
  /\ st = [r \in Res |-> "Unloaded"] /\ reserved = 0 /\ gpu = 0
  /\ readmit = {} /\ evictQ = <<>> /\ inFlight = <<>> /\ commitQ = <<>>
  /\ refused = 0 /\ frozen = FALSE
  /\ epoch = 0 /\ cell = NoCell /\ lower = 0
  /\ pending = <<>> /\ working = <<>> /\ ready = <<>>
  /\ late = "none" /\ list = <<>> /\ planner = NewPlanner /\ timeouts = 0 /\ faults = 0

-----------------------------------------------------------------------------
(* Frames *)

Boot == <<"plan", "admit", "evict", "settle">>           (* pumpUploadTick *)
Stage0Frame == <<"stage0", "sample", "plan", "admit">>   (* renderStage0, Present *)
MenuFrame == <<"sample", "evict", "plan", "admit">>      (* Present alone *)

Doing(op) == todo # <<>> /\ Head(todo) = op
OpDone == todo' = Tail(todo)
Skip(op) == /\ Doing(op) /\ OpDone
            /\ UNCHANGED <<session, ledger, queues, plan, budget, io, rpc, faults>>

Frame ==
  /\ todo = <<>>
  /\ \/ phase = "drain" /\ todo' = <<"drain">>
     \/ phase = "boot" /\ todo' = Boot
     \/ phase = "play" /\ todo' \in {Stage0Frame, MenuFrame}
  /\ UNCHANGED <<session, ledger, queues, plan, budget, io, rpc, faults>>

(* The player walks or passes a door; a save is loaded (armLiveLoadResidencyTransition
   forgets the cell).                                                               *)
Move ==
  /\ phase = "play" /\ todo = <<>> /\ moves < MaxMoves
  /\ moves' = moves + 1
  /\ \/ pos' \in Places \ {pos} /\ UNCHANGED <<exterior, cell>>
     \/ exterior' = ~exterior /\ UNCHANGED <<pos, cell>>
     \/ pos' \in Places /\ exterior' = TRUE /\ cell' = IF Active THEN NoCell ELSE cell
  /\ UNCHANGED <<phase, left, todo, ledger, queues, epoch, idle, budget, io, rpc, faults>>

(* Mutant: a ratchet does not start a new count of lower samples. *)
ResampleOnward(c) ==
  IF c >= cap THEN lower' = 0 /\ UNCHANGED <<cap, plan>>
  ELSE IF lower + 1 < Samples THEN lower' = lower + 1 /\ UNCHANGED <<cap, plan>>
  ELSE lower' = lower + 1 /\ cap' = c /\ UNCHANGED plan

(* Mutant: a lower cap does not wake an idle planner. *)
ResampleQuietly(c) ==
  IF c >= cap THEN lower' = 0 /\ UNCHANGED <<cap, plan>>
  ELSE IF lower + 1 < Samples THEN lower' = lower + 1 /\ UNCHANGED <<cap, plan>>
  ELSE lower' = 0 /\ cap' = c /\ UNCHANGED plan

(* sampleMergedStreamingCap, every 500 ms: so many consecutive lower candidates
   lower the cap to the last of them and wake the planner.  The rest of the tick
   is skipped while the planner is idle or an RPC is out.                       *)
Resample(c) ==
  IF c >= cap
  THEN lower' = 0 /\ UNCHANGED <<cap, plan>>
  ELSE IF lower + 1 < Samples
  THEN lower' = lower + 1 /\ UNCHANGED <<cap, plan>>
  ELSE /\ lower' = 0 /\ cap' = c /\ UNCHANGED epoch
       /\ IF frozen \/ reserved <= c
          THEN UNCHANGED <<cell, idle>>
          ELSE cell' = NoCell /\ idle' = FALSE

Sample ==
  /\ Doing("sample")
  /\ \/ UNCHANGED <<budget, plan>>
     \/ \E c \in Candidates : Resample(c)
  /\ todo' = IF idle' \/ frozen \/ late # "none" THEN <<>> ELSE Tail(todo)
  /\ UNCHANGED <<session, ledger, queues, io, rpc, faults>>

-----------------------------------------------------------------------------
(* RPCs *)

(* commitResidency: refills the shared list, waits for a late command, submits, and
   waits.  acked is its result.                                                   *)
Submit(commits, acked) ==
  \/ /\ acked
     /\ planner' = Commit(planner, commits) /\ late' = "none" /\ list' = <<>>
     /\ UNCHANGED timeouts
  \/ /\ ~acked
     /\ IF late = "none"
        THEN timeouts < MaxLateRpcs /\ timeouts' = timeouts + 1 /\ late' = "update"
        ELSE UNCHANGED <<timeouts, late>>
     /\ list' = commits /\ UNCHANGED planner

Entry(r, state) == [res |-> r, state |-> state]

(* The host comes to a command nobody waits for any more. *)
HostLate ==
  /\ late # "none"
  /\ planner' = IF late = "update" THEN Commit(planner, list) ELSE planner
  /\ late' = "none" /\ list' = <<>>
  /\ UNCHANGED <<session, todo, ledger, queues, plan, budget, io, timeouts, faults>>

-----------------------------------------------------------------------------
(* Planning *)

(* Mutant: an admission reserves nothing until its bytes are there. *)
TakeUnreserved(g, q, e, open) ==
  LET r == q.res
  IN CASE q.do = "admit" /\ g.st[r] = "Unloaded" /\ Bytes[r] <= Available ->
            [g EXCEPT !.st[r] = "IoQueued", !.pending = Append(@, [res |-> r, epoch |-> e])]
       [] q.do = "evict" /\ g.st[r] = "Resident" ->
            [g EXCEPT !.st[r] = "EvictQueued", !.evictQ = Append(@, r)]
       [] OTHER -> g

(* readyBytes, what was read and not yet collected, is compared with its limit at
   each admission, while the I/O thread reads on: below it for sure, if all that is
   being read arrived; at it for sure, if what has arrived is that much.  It only
   grows while the game plans, so admissions are refused from some request on.     *)
ReadyAtLimit(results) == BytesOf({x.req.res : x \in {y \in Range(results) : y.ok}}) >= ReadyLimit
MayReachLimit(results, requests) ==
  BytesOf({x.req.res : x \in Range(results)} \cup {q.res : q \in Range(working \o requests)})
    >= ReadyLimit

(* What the game makes of one request of the host's.  g is the part of the state
   the requests change, open whether readyBytes is below its limit.              *)
Take(g, q, e, open) ==
  LET r == q.res
      bytes == Bytes[r]
      free == IF cap > g.reserved THEN cap - g.reserved ELSE 0
  IN CASE q.do = "admit" /\ g.st[r] = "EvictQueued" ->
            [g EXCEPT !.st[r] = "Resident", !.evictQ = Keep(@, Res \ {r})]
       [] q.do = "admit" /\ g.st[r] = "RemovalInFlight" ->
            [g EXCEPT !.readmit = @ \cup {r}]
       [] q.do = "admit" /\ g.st[r] = "Unloaded" /\ bytes <= free /\ open ->
            [g EXCEPT !.st[r] = "IoQueued", !.reserved = @ + bytes,        (* queueAdmission *)
                      !.pending = Append(@, [res |-> r, epoch |-> e])]
       [] q.do = "evict" /\ g.st[r] = "IoQueued" ->                        (* queueEviction *)
            [g EXCEPT !.st[r] = "Unloaded", !.reserved = Minus(@, bytes)]
       [] q.do = "evict" /\ g.st[r] = "Resident" ->
            [g EXCEPT !.st[r] = "EvictQueued", !.evictQ = Append(@, r)]
       [] OTHER -> g

(* Mutants: the bytes of what is cancelled stay reserved; its state stays IoQueued;
   what is being read is given up too.                                            *)
CancelKeepsBytes(g, e) ==
  LET drop == {q.res : q \in {x \in Range(pending) \cup {y.req : y \in Range(ready)} : x.epoch # e}}
  IN [g EXCEPT !.st = [r \in Res |-> IF r \in drop THEN "Unloaded" ELSE @[r]],
               !.pending = Keep(@, {q \in Range(@) : q.epoch = e})]
CancelKeepsState(g, e) == [g EXCEPT !.pending = Keep(@, {q \in Range(@) : q.epoch = e})]
CancelsReads(g, e) ==
  LET drop == {r \in Res : g.st[r] = "IoQueued"}
  IN [g EXCEPT !.st = [r \in Res |-> IF r \in drop THEN "Unloaded" ELSE @[r]],
               !.reserved = Minus(@, BytesOf(drop)),
               !.pending = Keep(@, {q \in Range(@) : q.epoch = e})]

(* cancelOlderEpochs, and the ledger bytes of what it cancelled. *)
Cancel(g, e) ==
  LET stale == {q \in Range(pending) \cup {x.req : x \in Range(ready)} : q.epoch # e}
      drop == {r \in {q.res : q \in stale} : g.st[r] = "IoQueued"}
  IN [g EXCEPT !.st = [r \in Res |-> IF r \in drop THEN "Unloaded" ELSE @[r]],
               !.reserved = Minus(@, BytesOf(drop)),
               !.pending = Keep(@, {q \in Range(@) : q.epoch = e})]

(* The state after each of the host's requests l, the first being first. *)
Granted(first, l, e, closed) ==
  LET g[i \in 0..Len(l)] == IF i = 0 THEN first ELSE Take(g[i - 1], l[i], e, i < closed)
  IN g

(* planResidency: a new cell starts an epoch and drops what the old one queued; what
   the I/O thread is reading stays.  Then the host's requests, in order.           *)
Plan(heading) ==
  LET new == Cell(pos) # cell
      e == IF new THEN epoch + 1 ELSE epoch
      g0 == [st |-> st, reserved |-> reserved, readmit |-> readmit, evictQ |-> evictQ,
             pending |-> pending]
      g1 == IF new THEN Cancel(g0, e) ELSE g0
      free == IF cap > g1.reserved THEN cap - g1.reserved ELSE 0
      debt == IF g1.reserved > cap THEN g1.reserved - cap ELSE 0
      reply == PlanResidency(planner, e, pos, exterior, heading, cap, free, debt)
      n == Len(reply.plan)
      Becomes(g) == /\ st' = g.st /\ reserved' = g.reserved /\ readmit' = g.readmit
                    /\ evictQ' = g.evictQ /\ pending' = g.pending
  IN /\ Doing("plan") /\ Active /\ OpDone
     /\ epoch' = e /\ cell' = Cell(pos)
     /\ ready' = IF new THEN Keep(ready, {x \in Range(ready) : x.req.epoch = e}) ELSE ready
     /\ \/ /\ late = "none"
           /\ planner' = reply.h
           /\ \E closed \in 1..(n + 1) :
                LET granted == Granted(g1, reply.plan, e, closed)
                IN /\ ReadyAtLimit(ready') => closed = 1
                   /\ closed <= n => MayReachLimit(ready', granted[closed - 1].pending)
                   /\ Becomes(granted[n])
           /\ UNCHANGED <<late, timeouts>>
        \/ /\ late = "none" /\ timeouts < MaxLateRpcs     (* the reply comes too late *)
           /\ late' = "plan" /\ timeouts' = timeouts + 1
           /\ planner' = reply.h /\ Becomes(g1)
        \/ late # "none" /\ Becomes(g1) /\ UNCHANGED <<planner, late, timeouts>>
     /\ UNCHANGED <<session, gpu, idle, budget, inFlight, commitQ, refused, frozen, working,
                    list, faults>>

-----------------------------------------------------------------------------
(* Admission *)

(* The I/O thread: one request at a time. *)
Read ==
  /\ pending # <<>> /\ working = <<>>
  /\ working' = <<Head(pending)>> /\ pending' = Tail(pending)
  /\ UNCHANGED <<session, todo, ledger, queues, plan, budget, ready, rpc, faults>>

Deliver ==
  /\ working # <<>>
  /\ \E ok \in BOOLEAN :
       /\ ok \/ faults < MaxFaults
       /\ faults' = IF ok THEN faults ELSE faults + 1
       /\ ready' = Append(ready, [req |-> Head(working), ok |-> ok])
  /\ working' = <<>>
  /\ UNCHANGED <<session, todo, ledger, queues, plan, budget, pending, rpc>>

Admitting == Doing("admit") /\ Active
(* left = 0 is a tick about to start *)
Left == IF left = 0 THEN AdmitRes ELSE left
Uploaded(more) == IF more THEN left' = Left - 1 /\ UNCHANGED todo ELSE left' = 0 /\ OpDone
(* one more uploaded: the tick ends on its count, or at its time or byte budget *)
MayGoOn == \E more \in BOOLEAN : Uploaded(more) /\ (more => Left > 1)

(* A resource whose commit was not acknowledged is offered to the host again. *)
RetryCommit ==
  /\ Admitting /\ commitQ # <<>>
  /\ LET r == Last(commitQ)
     IN \E acked \in BOOLEAN :
          /\ Submit(<<Entry(r, "resident")>>, acked)
          /\ IF acked
             THEN /\ commitQ' = Front(commitQ) /\ st' = [st EXCEPT ![r] = "Resident"]
                  /\ Uploaded(Left > 1)
             ELSE left' = 0 /\ OpDone /\ UNCHANGED <<st, commitQ>>
  /\ UNCHANGED <<phase, pos, exterior, moves, reserved, gpu, readmit, evictQ, inFlight, refused,
                 frozen, plan, budget, io, faults>>

ReleaseBytes(r) == reserved' = Minus(reserved, Bytes[r])
Unavailable(r) ==   (* markUnavailable: the host's answer is ignored *)
  /\ st' = [st EXCEPT ![r] = "Unavailable"] /\ ReleaseBytes(r) /\ UNCHANGED <<gpu, commitQ>>
  /\ \E acked \in BOOLEAN : Submit(<<Entry(r, "unavailable")>>, acked)

(* Mutant: the acknowledgement of an admission is not waited for. *)
UploadUnasked(r) ==
  /\ gpu' = gpu + Bytes[r] /\ st' = [st EXCEPT ![r] = "Resident"]
  /\ \E acked \in BOOLEAN : Submit(<<Entry(r, "resident")>>, acked)
  /\ UNCHANGED <<reserved, commitQ>>

(* admitPreparedResource: create and fill both buffers, then commit them. *)
Upload(r) ==
  /\ gpu' = gpu + Bytes[r] /\ UNCHANGED reserved
  /\ \E acked \in BOOLEAN :
       /\ Submit(<<Entry(r, "resident")>>, acked)
       /\ st' = [st EXCEPT ![r] = IF acked THEN "Resident" ELSE "CommitPending"]
       /\ commitQ' = IF acked THEN commitQ ELSE Append(commitQ, r)

Collect ==
  /\ Admitting /\ commitQ = <<>> /\ ready # <<>>
  /\ ready' = Tail(ready)
  /\ LET x == Head(ready)
         r == x.req.res
         Goes == UNCHANGED <<left, todo>>
     IN \/ /\ st[r] # "IoQueued" /\ Goes
           /\ UNCHANGED <<ledger, commitQ, rpc, faults>>
        \/ /\ st[r] = "IoQueued" /\ ~x.ok /\ Goes
           /\ Unavailable(r) /\ UNCHANGED faults
        \/ /\ st[r] = "IoQueued" /\ x.ok /\ x.req.epoch # epoch /\ Goes
           /\ st' = [st EXCEPT ![r] = "Unloaded"] /\ ReleaseBytes(r)
           /\ UNCHANGED <<gpu, commitQ, rpc, faults>>
        \/ /\ st[r] = "IoQueued" /\ x.ok /\ x.req.epoch = epoch
           /\ Upload(r) /\ UNCHANGED faults
           /\ IF st'[r] = "Resident" THEN MayGoOn ELSE left' = 0 /\ OpDone
        \/ /\ st[r] = "IoQueued" /\ x.ok /\ x.req.epoch = epoch   (* Direct3D refuses *)
           /\ faults < MaxFaults /\ faults' = faults + 1
           /\ Unavailable(r) /\ left' = 0 /\ OpDone
  /\ UNCHANGED <<phase, pos, exterior, moves, readmit, evictQ, inFlight, refused, frozen, plan,
                 budget, pending, working>>

AdmitDone ==
  /\ Doing("admit") /\ (~Active \/ (commitQ = <<>> /\ ready = <<>>))
  /\ left' = 0 /\ OpDone
  /\ UNCHANGED <<phase, pos, exterior, moves, ledger, queues, plan, budget, io, rpc, faults>>

-----------------------------------------------------------------------------
(* Eviction *)

(* tickResidencyEviction: a batch becomes in flight, or the one in flight is tried
   again without what was asked back meanwhile.  Its buffers are released only once
   the host has acknowledged the removal.                                          *)
Evict ==
  /\ Doing("evict") \/ (Doing("stage0") /\ late = "none")
  /\ PendingEviction /\ OpDone
  /\ LET n == IF Len(evictQ) < EvictRes THEN Len(evictQ) ELSE EvictRes
         taken == IF inFlight = <<>> THEN SubSeq(evictQ, 1, n) ELSE inFlight
         batch == Keep(taken, Res \ readmit)
         back == Keep(taken, readmit)
         st1 == [r \in Res |-> IF r \in Range(back) THEN "CommitPending"
                               ELSE IF r \in Range(batch) THEN "RemovalInFlight" ELSE st[r]]
     IN /\ evictQ' = IF inFlight = <<>> THEN SubSeq(evictQ, n + 1, Len(evictQ)) ELSE evictQ
        /\ readmit' = readmit \ Range(back) /\ commitQ' = commitQ \o back
        /\ \/ /\ batch = <<>>
              /\ st' = st1 /\ inFlight' = <<>>
              /\ UNCHANGED <<reserved, gpu, refused, frozen, rpc>>
           \/ /\ batch # <<>>
              /\ Submit([i \in DOMAIN batch |-> Entry(batch[i], "unloaded")], FALSE)
              /\ st' = st1 /\ inFlight' = batch /\ refused' = refused + 1
              /\ frozen' = (refused' >= FreezeAfter) /\ UNCHANGED <<reserved, gpu>>
           \/ /\ batch # <<>>
              /\ Submit([i \in DOMAIN batch |-> Entry(batch[i], "unloaded")], TRUE)
              /\ st' = [r \in Res |-> IF r \in Range(batch) THEN "Unloaded" ELSE st1[r]]
              /\ reserved' = Minus(reserved, BytesOf(Range(batch)))
              /\ gpu' = Minus(gpu, BytesOf(Range(batch)))
              /\ inFlight' = <<>> /\ UNCHANGED <<refused, frozen>>
  /\ UNCHANGED <<session, plan, budget, io, faults>>

NoEvict == \/ ~PendingEviction /\ Skip("evict")
           \/ (~PendingEviction \/ late # "none") /\ Skip("stage0")

-----------------------------------------------------------------------------
(* The upload pump's two residency phases *)

(* stepResidencyFullDrain, one resource.  A failure fails the whole upload. *)
Drain ==
  /\ Doing("drain")
  /\ LET rest == {r \in Res : st[r] # "Resident"}
         r == CHOOSE q \in rest : \A o \in rest : q <= o
     IN IF rest = {}
        THEN phase' = "play" /\ UNCHANGED <<ledger, commitQ, rpc, faults>>
        ELSE \/ /\ gpu' = gpu + Bytes[r] /\ reserved' = reserved + Bytes[r]
                /\ \E acked \in BOOLEAN :
                     /\ Submit(<<Entry(r, "resident")>>, acked)
                     /\ st' = [st EXCEPT ![r] = IF acked THEN "Resident" ELSE "CommitPending"]
                     /\ commitQ' = IF acked THEN commitQ ELSE Append(commitQ, r)
                     /\ phase' = IF acked THEN phase ELSE "failed"
                /\ UNCHANGED faults
             \/ /\ faults < MaxFaults /\ faults' = faults + 1
                /\ st' = [st EXCEPT ![r] = "Unavailable"] /\ UNCHANGED <<reserved, gpu, commitQ>>
                /\ \E acked \in BOOLEAN : Submit(<<Entry(r, "unavailable")>>, acked)
                /\ phase' = "failed"
  /\ todo' = <<>>
  /\ UNCHANGED <<left, pos, exterior, moves, readmit, evictQ, inFlight, refused, frozen, plan,
                 budget, io>>

(* The bootstrap ends when nothing is under way, or after 5 s. *)
Settle ==
  /\ Doing("settle") /\ OpDone
  /\ phase' = IF Quiescent THEN "play" ELSE phase
  /\ UNCHANGED <<left, pos, exterior, moves, ledger, queues, plan, budget, io, rpc, faults>>

BootTimeout ==
  /\ Doing("settle") /\ OpDone /\ phase' = "play"
  /\ UNCHANGED <<left, pos, exterior, moves, ledger, queues, plan, budget, io, rpc, faults>>

NoPlan == ~Active /\ Skip("plan")
Planned == \E heading \in IF phase = "boot" THEN {0} ELSE Headings : Plan(heading)

Other == \/ Frame \/ Sample \/ NoPlan \/ RetryCommit \/ Collect \/ AdmitDone
         \/ Evict \/ NoEvict \/ Drain \/ Settle \/ BootTimeout
Worker == Read \/ Deliver
StreamNext == Other \/ Planned \/ Worker \/ HostLate \/ Move

StreamSpec == StreamInit /\ [][StreamNext]_streamVars
(* Frames go on, the I/O thread runs, a host that was late gets there, and 5 s pass.
   A step of Next that ends "plan" is Planned or NoPlan, and one of them always can:
   the fairness of planning needs no more than that.                                *)
StreamFairSpec == /\ StreamSpec /\ WF_streamVars(Other) /\ WF_todo(Doing("plan") /\ OpDone)
                  /\ WF_streamVars(Worker) /\ WF_streamVars(HostLate) /\ SF_streamVars(BootTimeout)

-----------------------------------------------------------------------------
SumOf(states) == BytesOf({r \in Res : st[r] \in states})

(* The two ledgers are what the states of the catalog add up to, whichever of the
   paths (queue, cancel, supersede, fail, upload, remove) a resource took: their
   saturating subtractions hide nothing.                                         *)
LedgersAddUp == reserved = SumOf(HoldsBytes) /\ gpu = SumOf(HasBuffers)

(* The host may hand out a mesh of a resource only while the game keeps its buffers,
   and it knows of every resource the game takes for resident: whichever of two
   RPCs was late, and whatever list the host found.                              *)
HostAgrees ==
  /\ \A r \in planner.resident : st[r] \in HasBuffers
  /\ \A r \in Res : st[r] \in {"Resident", "EvictQueued"} => r \in planner.resident

(* Reads and queues match the states: a resource waits for exactly one read iff it is
   IoQueued, and stands in the queue of its state once.                           *)
QueuesMatch ==
  LET reads == pending \o working \o [i \in DOMAIN ready |-> ready[i].req]
      InQueue(q, state) == \A r \in Res : (st[r] = state) = Contains(q, r)
  IN /\ \A r \in Res : Cardinality({i \in DOMAIN reads : reads[i].res = r})
                       = IF st[r] = "IoQueued" THEN 1 ELSE 0
     /\ InQueue(evictQ, "EvictQueued") /\ InQueue(inFlight, "RemovalInFlight")
     /\ InQueue(commitQ, "CommitPending")
     /\ \A q \in {evictQ, inFlight, commitQ} : IsInjective(q)
     /\ readmit \subseteq Range(inFlight)

(* The bytes the catalog really holds or waits for grow only within the cap that
   holds now, so a lowered cap is not outgrown again.                             *)
GrowsWithinCap == [][SumOf(HoldsBytes)' > SumOf(HoldsBytes) => SumOf(HoldsBytes)' <= cap']_streamVars

(* Nothing stays in transit: what is read, committed or removed arrives. *)
InTransit(r) == st[r] \in {"IoQueued", "CommitPending", "EvictQueued", "RemovalInFlight"}
TransitEnds == \A r \in Res : InTransit(r) ~> (~InTransit(r) \/ frozen \/ phase = "failed")

(* Outdoors, a lowered cap is eventually met. *)
DebtIsRepaid == []<>(reserved <= cap \/ frozen \/ ~exterior)

(* A player who stays where he is does not make the planner load and drop the same
   resources for ever.                                                            *)
ComesToRest == <>[][UNCHANGED st]_streamVars

(* A sweep that is parked has left nothing out that is in range and fits. *)
LeftOut == {r \in Res : /\ st[r] = "Unloaded" /\ Dist(r, pos) <= Admission
                        /\ Bytes[r] <= Available}
NothingLeftOut == <>[](LeftOut # {}) => <>[](frozen \/ ~exterior \/ phase = "failed" \/ idle)

(* Ledgers, queues, the I/O thread and the host agree about every resource. *)
InStep == StreamTypeOK /\ LedgersAddUp /\ HostAgrees /\ QueuesMatch

(* Streaming settles: nothing stays in transit, a debt is repaid, and the planner
   rests once the player does.                                                    *)
Settles == TransitEnds /\ DebtIsRepaid /\ ComesToRest
=============================================================================
