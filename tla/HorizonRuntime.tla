---------------------------- MODULE HorizonRuntime ----------------------------
(* The horizon table of the 64-bit host.  Every precise static query prepares a
   table for its eye: it takes what the builder thread finished, keeps a table
   that is near enough, builds one itself when it must, and posts the rest to
   the builder's mailbox.  Generations and request ids are compared only with
   the newest one, so a request carries whether its own still is the newest.   *)
EXTENDS HorizonGate

CONSTANTS
  Eyes,         \* eye positions; contains_xy holds for those of Inside
  Inside,
  ParamSets,    \* HorizonParams::from_configuration of the configurations used
  EyeThreshold, \* horizon_rebuild_eye_threshold
  MaxStale,     \* MAX_STALE_DISTANCE
  MaxPending,   \* MAX_PENDING_FRAMES
  Gated,        \* horizon_adaptive_gate at the start
  SpawnMayFail, \* HorizonBuilder::spawn may return None
  MaxGain,      \* bound: gain of one frame
  MaxChanges    \* bound: configuration changes and landscape loads

ASSUME RuntimeAssumption ==
  /\ Inside \subseteq Eyes /\ Eyes \subseteq Int
  /\ {EyeThreshold, MaxStale, MaxPending, MaxGain, MaxChanges} \subseteq Nat
  /\ {Gated, SpawnMayFail} \subseteq BOOLEAN
  /\ EyeThreshold <= MaxStale

VARIABLES
  eye,      \* the camera, fixed while a frame asks
  field,    \* height_field: the load it came from, 0 for None
  culling, params, \* configuration
  cached,   \* cached_horizon
  pending,  \* pending_horizon.frames_waited, NoFrames for None
  spawned,  \* horizon_builder is Some
  gate,
  frameEye, \* horizon_frame_eye
  frameGain,\* horizon_frame_stats
  mailbox, building, result, \* the builder: request slot, thread, result slot
  changes   \* configuration changes and landscape loads so far

hostVars == <<field, culling, params, cached, pending, spawned, gate, frameEye, frameGain>>
builderVars == <<mailbox, building, result>>
vars == <<eye, hostVars, builderVars, changes>>

NoFrames == 0 - 1
NoTable == [made |-> FALSE]
Table(f, e, p) == [made |-> TRUE, field |-> f, eye |-> e, params |-> p]
NoRequest == [made |-> FALSE]
Request(table) == [made |-> TRUE, table |-> table, sameEpoch |-> TRUE, newest |-> TRUE]

Requests == {mailbox, building, result} \ {NoRequest}

\* Mutant: an epoch change keeps the generation of what is under way.
AgedSameEpoch(r, newEpoch) == IF r.made THEN [r EXCEPT !.newest = FALSE] ELSE r
\* A bumped request id, and a bumped generation when newEpoch.
Aged(r, newEpoch) ==
  IF r.made THEN [r EXCEPT !.newest = FALSE, !.sameEpoch = @ /\ ~newEpoch] ELSE r

AgeAll(newEpoch) ==
  /\ mailbox' = Aged(mailbox, newEpoch)
  /\ building' = Aged(building, newEpoch)
  /\ result' = Aged(result, newEpoch)

Init ==
  /\ eye \in Inside
  /\ field \in {0, 1} /\ culling = TRUE /\ params \in ParamSets
  /\ cached = NoTable /\ pending = NoFrames /\ spawned = FALSE
  /\ gate = NewGate(Gated) /\ frameEye = NoEye /\ frameGain = 0
  /\ mailbox = NoRequest /\ building = NoRequest /\ result = NoRequest
  /\ changes = 0

---------------------------------------------------------------------------
(* GetVisibleMeshes with VIS_STATIC. *)

Matches(table, e, p, threshold) ==
  table.made /\ table.params = p /\ Distance(table.eye, e) < threshold

\* Mutant: the newest result is adopted although the cached table is nearer.
AdoptsNewest(built, threshold) ==
  /\ built.made /\ built.sameEpoch
  /\ built.newest \/ Matches(built.table, eye, params, threshold)
  /\ ~Matches(cached, eye, params, threshold)
  /\ cached.made \/ Matches(built.table, eye, params, threshold)
\* consider_built_result
Adopts(built, threshold) ==
  LET fits == Matches(built.table, eye, params, threshold)
  IN /\ built.made /\ built.sameEpoch
     /\ built.newest \/ fits
     /\ ~Matches(cached, eye, params, threshold)
     /\ fits \/ (cached.made /\ built.newest
                 /\ Distance(built.table.eye, eye) < Distance(cached.eye, eye))

\* Mutant: only an adopted result answers the pending request.
StillPendingUnadopted(waited, built, adopted) == IF adopted THEN NoFrames ELSE waited
StillPending(waited, built, adopted) ==
  IF adopted \/ (built.made /\ built.newest) THEN NoFrames ELSE waited

Waited == IF pending = NoFrames THEN NoFrames ELSE Min({pending + 1, MaxPending})

\* clear(), but for the result, which only NoContext leaves in its slot.
Cleared(table, waited) ==
  /\ cached' = NoTable /\ pending' = NoFrames
  /\ IF table.made \/ waited # NoFrames
     THEN mailbox' = Aged(mailbox, FALSE) /\ building' = Aged(building, FALSE)
     ELSE UNCHANGED <<mailbox, building>>

SyncBuild ==
  /\ cached' = Table(field, eye, params) /\ pending' = NoFrames
  /\ mailbox' = Aged(mailbox, FALSE) /\ building' = Aged(building, FALSE)

\* Mutant: every post starts to wait afresh.
PostAfresh(waited) ==
  /\ pending' = 0
  /\ mailbox' = Request(Table(field, eye, params)) /\ building' = Aged(building, FALSE)
\* post_async_horizon: the request before it is overwritten, the wait goes on.
Post(waited) ==
  /\ pending' = IF waited = NoFrames THEN 0 ELSE waited
  /\ mailbox' = Request(Table(field, eye, params)) /\ building' = Aged(building, FALSE)

\* ensure_builder_spawned
Spawns(ok) ==
  /\ ok \in IF spawned \/ ~SpawnMayFail THEN {TRUE} ELSE BOOLEAN
  /\ spawned' = ok

NoContext ==
  /\ Cleared(cached, pending)
  /\ result' = IF cached.made \/ pending # NoFrames THEN Aged(result, FALSE) ELSE result
  /\ gate' = OnContextLost(gate)
  /\ UNCHANGED spawned

Warm(g, waited) ==
  /\ cached' = NoTable
  /\ IF g.warmPosted
     THEN pending' = waited /\ gate' = g /\ UNCHANGED <<spawned, mailbox, building>>
     ELSE \E ok \in BOOLEAN :
            /\ Spawns(ok)
            /\ gate' = IF ok THEN OnWarmBuildPosted(g) ELSE g
            /\ IF ok THEN Post(waited) ELSE pending' = waited /\ UNCHANGED <<mailbox, building>>

\* The table is good enough, too bad to keep, or kept while a better one is built.
Renew(table, waited) ==
  LET mustBuild == ~table.made \/ table.params # params \/ Distance(table.eye, eye) > MaxStale
                   \/ waited >= MaxPending
  IN IF Matches(table, eye, params, EyeThreshold)
     THEN cached' = table /\ pending' = waited /\ UNCHANGED <<spawned, mailbox, building>>
     ELSE IF mustBuild THEN SyncBuild /\ UNCHANGED spawned
     ELSE \E ok \in BOOLEAN :
            /\ Spawns(ok)
            /\ IF ok THEN cached' = table /\ Post(waited) ELSE SyncBuild

Prepare ==
  IF ~culling \/ field = 0 \/ eye \notin Inside THEN NoContext
  ELSE LET available == OnContextAvailable(gate)
           threshold == IF IsWarming(available) THEN MaxStale ELSE EyeThreshold
           adopted == Adopts(result, threshold)
           table == IF adopted THEN result.table ELSE cached
           waited == StillPending(Waited, result, adopted)
           g == IF adopted THEN OnWarmAdopted(available) ELSE available
       IN /\ result' = NoRequest
          /\ CASE Mode(g) = "suspended" -> Cleared(table, waited) /\ gate' = g /\ UNCHANGED spawned
               [] Mode(g) = "warming" -> Warm(g, waited)
               [] Mode(g) = "active" -> Renew(table, waited) /\ gate' = g

\* What a query culls is the game's choice, nothing without a table.
Gains(table) == IF table.made THEN 0..MaxGain ELSE {0}

Query ==
  /\ Prepare
  /\ IF culling
     THEN /\ frameEye' = eye
          /\ \E gain \in Gains(cached') : frameGain' = Min({frameGain + gain, MaxGain})
     ELSE UNCHANGED <<frameEye, frameGain>>
  /\ UNCHANGED <<eye, field, culling, params, changes>>

---------------------------------------------------------------------------
(* The end of a frame, configuration and landscape. *)

FinishFrame ==
  /\ culling
  /\ gate' = IF frameEye = NoEye THEN gate ELSE OnFrame(gate, frameEye, frameGain, MaxStale)
  /\ frameEye' = NoEye /\ frameGain' = 0
  /\ UNCHANGED <<eye, field, culling, params, cached, pending, spawned, builderVars, changes>>

Changes == changes < MaxChanges /\ changes' = changes + 1

InvalidateEpoch ==
  /\ cached' = NoTable /\ pending' = NoFrames
  /\ AgeAll(TRUE)

\* replace_height_field(None), then a field when the occlusion asset is usable.
Rebuild(usable) ==
  /\ InvalidateEpoch
  /\ field' = IF usable THEN changes + 2 ELSE 0

\* init_landscape
LoadLandscape(usable) ==
  /\ frameEye = NoEye /\ Changes
  /\ Rebuild(usable /\ culling)
  /\ gate' = OnContextLost(gate)
  /\ UNCHANGED <<eye, culling, params, spawned, frameEye, frameGain>>

\* apply_horizon_config
SetHorizonConfig(on, p, adaptive, usable) ==
  LET set == SetEnabled(gate, adaptive)
  IN /\ frameEye = NoEye /\ Changes
     /\ culling' = on /\ params' = p
     /\ frameEye' = NoEye /\ frameGain' = 0
     /\ IF on /\ field # 0
        THEN InvalidateEpoch /\ gate' = OnConfigChange(set) /\ UNCHANGED field
        ELSE Rebuild(on /\ usable) /\ gate' = OnContextLost(set)
     /\ UNCHANGED <<eye, spawned>>

Move(e) ==
  /\ frameEye = NoEye /\ e # eye
  /\ eye' = e
  /\ UNCHANGED <<hostVars, builderVars, changes>>

Elapsed ==
  /\ gate' = Elapse(gate) /\ gate' # gate
  /\ UNCHANGED <<eye, field, culling, params, cached, pending, spawned, frameEye, frameGain,
                 builderVars, changes>>

---------------------------------------------------------------------------
(* horizon_worker. *)

Take ==
  /\ mailbox.made /\ ~building.made
  /\ building' = mailbox /\ mailbox' = NoRequest
  /\ UNCHANGED <<eye, hostVars, result, changes>>

Publish ==
  /\ building.made
  /\ result' = building /\ building' = NoRequest
  /\ UNCHANGED <<eye, hostVars, mailbox, changes>>

---------------------------------------------------------------------------
Next ==
  \/ Query \/ FinishFrame \/ Elapsed
  \/ \E usable \in BOOLEAN : LoadLandscape(usable)
  \/ \E on, adaptive, usable \in BOOLEAN, p \in ParamSets : SetHorizonConfig(on, p, adaptive, usable)
  \/ \E e \in Eyes : Move(e)
  \/ Take \/ Publish

Spec == Init /\ [][Next]_vars

(* The render thread asks and ends frames, and the clock runs; the builder may
   stall for ever.                                                             *)
Frames == WF_vars(Query) /\ WF_vars(FinishFrame) /\ WF_vars(Elapsed)
LiveSpec == Spec /\ Frames

---------------------------------------------------------------------------
Tables == [made : {TRUE}, field : 1..(MaxChanges + 1), eye : Inside, params : ParamSets]

TypeOK ==
  /\ eye \in Eyes /\ field \in 0..(MaxChanges + 1) /\ culling \in BOOLEAN /\ params \in ParamSets
  /\ cached \in Tables \cup {NoTable} /\ pending \in NoFrames..MaxPending
  /\ spawned \in BOOLEAN /\ frameEye \in Eyes \cup {NoEye} /\ frameGain \in 0..MaxGain
  /\ \A r \in Requests : r.table \in Tables /\ {r.sameEpoch, r.newest} \subseteq BOOLEAN
  /\ gate.state \in {"inactive", "active", "warming", "suspendedLowBenefit", "suspendedFast"}
  /\ gate.frames < EvalWindow /\ gate.lowWindows < SuspendWindows /\ gate.warmFrames < WarmTimeout
  /\ gate.backoff \in ProbeInterval..BackoffCap /\ gate.moved < MoveTrigger
  /\ changes \in 0..MaxChanges

(* The table a query culls with was built from the field and the parameters in
   force, no farther than the stale cap, and never while the gate holds the
   culling suspended (HorizonRuntime::prepare, consider_built_result).         *)
UsedTableFits ==
  frameEye # NoEye /\ cached.made =>
    /\ cached.field = field /\ cached.params = params
    /\ Distance(cached.eye, frameEye) <= MaxStale
    /\ Mode(gate) = "active"

(* A pending build is really under way: its request is the newest one in the
   mailbox, on the thread or in the result slot (post_async_horizon, clear).   *)
PendingIsUnderWay ==
  pending # NoFrames => \E r \in Requests : r.newest /\ r.sameEpoch

(* An asynchronous result never takes the table farther from the eye
   (docs/architecture/horizon-culling.md: "never replaces a valid table or makes
   the current cache farther from the current eye").                           *)
NeverFarther ==
  [][cached.made /\ cached'.made => Distance(cached'.eye, eye) <= Distance(cached.eye, eye)]_cached

(* Warming ends: a table is adopted, or the warm-up times out, also when the
   builder never answers (HorizonGate::tick_warming_timeout).                  *)
WarmingEnds == [](<>(gate.state # "warming"))

(* Culling that was suspended for want of benefit is probed again, by time if
   not by movement (HorizonGate::tick_low_benefit_suspended).                  *)
ProbesAgain == [](<>(~culling \/ gate.state # "suspendedLowBenefit"))

(* While the gate leaves the culling active, a resting eye gets a table within
   the rebuild threshold even from a builder that stalls (MAX_PENDING_FRAMES). *)
RestingEyeIsServed ==
  \A e \in Inside :
    <>[](eye = e /\ culling /\ field # 0 /\ Mode(gate) = "active") =>
      <>[](cached.made /\ Distance(cached.eye, e) < EyeThreshold)

(* With a builder that answers before the frame of its request ends, a resting
   eye inside the field sees the culling again and again, however often the gate
   suspends it: no warm-up, probe or epoch is lost for good. A slower one may
   deliver only between the warm-ups, and then there is nothing to cull with.   *)
PromptBuilder ==
  <>[][frameEye # NoEye /\ frameEye' = NoEye => ~mailbox.made /\ ~building.made]_vars
PromptCullingReturns ==
  PromptBuilder /\ <>[]spawned =>
    \A e \in Inside : <>[](eye = e /\ culling /\ field # 0) => []<>(cached.made)

(* "Spawns the worker, or returns None so callers use synchronous builds"
   (worker.rs): without a thread a resting eye inside the field still gets a
   table, once.                                                                *)
NeverSpawns == [](~spawned)
FallsBackToSync == NeverSpawns /\ <>[](culling /\ field # 0 /\ eye \in Inside) => <>(cached.made)

(* The tables in use and in the making are those the eye, the field and the
   parameters of the frame call for.                                           *)
TablesFit == TypeOK /\ UsedTableFits /\ PendingIsUnderWay

(* The gate holds none of its states for ever, whatever the builder does; while it
   leaves the culling active a resting eye gets a table, whatever the builder does;
   and with a prompt builder the culling itself comes back from every suspension. *)
CullingComesBack == WarmingEnds /\ ProbesAgain /\ RestingEyeIsServed /\ PromptCullingReturns
=============================================================================
