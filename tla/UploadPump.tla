------------------------------ MODULE UploadPump ------------------------------
(* The life of distant land inside the game: device resources, the upload pump
   that starts the 64-bit host, waits for the generated output and hands
   terrain and statics over, the two gates in front of the render path (upload
   complete, world resolved), renderer restarts, and the cache of the selected
   world space.  Everything runs on the game's render thread; the host process
   answers, generates and dies beside it.                                      *)
EXTENDS Naturals, FiniteSets

CONSTANTS
  Keys,          \* world space names: the exterior and some interiors
  Slices,        \* ticks a resumable phase may need
  PlacedInWorld, \* a player whose cell is active always has a usable position
  MaxRestarts,   \* bound: renderer restarts
  MaxTimeouts,   \* bound: RPC waits that give up while the host is alive
  MaxDeaths      \* bound: host processes that die

ASSUME UploadPumpAssumption ==
  /\ {Slices, MaxRestarts, MaxTimeouts, MaxDeaths} \subseteq Nat
  /\ Keys # {}
  /\ PlacedInWorld \in BOOLEAN

VARIABLES
  state,    \* DistantLand::state
  useDL,    \* the USE_DISTANT_LAND flag
  game,     \* engine: device, bridge loaded, player in the world and placed, who is draining
  pump,     \* active, phase, output query pending, statics begun, slices left, streaming
  gate,     \* uploadComplete, worldResolved, isDistantLandLoaded, staticsUploaded, and
            \* whether meshCollectionLand holds the meshes of a terrain
  staging,  \* landscapeHostVecId, staticsHostVecId/subsetsHostVecId: which are valid
  client,   \* launchState and the command in flight
  host,     \* the host process: its life, the output, its vectors, trees and answer
  cache,    \* the cached world space: valid, key, found
  spent     \* the bounds' counters

vars == <<state, useDL, game, pump, gate, staging, client, host, cache, spent>>

States == {"Uninitialized", "DeviceResourcesReady", "RenderReady", "FailedDisabled"}
Phases == {"None", "HostWait", "OutputWait", "IpcSetup", "Landscape", "Statics", "Grass",
           "StaticsHostWait", "ResidencyFullDrain", "ResidencyBootstrap", "Done"}
Commands == {"Bootstrap", "QueryOutputStatus", "AllocVec", "FreeVec", "InitLandscape",
             "InitDistantStatics", "UpdateResidency", "SetWorldSpace"}

Idle    == [active |-> FALSE, phase |-> "None", queried |-> FALSE, begun |-> FALSE, left |-> 0,
            streams |-> FALSE]
Armed   == [Idle EXCEPT !.active = TRUE, !.phase = "HostWait"]
NoCache == [valid |-> FALSE, key |-> CHOOSE k \in Keys : TRUE, found |-> FALSE]
NoHost  == [life |-> "none", output |-> "pending", vecs |-> {}, land |-> FALSE, statics |-> FALSE,
            worlds |-> {}, command |-> "Bootstrap", answered |-> FALSE, ok |-> FALSE]
Stopped == [launch |-> "Inactive", pending |-> FALSE]

Init ==
  /\ state = "Uninitialized" /\ useDL \in BOOLEAN
  /\ game = [device |-> TRUE, loaded |-> FALSE, inWorld |-> FALSE, placed |-> FALSE,
             draining |-> "no"]
  /\ pump = Idle /\ staging = {} /\ client = Stopped /\ host = NoHost /\ cache = NoCache
  /\ gate = [uploaded |-> FALSE, resolved |-> FALSE, loaded |-> FALSE, statics |-> FALSE,
             land |-> FALSE]
  /\ spent = [restarts |-> 0, timeouts |-> 0, deaths |-> 0]

HasDeviceResources == state \in {"DeviceResourcesReady", "RenderReady"}
Free == game.draining = "no"

-------------------------------------------------------------------------------
(* Tearing down *)

\* Mutant: an aborted pump keeps the vectors it was uploading from.
MutAbortUploadPump == pump' = Idle /\ UNCHANGED staging

AbortUploadPump == pump' = Idle /\ staging' = {}

StopServer == client' = Stopped /\ host' = NoHost

InvalidateWorldSpaceCache == cache' = NoCache

\* Mutant: a release keeps the cached world space.
MutStopEverything == AbortUploadPump /\ UNCHANGED cache /\ StopServer

\* The part of release() that runs whatever the state.
StopEverything == AbortUploadPump /\ InvalidateWorldSpaceCache /\ StopServer

\* The pump, the cached world space and the host go first; the rest only when
\* there are device resources to give back.
Release(next) ==
  /\ StopEverything
  /\ IF HasDeviceResources
     THEN /\ state' = next
          /\ gate' = [gate EXCEPT !.loaded = FALSE, !.statics = FALSE, !.land = FALSE]
     ELSE UNCHANGED <<state, gate>>

FailUpload ==
  /\ Release("FailedDisabled")
  /\ useDL' = FALSE
  /\ game' = [game EXCEPT !.device = FALSE]
  /\ UNCHANGED spent

-------------------------------------------------------------------------------
(* RPCs.  A blocking call ends with the host's answer, or without one because
   the host is gone or the wait gave up.                                       *)

Ask(command) ==
  /\ client' = [client EXCEPT !.pending = TRUE]
  /\ host' = [host EXCEPT !.command = command, !.answered = FALSE]

Complete == host.life = "up" /\ host.answered
Lost     == host.life = "dead"

Alive == host.life = "up"

\* Giving up on a host that is alive, up to the bound.
GiveUp == Alive /\ spent.timeouts < MaxTimeouts

\* The answer to a command read from the parameter block it shares with every
\* other command: whatever is there when another command was the last one.
Succeeded(command) ==
  IF host.command = command THEN {host.ok} ELSE BOOLEAN

HostBoots ==
  /\ host.life = "booting"
  /\ host' = [host EXCEPT !.life = "up", !.answered = TRUE]
  /\ UNCHANGED <<state, useDL, game, pump, gate, staging, client, cache, spent>>

\* Generation or inspection of the output ends, for better or worse.
OutputSettles ==
  /\ Alive /\ host.output = "pending"
  /\ \E o \in {"ready", "failed"} : host' = [host EXCEPT !.output = o]
  /\ UNCHANGED <<state, useDL, game, pump, gate, staging, client, cache, spent>>

\* What the host does for the commands the pump leaves in flight.  It reads its
\* input vector while it works.
Work(command, ok) ==
  CASE command = "InitLandscape" ->
         [host EXCEPT !.answered = TRUE, !.ok = ok, !.land = ok]
    [] command = "InitDistantStatics" ->
         [host EXCEPT !.answered = TRUE, !.ok = ok, !.statics = ok]
    [] OTHER -> [host EXCEPT !.answered = TRUE, !.ok = TRUE]

HostAnswers ==
  /\ Alive /\ client.pending /\ ~host.answered
  /\ \E ok \in BOOLEAN, w \in SUBSET Keys :
       /\ w # {} => ok /\ host.command = "InitDistantStatics"
       /\ host' = [Work(host.command, ok)
                     EXCEPT !.worlds = IF host.command = "InitDistantStatics" THEN w ELSE @]
  /\ UNCHANGED <<state, useDL, game, pump, gate, staging, client, cache, spent>>

HostDies ==
  /\ host.life \in {"booting", "up"} /\ spent.deaths < MaxDeaths
  /\ host' = [host EXCEPT !.life = "dead"]
  /\ spent' = [spent EXCEPT !.deaths = @ + 1]
  /\ UNCHANGED <<state, useDL, game, pump, gate, staging, client, cache>>

-------------------------------------------------------------------------------
(* One tick of the pump, phase by phase *)

Ticking(phase) == pump.active /\ pump.phase = phase

GoTo(phase) == pump' = [pump EXCEPT !.phase = phase]

Steady == UNCHANGED <<state, useDL, game, gate, spent>>

Launched == [NoHost EXCEPT !.life = "booting"]

\* launchServer stops whatever ran before, so the cache goes with it.
HostWait ==
  /\ Ticking("HostWait")
  /\ IF client.launch = "Inactive"
     THEN \/ /\ InvalidateWorldSpaceCache
             /\ host' = Launched
             /\ client' = [launch |-> "LaunchedPendingBootstrap", pending |-> FALSE]
             /\ Steady /\ UNCHANGED <<pump, staging>>
          \/ FailUpload
     ELSE \/ /\ Complete
             /\ client' = [launch |-> "RuntimeActive", pending |-> FALSE]
             /\ GoTo("OutputWait")
             /\ Steady /\ UNCHANGED <<staging, host, cache>>
          \/ Lost /\ FailUpload

\* queryOutputStatus is sent once and polled; a pending answer is asked for again.
OutputWait ==
  /\ Ticking("OutputWait")
  /\ \/ /\ ~pump.queried /\ ~Lost
        /\ Ask("QueryOutputStatus")
        /\ pump' = [pump EXCEPT !.queried = TRUE]
        /\ Steady /\ UNCHANGED <<staging, cache>>
     \/ /\ pump.queried /\ Complete /\ host.output # "failed"
        /\ client' = [client EXCEPT !.pending = FALSE]
        /\ pump' = [pump EXCEPT !.queried = FALSE,
                                !.phase = IF host.output = "ready" THEN "IpcSetup" ELSE @]
        /\ Steady /\ UNCHANGED <<staging, host, cache>>
     \/ /\ Lost \/ (pump.queried /\ Complete /\ host.output = "failed")
        /\ FailUpload

IpcSetup ==
  /\ Ticking("IpcSetup")
  /\ \/ /\ Alive
        /\ host' = [host EXCEPT !.vecs = @ \union {"visible"}, !.command = "AllocVec"]
        /\ GoTo("Landscape")
        /\ Steady /\ UNCHANGED <<staging, client, cache>>
     \/ (GiveUp \/ ~Alive) /\ FailUpload

\* InitLandscape stays in flight while the statics phase parses and uploads.  Nothing
\* is sent for a terrain without meshes, nor for a missing one with distant land
\* switched off meanwhile.
Landscape ==
  /\ Ticking("Landscape")
  /\ \/ /\ GoTo("Statics")
        /\ Steady /\ UNCHANGED <<staging, client, host, cache>>
     \/ /\ Alive
        /\ client' = [client EXCEPT !.pending = TRUE]
        /\ host' = [host EXCEPT !.vecs = @ \union {"land"}, !.command = "InitLandscape",
                                !.answered = FALSE]
        /\ staging' = staging \union {"land"}
        /\ gate' = [gate EXCEPT !.land = TRUE]
        /\ GoTo("Statics")
        /\ UNCHANGED <<state, useDL, game, cache, spent>>
     \/ FailUpload

\* finishLandscapeUpload waits for InitLandscape, reads its result and frees the
\* vector it was given; there is nothing to wait for when nothing was sent.
CollectLandscape ==
  "land" \in staging => Complete /\ TRUE \in Succeeded("InitLandscape")

LandscapeFailed == Lost \/ GiveUp \/ (Complete /\ FALSE \in Succeeded("InitLandscape"))

Collected ==
  IF "land" \in staging THEN [host EXCEPT !.vecs = @ \ {"land"}, !.command = "FreeVec"] ELSE host

\* A phase without statics: the landscape is collected all the same.
SkipStatics ==
  /\ ~pump.begun
  /\ CollectLandscape
  /\ host' = Collected
  /\ client' = [client EXCEPT !.pending = FALSE]
  /\ staging' = staging \ {"land"}
  /\ pump' = [pump EXCEPT !.phase = "Grass", !.begun = TRUE]
  /\ Steady /\ UNCHANGED cache

\* Mutant: the two staging vectors are freed as soon as the host was asked.
MutFinishStatics ==
  /\ CollectLandscape /\ Alive
  /\ host' = [Collected EXCEPT !.command = "InitDistantStatics", !.answered = FALSE]
  /\ client' = [client EXCEPT !.pending = TRUE]
  /\ staging' = {"statics"}
  /\ gate' = [gate EXCEPT !.statics = TRUE]
  /\ pump' = [pump EXCEPT !.phase = "Grass", !.left = 0]
  /\ UNCHANGED <<state, useDL, game, cache, spent>>

\* Mutant: the landscape's vector is freed after InitDistantStatics was issued.
MutFreeAfter ==
  /\ CollectLandscape /\ Alive
  /\ host' = [Collected EXCEPT !.vecs = @ \union {"statics"}, !.answered = FALSE]
  /\ client' = [client EXCEPT !.pending = TRUE]
  /\ staging' = {"statics"}
  /\ gate' = [gate EXCEPT !.statics = TRUE]
  /\ pump' = [pump EXCEPT !.phase = "Grass", !.left = 0]
  /\ UNCHANGED <<state, useDL, game, cache, spent>>

\* The terrain result is collected before finishStaticsPhase issues its RPCs,
\* and InitDistantStatics is left in flight.
FinishStatics ==
  /\ CollectLandscape /\ Alive
  /\ host' = [Collected EXCEPT !.vecs = @ \union {"statics"}, !.command = "InitDistantStatics",
                               !.answered = FALSE]
  /\ client' = [client EXCEPT !.pending = TRUE]
  /\ staging' = {"statics"}
  /\ gate' = [gate EXCEPT !.statics = TRUE]
  /\ pump' = [pump EXCEPT !.phase = "Grass", !.left = 0]
  /\ UNCHANGED <<state, useDL, game, cache, spent>>

Statics ==
  /\ Ticking("Statics")
  /\ \/ SkipStatics
     \/ /\ ~pump.begun \/ pump.left > 0
        /\ \E n \in 0..Slices :
             /\ IF pump.begun THEN n = pump.left - 1 ELSE TRUE
             /\ pump' = [pump EXCEPT !.begun = TRUE, !.left = n]
        /\ Steady /\ UNCHANGED <<staging, client, host, cache>>
     \/ pump.begun /\ pump.left = 0 /\ FinishStatics
     \/ \* a file that does not read, a slice that fails, the landscape or what follows it
        /\ ~pump.begun \/ pump.left > 0 \/ CollectLandscape \/ LandscapeFailed
        /\ FailUpload

Grass ==
  /\ Ticking("Grass")
  /\ \/ /\ GoTo(IF "statics" \in staging THEN "StaticsHostWait" ELSE "Done")
        /\ Steady /\ UNCHANGED <<staging, client, host, cache>>
     \/ FailUpload

\* InitDistantStatics is collected, its two vectors freed, the residency protocol
\* tried once and a streaming schedule chosen.
StaticsHostWait ==
  /\ Ticking("StaticsHostWait")
  /\ \/ /\ Complete /\ TRUE \in Succeeded("InitDistantStatics")
        /\ client' = [client EXCEPT !.pending = FALSE]
        /\ host' = [host EXCEPT !.vecs = @ \ {"statics"}, !.command = "UpdateResidency"]
        /\ staging' = {}
        /\ \E phase \in {"ResidencyFullDrain", "ResidencyBootstrap"}, streams \in BOOLEAN :
             pump' = [pump EXCEPT !.phase = phase, !.left = Slices, !.streams = streams]
        /\ Steady /\ UNCHANGED cache
     \/ (Lost \/ Complete) /\ FailUpload

FullDrain ==
  /\ Ticking("ResidencyFullDrain")
  /\ \/ /\ pump.left > 0 /\ pump' = [pump EXCEPT !.left = @ - 1]
        /\ Steady /\ UNCHANGED <<staging, client, host, cache>>
     \/ /\ GoTo("Done")
        /\ Steady /\ UNCHANGED <<staging, client, host, cache>>
     \/ FailUpload

\* Mutant: the bootstrap has no time limit and no fallback without a position.
MutBootstrap ==
  /\ Ticking("ResidencyBootstrap")
  /\ \/ /\ pump.streams /\ game.placed
        /\ pump' = [pump EXCEPT !.left = @ - 1]
     \/ /\ ~pump.streams \/ game.placed
        /\ GoTo("Done")
  /\ Steady /\ UNCHANGED <<staging, client, host, cache>>

\* A dataset without merged statics leaves the planner idle.  With a position the
\* ring around it is drained, for a bounded time.  Without one the pump waits for
\* the world to resolve, and no longer than that.
Bootstrap ==
  /\ Ticking("ResidencyBootstrap")
  /\ \/ /\ pump.streams /\ game.placed /\ pump.left > 0
        /\ pump' = [pump EXCEPT !.left = @ - 1]
     \/ /\ ~pump.streams \/ game.placed \/ gate.resolved
        /\ GoTo("Done")
  /\ Steady /\ UNCHANGED <<staging, client, host, cache>>

\* Whichever of the two gates opens last enables the render path.
Promoted(g) ==
  IF state = "DeviceResourcesReady" /\ g.uploaded /\ g.resolved THEN "RenderReady" ELSE state

Done ==
  /\ Ticking("Done")
  /\ pump' = [pump EXCEPT !.active = FALSE]
  /\ gate' = [gate EXCEPT !.uploaded = TRUE, !.loaded = TRUE]
  /\ state' = Promoted(gate')
  /\ UNCHANGED <<useDL, game, staging, client, host, cache, spent>>

PumpUploadTick ==
  HostWait \/ OutputWait \/ IpcSetup \/ Landscape \/ Statics \/ Grass \/ StaticsHostWait
  \/ FullDrain \/ Bootstrap \/ Done

-------------------------------------------------------------------------------
(* The game's side: creation, the load hook, drains, the resolve hook, frames *)

\* init() in a state it does not return from at once; "returned" is what its
\* caller is told, unless the upload has to be drained first.
InitReady ==
  [gate EXCEPT !.uploaded = FALSE, !.resolved = FALSE, !.loaded = FALSE, !.statics = FALSE]

\* Mutant: an in-world restart opens the world gate before it drains.
MutStartInit ==
  \/ /\ ~useDL
     /\ state' = "RenderReady" /\ pump' = Idle /\ staging' = {}
     /\ gate' = [InitReady EXCEPT !.uploaded = TRUE, !.resolved = TRUE]
     /\ UNCHANGED <<useDL, client, host, cache, spent>>
  \/ /\ useDL
     /\ state' = "DeviceResourcesReady" /\ pump' = Armed /\ staging' = {}
     /\ gate' = [InitReady EXCEPT !.resolved = game.inWorld]
     /\ UNCHANGED <<useDL, client, host, cache, spent>>

StartInit ==
  \/ \* no distant land wanted: the gates are open at once
     /\ ~useDL
     /\ state' = "RenderReady" /\ pump' = Idle /\ staging' = {}
     /\ gate' = [InitReady EXCEPT !.uploaded = TRUE, !.resolved = TRUE]
     /\ UNCHANGED <<useDL, client, host, cache, spent>>
  \/ \* at the menu frames drive the pump; in the world the caller drains it
     /\ useDL
     /\ state' = "DeviceResourcesReady" /\ pump' = Armed /\ staging' = {} /\ gate' = InitReady
     /\ UNCHANGED <<useDL, client, host, cache, spent>>

InitFails ==
  /\ state' = "FailedDisabled"
  /\ gate' = InitReady
  /\ StopEverything
  /\ UNCHANGED spent

\* The first Present after Morrowind's pointers are known starts the work early.
FirstPresent ==
  /\ Free /\ game.device /\ ~game.loaded
  /\ IF useDL /\ state = "Uninitialized"
     THEN \/ StartInit /\ game' = [game EXCEPT !.loaded = TRUE]
          \/ InitFails /\ UNCHANGED useDL /\ game' = [game EXCEPT !.loaded = TRUE, !.device = FALSE]
     ELSE /\ game' = [game EXCEPT !.loaded = TRUE]
          /\ UNCHANGED <<state, useDL, pump, gate, staging, client, host, cache, spent>>

\* The engine's load hook, before the main menu and after a renderer restart.
InitOnLoad ==
  /\ Free /\ game.loaded
  /\ \/ /\ state = "Uninitialized" /\ game.device
        /\ \/ /\ StartInit
              /\ \E placed \in IF PlacedInWorld THEN {TRUE} ELSE BOOLEAN :
                   game' = IF useDL /\ game.inWorld
                           THEN [game EXCEPT !.draining = "restart", !.placed = placed]
                           ELSE game
           \/ /\ InitFails /\ useDL' = FALSE
              /\ game' = [game EXCEPT !.device = FALSE]
     \/ /\ state = "FailedDisabled" /\ useDL
        /\ useDL' = FALSE
        /\ UNCHANGED <<state, game, pump, gate, staging, client, host, cache, spent>>

\* Present ticks an armed pump between frames; a drain ticks it in its own loop.
Tick == PumpUploadTick

\* A drain ends when the pump is no longer active: completed, or failed inside.
RestartDrained ==
  /\ game.draining = "restart" /\ ~pump.active
  /\ game' = [game EXCEPT !.draining = "no"]
  /\ gate' = IF gate.uploaded THEN [gate EXCEPT !.resolved = TRUE] ELSE gate
  /\ state' = Promoted(gate')
  /\ UNCHANGED <<useDL, pump, staging, client, host, cache, spent>>

\* A save or a new game has resolved its data; the player may have no usable
\* position yet.
OnResolveDuringInit ==
  /\ Free /\ game.loaded /\ state # "Uninitialized"
  /\ gate' = [gate EXCEPT !.resolved = TRUE]
  /\ \E placed \in BOOLEAN :
       IF state = "DeviceResourcesReady" /\ pump.active /\ ~gate.uploaded
       THEN game' = [game EXCEPT !.placed = placed, !.draining = "hook"] /\ UNCHANGED state
       ELSE game' = [game EXCEPT !.placed = placed, !.inWorld = TRUE] /\ state' = Promoted(gate')
  /\ UNCHANGED <<useDL, pump, staging, client, host, cache, spent>>

HookDrained ==
  /\ game.draining = "hook" /\ ~pump.active
  /\ game' = [game EXCEPT !.draining = "no", !.inWorld = TRUE]
  /\ state' = Promoted(gate)
  /\ UNCHANGED <<useDL, pump, gate, staging, client, host, cache, spent>>

\* The last reference to the device goes; the engine makes another one.
DeviceReleased ==
  /\ Free /\ spent.restarts < MaxRestarts
  /\ Release("Uninitialized")
  /\ game' = [game EXCEPT !.device = TRUE]
  /\ spent' = [spent EXCEPT !.restarts = @ + 1]
  /\ UNCHANGED useDL

\* Mutant: the script interface may enable what was never loaded.
MutSetUseDistantLand(enable) ==
  /\ Free /\ game.loaded
  /\ useDL' = enable
  /\ UNCHANGED <<state, game, pump, gate, staging, client, host, cache, spent>>

\* The toggle and the script interface may only enable what was loaded.
SetUseDistantLand(enable) ==
  /\ Free /\ game.loaded
  /\ enable => gate.loaded
  /\ useDL' = enable
  /\ UNCHANGED <<state, game, pump, gate, staging, client, host, cache, spent>>

\* A frame selects the world space of the player's cell.  A failed call is
\* cached like an answer.
SelectDistantCell(key) ==
  /\ Free /\ state = "RenderReady" /\ useDL /\ game.inWorld
  /\ ~(cache.valid /\ cache.key = key)
  /\ \/ /\ Alive
        /\ cache' = [valid |-> TRUE, key |-> key, found |-> key \in host.worlds]
        /\ host' = [host EXCEPT !.command = "SetWorldSpace", !.answered = TRUE]
        /\ client' = [client EXCEPT !.pending = FALSE]
        /\ UNCHANGED spent
     \/ /\ GiveUp
        /\ cache' = [valid |-> TRUE, key |-> key, found |-> FALSE]
        /\ spent' = [spent EXCEPT !.timeouts = @ + 1]
        /\ Ask("SetWorldSpace")
     \/ /\ ~Alive
        /\ cache' = [valid |-> TRUE, key |-> key, found |-> FALSE]
        /\ UNCHANGED <<client, host, spent>>
  /\ UNCHANGED <<state, useDL, game, pump, gate, staging>>

Next ==
  \/ FirstPresent \/ InitOnLoad \/ Tick \/ RestartDrained
  \/ OnResolveDuringInit \/ HookDrained \/ DeviceReleased
  \/ \E b \in BOOLEAN : SetUseDistantLand(b)
  \/ \E k \in Keys : SelectDistantCell(k)
  \/ HostBoots \/ OutputSettles \/ HostAnswers \/ HostDies

Spec == Init /\ [][Next]_vars

-------------------------------------------------------------------------------
(* Fairness: Present and the drain loops keep ticking the pump (a drained pump
   is left at once, the loop's condition), and the host boots, settles its
   output and answers unless it dies.                                          *)

FairSpec ==
  /\ Spec
  /\ WF_vars(Tick) /\ WF_vars(RestartDrained) /\ WF_vars(HookDrained)
  /\ WF_vars(HostBoots) /\ WF_vars(OutputSettles) /\ WF_vars(HostAnswers)

-------------------------------------------------------------------------------
(* Properties *)

TypeOK ==
  /\ state \in States /\ useDL \in BOOLEAN
  /\ game \in [device : BOOLEAN, loaded : BOOLEAN, inWorld : BOOLEAN,
               placed : BOOLEAN, draining : {"no", "restart", "hook"}]
  /\ pump \in [active : BOOLEAN, phase : Phases, queried : BOOLEAN, begun : BOOLEAN,
               left : 0..Slices, streams : BOOLEAN]
  /\ gate \in [uploaded : BOOLEAN, resolved : BOOLEAN, loaded : BOOLEAN, statics : BOOLEAN,
               land : BOOLEAN]
  /\ staging \subseteq {"land", "statics"}
  /\ client \in [launch : {"Inactive", "LaunchedPendingBootstrap", "RuntimeActive"},
                 pending : BOOLEAN]
  /\ host \in [life : {"none", "booting", "up", "dead"}, output : {"pending", "ready", "failed"},
               vecs : SUBSET {"visible", "land", "statics"}, land : BOOLEAN, statics : BOOLEAN,
               worlds : SUBSET Keys, command : Commands, answered : BOOLEAN, ok : BOOLEAN]
  /\ cache \in [valid : BOOLEAN, key : Keys, found : BOOLEAN]
  /\ spent \in [restarts : 0..MaxRestarts, timeouts : 0..MaxTimeouts, deaths : 0..MaxDeaths]

\* The render path with distant land on shows only what was handed over, and to
\* the very host process it queries: both gates are open, the pump is finished,
\* this host built the land tree if the client holds the terrain's meshes, and the
\* statics tree if statics were uploaded.  Toggles, restarts and failures in between
\* never leave the path enabled over a host that holds something else.  It may be
\* enabled over a host without land: where the upload found no terrain to send.
RenderedIsLoaded ==
  state = "RenderReady" /\ useDL =>
    /\ gate.uploaded /\ gate.resolved /\ gate.loaded /\ ~pump.active
    /\ client.launch = "RuntimeActive" /\ "visible" \in host.vecs
    /\ (gate.land => host.land) /\ (gate.statics => host.statics)

\* A vector the host is still reading is not freed under it, and the client
\* remembers it; once the pump is done no staging vector is left in the host.
StagingHeld ==
  /\ client.pending /\ ~host.answered =>
       /\ host.command = "InitLandscape" => "land" \in host.vecs \cap staging
       /\ host.command = "InitDistantStatics" => "statics" \in host.vecs \cap staging
  /\ (pump.phase = "Done" \/ (state = "RenderReady" /\ useDL)) =>
       staging = {} /\ host.vecs = {"visible"}

\* The result of a command left in flight is read while that command is still
\* the active one in the shared parameter block (the assertions of client.h); a
\* landscape that was not sent has no result to read.
ReadsItsOwnAnswer ==
  /\ Ticking("Statics") /\ "land" \in staging => host.command = "InitLandscape"
  /\ Ticking("StaticsHostWait") => host.command = "InitDistantStatics"

\* A renderer restart in the world enables the render path only after its drain,
\* so none of the drain's own loading frames goes through the distant path.
RestartStaysDark == game.draining = "restart" => state # "RenderReady"

\* Without device resources nothing of an upload survives: no pump, no staging,
\* no host process, no cached world space.
FailureLeavesNothing ==
  state \in {"Uninitialized", "FailedDisabled"} =>
    pump = Idle /\ staging = {} /\ client = Stopped /\ host = NoHost /\ cache = NoCache

\* A cached world space never survives the host that reported it: the host
\* rebuilds its table on every start, and each start may know other ones.
CachedHitIsLive == cache.valid /\ cache.found => cache.key \in host.worlds

\* A cell is not remembered as having no world space when the host has it.
CachedMissIsReal == cache.valid /\ ~cache.found /\ Alive => cache.key \notin host.worlds

\* The pump ends, completed or failed, unless it waits at the menu for a world
\* to place its bootstrap in.
PumpEnds ==
  pump.active ~> \/ ~pump.active
                 \/ pump.phase = "ResidencyBootstrap" /\ ~gate.resolved

\* The engine always gets its load path back: a drain inside a restart or inside
\* the resolve hook ends, whatever becomes of the host.
DrainEnds == game.draining # "no" ~> game.draining = "no"

\* What the host holds, what the client believes it holds and what the render path
\* may show agree in every phase, through restarts, failures and dead hosts.
UploadSound ==
  /\ TypeOK /\ RenderedIsLoaded /\ StagingHeld /\ ReadsItsOwnAnswer
  /\ RestartStaysDark /\ FailureLeavesNothing /\ CachedHitIsLive

\* Whatever becomes of the host, neither the pump nor the engine waits for ever.
UploadEnds == PumpEnds /\ DrainEnds
===============================================================================
