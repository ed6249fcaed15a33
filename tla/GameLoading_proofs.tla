--------------------------- MODULE GameLoading_proofs ---------------------------
(* The game's side of loading: the upload pump, and the streaming of merged
   statics that its last phases begin.

   Upload: what the client, the host and the render path agree on in every
   phase, for every set of world spaces and every number of slices, restarts,
   timeouts and dead hosts.  What the host holds follows from the phase the
   pump is in; that phase follows from the state and the gates.

   Streaming: ledgers, queues, reads and the host agree about every resource,
   for every catalog, cap, map and number of late RPCs and failures.  The
   invariant adds what a late command may still do to the host, and what the
   drain of the whole set relies on.                                        *)
EXTENDS UploadPump, Residency, FiniteSetTheorems, SequenceTheorems, WellFoundedInduction, TLAPS

-----------------------------------------------------------------------------
(* The upload.                                                             *)

\* Nothing of an upload is left.
Nothing == pump = Idle /\ staging = {} /\ client = Stopped /\ host = NoHost /\ cache = NoCache

\* The state and the two gates say whether the pump runs, has run, or never did.
GatesFollow ==
  /\ state \in {"Uninitialized", "FailedDisabled"} => pump = Idle
  /\ state = "DeviceResourcesReady" => pump.active \/ gate.loaded
  /\ state = "RenderReady" => gate.uploaded /\ gate.resolved /\ (useDL => gate.loaded)
  /\ state = "RenderReady" => ~pump.active
  /\ pump.active => ~gate.uploaded /\ pump.phase # "None"
  /\ ~pump.active => pump = Idle \/ pump.phase = "Done"
  /\ gate.loaded <=> ~pump.active /\ pump.phase = "Done"
  /\ gate.loaded => gate.uploaded
  /\ game.draining = "restart" => ~gate.resolved

\* Before the landscape is sent the host has at most the vector of visible sets.
Preparing ==
  pump.phase \in {"HostWait", "OutputWait", "IpcSetup", "Landscape"} =>
    /\ staging = {} /\ ~gate.statics /\ ~gate.land
    /\ host.vecs = IF pump.phase = "Landscape" THEN {"visible"} ELSE {}
    /\ client.pending => pump.phase = "OutputWait" /\ host.command = "QueryOutputStatus"

\* InitLandscape is the last command while the statics are parsed and uploaded,
\* unless there was no terrain to send.
LandscapeSent ==
  pump.phase = "Statics" =>
    /\ ~gate.statics
    /\ \/ /\ staging = {"land"} /\ gate.land
          /\ host.vecs = {"visible", "land"}
          /\ host.command = "InitLandscape"
          /\ host.answered => host.land = host.ok
       \/ /\ staging = {} /\ ~gate.land
          /\ host.vecs = {"visible"}
          /\ ~client.pending

\* InitDistantStatics is the last command until its result is collected.
StaticsSent ==
  pump.phase = "StaticsHostWait" \/ (pump.phase = "Grass" /\ staging # {}) =>
    /\ staging = {"statics"}
    /\ host.vecs = {"visible", "statics"}
    /\ host.command = "InitDistantStatics"
    /\ host.answered => host.statics = host.ok

\* Everything is collected: only the world space of a frame is asked for.
Collecting ==
  \/ pump.phase \in {"ResidencyFullDrain", "ResidencyBootstrap", "Done"}
  \/ pump.phase = "Grass" /\ staging = {}

AllCollected ==
  Collecting =>
    /\ staging = {} /\ host.vecs = {"visible"}
    /\ gate.statics => host.statics
    /\ client.pending => host.command = "SetWorldSpace"

\* What a phase can rely on since an earlier one.
Since ==
  /\ pump.phase \notin {"None", "HostWait"} => client.launch = "RuntimeActive"
  /\ pump.phase \in {"Grass", "StaticsHostWait", "ResidencyFullDrain", "ResidencyBootstrap", "Done"}
       => (gate.land => host.land)
  /\ pump.phase = "None" => ~gate.land
  /\ gate.loaded \/ cache = NoCache
  /\ host.life = "booting" => pump.phase = "HostWait"

IInv ==
  /\ TypeOK /\ GatesFollow /\ (pump.phase = "None" => Nothing)
  /\ Preparing /\ LandscapeSent /\ StaticsSent /\ AllCollected
  /\ Since /\ CachedHitIsLive

\* The types of the records, by name.
Games  == [device : BOOLEAN, loaded : BOOLEAN, inWorld : BOOLEAN, placed : BOOLEAN,
           draining : {"no", "restart", "hook"}]
Pumps  == [active : BOOLEAN, phase : Phases, queried : BOOLEAN, begun : BOOLEAN,
           left : 0..Slices, streams : BOOLEAN]
Gates  == [uploaded : BOOLEAN, resolved : BOOLEAN, loaded : BOOLEAN, statics : BOOLEAN,
           land : BOOLEAN]
Clients == [launch : {"Inactive", "LaunchedPendingBootstrap", "RuntimeActive"},
            pending : BOOLEAN]
Hosts  == [life : {"none", "booting", "up", "dead"}, output : {"pending", "ready", "failed"},
           vecs : SUBSET {"visible", "land", "statics"}, land : BOOLEAN, statics : BOOLEAN,
           worlds : SUBSET Keys, command : Commands, answered : BOOLEAN, ok : BOOLEAN]
Caches == [valid : BOOLEAN, key : Keys, found : BOOLEAN]
Spents == [restarts : 0..MaxRestarts, timeouts : 0..MaxTimeouts, deaths : 0..MaxDeaths]

LEMMA Types ==
  TypeOK <=> /\ state \in States /\ useDL \in BOOLEAN /\ game \in Games /\ pump \in Pumps
             /\ gate \in Gates /\ staging \subseteq {"land", "statics"} /\ client \in Clients
             /\ host \in Hosts /\ cache \in Caches /\ spent \in Spents
BY DEF TypeOK, Games, Pumps, Gates, Clients, Hosts, Caches, Spents

LEMMA TypesNext ==
  TypeOK' <=> /\ state' \in States /\ useDL' \in BOOLEAN /\ game' \in Games /\ pump' \in Pumps
              /\ gate' \in Gates /\ staging' \subseteq {"land", "statics"} /\ client' \in Clients
              /\ host' \in Hosts /\ cache' \in Caches /\ spent' \in Spents
BY DEF TypeOK, Games, Pumps, Gates, Clients, Hosts, Caches, Spents

---------------------------------------------------------------------------
(* Nothing is well formed, and is what every tearing down leaves.          *)
LEMMA NothingTyped ==
  ASSUME UploadPumpAssumption
  PROVE  /\ Idle \in Pumps /\ Stopped \in Clients /\ NoHost \in Hosts /\ NoCache \in Caches
         /\ Armed \in Pumps /\ Idle.phase = "None" /\ ~Idle.active
         /\ Armed.phase = "HostWait" /\ Armed.active
         /\ ~NoCache.valid /\ ~Stopped.pending /\ NoHost.vecs = {} /\ NoHost.life = "none"
<1>1. (CHOOSE k \in Keys : TRUE) \in Keys
  BY DEF UploadPumpAssumption
<1>2. 0 \in 0..Slices
  BY DEF UploadPumpAssumption
<1> QED
  BY <1>1, <1>2 DEF Idle, Armed, Stopped, NoHost, NoCache, Pumps, Clients, Hosts, Caches, Phases, Commands

LEMMA NothingHolds ==
  ASSUME UploadPumpAssumption, Nothing',
         state' \in States, useDL' \in BOOLEAN, game' \in Games, gate' \in Gates, spent' \in Spents,
         ~gate'.loaded, ~gate'.land, game'.draining = "restart" => ~gate'.resolved,
         \/ state' \in {"Uninitialized", "FailedDisabled"}
         \/ state' = "RenderReady" /\ gate'.uploaded /\ gate'.resolved /\ ~useDL'
  PROVE  IInv'
<1>1. /\ pump' = Idle /\ staging' = {} /\ client' = Stopped /\ host' = NoHost /\ cache' = NoCache
      /\ pump'.phase = "None" /\ ~pump'.active /\ ~cache'.valid /\ host'.life = "none"
  BY NothingTyped DEF Nothing
<1>2. TypeOK'
  BY <1>1, TypesNext, NothingTyped
<1>3. GatesFollow'
  BY <1>1 DEF GatesFollow, States
<1>4. Preparing' /\ LandscapeSent' /\ StaticsSent' /\ AllCollected' /\ Since' /\ CachedHitIsLive'
  BY <1>1 DEF Preparing, LandscapeSent, StaticsSent, AllCollected, Collecting, Since, CachedHitIsLive
<1> QED
  BY <1>2, <1>3, <1>4 DEF IInv

LEMMA Stops == ASSUME StopEverything PROVE Nothing'
BY DEF StopEverything, AbortUploadPump, StopServer, InvalidateWorldSpaceCache, Nothing

LEMMA Unloaded ==
  ASSUME UploadPumpAssumption, IInv
  PROVE  /\ gate.loaded <=> ~pump.active /\ pump.phase = "Done"
         /\ state \in {"Uninitialized", "FailedDisabled"} => Nothing /\ ~gate.loaded /\ ~gate.land
BY NothingTyped DEF IInv, GatesFollow, Nothing, Since

(* Giving the device resources back loses the load, whatever was loaded.   *)
LEMMA Releases ==
  ASSUME UploadPumpAssumption, IInv,
         \E next \in {"Uninitialized", "FailedDisabled"} : Release(next)
  PROVE  /\ Nothing' /\ ~gate'.loaded /\ ~gate'.land /\ gate' \in Gates /\ gate'.resolved = gate.resolved
         /\ state' \in {"Uninitialized", "FailedDisabled"}
<1>1. gate \in Gates /\ state \in States
  BY Types DEF IInv
<1>2. PICK next \in {"Uninitialized", "FailedDisabled"} : Release(next)
  OBVIOUS
<1>3. Nothing'
  BY <1>2, Stops DEF Release
<1>4. CASE HasDeviceResources
  BY <1>1, <1>2, <1>3, <1>4 DEF Release, Gates
<1>5. CASE ~HasDeviceResources
  BY <1>1, <1>2, <1>3, <1>5, Unloaded DEF Release, HasDeviceResources, States
<1> QED
  BY <1>4, <1>5

LEMMA FailUploadKeeps == ASSUME UploadPumpAssumption, IInv, FailUpload PROVE IInv'
<1>1. /\ Nothing' /\ ~gate'.loaded /\ ~gate'.land /\ gate' \in Gates /\ gate'.resolved = gate.resolved
      /\ state' \in {"Uninitialized", "FailedDisabled"}
  BY Releases DEF FailUpload
<1>2. game' \in Games /\ game'.draining = game.draining /\ spent' \in Spents /\ useDL' \in BOOLEAN
  <2>1. game \in Games /\ spent \in Spents
    BY Types DEF IInv
  <2> QED
    BY <2>1 DEF FailUpload, Games
<1>3. game'.draining = "restart" => ~gate'.resolved
  BY <1>1, <1>2 DEF IInv, GatesFollow
<1> QED
  BY <1>1, <1>2, <1>3, NothingHolds DEF States

---------------------------------------------------------------------------
(* A tick of the pump, phase by phase.  Its successful part leaves the     *)
(* state, the gates and the engine alone until the phase that finishes.    *)
LEMMA Typed ==
  ASSUME UploadPumpAssumption, IInv
  PROVE  /\ pump \in Pumps /\ client \in Clients /\ host \in Hosts /\ gate \in Gates /\ game \in Games
         /\ state \in States /\ useDL \in BOOLEAN /\ cache \in Caches /\ spent \in Spents
         /\ staging \subseteq {"land", "statics"}
BY Types DEF IInv

LEMMA HostWaitKeeps == ASSUME UploadPumpAssumption, IInv, HostWait PROVE IInv'
<1>1. CASE FailUpload
  BY <1>1, FailUploadKeeps
<1>2. CASE ~FailUpload
  <2>1. /\ pump.active /\ pump.phase = "HostWait" /\ UNCHANGED <<state, useDL, game, gate, spent, staging>>
        /\ \/ /\ cache' = NoCache /\ host' = Launched /\ pump' = pump
              /\ client' = [launch |-> "LaunchedPendingBootstrap", pending |-> FALSE]
           \/ /\ client' = [launch |-> "RuntimeActive", pending |-> FALSE] /\ Complete
              /\ GoTo("OutputWait") /\ UNCHANGED <<host, cache>>
    BY <1>2 DEF HostWait, Ticking, Steady, InvalidateWorldSpaceCache
  <2>2. /\ pump' \in Pumps /\ pump'.active /\ host' \in Hosts /\ host'.vecs = {} /\ ~client'.pending
        /\ client' \in Clients /\ cache' = NoCache
        /\ \/ pump'.phase = "HostWait"
           \/ pump'.phase = "OutputWait" /\ client'.launch = "RuntimeActive" /\ host'.life # "booting"
    <3>1. Launched \in Hosts /\ Launched.vecs = {}
      BY NothingTyped DEF Launched, Hosts
    <3>2. host.vecs = {} /\ cache = NoCache
      BY <2>1 DEF IInv, Preparing, Since, GatesFollow
    <3>3. CASE cache' = NoCache /\ host' = Launched /\ pump' = pump
               /\ client' = [launch |-> "LaunchedPendingBootstrap", pending |-> FALSE]
      BY <2>1, <3>1, <3>3, Typed DEF Clients
    <3>4. CASE client' = [launch |-> "RuntimeActive", pending |-> FALSE]
               /\ Complete /\ GoTo("OutputWait") /\ UNCHANGED <<host, cache>>
      BY <2>1, <3>2, <3>4, Typed DEF Complete, GoTo, Pumps, Clients, Phases
    <3> QED
      BY <2>1, <3>3, <3>4
  <2>3. staging = {} /\ ~gate.statics /\ ~gate.land /\ ~gate.loaded /\ ~gate.uploaded /\ state = "DeviceResourcesReady"
    BY <2>1, Typed DEF IInv, Preparing, GatesFollow, States, Idle
  <2>4. TypeOK'
    BY <2>1, <2>2, Typed, TypesNext, NothingTyped
  <2> QED
    BY <2>1, <2>2, <2>3, <2>4, NothingTyped DEF IInv, GatesFollow, Preparing, LandscapeSent, StaticsSent,
       AllCollected, Collecting, Since, CachedHitIsLive
<1> QED
  BY <1>1, <1>2

(* Ticking, the pump finds the gates shut and the device resources there.  *)
LEMMA TickingFinds ==
  ASSUME UploadPumpAssumption, IInv, pump.active
  PROVE  /\ ~gate.loaded /\ ~gate.uploaded /\ state = "DeviceResourcesReady" /\ cache = NoCache
         /\ pump.phase # "None"
BY Typed DEF IInv, GatesFollow, States, Idle, Since

(* The rest of a tick that leaves the gates alone and the pump active.     *)
LEMMA TickKeeps ==
  ASSUME UploadPumpAssumption, IInv, pump.active,
         pump.phase # "HostWait",
         UNCHANGED <<state, useDL, game, spent, cache>>, host'.life = host.life,
         gate' \in Gates, gate'.loaded = gate.loaded, gate'.uploaded = gate.uploaded,
         gate'.resolved = gate.resolved,
         pump' \in Pumps, pump'.active, pump'.phase # "None", client' \in Clients, host' \in Hosts,
         staging' \subseteq {"land", "statics"},
         Preparing', LandscapeSent', StaticsSent', AllCollected',
         pump'.phase # "HostWait" => client'.launch = "RuntimeActive",
         pump'.phase \in {"Grass", "StaticsHostWait", "ResidencyFullDrain", "ResidencyBootstrap", "Done"}
           => (gate'.land => host'.land)
  PROVE  IInv'
<1>1. /\ ~gate.loaded /\ ~gate.uploaded /\ state = "DeviceResourcesReady" /\ cache = NoCache
  BY TickingFinds
<1>3. TypeOK'
  BY Typed, TypesNext
<1>4. GatesFollow'
  BY <1>1 DEF IInv, GatesFollow
<1>5. Since' /\ CachedHitIsLive'
  BY <1>1, NothingTyped DEF IInv, Since, CachedHitIsLive
<1> QED
  BY <1>3, <1>4, <1>5 DEF IInv

LEMMA OutputWaitKeeps == ASSUME UploadPumpAssumption, IInv, OutputWait PROVE IInv'
<1>1. CASE FailUpload
  BY <1>1, FailUploadKeeps
<1>2. CASE ~FailUpload
  <2>1. /\ pump.active /\ pump.phase = "OutputWait" /\ UNCHANGED <<state, useDL, game, gate, spent, staging, cache>>
        /\ pump' \in Pumps /\ pump'.active /\ pump'.phase \in {"OutputWait", "IpcSetup"}
        /\ host' \in Hosts /\ host'.vecs = host.vecs /\ host'.life = host.life /\ client' \in Clients /\ client'.launch = client.launch
        /\ client'.pending => pump'.phase = "OutputWait" /\ host'.command = "QueryOutputStatus"
    <3>0. /\ pump.active /\ pump.phase = "OutputWait"
          /\ UNCHANGED <<state, useDL, game, gate, spent, staging, cache>>
      BY <1>2 DEF OutputWait, Ticking, Steady
    <3>1. CASE Ask("QueryOutputStatus") /\ pump' = [pump EXCEPT !.queried = TRUE]
      BY <1>2, <3>0, <3>1, Typed DEF Ask, Pumps, Hosts, Clients, Commands
    <3>2. CASE /\ client' = [client EXCEPT !.pending = FALSE] /\ UNCHANGED host
               /\ pump' = [pump EXCEPT !.queried = FALSE,
                                       !.phase = IF host.output = "ready" THEN "IpcSetup" ELSE @]
      BY <1>2, <3>0, <3>2, Typed DEF Pumps, Clients, Phases
    <3> QED
      BY <1>2, <3>0, <3>1, <3>2 DEF OutputWait
  <2>2. staging = {} /\ ~gate.statics /\ ~gate.land /\ host.vecs = {} /\ client.launch = "RuntimeActive"
    BY <2>1 DEF IInv, Preparing, Since
  <2>3. Preparing' /\ LandscapeSent' /\ StaticsSent' /\ AllCollected'
    BY <2>1, <2>2 DEF Preparing, LandscapeSent, StaticsSent, AllCollected, Collecting
  <2> QED
    BY <2>1, <2>2, <2>3, TickKeeps, Typed
<1> QED
  BY <1>1, <1>2

LEMMA IpcSetupKeeps == ASSUME UploadPumpAssumption, IInv, IpcSetup PROVE IInv'
<1>1. CASE FailUpload
  BY <1>1, FailUploadKeeps
<1>2. CASE ~FailUpload
  <2>0. /\ pump.active /\ pump.phase = "IpcSetup"
        /\ UNCHANGED <<state, useDL, game, gate, spent, staging, client, cache>>
        /\ host' = [host EXCEPT !.vecs = @ \union {"visible"}, !.command = "AllocVec"] /\ GoTo("Landscape")
    BY <1>2 DEF IpcSetup, Ticking, Steady
  <2>1. staging = {} /\ ~gate.statics /\ ~gate.land /\ host.vecs = {} /\ client.launch = "RuntimeActive" /\ ~client.pending
    BY <2>0 DEF IInv, Preparing, Since
  <2>2. /\ pump' \in Pumps /\ pump'.active /\ pump'.phase = "Landscape"
        /\ host' \in Hosts /\ host'.vecs = {"visible"} /\ host'.life = host.life
    BY <2>0, <2>1, Typed DEF GoTo, Pumps, Hosts, Phases, Commands
  <2>3. Preparing' /\ LandscapeSent' /\ StaticsSent' /\ AllCollected'
    BY <2>0, <2>1, <2>2 DEF Preparing, LandscapeSent, StaticsSent, AllCollected, Collecting
  <2> QED
    BY <2>0, <2>1, <2>2, <2>3, TickKeeps, Typed
<1> QED
  BY <1>1, <1>2

LEMMA LandscapeKeeps == ASSUME UploadPumpAssumption, IInv, Landscape PROVE IInv'
<1>1. CASE FailUpload
  BY <1>1, FailUploadKeeps
<1>0. CASE ~FailUpload /\ Steady
  <2>1. /\ pump.active /\ pump.phase = "Landscape" /\ GoTo("Statics")
        /\ UNCHANGED <<state, useDL, game, gate, spent, staging, client, host, cache>>
    BY <1>0, Typed DEF Landscape, Ticking, Steady, IInv, Preparing, Gates
  <2>2. /\ staging = {} /\ ~gate.statics /\ ~gate.land /\ host.vecs = {"visible"}
        /\ client.launch = "RuntimeActive" /\ ~client.pending
    BY <2>1 DEF IInv, Preparing, Since
  <2>3. pump' \in Pumps /\ pump'.active /\ pump'.phase = "Statics"
    BY <2>1, Typed DEF GoTo, Pumps, Phases
  <2>4. Preparing' /\ LandscapeSent' /\ StaticsSent' /\ AllCollected'
    BY <2>1, <2>2, <2>3 DEF Preparing, LandscapeSent, StaticsSent, AllCollected, Collecting
  <2> QED
    BY <2>1, <2>2, <2>3, <2>4, TickKeeps, Typed
<1>2. CASE ~FailUpload /\ ~Steady
  <2>1. /\ pump.active /\ pump.phase = "Landscape" /\ UNCHANGED <<state, useDL, game, spent, cache>>
        /\ client' = [client EXCEPT !.pending = TRUE] /\ staging' = staging \union {"land"} /\ GoTo("Statics")
        /\ host' = [host EXCEPT !.vecs = @ \union {"land"}, !.command = "InitLandscape", !.answered = FALSE]
        /\ gate' = [gate EXCEPT !.land = TRUE]
    BY <1>2 DEF Landscape, Ticking
  <2>2. staging = {} /\ ~gate.statics /\ host.vecs = {"visible"} /\ client.launch = "RuntimeActive"
    BY <2>1 DEF IInv, Preparing, Since
  <2>5. /\ gate' \in Gates /\ gate'.land /\ gate'.statics = gate.statics /\ gate'.loaded = gate.loaded
        /\ gate'.uploaded = gate.uploaded /\ gate'.resolved = gate.resolved
    BY <2>1, Typed DEF Gates
  <2>3. /\ pump' \in Pumps /\ pump'.active /\ pump'.phase = "Statics" /\ staging' = {"land"}
        /\ client' \in Clients /\ client'.launch = client.launch
        /\ host' \in Hosts /\ host'.life = host.life /\ host'.vecs = {"visible", "land"}
        /\ host'.command = "InitLandscape" /\ ~host'.answered
    BY <2>1, <2>2, Typed DEF GoTo, Pumps, Hosts, Clients, Phases, Commands
  <2>4. Preparing' /\ LandscapeSent' /\ StaticsSent' /\ AllCollected'
    BY <2>1, <2>2, <2>3, <2>5 DEF Preparing, LandscapeSent, StaticsSent, AllCollected, Collecting
  <2> QED
    BY <2>1, <2>2, <2>3, <2>4, <2>5, TickKeeps
<1> QED
  BY <1>0, <1>1, <1>2

(* The landscape is collected while its own command is the last one, and   *)
(* nothing of it is left in the host.                                      *)
LEMMA CollectsLand ==
  ASSUME UploadPumpAssumption, IInv, pump.phase = "Statics"
  PROVE  /\ staging \in {{"land"}, {}} /\ ~gate.statics /\ client.launch = "RuntimeActive"
         /\ CollectLandscape => (gate.land => host.land)
         /\ Collected \in Hosts /\ Collected.vecs = {"visible"} /\ Collected.life = host.life
         /\ Collected.land = host.land
<1>1. /\ staging \in {{"land"}, {}} /\ ~gate.statics /\ client.launch = "RuntimeActive"
      /\ CollectLandscape => (gate.land => host.land)
  BY Typed DEF IInv, LandscapeSent, Since, CollectLandscape, Complete, Succeeded, Hosts
<1>2. host.vecs = IF "land" \in staging THEN {"visible", "land"} ELSE {"visible"}
  BY DEF IInv, LandscapeSent
<1>3. CASE "land" \in staging
  <2>1. Collected = [host EXCEPT !.vecs = host.vecs \ {"land"}, !.command = "FreeVec"]
    BY <1>3 DEF Collected
  <2>2. host \in Hosts /\ host.vecs \ {"land"} = {"visible"} /\ "FreeVec" \in Commands
    BY <1>2, <1>3, Typed DEF Commands
  <2>3. /\ Collected \in Hosts /\ Collected.vecs = host.vecs \ {"land"}
        /\ Collected.life = host.life /\ Collected.land = host.land
    BY <2>1, <2>2 DEF Hosts
  <2> QED
    BY <1>1, <2>2, <2>3
<1>4. CASE "land" \notin staging
  <2>1. Collected = host /\ host.vecs = {"visible"}
    BY <1>2, <1>4 DEF Collected
  <2> QED
    BY <1>1, <2>1, Typed
<1> QED
  BY <1>3, <1>4

LEMMA StaticsKeeps == ASSUME UploadPumpAssumption, IInv, Statics PROVE IInv'
<1>0. pump.active /\ pump.phase = "Statics"
  BY DEF Statics, Ticking
<1>1. CASE FailUpload
  BY <1>1, FailUploadKeeps
<1>2. CASE SkipStatics
  <2>1. /\ UNCHANGED <<state, useDL, game, gate, spent, cache>> /\ (gate.land => host.land)
        /\ client' = [client EXCEPT !.pending = FALSE] /\ staging' = staging \ {"land"}
        /\ host' = Collected
        /\ pump' = [pump EXCEPT !.phase = "Grass", !.begun = TRUE]
    BY <1>0, <1>2, CollectsLand DEF SkipStatics, Steady
  <2>2. /\ pump' \in Pumps /\ pump'.active /\ pump'.phase = "Grass" /\ staging' = {}
        /\ client' \in Clients /\ client'.launch = client.launch /\ ~client'.pending
        /\ host' \in Hosts /\ host'.life = host.life /\ host'.vecs = {"visible"} /\ host'.land = host.land
    BY <1>0, <2>1, CollectsLand, Typed DEF Pumps, Clients, Phases
  <2>3. Preparing' /\ LandscapeSent' /\ StaticsSent' /\ AllCollected'
    BY <1>0, <2>1, <2>2, CollectsLand DEF Preparing, LandscapeSent, StaticsSent, AllCollected, Collecting
  <2> QED
    BY <1>0, <2>1, <2>2, <2>3, CollectsLand, TickKeeps, Typed
<1>3. CASE FinishStatics
  <2>0. /\ UNCHANGED <<state, useDL, game, spent, cache>> /\ (gate.land => host.land)
        /\ client' = [client EXCEPT !.pending = TRUE] /\ staging' = {"statics"}
        /\ host' = [Collected EXCEPT !.vecs = @ \union {"statics"}, !.command = "InitDistantStatics",
                                     !.answered = FALSE]
        /\ gate' = [gate EXCEPT !.statics = TRUE]
        /\ pump' = [pump EXCEPT !.phase = "Grass", !.left = 0]
    BY <1>0, <1>3, CollectsLand DEF FinishStatics
  <2>1. /\ host'.vecs = {"visible", "statics"} /\ host'.command = "InitDistantStatics"
        /\ ~host'.answered /\ host'.land = host.land /\ host' \in Hosts /\ host'.life = host.life
        /\ gate' \in Gates /\ gate'.loaded = gate.loaded /\ gate'.uploaded = gate.uploaded
        /\ gate'.resolved = gate.resolved /\ gate'.land = gate.land
    <3> DEFINE h == Collected
    <3>1. h \in Hosts /\ h.vecs = {"visible"} /\ h.life = host.life /\ h.land = host.land
      BY <1>0, CollectsLand
    <3>2. /\ host' = [h EXCEPT !.vecs = @ \union {"statics"}, !.command = "InitDistantStatics",
                              !.answered = FALSE]
          /\ gate' = [gate EXCEPT !.statics = TRUE]
      BY <2>0
    <3> HIDE DEF h
    <3> QED
      BY <3>1, <3>2, Typed DEF Hosts, Gates, Commands
  <2>2. /\ pump' \in Pumps /\ pump'.active /\ pump'.phase = "Grass"
        /\ client' \in Clients /\ client'.launch = client.launch
    <3>1. 0 \in 0..Slices
      BY DEF UploadPumpAssumption
    <3> QED
      BY <1>0, <2>0, <3>1, Typed DEF Pumps, Clients, Phases
  <2>3. Preparing' /\ LandscapeSent' /\ StaticsSent' /\ AllCollected'
    BY <2>0, <2>1, <2>2 DEF Preparing, LandscapeSent, StaticsSent, AllCollected, Collecting
  <2> QED
    BY <1>0, <2>0, <2>1, <2>2, <2>3, CollectsLand, TickKeeps
<1>4. CASE \E n \in 0..Slices :
             pump' = [pump EXCEPT !.begun = TRUE, !.left = n] /\ Steady /\ UNCHANGED <<staging, client, host, cache>>
  <2>1. pump' \in Pumps /\ pump'.active /\ pump'.phase = "Statics"
    BY <1>0, <1>4, Typed DEF Pumps
  <2>2. Preparing' /\ LandscapeSent' /\ StaticsSent' /\ AllCollected'
    BY <1>0, <1>4, <2>1 DEF Steady, IInv, Preparing, LandscapeSent, StaticsSent, AllCollected, Collecting
  <2> QED
    BY <1>0, <1>4, <2>1, <2>2, CollectsLand, TickKeeps, Typed DEF Steady
<1> QED
  BY <1>1, <1>2, <1>3, <1>4 DEF Statics

(* What a phase between the landscape and the end can rely on.             *)
LEMMA LandBuilt ==
  ASSUME IInv, pump.phase \in {"Grass", "StaticsHostWait", "ResidencyFullDrain", "ResidencyBootstrap", "Done"}
  PROVE  (gate.land => host.land) /\ client.launch = "RuntimeActive"
BY DEF IInv, Since

(* A phase that only goes on keeps what was collected, or is in flight.    *)
LEMMA GoesOnKeeps ==
  ASSUME UploadPumpAssumption, IInv, pump.active, Steady, UNCHANGED <<staging, client, host, cache>>,
         pump' \in Pumps, pump'.active,
         \/ /\ pump.phase \in {"ResidencyFullDrain", "ResidencyBootstrap"}
            /\ pump'.phase \in {"ResidencyFullDrain", "ResidencyBootstrap", "Done"}
         \/ /\ pump.phase = "Grass"
            /\ pump'.phase = IF "statics" \in staging THEN "StaticsHostWait" ELSE "Done"
  PROVE  IInv'
<1>1. Preparing' /\ LandscapeSent' /\ StaticsSent' /\ AllCollected'
  <2>1. CASE pump.phase = "Grass"
    BY <2>1, Typed DEF IInv, Steady, Preparing, LandscapeSent, StaticsSent, AllCollected, Collecting
  <2>2. CASE pump.phase \in {"ResidencyFullDrain", "ResidencyBootstrap"}
    BY <2>2 DEF IInv, Steady, Preparing, LandscapeSent, StaticsSent, AllCollected, Collecting
  <2> QED
    BY <2>1, <2>2
<1> QED
  BY <1>1, LandBuilt, TickKeeps, Typed DEF Steady

LEMMA GrassKeeps == ASSUME UploadPumpAssumption, IInv, Grass PROVE IInv'
<1>1. CASE FailUpload
  BY <1>1, FailUploadKeeps
<1>2. CASE ~FailUpload
  BY <1>2, GoesOnKeeps, Typed DEF Grass, Ticking, GoTo, Pumps, Phases
<1> QED
  BY <1>1, <1>2

LEMMA StaticsHostWaitKeeps == ASSUME UploadPumpAssumption, IInv, StaticsHostWait PROVE IInv'
<1>1. CASE FailUpload
  BY <1>1, FailUploadKeeps
<1>2. CASE ~FailUpload
  <2>1. /\ pump.active /\ pump.phase = "StaticsHostWait" /\ UNCHANGED <<state, useDL, game, gate, spent, cache>>
        /\ Complete /\ TRUE \in Succeeded("InitDistantStatics")
        /\ client' = [client EXCEPT !.pending = FALSE] /\ staging' = {}
        /\ host' = [host EXCEPT !.vecs = @ \ {"statics"}, !.command = "UpdateResidency"]
        /\ \E next \in {"ResidencyFullDrain", "ResidencyBootstrap"}, streams \in BOOLEAN :
             pump' = [pump EXCEPT !.phase = next, !.left = Slices, !.streams = streams]
    BY <1>2 DEF StaticsHostWait, Ticking, Steady
  <2>2. /\ host.vecs = {"visible", "statics"} /\ host.statics /\ (gate.land => host.land)
        /\ client.launch = "RuntimeActive"
    BY <2>1, LandBuilt, Typed DEF IInv, StaticsSent, Complete, Succeeded, Hosts
  <2>3. /\ pump' \in Pumps /\ pump'.active /\ pump'.phase \in {"ResidencyFullDrain", "ResidencyBootstrap"}
    <3>1. Slices \in 0..Slices
      BY DEF UploadPumpAssumption
    <3> QED
      BY <2>1, <3>1, Typed DEF Pumps, Phases
  <2>4. /\ client' \in Clients /\ client'.launch = client.launch /\ ~client'.pending
        /\ host' \in Hosts /\ host'.life = host.life /\ host'.vecs = {"visible"} /\ host'.statics
        /\ host'.land = host.land
    BY <2>1, <2>2, Typed DEF Hosts, Clients, Commands
  <2>5. Preparing' /\ LandscapeSent' /\ StaticsSent' /\ AllCollected'
    BY <2>1, <2>3, <2>4 DEF Preparing, LandscapeSent, StaticsSent, AllCollected, Collecting
  <2> QED
    BY <2>1, <2>2, <2>3, <2>4, <2>5, TickKeeps, Typed
<1> QED
  BY <1>1, <1>2

LEMMA DrainsKeep == ASSUME UploadPumpAssumption, IInv, FullDrain \/ Bootstrap PROVE IInv'
<1>1. CASE FailUpload
  BY <1>1, FailUploadKeeps
<1>2. CASE ~FailUpload
  <2>1. /\ pump.active /\ pump.phase \in {"ResidencyFullDrain", "ResidencyBootstrap"}
        /\ Steady /\ UNCHANGED <<staging, client, host, cache>>
        /\ GoTo("Done") \/ (pump.left > 0 /\ pump' = [pump EXCEPT !.left = @ - 1])
    BY <1>2 DEF FullDrain, Bootstrap, Ticking
  <2>2. CASE GoTo("Done")
    BY <2>1, <2>2, GoesOnKeeps, Typed DEF GoTo, Pumps, Phases
  <2>3. CASE pump.left > 0 /\ pump' = [pump EXCEPT !.left = @ - 1]
    <3>1. pump.left - 1 \in 0..Slices
      BY <2>3, Typed DEF Pumps, UploadPumpAssumption
    <3> DEFINE n == pump.left - 1
    <3>2. n \in 0..Slices /\ pump' = [pump EXCEPT !.left = n]
      BY <2>3, <3>1
    <3> HIDE DEF n
    <3> QED
      BY <2>1, <3>2, GoesOnKeeps, Typed DEF Pumps
  <2> QED
    BY <2>1, <2>2, <2>3
<1> QED
  BY <1>1, <1>2

(* Done opens the first gate and enables the render path only if the other *)
(* one is open.                                                            *)
LEMMA DoneKeeps == ASSUME UploadPumpAssumption, IInv, Done PROVE IInv'
<1>1. /\ pump.active /\ pump.phase = "Done" /\ UNCHANGED <<useDL, game, staging, client, host, cache, spent>>
      /\ state = "DeviceResourcesReady" /\ cache = NoCache
      /\ state' = IF gate'.resolved THEN "RenderReady" ELSE "DeviceResourcesReady"
  BY TickingFinds, Typed DEF Done, Ticking, Promoted, Gates
<1>2. /\ pump' \in Pumps /\ ~pump'.active /\ pump'.phase = "Done"
      /\ gate' \in Gates /\ gate'.uploaded /\ gate'.loaded
      /\ gate'.resolved = gate.resolved /\ gate'.statics = gate.statics
      /\ gate'.land = gate.land
  BY <1>1, Typed DEF Done, Pumps, Gates
<1>3. TypeOK'
  BY <1>1, <1>2, Typed, TypesNext DEF States
<1>4. GatesFollow'
  BY <1>1, <1>2 DEF IInv, GatesFollow
<1>5. Preparing' /\ LandscapeSent' /\ StaticsSent' /\ AllCollected'
  BY <1>1, <1>2 DEF IInv, Preparing, LandscapeSent, StaticsSent, AllCollected, Collecting
<1>6. Since' /\ CachedHitIsLive'
  BY <1>1, <1>2 DEF IInv, Since, CachedHitIsLive
<1> QED
  BY <1>2, <1>3, <1>4, <1>5, <1>6 DEF IInv

LEMMA TickHolds == ASSUME UploadPumpAssumption, IInv, Tick PROVE IInv'
BY HostWaitKeeps, OutputWaitKeeps, IpcSetupKeeps, LandscapeKeeps, StaticsKeeps, GrassKeeps,
   StaticsHostWaitKeeps, DrainsKeep, DoneKeeps DEF Tick, PumpUploadTick

---------------------------------------------------------------------------
(* The game's side.                                                        *)
LEMMA UntouchedKeeps ==
  ASSUME IInv, UNCHANGED <<pump, staging, client, host, cache>>, TypeOK', GatesFollow',
         gate'.statics = gate.statics, gate'.loaded = gate.loaded, gate'.land = gate.land
  PROVE  IInv'
BY DEF IInv, Nothing, Preparing, LandscapeSent, StaticsSent, AllCollected, Collecting, Since, CachedHitIsLive

(* Creation starts from nothing: with the gates open when no distant land  *)
(* is wanted, or with an armed pump and both gates shut.                   *)
LEMMA StartInitKeeps ==
  ASSUME UploadPumpAssumption, IInv, state = "Uninitialized", StartInit, game' \in Games,
         game'.draining # "restart" \/ useDL
  PROVE  IInv'
<1>1. Nothing /\ ~gate.loaded /\ ~gate.land
  BY Unloaded
<1>2. /\ InitReady \in Gates /\ ~InitReady.loaded /\ ~InitReady.uploaded /\ ~InitReady.resolved
      /\ ~InitReady.statics /\ ~InitReady.land
  BY <1>1, Typed DEF InitReady, Gates
<1>3. CASE ~useDL
  <2>1. /\ state' = "RenderReady" /\ Nothing' /\ gate' \in Gates
        /\ gate'.uploaded /\ gate'.resolved /\ ~gate'.loaded /\ ~gate'.land /\ ~useDL'
    <3>1. /\ state' = "RenderReady" /\ pump' = Idle /\ staging' = {}
          /\ gate' = [InitReady EXCEPT !.uploaded = TRUE, !.resolved = TRUE]
          /\ UNCHANGED <<useDL, client, host, cache, spent>>
      BY <1>3 DEF StartInit
    <3>2. gate' \in Gates /\ gate'.uploaded /\ gate'.resolved /\ ~gate'.loaded /\ ~gate'.land
      BY <1>2, <3>1 DEF Gates
    <3> QED
      BY <1>1, <1>3, <3>1, <3>2 DEF Nothing
  <2>2. spent' \in Spents /\ useDL' \in BOOLEAN /\ state' \in States
    BY <1>3, <2>1, Typed DEF StartInit, States
  <2> QED
    BY <1>3, <2>1, <2>2, NothingHolds
<1>4. CASE useDL
  <2>1. /\ state' = "DeviceResourcesReady" /\ pump' = Armed /\ staging' = {} /\ gate' = InitReady
        /\ client' = Stopped /\ host' = NoHost /\ cache' = NoCache /\ UNCHANGED <<useDL, spent>>
    BY <1>1, <1>4 DEF StartInit, Nothing
  <2>2. pump'.phase = "HostWait" /\ pump'.active /\ host'.vecs = {} /\ ~client'.pending /\ ~cache'.valid
    BY <2>1, NothingTyped
  <2>3. TypeOK'
    BY <1>2, <2>1, Typed, TypesNext, NothingTyped DEF States
  <2>4. GatesFollow'
    BY <1>2, <2>1, <2>2 DEF GatesFollow
  <2> QED
    BY <1>2, <2>1, <2>2, <2>3, <2>4 DEF IInv, Preparing, LandscapeSent, StaticsSent, AllCollected,
       Collecting, Since, CachedHitIsLive
<1> QED
  BY <1>3, <1>4, Typed

LEMMA InitFailsKeeps ==
  ASSUME UploadPumpAssumption, IInv, state = "Uninitialized", InitFails, game' \in Games, useDL' \in BOOLEAN
  PROVE  IInv'
<1>1. InitReady \in Gates /\ ~InitReady.loaded /\ ~InitReady.resolved /\ ~InitReady.land
  BY Unloaded, Typed DEF InitReady, Gates
<1>2. Nothing' /\ gate' = InitReady /\ state' = "FailedDisabled" /\ spent' \in Spents
  BY Stops, Typed DEF InitFails
<1> QED
  BY <1>1, <1>2, NothingHolds DEF States

LEMMA FirstPresentKeeps == ASSUME UploadPumpAssumption, IInv, FirstPresent PROVE IInv'
<1>1. game \in Games /\ game.draining = "no"
  BY Typed DEF FirstPresent, Free
<1>2. CASE state = "Uninitialized" /\ StartInit /\ game' = [game EXCEPT !.loaded = TRUE]
  BY <1>1, <1>2, StartInitKeeps DEF Games
<1>3. CASE state = "Uninitialized" /\ InitFails /\ UNCHANGED useDL /\ game' = [game EXCEPT !.loaded = TRUE, !.device = FALSE]
  BY <1>1, <1>3, InitFailsKeeps, Typed DEF Games
<1>4. CASE /\ game' = [game EXCEPT !.loaded = TRUE]
           /\ UNCHANGED <<state, useDL, pump, gate, staging, client, host, cache, spent>>
  <2>1. game' \in Games /\ game'.draining = game.draining
    BY <1>1, <1>4 DEF Games
  <2>2. TypeOK' /\ GatesFollow'
    BY <1>4, <2>1, Typed, TypesNext DEF IInv, GatesFollow
  <2> QED
    BY <1>4, <2>2, UntouchedKeeps
<1> QED
  BY <1>2, <1>3, <1>4 DEF FirstPresent

LEMMA InitOnLoadKeeps == ASSUME UploadPumpAssumption, IInv, InitOnLoad PROVE IInv'
<1>1. game \in Games /\ game.draining = "no"
  BY Typed DEF InitOnLoad, Free
<1>2. CASE state = "Uninitialized" /\ StartInit /\ \E placed \in BOOLEAN :
             game' = IF useDL /\ game.inWorld
                     THEN [game EXCEPT !.draining = "restart", !.placed = placed] ELSE game
  <2>1. game' \in Games /\ (game'.draining = "restart" => useDL)
    BY <1>1, <1>2 DEF Games
  <2> QED
    BY <1>1, <1>2, <2>1, StartInitKeeps
<1>3. CASE state = "Uninitialized" /\ InitFails /\ useDL' = FALSE /\ game' = [game EXCEPT !.device = FALSE]
  BY <1>1, <1>3, InitFailsKeeps, Typed DEF Games
<1>4. CASE /\ state = "FailedDisabled" /\ useDL' = FALSE
           /\ UNCHANGED <<state, game, pump, gate, staging, client, host, cache, spent>>
  <2>1. TypeOK' /\ GatesFollow'
    BY <1>4, Typed, TypesNext DEF IInv, GatesFollow
  <2> QED
    BY <1>4, <2>1, UntouchedKeeps
<1>5. \A placed \in IF PlacedInWorld THEN {TRUE} ELSE BOOLEAN : placed \in BOOLEAN
  OBVIOUS
<1> QED
  BY <1>2, <1>3, <1>4, <1>5 DEF InitOnLoad

(* The gates' promotion, wherever it happens after the pump has ended.     *)
LEMMA PromotionFollows ==
  ASSUME UploadPumpAssumption, IInv, UNCHANGED <<useDL, pump, staging, client, host, cache, spent>>,
         game' \in Games, gate' \in Gates,
         gate'.uploaded = gate.uploaded, gate'.loaded = gate.loaded, gate'.statics = gate.statics,
         gate'.land = gate.land,
         gate.resolved => gate'.resolved,
         state' = state \/ state' = Promoted(gate'),
         game'.draining = "restart" => ~gate'.resolved
  PROVE  IInv'
<1>1. state' \in States
  BY Typed DEF Promoted, States
<1>2. TypeOK'
  BY <1>1, Typed, TypesNext
<1>3. state' = state \/ (state = "DeviceResourcesReady" /\ state' = "RenderReady" /\ gate'.uploaded /\ gate'.resolved)
  BY DEF Promoted
<1>4. GatesFollow'
  BY <1>3 DEF IInv, GatesFollow
<1> QED
  BY <1>2, <1>4, UntouchedKeeps

LEMMA RestartDrainedKeeps == ASSUME UploadPumpAssumption, IInv, RestartDrained PROVE IInv'
<1>1. /\ game' \in Games /\ game'.draining = "no" /\ gate' \in Gates /\ gate'.uploaded = gate.uploaded
      /\ gate'.loaded = gate.loaded /\ gate'.statics = gate.statics /\ gate'.land = gate.land
      /\ (gate.resolved => gate'.resolved)
  BY Typed DEF RestartDrained, Games, Gates
<1> QED
  BY <1>1, PromotionFollows DEF RestartDrained

LEMMA OnResolveDuringInitKeeps == ASSUME UploadPumpAssumption, IInv, OnResolveDuringInit PROVE IInv'
<1>1. /\ gate' \in Gates /\ gate'.uploaded = gate.uploaded
      /\ gate'.loaded = gate.loaded /\ gate'.statics = gate.statics /\ gate'.land = gate.land
      /\ gate'.resolved
  BY Typed DEF OnResolveDuringInit, Gates
<1>2. game' \in Games /\ game'.draining # "restart" /\ (state' = state \/ state' = Promoted(gate'))
  <2>1. PICK placed \in BOOLEAN :
          \/ game' = [game EXCEPT !.placed = placed, !.draining = "hook"] /\ UNCHANGED state
          \/ game' = [game EXCEPT !.placed = placed, !.inWorld = TRUE] /\ state' = Promoted(gate')
    BY DEF OnResolveDuringInit
  <2>2. game \in Games /\ game.draining = "no"
    BY Typed DEF OnResolveDuringInit, Free
  <2> QED
    BY <2>1, <2>2 DEF Games
<1> QED
  BY <1>1, <1>2, PromotionFollows DEF OnResolveDuringInit

LEMMA HookDrainedKeeps == ASSUME UploadPumpAssumption, IInv, HookDrained PROVE IInv'
<1>1. game' \in Games /\ game'.draining = "no" /\ gate' = gate /\ state' = Promoted(gate')
  BY Typed DEF HookDrained, Games
<1> QED
  BY <1>1, PromotionFollows, Typed DEF HookDrained

LEMMA DeviceReleasedKeeps == ASSUME UploadPumpAssumption, IInv, DeviceReleased PROVE IInv'
<1>1. /\ Nothing' /\ ~gate'.loaded /\ ~gate'.land /\ gate' \in Gates /\ gate'.resolved = gate.resolved
      /\ state' \in {"Uninitialized", "FailedDisabled"}
  BY Releases DEF DeviceReleased
<1>2. game' \in Games /\ game'.draining = "no" /\ useDL' \in BOOLEAN
  BY Typed DEF DeviceReleased, Free, Games
<1>3. spent' \in Spents
  <2> DEFINE n == spent.restarts + 1
  <2>1. n \in 0..MaxRestarts /\ spent' = [spent EXCEPT !.restarts = n] /\ spent \in Spents
    BY Typed DEF DeviceReleased, Spents, UploadPumpAssumption
  <2> HIDE DEF n
  <2> QED
    BY <2>1 DEF Spents
<1> QED
  BY <1>1, <1>2, <1>3, NothingHolds DEF States

(* Only what was loaded is enabled.                                        *)
LEMMA SetUseDistantLandKeeps ==
  ASSUME UploadPumpAssumption, IInv, NEW b \in BOOLEAN, SetUseDistantLand(b) PROVE IInv'
<1>1. TypeOK'
  BY Typed, TypesNext DEF SetUseDistantLand
<1>2. GatesFollow'
  BY DEF SetUseDistantLand, IInv, GatesFollow
<1> QED
  BY <1>1, <1>2, UntouchedKeeps DEF SetUseDistantLand

(* A frame asks for a world space only when everything was collected.      *)
LEMMA SelectDistantCellKeeps ==
  ASSUME UploadPumpAssumption, IInv, NEW k \in Keys, SelectDistantCell(k) PROVE IInv'
<1>1. /\ state = "RenderReady" /\ useDL /\ UNCHANGED <<state, useDL, game, pump, gate, staging>>
      /\ gate.loaded /\ pump.phase = "Done" /\ ~pump.active
  BY DEF SelectDistantCell, IInv, GatesFollow
<1>2. /\ cache' \in Caches /\ (cache'.valid /\ cache'.found => cache'.key \in host'.worlds)
      /\ host' \in Hosts /\ host'.life = host.life /\ host'.vecs = host.vecs
      /\ host'.land = host.land /\ host'.statics = host.statics
      /\ client' \in Clients /\ client'.launch = client.launch
      /\ client'.pending => host'.command = "SetWorldSpace"
  <2>1. client.pending => host.command = "SetWorldSpace"
    BY <1>1 DEF IInv, AllCollected, Collecting
  <2>2. CASE /\ cache' = [valid |-> TRUE, key |-> k, found |-> k \in host.worlds]
             /\ host' = [host EXCEPT !.command = "SetWorldSpace", !.answered = TRUE]
             /\ client' = [client EXCEPT !.pending = FALSE]
    <3>1. cache' \in Caches /\ cache'.key = k /\ cache'.found = (k \in host.worlds)
      BY <2>2 DEF Caches
    <3>2. /\ host' \in Hosts /\ host'.vecs = host.vecs /\ host'.land = host.land
          /\ host'.statics = host.statics /\ host'.worlds = host.worlds /\ host'.command = "SetWorldSpace"
          /\ host'.life = host.life
      BY <2>2, Typed DEF Hosts, Commands
    <3>3. client' \in Clients /\ client'.launch = client.launch
      BY <2>2, Typed DEF Clients
    <3> QED
      BY <3>1, <3>2, <3>3
  <2>3. CASE cache' = [valid |-> TRUE, key |-> k, found |-> FALSE] /\ Ask("SetWorldSpace")
    BY <2>3, Typed DEF Ask, Caches, Hosts, Clients, Commands
  <2>4. CASE cache' = [valid |-> TRUE, key |-> k, found |-> FALSE] /\ UNCHANGED <<client, host>>
    BY <2>1, <2>4, Typed DEF Caches
  <2> QED
    BY <2>2, <2>3, <2>4 DEF SelectDistantCell
<1>3. spent' \in Spents
  <2>1. CASE GiveUp /\ spent' = [spent EXCEPT !.timeouts = @ + 1]
    <3> DEFINE n == spent.timeouts + 1
    <3>1. n \in 0..MaxTimeouts /\ spent' = [spent EXCEPT !.timeouts = n] /\ spent \in Spents
      BY <2>1, Typed DEF GiveUp, Spents, UploadPumpAssumption
    <3> HIDE DEF n
    <3> QED
      BY <3>1 DEF Spents
  <2>2. CASE UNCHANGED spent
    BY <2>2, Typed
  <2> QED
    BY <2>1, <2>2 DEF SelectDistantCell
<1>4. TypeOK'
  BY <1>1, <1>2, <1>3, Typed, TypesNext
<1>5. GatesFollow' /\ Since' /\ CachedHitIsLive'
  BY <1>1, <1>2 DEF IInv, GatesFollow, Since, CachedHitIsLive
<1>6. Preparing' /\ LandscapeSent' /\ StaticsSent' /\ AllCollected'
  BY <1>1, <1>2 DEF IInv, Preparing, LandscapeSent, StaticsSent, AllCollected, Collecting
<1> QED
  BY <1>1, <1>4, <1>5, <1>6 DEF IInv

---------------------------------------------------------------------------
(* The host, which only exists once the pump has launched it.              *)
LEMMA HostChangesKeep ==
  ASSUME UploadPumpAssumption, IInv, host.life # "none", host' \in Hosts, spent' \in Spents,
         UNCHANGED <<state, useDL, game, pump, gate, staging, client, cache>>,
         host'.life # "booting", host'.vecs = host.vecs, host'.command = host.command,
         \/ /\ host'.land = host.land /\ host'.statics = host.statics /\ host'.worlds = host.worlds
            /\ \/ host'.answered = host.answered /\ host'.ok = host.ok
               \/ pump.phase = "HostWait"
               \/ host.command \notin {"InitLandscape", "InitDistantStatics"}
         \/ /\ pump.phase = "Statics" /\ client.pending /\ host'.land = host'.ok
            /\ host'.statics = host.statics /\ host'.worlds = host.worlds
         \/ /\ pump.phase = "StaticsHostWait" \/ (pump.phase = "Grass" /\ staging # {})
            /\ host'.statics = host'.ok /\ host'.land = host.land
  PROVE  IInv'
<1>1. pump.phase # "None" /\ TypeOK'
  BY Typed, TypesNext DEF IInv, Nothing, NoHost
<1>2. GatesFollow' /\ Preparing' /\ LandscapeSent'
  BY DEF IInv, GatesFollow, Preparing, LandscapeSent
<1>3. StaticsSent' /\ AllCollected' /\ Since'
  BY DEF IInv, GatesFollow, StaticsSent, AllCollected, Collecting, Since
<1>4. CachedHitIsLive'
  BY NothingTyped DEF IInv, GatesFollow, Since, CachedHitIsLive
<1> QED
  BY <1>1, <1>2, <1>3, <1>4 DEF IInv

LEMMA HostBootsKeeps == ASSUME UploadPumpAssumption, IInv, HostBoots PROVE IInv'
<1>1. /\ host.life = "booting" /\ host' = [host EXCEPT !.life = "up", !.answered = TRUE]
      /\ UNCHANGED <<state, useDL, game, pump, gate, staging, client, cache, spent>>
  BY DEF HostBoots
<1>2. pump.phase = "HostWait"
  BY <1>1 DEF IInv, Since
<1>3. /\ host' \in Hosts /\ host'.life = "up" /\ host'.vecs = host.vecs /\ host'.command = host.command
      /\ host'.land = host.land /\ host'.statics = host.statics /\ host'.worlds = host.worlds
  BY <1>1, Typed DEF Hosts
<1> QED
  BY <1>1, <1>2, <1>3, HostChangesKeep, Typed

LEMMA OutputSettlesKeeps == ASSUME UploadPumpAssumption, IInv, OutputSettles PROVE IInv'
<1>1. /\ host.life = "up" /\ UNCHANGED <<state, useDL, game, pump, gate, staging, client, cache, spent>>
      /\ \E o \in {"ready", "failed"} : host' = [host EXCEPT !.output = o]
  BY DEF OutputSettles, Alive
<1>2. /\ host' \in Hosts /\ host'.life = "up" /\ host'.vecs = host.vecs /\ host'.command = host.command
      /\ host'.land = host.land /\ host'.statics = host.statics /\ host'.worlds = host.worlds
      /\ host'.answered = host.answered /\ host'.ok = host.ok
  BY <1>1, Typed DEF Hosts
<1> QED
  BY <1>1, <1>2, HostChangesKeep, Typed

LEMMA HostDiesKeeps == ASSUME UploadPumpAssumption, IInv, HostDies PROVE IInv'
<1>1. /\ host.life # "none" /\ UNCHANGED <<state, useDL, game, pump, gate, staging, client, cache>>
      /\ host' = [host EXCEPT !.life = "dead"]
  BY DEF HostDies
<1>2. /\ host' \in Hosts /\ host'.life = "dead" /\ host'.vecs = host.vecs /\ host'.command = host.command
      /\ host'.land = host.land /\ host'.statics = host.statics /\ host'.worlds = host.worlds
      /\ host'.answered = host.answered /\ host'.ok = host.ok
  BY <1>1, Typed DEF Hosts
<1>3. spent' \in Spents
  <2> DEFINE n == spent.deaths + 1
  <2>1. n \in 0..MaxDeaths /\ spent' = [spent EXCEPT !.deaths = n] /\ spent \in Spents
    BY Typed DEF HostDies, Spents, UploadPumpAssumption
  <2> HIDE DEF n
  <2> QED
    BY <2>1 DEF Spents
<1> QED
  BY <1>1, <1>2, <1>3, HostChangesKeep

(* What the host answers belongs to the phase that asked.                  *)
LEMMA AskedIn ==
  ASSUME UploadPumpAssumption, IInv, client.pending
  PROVE  /\ host.command = "InitLandscape" => pump.phase = "Statics"
         /\ host.command = "InitDistantStatics"
              => pump.phase = "StaticsHostWait" \/ (pump.phase = "Grass" /\ staging # {})
BY Typed DEF IInv, Preparing, LandscapeSent, StaticsSent, AllCollected, Collecting, Pumps, Phases, Nothing,
   Stopped

LEMMA HostAnswersKeeps == ASSUME UploadPumpAssumption, IInv, HostAnswers PROVE IInv'
<1>1. /\ host.life = "up" /\ client.pending
      /\ UNCHANGED <<state, useDL, game, pump, gate, staging, client, cache, spent>>
  BY DEF HostAnswers, Alive
<1>2. PICK ok \in BOOLEAN, w \in SUBSET Keys :
        host' = [Work(host.command, ok)
                   EXCEPT !.worlds = IF host.command = "InitDistantStatics" THEN w ELSE @]
  BY DEF HostAnswers
<1>3. CASE host.command = "InitLandscape"
  <2>1. host' = [[host EXCEPT !.answered = TRUE, !.ok = ok, !.land = ok] EXCEPT !.worlds = @]
    BY <1>2, <1>3 DEF Work
  <2>2. /\ host' \in Hosts /\ host'.life = "up" /\ host'.vecs = host.vecs /\ host'.command = host.command
        /\ host'.land = host'.ok /\ host'.statics = host.statics /\ host'.worlds = host.worlds
    BY <1>1, <2>1, Typed DEF Hosts
  <2> QED
    BY <1>1, <1>3, <2>2, AskedIn, HostChangesKeep, Typed
<1>4. CASE host.command = "InitDistantStatics"
  <2>1. host' = [[host EXCEPT !.answered = TRUE, !.ok = ok, !.statics = ok] EXCEPT !.worlds = w]
    BY <1>2, <1>4 DEF Work
  <2>2. /\ host' \in Hosts /\ host'.life = "up" /\ host'.vecs = host.vecs /\ host'.command = host.command
        /\ host'.statics = host'.ok /\ host'.land = host.land
    BY <1>1, <2>1, Typed DEF Hosts
  <2> QED
    BY <1>1, <1>4, <2>2, AskedIn, HostChangesKeep, Typed
<1>5. CASE host.command \notin {"InitLandscape", "InitDistantStatics"}
  <2>1. host' = [[host EXCEPT !.answered = TRUE, !.ok = TRUE] EXCEPT !.worlds = @]
    BY <1>2, <1>5 DEF Work
  <2>2. /\ host' \in Hosts /\ host'.life = "up" /\ host'.vecs = host.vecs /\ host'.command = host.command
        /\ host'.land = host.land /\ host'.statics = host.statics /\ host'.worlds = host.worlds
    BY <1>1, <2>1, Typed DEF Hosts
  <2> QED
    BY <1>1, <1>5, <2>2, HostChangesKeep, Typed
<1> QED
  BY <1>3, <1>4, <1>5

---------------------------------------------------------------------------
(* The theorems.                                                           *)
LEMMA InitHolds == ASSUME UploadPumpAssumption, Init PROVE IInv
<1>1. /\ pump = Idle /\ staging = {} /\ client = Stopped /\ host = NoHost /\ cache = NoCache
      /\ pump.phase = "None" /\ ~pump.active /\ ~cache.valid /\ host.life = "none"
  BY NothingTyped DEF Init, NoHost
<1>2. TypeOK
  <2>1. game \in Games /\ gate \in Gates /\ spent \in Spents /\ state \in States /\ useDL \in BOOLEAN
    BY DEF Init, Games, Gates, Spents, States, UploadPumpAssumption
  <2> QED
    BY <1>1, <2>1, Types, NothingTyped
<1>3. GatesFollow /\ ~gate.land /\ ~gate.statics
  BY <1>1 DEF Init, GatesFollow
<1> QED
  BY <1>1, <1>2, <1>3 DEF IInv, Nothing, Preparing, LandscapeSent, StaticsSent, AllCollected, Collecting,
     Since, CachedHitIsLive

LEMMA NextKeeps == ASSUME UploadPumpAssumption, IInv, [Next]_vars PROVE IInv'
<1>1. CASE UNCHANGED vars
  <2>1. TypeOK' /\ GatesFollow'
    BY <1>1, Typed, TypesNext DEF vars, IInv, GatesFollow
  <2> QED
    BY <1>1, <2>1, UntouchedKeeps DEF vars
<1>2. CASE \E b \in BOOLEAN : SetUseDistantLand(b)
  BY <1>2, SetUseDistantLandKeeps
<1>3. CASE \E k \in Keys : SelectDistantCell(k)
  BY <1>3, SelectDistantCellKeeps
<1>4. CASE FirstPresent \/ InitOnLoad \/ Tick \/ RestartDrained \/ OnResolveDuringInit \/ HookDrained
           \/ DeviceReleased
  BY <1>4, FirstPresentKeeps, InitOnLoadKeeps, TickHolds, RestartDrainedKeeps, OnResolveDuringInitKeeps,
     HookDrainedKeeps, DeviceReleasedKeeps
<1>5. CASE HostBoots \/ OutputSettles \/ HostAnswers \/ HostDies
  BY <1>5, HostBootsKeeps, OutputSettlesKeeps, HostAnswersKeeps, HostDiesKeeps
<1> QED
  BY <1>1, <1>2, <1>3, <1>4, <1>5 DEF Next

(* In every reachable state the phase the pump is in says what the host    *)
(* holds and what the client waits for, and the gates say whether the pump *)
(* runs.                                                                   *)
THEOREM Invariance == Spec => []IInv
<1>1. UploadPumpAssumption
  BY UploadPumpAssumption
<1>2. Init => IInv
  BY <1>1, InitHolds
<1>3. IInv /\ [Next]_vars => IInv'
  BY <1>1, NextKeeps
<1> QED
  BY <1>2, <1>3, PTL DEF Spec

(* The render path shows only what was handed over to the host it queries, *)
(* no vector is freed under the host, no answer is read for another one,   *)
(* a restart stays dark until its drain is over, a failure leaves nothing, *)
(* and a cached world space is one the host has.                           *)
THEOREM UploadStaysSound == Spec => []UploadSound
<1>1. ASSUME IInv
      PROVE  UploadSound
  <2>1. UploadPumpAssumption
    BY UploadPumpAssumption
  <2>2. RenderedIsLoaded
    BY <1>1 DEF RenderedIsLoaded, IInv, GatesFollow, Since, AllCollected, Collecting
  <2>3. StagingHeld
    <3>1. client.pending /\ ~host.answered =>
            /\ host.command = "InitLandscape" => "land" \in host.vecs \cap staging
            /\ host.command = "InitDistantStatics" => "statics" \in host.vecs \cap staging
      BY <1>1, <2>1, AskedIn DEF IInv, LandscapeSent, StaticsSent
    <3>2. pump.phase = "Done" \/ (state = "RenderReady" /\ useDL) => staging = {} /\ host.vecs = {"visible"}
      BY <1>1 DEF IInv, GatesFollow, AllCollected, Collecting
    <3> QED
      BY <3>1, <3>2 DEF StagingHeld
  <2>4. ReadsItsOwnAnswer
    BY <1>1 DEF ReadsItsOwnAnswer, Ticking, IInv, LandscapeSent, StaticsSent
  <2>5. RestartStaysDark
    BY <1>1 DEF RestartStaysDark, IInv, GatesFollow
  <2>6. FailureLeavesNothing
    BY <1>1, <2>1, NothingTyped DEF FailureLeavesNothing, IInv, GatesFollow, Nothing
  <2> QED
    BY <1>1, <2>2, <2>3, <2>4, <2>5, <2>6 DEF UploadSound, IInv
<1> QED
  BY <1>1, Invariance, PTL

-----------------------------------------------------------------------------
(* Induction over the numbers, for a set of numbers.                       *)

(* A set of numbers that is not empty has a smallest one. *)
LEMMA SmallestOf ==
  ASSUME NEW T, T \subseteq Nat, T # {}
  PROVE  \E x \in T : \A y \in T : x <= y
<1>1. IsWellFoundedOn(OpToRel(<, Nat), Nat)
  BY NatLessThanWellFounded
<1>2. PICK x \in T : \A y \in T : ~ (<<y, x>> \in OpToRel(<, Nat))
  BY <1>1, WFMin
<1>3. \A y \in T : ~(y < x)
  BY <1>2 DEF OpToRel
<1> QED
  BY <1>3

(* A set of numbers that has 0 and the next of each of its own has all. *)
LEMMA StepByStep ==
  ASSUME NEW T, 0 \in T, \A n \in Nat : n \in T => n + 1 \in T
  PROVE  Nat \subseteq T
<1> SUFFICES ASSUME Nat \ T # {} PROVE FALSE
  OBVIOUS
<1>1. PICK x \in Nat \ T : \A y \in Nat \ T : x <= y
  BY SmallestOf
<1>2. x # 0 /\ x - 1 \in Nat /\ x - 1 \notin Nat \ T /\ (x - 1) + 1 = x
  BY <1>1
<1> QED
  BY <1>1, <1>2

-----------------------------------------------------------------------------
(* Bytes of sets of resources.                                             *)

(* The catalog is finite and every resource in it has some bytes. *)
LEMMA ResTyped ==
  /\ Len(Bytes) \in Nat /\ Res = 1..Len(Bytes) /\ IsFiniteSet(Res) /\ Res \subseteq Nat
  /\ \A r \in Res : Bytes[r] \in Nat \ {0}
<1>1. Len(Bytes) \in Nat
  BY PlannerAssumption, LenProperties
<1>2. Res = 1..Len(Bytes) /\ Res \subseteq Nat
  BY <1>1 DEF Res
<1>3. IsFiniteSet(Res)
  BY <1>1, <1>2, FS_Interval
<1>4. \A r \in Res : Bytes[r] \in Nat \ {0}
  BY <1>2, PlannerAssumption, ElementOfSeq
<1> QED
  BY <1>1, <1>2, <1>3, <1>4

(* The bytes of one resource, counted. *)
LEMMA Interval ==
  ASSUME NEW n \in Nat
  PROVE  IsFiniteSet(1..n) /\ Cardinality(1..n) = n
<1>1. 1 \in Int /\ n \in Int
  OBVIOUS
<1>2. IsFiniteSet(1..n) /\ Cardinality(1..n) = IF 1 > n THEN 0 ELSE n - 1 + 1
  BY <1>1, FS_Interval
<1> QED
  BY <1>2

Units(S) == UNION {{r} \X (1..Bytes[r]) : r \in S}

(* The bytes of a set of resources are finitely many. *)
LEMMA UnitsAre ==
  ASSUME NEW S \in SUBSET Res
  PROVE  /\ IsFiniteSet(Units(S)) /\ BytesOf(S) \in Nat /\ BytesOf(S) = Cardinality(Units(S))
         /\ \A u : u \in Units(S) <=> \E r \in S : \E b \in 1..Bytes[r] : u = <<r, b>>
<1> DEFINE pile == [r \in S |-> {r} \X (1..Bytes[r])]
           piles == {pile[r] : r \in S}
<1>1. IsFiniteSet(S)
  BY ResTyped, FS_Subset
<1>2. pile \in Surjection(S, piles)
  BY DEF Surjection
<1>3. IsFiniteSet(piles)
  BY <1>1, <1>2, FS_Surjection
<1>4. ASSUME NEW r \in S
      PROVE  IsFiniteSet(pile[r])
  <2>1. Bytes[r] \in Nat
    BY ResTyped
  <2>2. IsFiniteSet(1..Bytes[r]) /\ IsFiniteSet({r})
    BY <2>1, Interval, FS_Singleton
  <2>3. IsFiniteSet({r} \X (1..Bytes[r]))
    BY <2>2, FS_Product
  <2> QED
    BY <2>3
<1>5. Units(S) = UNION piles
  BY DEF Units
<1>6. \A T \in piles : IsFiniteSet(T)
  BY <1>4
<1>7. IsFiniteSet(UNION piles)
  BY <1>3, <1>6, FS_UNION
<1> HIDE DEF piles
<1>8. IsFiniteSet(Units(S)) /\ BytesOf(S) = Cardinality(Units(S))
  BY <1>5, <1>7 DEF BytesOf, Units
<1>9. BytesOf(S) \in Nat
  BY <1>8, FS_CardinalityType
<1>10. ASSUME NEW u
       PROVE  u \in Units(S) <=> \E r \in S : \E b \in 1..Bytes[r] : u = <<r, b>>
  BY DEF Units
<1> QED
  BY <1>8, <1>9, <1>10

(* What is taken away from a set is taken from its sum.                    *)
LEMMA BytesSplit ==
  ASSUME NEW S \in SUBSET Res, NEW T \in SUBSET S
  PROVE  /\ BytesOf(S) = BytesOf(S \ T) + BytesOf(T)
         /\ BytesOf(T) <= BytesOf(S) /\ {BytesOf(S), BytesOf(T), BytesOf(S \ T)} \subseteq Nat
<1>1. T \in SUBSET Res /\ S \ T \in SUBSET Res
  OBVIOUS
<1>2. Units(S) = Units(S \ T) \cup Units(T) /\ Units(S \ T) \cap Units(T) = {}
  BY <1>1, UnitsAre
<1>3. Cardinality(Units(S \ T) \cup Units(T))
        = Cardinality(Units(S \ T)) + Cardinality(Units(T)) - Cardinality({})
  BY <1>1, <1>2, UnitsAre, FS_Union
<1>4. Cardinality({}) = 0
  BY FS_EmptySet
<1>5. /\ BytesOf(S) = Cardinality(Units(S)) /\ BytesOf(T) = Cardinality(Units(T))
      /\ BytesOf(S \ T) = Cardinality(Units(S \ T))
      /\ {BytesOf(S), BytesOf(T), BytesOf(S \ T)} \subseteq Nat
  BY <1>1, UnitsAre
<1> QED
  BY <1>2, <1>3, <1>4, <1>5

(* A set of one resource has its bytes. *)
LEMMA BytesOfOne ==
  ASSUME NEW r \in Res
  PROVE  BytesOf({r}) = Bytes[r]
<1>1. Bytes[r] \in Nat
  BY ResTyped
<1>2. /\ IsFiniteSet(1..Bytes[r]) /\ Cardinality(1..Bytes[r]) = Bytes[r]
      /\ IsFiniteSet({r}) /\ Cardinality({r}) = 1
  BY <1>1, Interval, FS_Singleton
<1>3. Cardinality({r} \X (1..Bytes[r])) = 1 * Bytes[r]
  BY <1>2, FS_Product
<1> DEFINE n == Bytes[r]
           x == Cardinality({r} \X (1..Bytes[r]))
<1>6. n \in Nat /\ x = 1 * n
  BY <1>1, <1>3
<1> HIDE DEF n, x
<1>7. x = n
  BY <1>6
<1>4. Units({r}) = {r} \X (1..Bytes[r])
  BY DEF Units
<1>5. BytesOf({r}) = Cardinality(Units({r}))
  BY UnitsAre
<1> QED
  BY <1>4, <1>5, <1>7 DEF n, x

(* One resource more adds its bytes. *)
LEMMA BytesAdd ==
  ASSUME NEW S \in SUBSET Res, NEW r \in Res, r \notin S
  PROVE  BytesOf(S \cup {r}) = BytesOf(S) + Bytes[r]
<1>1. (S \cup {r}) \ {r} = S
  OBVIOUS
<1>2. BytesOf(S \cup {r}) = BytesOf((S \cup {r}) \ {r}) + BytesOf({r})
  BY BytesSplit
<1> QED
  BY <1>1, <1>2, BytesOfOne

-----------------------------------------------------------------------------
(* Sequences.                                                              *)

(* No two elements of q have one key, and the keys q has.                  *)
Once(q, key) == \A i, j \in DOMAIN q : key[q[i]] = key[q[j]] => i = j
KeysOf(q, key) == {key[x] : x \in Range(q)}

(* The elements of a sequence are what stands at its places. *)
LEMMA RangeIs ==
  ASSUME NEW T, NEW q \in Seq(T)
  PROVE  /\ Len(q) \in Nat /\ DOMAIN q = 1..Len(q) /\ Range(q) \subseteq T
         /\ \A x : x \in Range(q) <=> \E i \in 1..Len(q) : x = q[i]
<1>1. Len(q) \in Nat /\ DOMAIN q = 1..Len(q) /\ \A i \in 1..Len(q) : q[i] \in T
  BY LenProperties, ElementOfSeq
<1>2. \A x : x \in Range(q) <=> \E i \in 1..Len(q) : x = q[i]
  BY <1>1 DEF Range
<1> QED
  BY <1>1, <1>2

(* Two queues without a key in common, one after the other, name each key
   once. *)
LEMMA OnceConcat ==
  ASSUME NEW T, NEW a \in Seq(T), NEW b \in Seq(T), NEW key
  PROVE  /\ a \o b \in Seq(T) /\ Range(a \o b) = Range(a) \cup Range(b)
         /\ KeysOf(a \o b, key) = KeysOf(a, key) \cup KeysOf(b, key)
         /\ Once(a, key) /\ Once(b, key) /\ KeysOf(a, key) \cap KeysOf(b, key) = {}
               => Once(a \o b, key)
<1> DEFINE c == a \o b
           m == Len(a)
           n == Len(b)
<1>1. /\ c \in Seq(T) /\ Range(c) = Range(a) \cup Range(b)
      /\ Len(c) = m + n /\ m \in Nat /\ n \in Nat /\ DOMAIN c = 1..(m + n)
      /\ \A i \in 1..(m + n) : c[i] = IF i <= m THEN a[i] ELSE b[i - m]
  BY ConcatProperties, RangeConcatenation, LenProperties
<1>2. DOMAIN a = 1..m /\ DOMAIN b = 1..n
  BY LenProperties
<1> HIDE DEF c, m, n
<1>3. KeysOf(c, key) = KeysOf(a, key) \cup KeysOf(b, key)
  BY <1>1 DEF KeysOf
<1>4. ASSUME Once(a, key), Once(b, key), KeysOf(a, key) \cap KeysOf(b, key) = {}
      PROVE  Once(c, key)
  <2>1. \A i \in 1..m : \A j \in 1..n : key[a[i]] # key[b[j]]
    <3>1. \A i \in 1..m : key[a[i]] \in KeysOf(a, key)
      BY <1>2 DEF KeysOf, Range
    <3>2. \A j \in 1..n : key[b[j]] \in KeysOf(b, key)
      BY <1>2 DEF KeysOf, Range
    <3> QED
      BY <1>4, <3>1, <3>2
  <2>2. ASSUME NEW i \in 1..(m + n), NEW j \in 1..(m + n), key[c[i]] = key[c[j]]
        PROVE  i = j
    <3>1. CASE i <= m /\ j <= m
      <4>1. i \in 1..m /\ j \in 1..m /\ c[i] = a[i] /\ c[j] = a[j]
        BY <1>1, <3>1
      <4> QED
        BY <1>2, <1>4, <2>2, <4>1 DEF Once
    <3>2. CASE i <= m /\ ~(j <= m)
      <4>1. i \in 1..m /\ j - m \in 1..n /\ c[i] = a[i] /\ c[j] = b[j - m]
        BY <1>1, <3>2
      <4> QED
        BY <2>1, <2>2, <4>1
    <3>3. CASE ~(i <= m) /\ j <= m
      <4>1. j \in 1..m /\ i - m \in 1..n /\ c[i] = b[i - m] /\ c[j] = a[j]
        BY <1>1, <3>3
      <4> QED
        BY <2>1, <2>2, <4>1
    <3>4. CASE ~(i <= m) /\ ~(j <= m)
      <4>1. i - m \in 1..n /\ j - m \in 1..n /\ c[i] = b[i - m] /\ c[j] = b[j - m]
        BY <1>1, <3>4
      <4>2. i - m = j - m
        BY <1>2, <1>4, <2>2, <4>1 DEF Once
      <4> QED
        BY <1>1, <4>2
    <3> QED
      BY <3>1, <3>2, <3>3, <3>4
  <2> QED
    BY <1>1, <2>2 DEF Once
<1> QED
  BY <1>1, <1>3, <1>4 DEF c

(* a is q up to its n-th element, b the rest.                              *)
Splits(q, n, a, b) == a = SubSeq(q, 1, n) /\ b = SubSeq(q, n + 1, Len(q))

(* A queue cut in two names no key on both sides. *)
LEMMA OnceSplit ==
  ASSUME NEW T, NEW q \in Seq(T), NEW n \in 0..Len(q), NEW key, NEW a, NEW b, Splits(q, n, a, b)
  PROVE  /\ a \in Seq(T) /\ b \in Seq(T) /\ Range(q) = Range(a) \cup Range(b)
         /\ KeysOf(q, key) = KeysOf(a, key) \cup KeysOf(b, key)
         /\ Once(q, key) => /\ Once(a, key) /\ Once(b, key)
                            /\ KeysOf(a, key) \cap KeysOf(b, key) = {}
<1> DEFINE l == Len(q)
<1>0. a = SubSeq(q, 1, n) /\ b = SubSeq(q, n + 1, Len(q))
  BY DEF Splits
<1>1. l \in Nat /\ n \in Nat /\ n <= l /\ DOMAIN q = 1..l /\ \A i \in 1..l : q[i] \in T
  BY LenProperties, ElementOfSeq
<1>2. a \in Seq(T) /\ Len(a) = n /\ \A i \in 1..n : a[i] = q[i]
  <2>1. \A i \in 1..n : q[i] \in T
    BY <1>1
  <2>2. /\ a \in Seq(T) /\ Len(a) = IF 1 <= n THEN n - 1 + 1 ELSE 0
        /\ \A i \in 1..n - 1 + 1 : a[i] = q[1 + i - 1]
    BY <1>0, <1>1, <2>1, SubSeqProperties
  <2> QED
    BY <1>1, <2>2
<1>3. b \in Seq(T) /\ Len(b) = l - n /\ \A i \in 1..(l - n) : b[i] = q[n + i]
  <2>1. \A i \in n + 1..l : q[i] \in T
    BY <1>1
  <2>2. /\ b \in Seq(T) /\ Len(b) = IF n + 1 <= l THEN l - (n + 1) + 1 ELSE 0
        /\ \A i \in 1..l - (n + 1) + 1 : b[i] = q[n + 1 + i - 1]
    BY <1>0, <1>1, <2>1, SubSeqProperties
  <2> HIDE DEF l
  <2>3. l - (n + 1) + 1 = l - n /\ \A i \in 1..(l - n) : n + 1 + i - 1 = n + i
    BY <1>1
  <2>4. Len(b) = l - n
    BY <1>1, <2>2
  <2> QED
    BY <2>2, <2>3, <2>4
<1>4. DOMAIN a = 1..n /\ DOMAIN b = 1..(l - n)
  BY <1>2, <1>3, LenProperties
<1> HIDE DEF l
<1>5. ASSUME NEW x
      PROVE  x \in Range(q) <=> x \in Range(a) \/ x \in Range(b)
  <2>1. x \in Range(q) <=> \E i \in 1..l : x = q[i]
    BY <1>1 DEF Range
  <2>2. x \in Range(a) <=> \E i \in 1..n : x = q[i]
    BY <1>2, <1>4 DEF Range
  <2>3. x \in Range(b) <=> \E i \in 1..(l - n) : x = q[n + i]
    BY <1>3, <1>4 DEF Range
  <2>4. \A i \in 1..l : i \in 1..n \/ (i - n \in 1..(l - n) /\ i = n + (i - n))
    BY <1>1
  <2>5. /\ \A i \in 1..n : i \in 1..l
        /\ \A i \in 1..(l - n) : n + i \in 1..l
    BY <1>1
  <2> QED
    BY <2>1, <2>2, <2>3, <2>4, <2>5
<1>6. Range(q) = Range(a) \cup Range(b)
  BY <1>5
<1>7. KeysOf(q, key) = KeysOf(a, key) \cup KeysOf(b, key)
  BY <1>6 DEF KeysOf
<1>8. ASSUME Once(q, key)
      PROVE  Once(a, key) /\ Once(b, key) /\ KeysOf(a, key) \cap KeysOf(b, key) = {}
  <2>1. \A i, j \in 1..l : key[q[i]] = key[q[j]] => i = j
    BY <1>1, <1>8 DEF Once
  <2>2. /\ \A i \in 1..n : i \in 1..l
        /\ \A i \in 1..(l - n) : n + i \in 1..l
    BY <1>1
  <2>3. Once(a, key)
    BY <1>2, <1>4, <2>1, <2>2 DEF Once
  <2>4. Once(b, key)
    <3>1. ASSUME NEW i \in 1..(l - n), NEW j \in 1..(l - n), key[b[i]] = key[b[j]]
          PROVE  i = j
      <4>1. n + i = n + j
        BY <1>3, <2>1, <2>2, <3>1
      <4> QED
        BY <1>1, <4>1
    <3> QED
      BY <1>4, <3>1 DEF Once
  <2>5. ASSUME NEW x \in Range(a), NEW y \in Range(b), key[x] = key[y]
        PROVE  FALSE
    <3>1. PICK i \in 1..n : x = q[i]
      BY <1>2, <1>4 DEF Range
    <3>2. PICK j \in 1..(l - n) : y = q[n + j]
      BY <1>3, <1>4 DEF Range
    <3>3. i = n + j
      BY <2>1, <2>2, <2>5, <3>1, <3>2
    <3> QED
      BY <1>1, <3>3
  <2>6. KeysOf(a, key) \cap KeysOf(b, key) = {}
    BY <2>5 DEF KeysOf
  <2> QED
    BY <2>3, <2>4, <2>6
<1> QED
  BY <1>2, <1>3, <1>6, <1>7, <1>8

(* A stretch of one place is the element there. *)
LEMMA SubSeqOne ==
  ASSUME NEW T, NEW q \in Seq(T), NEW n \in 1..Len(q)
  PROVE  SubSeq(q, n, n) = <<q[n]>>
<1>1. Len(q) \in Nat /\ q[n] \in T
  BY LenProperties, ElementOfSeq
<1>2. n \in n..Len(q) /\ n \in Int /\ n + 1 \in Int /\ n < n + 1
  BY <1>1
<1>3. SubSeq(q, n, n) = <<q[n]>> \o SubSeq(q, n + 1, n)
  BY <1>2, SubSeqRecursiveFirst
<1>4. SubSeq(q, n + 1, n) = <<>>
  BY <1>2, SubSeqEmpty
<1>5. <<q[n]>> \in Seq(T)
  BY <1>1
<1> QED
  BY <1>3, <1>4, <1>5, ConcatEmptySeq

(* A queue of one names its key once. *)
LEMMA OnceOne ==
  ASSUME NEW T, NEW x \in T, NEW key
  PROVE  /\ <<x>> \in Seq(T) /\ Range(<<x>>) = {x}
         /\ KeysOf(<<x>>, key) = {key[x]} /\ Once(<<x>>, key)
<1>1. <<x>> \in Seq(T) /\ DOMAIN <<x>> = {1} /\ <<x>>[1] = x
  OBVIOUS
<1> QED
  BY <1>1 DEF Range, KeysOf, Once

(* An empty queue names nothing. *)
LEMMA OnceNone ==
  ASSUME NEW T, NEW key
  PROVE  <<>> \in Seq(T) /\ Range(<<>>) = {} /\ KeysOf(<<>>, key) = {} /\ Once(<<>>, key)
<1>1. <<>> \in Seq(T) /\ DOMAIN <<>> = {}
  OBVIOUS
<1> QED
  BY <1>1 DEF Range, KeysOf, Once

(* A queue may take on a key it did not name. *)
LEMMA OnceAppend ==
  ASSUME NEW T, NEW q \in Seq(T), NEW x \in T, NEW key
  PROVE  /\ Append(q, x) \in Seq(T) /\ Range(Append(q, x)) = Range(q) \cup {x}
         /\ KeysOf(Append(q, x), key) = KeysOf(q, key) \cup {key[x]}
         /\ Once(q, key) /\ key[x] \notin KeysOf(q, key) => Once(Append(q, x), key)
<1>1. Append(q, x) = q \o <<x>>
  BY AppendIsConcat
<1>2. /\ <<x>> \in Seq(T) /\ Range(<<x>>) = {x}
      /\ KeysOf(<<x>>, key) = {key[x]} /\ Once(<<x>>, key)
  BY OnceOne
<1> DEFINE b == <<x>>
           k == KeysOf(q, key)
<1> HIDE DEF b
<1>3. /\ q \o b \in Seq(T) /\ Range(q \o b) = Range(q) \cup Range(b)
      /\ KeysOf(q \o b, key) = k \cup KeysOf(b, key)
      /\ Once(q, key) /\ Once(b, key) /\ k \cap KeysOf(b, key) = {} => Once(q \o b, key)
  BY <1>2, OnceConcat DEF b
<1> HIDE DEF k
<1>4. key[x] \notin k => k \cap {key[x]} = {}
  OBVIOUS
<1> QED
  BY <1>1, <1>2, <1>3, <1>4 DEF b, k

(* The first of a queue leaves it; its key is named no more. *)
LEMMA OnceTail ==
  ASSUME NEW T, NEW q \in Seq(T), q # <<>>, NEW key
  PROVE  /\ Head(q) \in T /\ Tail(q) \in Seq(T) /\ Range(q) = {Head(q)} \cup Range(Tail(q))
         /\ KeysOf(q, key) = {key[Head(q)]} \cup KeysOf(Tail(q), key)
         /\ Once(q, key) => Once(Tail(q), key) /\ key[Head(q)] \notin KeysOf(Tail(q), key)
<1> DEFINE x == Head(q)
           b == SubSeq(q, 2, Len(q))
<1>1. Len(q) \in Nat \ {0}
  BY EmptySeq
<1>2. x \in T /\ Tail(q) = b /\ x = q[1]
  BY <1>1, HeadTailProperties, TailIsSubSeq
<1>3. 1 \in 0..Len(q) /\ 2 = 1 + 1
  BY <1>1
<1>4. Splits(q, 1, <<x>>, b)
  <2>1. 1 \in 1..Len(q)
    BY <1>1
  <2>2. <<x>> = SubSeq(q, 1, 1)
    BY <1>2, <2>1, SubSeqOne
  <2> QED
    BY <1>3, <2>2 DEF Splits
<1> DEFINE c == <<x>>
<1> HIDE DEF b, c
<1>5. /\ b \in Seq(T) /\ Range(q) = Range(c) \cup Range(b)
      /\ KeysOf(q, key) = KeysOf(c, key) \cup KeysOf(b, key)
      /\ Once(q, key) => Once(b, key) /\ KeysOf(c, key) \cap KeysOf(b, key) = {}
  <2>1. 1 \in 0..Len(q) /\ Splits(q, 1, c, b)
    BY <1>3, <1>4 DEF c
  <2> QED
    BY <2>1, OnceSplit
<1>6. Range(<<x>>) = {x} /\ KeysOf(<<x>>, key) = {key[x]}
  BY <1>2, OnceOne
<1> HIDE DEF x
<1>7. {key[x]} \cap KeysOf(b, key) = {} => key[x] \notin KeysOf(b, key)
  OBVIOUS
<1> QED
  BY <1>2, <1>5, <1>6, <1>7 DEF x, c

(* So does the last. *)
LEMMA OnceFront ==
  ASSUME NEW T, NEW q \in Seq(T), q # <<>>, NEW key
  PROVE  /\ Last(q) \in T /\ Front(q) \in Seq(T) /\ Range(q) = {Last(q)} \cup Range(Front(q))
         /\ KeysOf(q, key) = {key[Last(q)]} \cup KeysOf(Front(q), key)
         /\ Once(q, key) => Once(Front(q), key) /\ key[Last(q)] \notin KeysOf(Front(q), key)
<1> DEFINE x == Last(q)
           a == Front(q)
           n == Len(q)
<1>1. n \in Nat \ {0}
  BY EmptySeq
<1>2. a = SubSeq(q, 1, n - 1) /\ x = q[n]
  BY DEF Front, Last
<1>3. n - 1 \in 0..n /\ n = (n - 1) + 1 /\ n \in 1..n
  BY <1>1
<1>8. x \in T
  BY <1>2, <1>3, ElementOfSeq
<1>4. Splits(q, n - 1, a, <<x>>)
  <2>1. <<x>> = SubSeq(q, n, n)
    BY <1>2, <1>3, SubSeqOne
  <2> QED
    BY <1>2, <1>3, <2>1 DEF Splits
<1> DEFINE c == <<x>>
<1> HIDE DEF x, a, c
<1>5. /\ a \in Seq(T) /\ Range(q) = Range(a) \cup Range(c)
      /\ KeysOf(q, key) = KeysOf(a, key) \cup KeysOf(c, key)
      /\ Once(q, key) => Once(a, key) /\ KeysOf(a, key) \cap KeysOf(c, key) = {}
  <2>1. n - 1 \in 0..n /\ Splits(q, n - 1, a, c)
    BY <1>3, <1>4 DEF c
  <2> DEFINE k == n - 1
  <2>2. k \in 0..Len(q) /\ Splits(q, k, a, c)
    BY <2>1
  <2> HIDE DEF k, n
  <2>3. ASSUME NEW i \in 0..Len(q), NEW f, NEW g, Splits(q, i, f, g)
        PROVE  /\ f \in Seq(T) /\ Range(q) = Range(f) \cup Range(g)
               /\ KeysOf(q, key) = KeysOf(f, key) \cup KeysOf(g, key)
               /\ Once(q, key) => /\ Once(f, key) /\ Once(g, key)
                                  /\ KeysOf(f, key) \cap KeysOf(g, key) = {}
    BY <2>3, OnceSplit
  <2> QED
    BY <2>2, <2>3
<1>6. Range(<<x>>) = {x} /\ KeysOf(<<x>>, key) = {key[x]}
  BY <1>8, OnceOne
<1>7. KeysOf(a, key) \cap {key[x]} = {} => key[x] \notin KeysOf(a, key)
  OBVIOUS
<1> QED
  BY <1>5, <1>6, <1>7, <1>8 DEF x, a, c

(* What Keep keeps, in one sequence after the other.                       *)
KeepStep(f, q, S, i) == IF i = 0 THEN <<>>
                        ELSE IF q[i] \in S THEN Append(f[i - 1], q[i]) ELSE f[i - 1]

(* The recursive function in Keep is a function. *)
LEMMA KeptExists ==
  ASSUME NEW q, NEW S, Len(q) \in Nat
  PROVE  \E f : f = [i \in 0..Len(q) |-> KeepStep(f, q, S, i)]
<1> DEFINE Upto(n) == \E f : f = [i \in 0..n |-> KeepStep(f, q, S, i)]
           T == {n \in Nat : Upto(n)}
<1>1. Upto(0)
  <2> DEFINE f == [i \in 0..0 |-> <<>>]
  <2>1. f = [i \in 0..0 |-> KeepStep(f, q, S, i)]
    BY DEF KeepStep
  <2> QED
    BY <2>1
<1>2. ASSUME NEW n \in Nat, Upto(n)
      PROVE  Upto(n + 1)
  <2>1. PICK f : f = [i \in 0..n |-> KeepStep(f, q, S, i)]
    BY <1>2
  <2> DEFINE z == IF q[n + 1] \in S THEN Append(f[n], q[n + 1]) ELSE f[n]
             g == [i \in 0..(n + 1) |-> IF i = n + 1 THEN z ELSE f[i]]
  <2>2. ASSUME NEW i \in 0..(n + 1)
        PROVE  g[i] = KeepStep(g, q, S, i)
    <3>1. CASE i = n + 1
      <4>1. i # 0 /\ g[i] = z /\ i - 1 = n /\ g[i - 1] = f[n]
        BY <3>1
      <4> QED
        BY <3>1, <4>1 DEF KeepStep
    <3>2. CASE i = 0
      <4>1. i \in 0..n /\ i # n + 1 /\ g[i] = f[i]
        BY <3>2
      <4>2. f[i] = <<>>
        BY <2>1, <3>2, <4>1 DEF KeepStep
      <4> QED
        BY <3>2, <4>1, <4>2 DEF KeepStep
    <3>3. CASE i # 0 /\ i # n + 1
      <4>1. i \in 0..n /\ i - 1 \in 0..n /\ i - 1 # n + 1 /\ g[i] = f[i] /\ g[i - 1] = f[i - 1]
        BY <3>3
      <4>2. f[i] = KeepStep(f, q, S, i)
        BY <2>1, <4>1
      <4> QED
        BY <3>3, <4>1, <4>2 DEF KeepStep
    <3> QED
      BY <3>1, <3>2, <3>3
  <2> HIDE DEF z
  <2>3. g = [i \in 0..(n + 1) |-> KeepStep(g, q, S, i)]
    BY <2>2
  <2> QED
    BY <2>3
<1> HIDE DEF Upto
<1>3. Nat \subseteq T
  <2>1. 0 \in T
    BY <1>1
  <2>2. \A n \in Nat : n \in T => n + 1 \in T
    BY <1>2
  <2> HIDE DEF T
  <2> QED
    BY <2>1, <2>2, StepByStep
<1> QED
  BY <1>3 DEF Upto

(* Keep leaves the elements that are in S, and each key it leaves stands
   once still. *)
LEMMA KeepIs ==
  ASSUME NEW T, NEW q \in Seq(T), NEW S, NEW key
  PROVE  /\ Keep(q, S) \in Seq(T) /\ Range(Keep(q, S)) = Range(q) \cap S
         /\ Once(q, key) => Once(Keep(q, S), key)
<1> DEFINE k == CHOOSE f : f = [i \in 0..Len(q) |-> KeepStep(f, q, S, i)]
           l == Len(q)
<1>1. Keep(q, S) = k[l]
  BY DEF Keep, KeepStep
<1>2. l \in Nat /\ DOMAIN q = 1..l /\ \A i \in 1..l : q[i] \in T
  BY LenProperties, ElementOfSeq
<1>3. k = [i \in 0..l |-> KeepStep(k, q, S, i)]
  BY <1>2, KeptExists
<1> HIDE DEF k, l
<1> DEFINE From(n) == {q[j] : j \in 1..n}
           Kept(n) == /\ k[n] \in Seq(T) /\ Range(k[n]) = From(n) \cap S
                      /\ Once(q, key) => Once(k[n], key)
           I == {n \in Nat : n <= l => Kept(n)}
<1>4. Kept(0)
  <2>1. k[0] = <<>>
    BY <1>2, <1>3 DEF KeepStep
  <2>2. From(0) = {}
    OBVIOUS
  <2> HIDE DEF From
  <2> QED
    BY <2>1, <2>2, OnceNone
<1>5. ASSUME NEW n \in Nat, n + 1 <= l, Kept(n)
      PROVE  Kept(n + 1)
  <2> DEFINE x == q[n + 1]
  <2>1. n + 1 \in 1..l /\ n + 1 \in 0..l /\ n + 1 # 0 /\ (n + 1) - 1 = n /\ x \in T
    BY <1>2, <1>5
  <2>2. k[n + 1] = IF x \in S THEN Append(k[n], x) ELSE k[n]
    BY <1>3, <2>1 DEF KeepStep
  <2>3. From(n + 1) = From(n) \cup {x}
    <3>1. \A j : j \in 1..(n + 1) <=> j \in 1..n \/ j = n + 1
      BY <1>5
    <3> QED
      BY <3>1
  <2>4. ASSUME Once(q, key)
        PROVE  key[x] \notin KeysOf(k[n], key)
    <3>1. \A j \in 1..n : j \in 1..l /\ j # n + 1
      BY <1>2, <1>5
    <3>2. \A j \in 1..n : key[q[j]] # key[x]
      BY <1>2, <2>1, <2>4, <3>1 DEF Once
    <3>3. \A y \in Range(k[n]) : \E j \in 1..n : y = q[j]
      BY <1>5
    <3> HIDE DEF x
    <3> QED
      BY <3>2, <3>3 DEF KeysOf
  <2> HIDE DEF From, x
  <2>5. CASE x \notin S
    BY <1>5, <2>2, <2>3, <2>5
  <2>6. CASE x \in S
    <3>1. k[n + 1] = Append(k[n], x)
      BY <2>2, <2>6
    <3>2. /\ Append(k[n], x) \in Seq(T) /\ Range(Append(k[n], x)) = Range(k[n]) \cup {x}
          /\ KeysOf(Append(k[n], x), key) = KeysOf(k[n], key) \cup {key[x]}
          /\ Once(k[n], key) /\ key[x] \notin KeysOf(k[n], key) => Once(Append(k[n], x), key)
      BY <1>5, <2>1, OnceAppend
    <3> QED
      BY <1>5, <2>3, <2>4, <2>6, <3>1, <3>2
  <2> QED
    BY <2>5, <2>6
<1> HIDE DEF Kept
<1>6. Nat \subseteq I
  <2>1. 0 \in I
    BY <1>4
  <2>2. \A n \in Nat : n \in I => n + 1 \in I
    <3> TAKE n \in Nat
    <3>1. n + 1 <= l => n <= l
      BY <1>2
    <3> QED
      BY <1>5, <3>1
  <2> HIDE DEF I
  <2> QED
    BY <2>1, <2>2, StepByStep
<1>7. Kept(l)
  BY <1>2, <1>6
<1>8. From(l) = Range(q)
  BY <1>2 DEF Range
<1> HIDE DEF From
<1> QED
  BY <1>1, <1>7, <1>8 DEF Kept

(* Two elements of a queue with one key are one element. *)
LEMMA OnceUnique ==
  ASSUME NEW T, NEW q \in Seq(T), NEW key, Once(q, key),
         NEW x \in Range(q), NEW y \in Range(q), key[x] = key[y]
  PROVE  x = y
<1>1. PICK i \in DOMAIN q : x = q[i]
  BY DEF Range
<1>2. PICK j \in DOMAIN q : y = q[j]
  BY DEF Range
<1> QED
  BY <1>1, <1>2 DEF Once

-----------------------------------------------------------------------------
(* The parts of the invariant, for any catalog s.                          *)

Those(s, X) == {r \in Res : s[r] \in X}
Deliveries == [req : Requests, ok : BOOLEAN]
Self == [r \in Res |-> r]
ByRes == [x \in Requests |-> x.res]
ByReq == [x \in Deliveries |-> x.req.res]

(* The two ledgers are the sums over the states.                           *)
Sums(s, held, buffered) == /\ held = BytesOf(Those(s, HoldsBytes))
                           /\ buffered = BytesOf(Those(s, HasBuffers))

(* R is what the host takes for resident.                                  *)
Agrees(s, R) == \A r \in Res : /\ r \in R => s[r] \in HasBuffers
                               /\ s[r] \in {"Resident", "EvictQueued"} => r \in R

(* The host may come to the commits in l at any time.                      *)
Harmless(s, l) ==
  \A x \in Range(l) : /\ x.res \in Res
                      /\ x.state = "resident" => s[x.res] \in HasBuffers
                      /\ x.state = "unloaded" => s[x.res] \notin {"Resident", "EvictQueued"}
                      /\ x.state = "unavailable" => s[x.res] = "Unavailable"

(* q holds the resources in one state, each once.                          *)
Queued(s, q, status) == Once(q, Self) /\ \A r \in Res : s[r] = status <=> r \in Range(q)

(* A resource is IoQueued while it is in one of the three stages of its read;
   one is read at a time.                                                     *)
Reads(s, p, w, d) ==
  /\ w # <<>> => Tail(w) = <<>>
  /\ Once(p, ByRes) /\ Once(w, ByRes) /\ Once(d, ByReq)
  /\ KeysOf(p, ByRes) \cap KeysOf(w, ByRes) = {} /\ KeysOf(p, ByRes) \cap KeysOf(d, ByReq) = {}
  /\ KeysOf(w, ByRes) \cap KeysOf(d, ByReq) = {}
  /\ \A r \in Res : s[r] = "IoQueued"
                      <=> r \in KeysOf(p, ByRes) \/ r \in KeysOf(w, ByRes) \/ r \in KeysOf(d, ByReq)

(* The saturating subtraction takes away what is there. *)
LEMMA MinusIs ==
  ASSUME NEW a \in Nat, NEW b \in Nat, NEW c \in Nat, a = b + c
  PROVE  Minus(a, c) = b
<1>1. CASE b = 0
  BY <1>1 DEF Minus
<1>2. CASE b # 0
  BY <1>2 DEF Minus
<1> QED
  BY <1>1, <1>2

(* What is dropped of a set leaves the sum of the rest: nothing
   saturates. *)
LEMMA BytesDrop ==
  ASSUME NEW S \in SUBSET Res, NEW D \in SUBSET S
  PROVE  Minus(BytesOf(S), BytesOf(D)) = BytesOf(S \ D)
<1> DEFINE a == BytesOf(S)
           b == BytesOf(S \ D)
           c == BytesOf(D)
<1>1. a \in Nat /\ b \in Nat /\ c \in Nat /\ a = b + c
  BY BytesSplit
<1> HIDE DEF a, b, c
<1>2. Minus(a, c) = b
  BY <1>1, MinusIs
<1> QED
  BY <1>2 DEF a, b, c

(* What one resource's change of state does to a sum.                      *)
Shifted(n, X, a, b, r) == IF b \in X /\ a \notin X THEN n + Bytes[r]
                          ELSE IF a \in X /\ b \notin X THEN Minus(n, Bytes[r]) ELSE n

(* The sum over the states X, when one resource changes its state. *)
LEMMA BytesShift ==
  ASSUME NEW s \in [Res -> ResourceStates], NEW r \in Res, NEW b, NEW X
  PROVE  BytesOf(Those([s EXCEPT ![r] = b], X))
           = Shifted(BytesOf(Those(s, X)), X, s[r], b, r)
<1> DEFINE A == Those(s, X)
           B == Those([s EXCEPT ![r] = b], X)
<1>1. A \in SUBSET Res /\ B \in SUBSET Res
  BY DEF Those
<1>2. \A o \in Res : o # r => (o \in B <=> o \in A)
  BY DEF Those
<1>3. (r \in A <=> s[r] \in X) /\ (r \in B <=> b \in X)
  BY DEF Those
<1> HIDE DEF A, B
<1>4. CASE r \in B /\ r \notin A
  <2>1. B = A \cup {r}
    BY <1>1, <1>2, <1>4
  <2>2. BytesOf(A \cup {r}) = BytesOf(A) + Bytes[r]
    BY <1>1, <1>4, BytesAdd
  <2> QED
    BY <1>3, <1>4, <2>1, <2>2 DEF Shifted, A, B
<1>5. CASE r \in A /\ r \notin B
  <2>1. B = A \ {r} /\ {r} \in SUBSET A
    BY <1>1, <1>2, <1>5
  <2>2. Minus(BytesOf(A), BytesOf({r})) = BytesOf(A \ {r})
    BY <1>1, <2>1, BytesDrop
  <2>3. Minus(BytesOf(A), Bytes[r]) = BytesOf(B)
    BY <2>1, <2>2, BytesOfOne
  <2> QED
    BY <1>3, <1>5, <2>3 DEF Shifted, A, B
<1>6. CASE r \in A <=> r \in B
  <2>1. A = B
    BY <1>1, <1>2, <1>6
  <2> QED
    BY <1>3, <1>6, <2>1 DEF Shifted, A, B
<1> QED
  BY <1>4, <1>5, <1>6

(* Both ledgers, when one resource changes its state. *)
LEMMA SumsShift ==
  ASSUME NEW s \in [Res -> ResourceStates], NEW r \in Res, NEW b,
         NEW held, NEW buffered, Sums(s, held, buffered)
  PROVE  Sums([s EXCEPT ![r] = b], Shifted(held, HoldsBytes, s[r], b, r),
                                   Shifted(buffered, HasBuffers, s[r], b, r))
<1>1. held = BytesOf(Those(s, HoldsBytes)) /\ buffered = BytesOf(Those(s, HasBuffers))
  BY DEF Sums
<1>2. BytesOf(Those([s EXCEPT ![r] = b], HoldsBytes))
        = Shifted(held, HoldsBytes, s[r], b, r)
  BY <1>1, BytesShift
<1>3. BytesOf(Those([s EXCEPT ![r] = b], HasBuffers))
        = Shifted(buffered, HasBuffers, s[r], b, r)
  BY <1>1, BytesShift
<1> QED
  BY <1>2, <1>3 DEF Sums

(* The ledgers are numbers. *)
LEMMA SumsTyped ==
  ASSUME NEW s, NEW held, NEW buffered, Sums(s, held, buffered)
  PROVE  held \in Nat /\ buffered \in Nat
<1>1. Those(s, HoldsBytes) \in SUBSET Res /\ Those(s, HasBuffers) \in SUBSET Res
  BY DEF Those
<1> QED
  BY <1>1, UnitsAre DEF Sums

(* A ledger, when the resources in D give up their bytes. *)
LEMMA SumsDrop ==
  ASSUME NEW s, NEW s2, NEW held, NEW buffered, Sums(s, held, buffered),
         NEW D \in SUBSET Res, \A r \in D : s[r] \in HoldsBytes /\ s2[r] \notin HoldsBytes,
         \A r \in Res \ D : (s2[r] \in HoldsBytes) = (s[r] \in HoldsBytes)
  PROVE  BytesOf(Those(s2, HoldsBytes)) = Minus(held, BytesOf(D))
<1>1. Those(s, HoldsBytes) \in SUBSET Res /\ D \in SUBSET Those(s, HoldsBytes)
  BY DEF Those
<1>2. Those(s2, HoldsBytes) = Those(s, HoldsBytes) \ D
  BY DEF Those
<1> QED
  BY <1>1, <1>2, BytesDrop DEF Sums

-----------------------------------------------------------------------------
(* The invariant.                                                          *)

Operations == {"plan", "admit", "evict", "settle", "stage0", "sample"}
Offers == [do : {"admit", "evict"}, res : Res]
Commits == [res : Res, state : {"resident", "unloaded", "unavailable"}]

(* A planner, as far as the game depends on it.                            *)
Plans(h) == /\ DOMAIN h = DOMAIN NewPlanner
            /\ h.resident \in SUBSET Res /\ h.unavailable \in SUBSET Res /\ h.bucket \in Nat

(* While the whole set is drained nothing else is under way, and it all fits. *)
Draining == IF phase = "drain"
            THEN /\ todo \in {<<>>, <<"drain">>} /\ Total <= cap
                 /\ \A r \in Res : st[r] \in {"Unloaded", "Resident"}
            ELSE todo \in Seq(Operations)

(* What is queued, being read or delivered, and what the ledgers say of it. *)
Matched == /\ Sums(st, reserved, gpu) /\ Reads(st, pending, working, ready)
           /\ Queued(st, evictQ, "EvictQueued") /\ Queued(st, commitQ, "CommitPending")
           /\ Queued(st, inFlight, "RemovalInFlight") /\ readmit \subseteq Range(inFlight)

StreamInv == /\ StreamTypeOK /\ Plans(planner) /\ list \in Seq(Commits)
             /\ Matched /\ Agrees(st, planner.resident) /\ Harmless(st, list) /\ Draining

-----------------------------------------------------------------------------
(* The planner asks only for what the game may grant: it leaves the two sets
   of the host alone, and drops only what the host takes for resident.      *)

Same(g, h) == g.resident = h.resident /\ g.unavailable = h.unavailable
Asks(l, R) == l \in Seq(Offers) /\ \A x \in Range(l) : x.do = "evict" => x.res \in R

(* A sweep that starts again leaves the two sets of the host alone. *)
LEMMA RestartKeeps ==
  ASSUME NEW h, Plans(h), NEW e, NEW p, NEW heading
  PROVE  Plans(Restart(h, e, p, heading)) /\ Same(Restart(h, e, p, heading), h)
<1> DEFINE fields == DOMAIN NewPlanner
           a == [h EXCEPT !.epoch = e, !.cell = Cell(p), !.bucket = 0, !.offered = FALSE,
                          !.heading = heading, !.ahead = ForwardFirst(Offsets, heading)]
           b == [h EXCEPT !.heading = heading,
                          !.ahead = IF @ = <<>> THEN @
                                    ELSE <<Head(@)>> \o ForwardFirst(Tail(@), heading)]
<1>1. {"resident", "unavailable", "bucket"} \subseteq fields
  BY DEF NewPlanner
<1>2. DOMAIN h = fields
  BY DEF Plans
<1> HIDE DEF fields
<1>3. /\ DOMAIN a = fields /\ a.resident = h.resident /\ a.unavailable = h.unavailable
      /\ a.bucket = 0
  BY <1>1, <1>2
<1>4. /\ DOMAIN b = fields /\ b.resident = h.resident /\ b.unavailable = h.unavailable
      /\ b.bucket = h.bucket
  BY <1>1, <1>2
<1>5. Restart(h, e, p, heading) \in {a, b, h}
  BY DEF Restart
<1> HIDE DEF a, b
<1>6. \A x \in {a, b, h} : Plans(x) /\ Same(x, h)
  BY <1>1, <1>3, <1>4 DEF Plans, Same, fields
<1> QED
  BY <1>5, <1>6

(* The resources of a cell are resources. *)
LEMMA BucketTyped ==
  ASSUME NEW c
  PROVE  Bucket(c) \in Seq(Res)
<1>1. [r \in Res |-> r] \in Seq(Res)
  BY ResTyped
<1> QED
  BY <1>1, KeepIs DEF Bucket

(* A sweep under way.                                                      *)
Sweeps(s, h) == /\ DOMAIN s = {"h", "free", "plan", "cells", "seen", "stop"}
                /\ Plans(s.h) /\ Same(s.h, h) /\ Asks(s.plan, h.resident)

(* One request more: a resource may be dropped only if the host takes it
   for resident. *)
LEMMA AsksOneMore ==
  ASSUME NEW R \in SUBSET Res, NEW l, Asks(l, R), NEW r \in Res, NEW do \in {"admit", "evict"},
         do = "evict" => r \in R
  PROVE  Asks(Append(l, [do |-> do, res |-> r]), R)
<1> DEFINE x == [do |-> do, res |-> r]
<1>1. x \in Offers /\ (x.do = "evict" => x.res \in R)
  BY DEF Offers
<1> HIDE DEF x
<1>2. l \in Seq(Offers) /\ \A y \in Range(l) : y.do = "evict" => y.res \in R
  BY DEF Asks
<1>3. Append(l, x) \in Seq(Offers) /\ Range(Append(l, x)) = Range(l) \cup {x}
  BY <1>1, <1>2, OnceAppend
<1>4. Asks(Append(l, x), R)
  BY <1>1, <1>2, <1>3 DEF Asks
<1> QED
  BY <1>4 DEF x

(* The place in a cell may move on. *)
LEMMA BucketMoves ==
  ASSUME NEW h, NEW g, Plans(g), Same(g, h), NEW n \in Nat
  PROVE  Plans([g EXCEPT !.bucket = n]) /\ Same([g EXCEPT !.bucket = n], h)
BY DEF Plans, Same, NewPlanner

(* Looking at one resource asks for at most it, or to drop a resident
   one. *)
LEMMA ConsiderKeeps ==
  ASSUME NEW h, Plans(h), NEW s, Sweeps(s, h), NEW r \in Res, NEW p, NEW most
  PROVE  Sweeps(Consider(s, r, p, most), h)
<1> DEFINE seen == [s EXCEPT !.h.bucket = @ + 1, !.seen = @ + 1]
           g == [s.h EXCEPT !.bucket = s.h.bucket + 1]
           victim == Farthest(s.h, p, Retain)
           v == CHOOSE o \in victim : TRUE
           granted == [seen EXCEPT !.plan = Append(@, [do |-> "admit", res |-> r]),
                                   !.free = @ - Bytes[r], !.h.offered = TRUE]
           dropped == [s EXCEPT !.plan = Append(@, [do |-> "evict", res |-> v]), !.stop = TRUE]
<1>1. /\ DOMAIN s = {"h", "free", "plan", "cells", "seen", "stop"} /\ Plans(s.h)
      /\ Same(s.h, h) /\ Asks(s.plan, h.resident) /\ h.resident \in SUBSET Res
  BY DEF Sweeps, Plans
<1>2. Plans(g) /\ Same(g, h)
  <2>1. s.h.bucket + 1 \in Nat
    BY <1>1 DEF Plans
  <2> QED
    BY <1>1, <2>1, BucketMoves
<1>3. DOMAIN seen = DOMAIN s /\ seen.h = g /\ seen.plan = s.plan
  BY <1>1
<1>4. Sweeps(seen, h)
  BY <1>1, <1>2, <1>3 DEF Sweeps
<1>5. Sweeps(granted, h)
  <2> DEFINE g2 == [seen.h EXCEPT !.offered = TRUE]
             l == Append(seen.plan, [do |-> "admit", res |-> r])
  <2>1. DOMAIN granted = DOMAIN s /\ granted.h = g2 /\ granted.plan = l
    BY <1>1, <1>3
  <2>2. Plans(g2) /\ Same(g2, h)
    BY <1>2, <1>3 DEF Plans, Same, NewPlanner
  <2>3. Asks(l, h.resident)
    BY <1>1, <1>3, AsksOneMore
  <2> HIDE DEF granted, g2, l
  <2> QED
    BY <1>1, <2>1, <2>2, <2>3 DEF Sweeps
<1>6. ASSUME victim # {}
      PROVE  Sweeps(dropped, h)
  <2>1. v \in s.h.resident
    BY <1>6 DEF Farthest
  <2>2. v \in h.resident /\ v \in Res
    BY <1>1, <2>1 DEF Same
  <2> HIDE DEF v
  <2> DEFINE l == Append(s.plan, [do |-> "evict", res |-> v])
  <2>3. DOMAIN dropped = DOMAIN s /\ dropped.h = s.h /\ dropped.plan = l
    BY <1>1
  <2>4. Asks(l, h.resident)
    BY <1>1, <2>2, AsksOneMore
  <2> HIDE DEF dropped, l
  <2> QED
    BY <1>1, <2>3, <2>4 DEF Sweeps
<1>7. \/ Consider(s, r, p, most) = seen \/ Consider(s, r, p, most) = granted
      \/ victim # {} /\ Consider(s, r, p, most) = dropped
  BY DEF Consider
<1> HIDE DEF seen, granted, dropped, victim
<1> QED
  BY <1>4, <1>5, <1>6, <1>7

(* So does a step of the sweep. *)
LEMMA SweepStepKeeps ==
  ASSUME NEW h, Plans(h), NEW s, Sweeps(s, h), NEW p, NEW most
  PROVE  Sweeps(SweepStep(s, p, most), h)
<1> DEFINE b == IF s.h.ahead = <<>> THEN <<>> ELSE Bucket(s.h.cell + Head(s.h.ahead))
           next == [s EXCEPT !.h.ahead = Tail(@), !.h.bucket = 0, !.cells = @ + 1]
           i == s.h.bucket + 1
<1>1. /\ DOMAIN s = {"h", "free", "plan", "cells", "seen", "stop"} /\ Plans(s.h)
      /\ Same(s.h, h) /\ Asks(s.plan, h.resident) /\ s.h.bucket \in Nat
  BY DEF Sweeps, Plans
<1>2. b \in Seq(Res)
  BY BucketTyped
<1>3. Sweeps(next, h)
  <2> DEFINE g == [s.h EXCEPT !.ahead = Tail(@), !.bucket = 0]
  <2>1. DOMAIN next = DOMAIN s /\ next.h = g /\ next.plan = s.plan
    BY <1>1
  <2>2. Plans(g) /\ Same(g, h)
    BY <1>1 DEF Plans, Same, NewPlanner
  <2> HIDE DEF next, g
  <2> QED
    BY <1>1, <2>1, <2>2 DEF Sweeps
<1> HIDE DEF b
<1>4. ASSUME s.h.bucket < Len(b)
      PROVE  Sweeps(Consider(s, b[i], p, most), h)
  <2>1. i \in 1..Len(b)
    BY <1>1, <1>2, <1>4, LenProperties
  <2>2. b[i] \in Res
    BY <1>2, <2>1, ElementOfSeq
  <2> QED
    BY <2>2, ConsiderKeeps
<1>5. \/ SweepStep(s, p, most) = s \/ SweepStep(s, p, most) = next
      \/ s.h.bucket < Len(b) /\ SweepStep(s, p, most) = Consider(s, b[i], p, most)
  BY DEF SweepStep, b
<1> HIDE DEF next
<1> QED
  BY <1>3, <1>4, <1>5

SweepAt(f, start, p, most, i) == IF i = 0 THEN start ELSE SweepStep(f[i - 1], p, most)

(* The recursive function in Sweep is a function. *)
LEMMA SweepExists ==
  ASSUME NEW l \in Nat, NEW start, NEW p, NEW most
  PROVE  \E f : f = [i \in 0..l |-> SweepAt(f, start, p, most, i)]
<1> DEFINE Upto(n) == \E f : f = [i \in 0..n |-> SweepAt(f, start, p, most, i)]
           T == {n \in Nat : Upto(n)}
<1>1. Upto(0)
  <2> DEFINE f == [i \in 0..0 |-> start]
  <2>1. f = [i \in 0..0 |-> SweepAt(f, start, p, most, i)]
    BY DEF SweepAt
  <2> QED
    BY <2>1
<1>2. ASSUME NEW n \in Nat, Upto(n)
      PROVE  Upto(n + 1)
  <2>1. PICK f : f = [i \in 0..n |-> SweepAt(f, start, p, most, i)]
    BY <1>2
  <2> DEFINE z == SweepStep(f[n], p, most)
             g == [i \in 0..(n + 1) |-> IF i = n + 1 THEN z ELSE f[i]]
  <2>2. ASSUME NEW i \in 0..(n + 1)
        PROVE  g[i] = SweepAt(g, start, p, most, i)
    <3>1. CASE i = n + 1
      <4>1. i # 0 /\ g[i] = z /\ i - 1 = n /\ g[i - 1] = f[n]
        BY <3>1
      <4> QED
        BY <3>1, <4>1 DEF SweepAt
    <3>2. CASE i = 0
      <4>1. i \in 0..n /\ i # n + 1 /\ g[i] = f[i]
        BY <3>2
      <4>2. f[i] = start
        BY <2>1, <3>2, <4>1 DEF SweepAt
      <4> QED
        BY <3>2, <4>1, <4>2 DEF SweepAt
    <3>3. CASE i # 0 /\ i # n + 1
      <4>1. i \in 0..n /\ i - 1 \in 0..n /\ i - 1 # n + 1 /\ g[i] = f[i] /\ g[i - 1] = f[i - 1]
        BY <3>3
      <4>2. f[i] = SweepAt(f, start, p, most, i)
        BY <2>1, <4>1
      <4> QED
        BY <3>3, <4>1, <4>2 DEF SweepAt
    <3> QED
      BY <3>1, <3>2, <3>3
  <2> HIDE DEF z
  <2>3. g = [i \in 0..(n + 1) |-> SweepAt(g, start, p, most, i)]
    BY <2>2
  <2> QED
    BY <2>3
<1> HIDE DEF Upto
<1>3. Nat \subseteq T
  <2>1. 0 \in T
    BY <1>1
  <2>2. \A n \in Nat : n \in T => n + 1 \in T
    BY <1>2
  <2> HIDE DEF T
  <2> QED
    BY <2>1, <2>2, StepByStep
<1> QED
  BY <1>3 DEF Upto

(* So does a sweep, by induction over its steps. *)
LEMMA SweepKeeps ==
  ASSUME NEW h, Plans(h), NEW p, NEW most, NEW free
  PROVE  LET reply == Sweep(h, p, most, free)
         IN Plans(reply.h) /\ Same(reply.h, h) /\ Asks(reply.plan, h.resident)
<1> DEFINE start == [h |-> h, free |-> free, plan |-> <<>>, cells |-> 0, seen |-> 0,
                     stop |-> FALSE]
           l == PlanCells + PlanRes
           sweep == CHOOSE f : f = [i \in 0..l |-> SweepAt(f, start, p, most, i)]
           s == sweep[l]
           again == [s.h EXCEPT !.ahead = ForwardFirst(Offsets, s.h.heading), !.bucket = 0,
                                !.offered = FALSE]
           last == IF s.h.ahead = <<>> /\ s.h.offered /\ ~s.stop THEN again ELSE s.h
<1>1. Sweep(h, p, most, free) = [h |-> last, plan |-> s.plan]
  BY DEF Sweep, SweepAt
<1>2. l \in Nat
  BY PlannerAssumption
<1> HIDE DEF l
<1>3. Sweeps(start, h)
  <2>1. Asks(<<>>, h.resident)
    BY OnceNone DEF Asks
  <2>2. Same(h, h)
    BY DEF Same
  <2> QED
    BY <2>1, <2>2 DEF Sweeps
<1> HIDE DEF start
<1>4. sweep = [i \in 0..l |-> SweepAt(sweep, start, p, most, i)]
  BY <1>2, SweepExists
<1> HIDE DEF sweep
<1> DEFINE I == {n \in Nat : n <= l => Sweeps(sweep[n], h)}
<1>5. Nat \subseteq I
  <2>1. 0 \in I
    <3>1. sweep[0] = start
      BY <1>2, <1>4 DEF SweepAt
    <3> QED
      BY <1>3, <3>1
  <2>2. \A n \in Nat : n \in I => n + 1 \in I
    <3> SUFFICES ASSUME NEW n \in Nat, n \in I, n + 1 <= l
                 PROVE  Sweeps(sweep[n + 1], h)
      OBVIOUS
    <3>1. n + 1 \in 0..l /\ n + 1 # 0 /\ (n + 1) - 1 = n /\ n <= l
      BY <1>2
    <3>2. sweep[n + 1] = SweepStep(sweep[n], p, most)
      BY <1>4, <3>1 DEF SweepAt
    <3> QED
      BY <3>1, <3>2, SweepStepKeeps
  <2> HIDE DEF I
  <2> QED
    BY <2>1, <2>2, StepByStep
<1>6. Sweeps(s, h)
  BY <1>2, <1>5
<1> HIDE DEF s
<1>7. Plans(last) /\ Same(last, h) /\ Asks(s.plan, h.resident)
  <2>1. Plans(s.h) /\ Same(s.h, h) /\ Asks(s.plan, h.resident)
    BY <1>6 DEF Sweeps
  <2>2. Plans(again) /\ Same(again, h)
    BY <2>1 DEF Plans, Same, NewPlanner
  <2> HIDE DEF again
  <2> QED
    BY <2>1, <2>2
<1> HIDE DEF last
<1> QED
  BY <1>1, <1>7

(* What the host answers a plan. *)
LEMMA PlanResidencyKeeps ==
  ASSUME NEW h, Plans(h), NEW e, NEW p, NEW outside, NEW heading, NEW most, NEW free, NEW debt
  PROVE  LET reply == PlanResidency(h, e, p, outside, heading, most, free, debt)
         IN Plans(reply.h) /\ Same(reply.h, h) /\ Asks(reply.plan, h.resident)
<1> DEFINE h1 == Restart(h, e, p, heading)
           victim == Farthest(h1, p, 0)
           v == CHOOSE o \in victim : TRUE
           none == [h |-> h, plan |-> <<>>]
           one == [h |-> h1, plan |-> <<[do |-> "evict", res |-> v]>>]
           Fits(reply) == Plans(reply.h) /\ Same(reply.h, h) /\ Asks(reply.plan, h.resident)
<1>1. Plans(h1) /\ Same(h1, h) /\ h.resident \in SUBSET Res
  BY RestartKeeps DEF Plans
<1> HIDE DEF h1
<1>2. Fits(none)
  BY OnceNone DEF Asks, Same
<1>3. ASSUME victim # {}
      PROVE  Fits(one)
  <2>1. v \in h1.resident
    BY <1>3 DEF Farthest
  <2>2. v \in h.resident /\ v \in Res
    BY <1>1, <2>1 DEF Same
  <2> HIDE DEF v
  <2>3. [do |-> "evict", res |-> v] \in Offers
    BY <2>2 DEF Offers
  <2> DEFINE x == [do |-> "evict", res |-> v]
  <2>4. <<x>> \in Seq(Offers) /\ Range(<<x>>) = {x}
    BY <2>3, OnceOne
  <2>5. x.res = v
    OBVIOUS
  <2> HIDE DEF x
  <2>6. Asks(<<x>>, h.resident)
    BY <2>2, <2>4, <2>5 DEF Asks
  <2> QED
    BY <1>1, <2>6 DEF x
<1>4. Fits(Sweep(h1, p, most, free))
  <2> DEFINE reply == Sweep(h1, p, most, free)
  <2>1. Plans(reply.h) /\ Same(reply.h, h1) /\ Asks(reply.plan, h1.resident)
    BY <1>1, SweepKeeps
  <2> HIDE DEF reply
  <2>2. Fits(reply)
    BY <1>1, <2>1 DEF Same
  <2> QED
    BY <2>2 DEF reply
<1> HIDE DEF victim
<1>5. PlanResidency(h, e, p, outside, heading, most, free, debt)
        = IF ~outside THEN none ELSE IF debt > 0 /\ victim # {} THEN one
          ELSE Sweep(h1, p, most, free)
  BY DEF PlanResidency, h1, victim
<1> DEFINE reply == PlanResidency(h, e, p, outside, heading, most, free, debt)
<1> HIDE DEF none, one, reply, Fits
<1>6. Fits(reply)
  BY <1>2, <1>3, <1>4, <1>5 DEF reply
<1> QED
  BY <1>6 DEF Fits, reply

-----------------------------------------------------------------------------
(* One resource changes its state.                                         *)

(* The states with buffers, and those with bytes. *)
LEMMA StatesDiffer ==
  /\ "IoQueued" \in HoldsBytes \ HasBuffers /\ HasBuffers \subseteq HoldsBytes
  /\ {"Unloaded", "Unavailable"} \cap HoldsBytes = {} /\ HoldsBytes \subseteq ResourceStates
  /\ HasBuffers = {"CommitPending", "Resident", "EvictQueued", "RemovalInFlight"}
  /\ {"Unloaded", "Unavailable"} \subseteq ResourceStates
BY DEF HoldsBytes, HasBuffers, ResourceStates

(* A queue of another state than the one left or entered stays as it is. *)
LEMMA QueuedShift ==
  ASSUME NEW s \in [Res -> ResourceStates], NEW r \in Res, NEW b, NEW q, NEW x,
         Queued(s, q, x), s[r] # x, b # x
  PROVE  Queued([s EXCEPT ![r] = b], q, x)
BY DEF Queued

(* The reads stay as they are when no IoQueued resource is concerned. *)
LEMMA ReadsShift ==
  ASSUME NEW s \in [Res -> ResourceStates], NEW r \in Res, NEW b, NEW p, NEW w, NEW d,
         Reads(s, p, w, d), s[r] # "IoQueued", b # "IoQueued"
  PROVE  Reads([s EXCEPT ![r] = b], p, w, d)
BY DEF Reads

(* The host agrees still when a resource gains no residency and loses no
   buffers. *)
LEMMA AgreesShift ==
  ASSUME NEW s \in [Res -> ResourceStates], NEW r \in Res, NEW b, NEW R, Agrees(s, R),
         s[r] \in HasBuffers => b \in HasBuffers,
         b \in {"Resident", "EvictQueued"} => s[r] \in {"Resident", "EvictQueued"}
  PROVE  Agrees([s EXCEPT ![r] = b], R)
BY DEF Agrees

(* The late list is harmless still, for the same reason. *)
LEMMA HarmlessShift ==
  ASSUME NEW s \in [Res -> ResourceStates], NEW r \in Res, NEW b, NEW l, Harmless(s, l),
         s[r] \in HasBuffers => b \in HasBuffers,
         b \in {"Resident", "EvictQueued"} => s[r] \in {"Resident", "EvictQueued"},
         s[r] # "Unavailable"
  PROVE  Harmless([s EXCEPT ![r] = b], l)
BY DEF Harmless

(* No resource is in two states, so a queue has only its own.              *)
LEMMA KeysAre ==
  /\ \A q \in Seq(Res) : KeysOf(q, Self) = Range(q)
  /\ \A q \in Seq(Requests) : KeysOf(q, ByRes) = {x.res : x \in Range(q)}
  /\ \A q \in Seq(Deliveries) : KeysOf(q, ByReq) = {x.req.res : x \in Range(q)}
<1>1. ASSUME NEW q \in Seq(Res)
      PROVE  KeysOf(q, Self) = Range(q)
  <2>1. \A x \in Range(q) : Self[x] = x
    BY RangeIs DEF Self
  <2> QED
    BY <2>1 DEF KeysOf
<1>2. ASSUME NEW q \in Seq(Requests)
      PROVE  KeysOf(q, ByRes) = {x.res : x \in Range(q)}
  <2>1. \A x \in Range(q) : ByRes[x] = x.res
    BY RangeIs DEF ByRes
  <2> QED
    BY <2>1 DEF KeysOf
<1>3. ASSUME NEW q \in Seq(Deliveries)
      PROVE  KeysOf(q, ByReq) = {x.req.res : x \in Range(q)}
  <2>1. \A x \in Range(q) : ByReq[x] = x.req.res
    BY RangeIs DEF ByReq
  <2> QED
    BY <2>1 DEF KeysOf
<1> QED
  BY <1>1, <1>2, <1>3

(* r joins or leaves the queue of its state.                               *)
LEMMA QueuedJoins ==
  ASSUME NEW s \in [Res -> ResourceStates], NEW r \in Res, NEW q \in Seq(Res), NEW x,
         Queued(s, q, x), s[r] # x
  PROVE  Queued([s EXCEPT ![r] = x], Append(q, r), x) /\ Append(q, r) \in Seq(Res)
<1>1. Once(q, Self) /\ r \notin Range(q) /\ \A o \in Res : s[o] = x <=> o \in Range(q)
  BY DEF Queued
<1>2. Self[r] \notin KeysOf(q, Self)
  BY <1>1, KeysAre DEF Self
<1>3. /\ Append(q, r) \in Seq(Res) /\ Range(Append(q, r)) = Range(q) \cup {r}
      /\ KeysOf(Append(q, r), Self) = KeysOf(q, Self) \cup {Self[r]}
      /\ Once(q, Self) /\ Self[r] \notin KeysOf(q, Self) => Once(Append(q, r), Self)
  BY OnceAppend
<1>4. \A o \in Res : [s EXCEPT ![r] = x][o] = x <=> o \in Range(Append(q, r))
  BY <1>1, <1>3
<1> QED
  BY <1>1, <1>2, <1>3, <1>4 DEF Queued

(* r leaves the queue of its state. *)
LEMMA QueuedLeaves ==
  ASSUME NEW s \in [Res -> ResourceStates], NEW r \in Res, NEW q \in Seq(Res), NEW x,
         Queued(s, q, x), NEW b, b # x
  PROVE  Queued([s EXCEPT ![r] = b], Keep(q, Res \ {r}), x) /\ Keep(q, Res \ {r}) \in Seq(Res)
<1> DEFINE k == Keep(q, Res \ {r})
<1>1. Once(q, Self) /\ \A o \in Res : s[o] = x <=> o \in Range(q)
  BY DEF Queued
<1>2. k \in Seq(Res) /\ Range(k) = Range(q) \cap (Res \ {r}) /\ (Once(q, Self) => Once(k, Self))
  BY KeepIs
<1> HIDE DEF k
<1>3. \A o \in Res : [s EXCEPT ![r] = b][o] = x <=> o \in Range(k)
  BY <1>1, <1>2
<1>4. Queued([s EXCEPT ![r] = b], k, x) /\ k \in Seq(Res)
  BY <1>1, <1>2, <1>3 DEF Queued
<1> QED
  BY <1>4 DEF k

-----------------------------------------------------------------------------
(* What the game grants of the planner's requests.                         *)

GameSides == [st : [Res -> ResourceStates], reserved : Nat, readmit : SUBSET Res,
          evictQ : Seq(Res), pending : Seq(Requests)]

Sound(g, d) == /\ g \in GameSides
               /\ Sums(g.st, g.reserved, gpu) /\ Reads(g.st, g.pending, working, d)
               /\ Queued(g.st, g.evictQ, "EvictQueued") /\ Queued(g.st, commitQ, "CommitPending")
               /\ Queued(g.st, inFlight, "RemovalInFlight") /\ g.readmit \subseteq Range(inFlight)
               /\ Agrees(g.st, planner.resident) /\ Harmless(g.st, list)

(* A resource whose eviction is queued is asked for again. *)
LEMMA Reprieved ==
  ASSUME NEW g, NEW d, Sound(g, d), NEW r \in Res, g.st[r] = "EvictQueued"
  PROVE  Sound([g EXCEPT !.st[r] = "Resident", !.evictQ = Keep(@, Res \ {r})], d)
<1> DEFINE k == Keep(g.evictQ, Res \ {r})
           s == [g.st EXCEPT ![r] = "Resident"]
           n == [g EXCEPT !.st[r] = "Resident", !.evictQ = Keep(@, Res \ {r})]
<1>1. /\ g \in GameSides /\ g.st \in [Res -> ResourceStates] /\ g.evictQ \in Seq(Res)
      /\ Sums(g.st, g.reserved, gpu) /\ Reads(g.st, g.pending, working, d)
      /\ Queued(g.st, g.evictQ, "EvictQueued") /\ Queued(g.st, commitQ, "CommitPending")
      /\ Queued(g.st, inFlight, "RemovalInFlight") /\ g.readmit \subseteq Range(inFlight)
      /\ Agrees(g.st, planner.resident) /\ Harmless(g.st, list)
  BY DEF Sound, GameSides
<1>2. s \in [Res -> ResourceStates] /\ k \in Seq(Res) /\ Queued(s, k, "EvictQueued")
  BY <1>1, QueuedLeaves DEF ResourceStates
<1>3. Queued(s, commitQ, "CommitPending") /\ Queued(s, inFlight, "RemovalInFlight")
  BY <1>1, QueuedShift
<1>4. Reads(s, g.pending, working, d)
  BY <1>1, ReadsShift
<1>5. Agrees(s, planner.resident)
  BY <1>1, StatesDiffer, AgreesShift
<1>6. Harmless(s, list)
  BY <1>1, StatesDiffer, HarmlessShift
<1>7. Sums(s, g.reserved, gpu)
  <2>1. Sums(s, Shifted(g.reserved, HoldsBytes, g.st[r], "Resident", r),
                Shifted(gpu, HasBuffers, g.st[r], "Resident", r))
    BY <1>1, SumsShift
  <2> QED
    BY <2>1, StatesDiffer DEF Shifted
<1>8. /\ n.st = s /\ n.evictQ = k /\ n.reserved = g.reserved /\ n.readmit = g.readmit
      /\ n.pending = g.pending
  BY <1>1 DEF GameSides
<1> HIDE DEF s, k
<1>9. n \in GameSides
  BY <1>1, <1>2 DEF GameSides, s, k
<1> HIDE DEF n
<1>10. Sound(n, d)
  BY <1>1, <1>2, <1>3, <1>4, <1>5, <1>6, <1>7, <1>8, <1>9 DEF Sound
<1> QED
  BY <1>10 DEF n

(* A resource whose removal is in flight is asked for again. *)
LEMMA AskedBack ==
  ASSUME NEW g, NEW d, Sound(g, d), NEW r \in Res, g.st[r] = "RemovalInFlight"
  PROVE  Sound([g EXCEPT !.readmit = @ \cup {r}], d)
<1> DEFINE n == [g EXCEPT !.readmit = @ \cup {r}]
<1>1. g \in GameSides /\ g.readmit \cup {r} \subseteq Range(inFlight)
  BY DEF Sound, Queued
<1>2. /\ n \in GameSides /\ n.st = g.st /\ n.evictQ = g.evictQ /\ n.reserved = g.reserved
      /\ n.readmit = g.readmit \cup {r} /\ n.pending = g.pending
  BY <1>1 DEF GameSides
<1> HIDE DEF n
<1>3. Sound(n, d)
  BY <1>1, <1>2 DEF Sound
<1> QED
  BY <1>3 DEF n

(* A resident resource is to go. *)
LEMMA Dropped ==
  ASSUME NEW g, NEW d, Sound(g, d), NEW r \in Res, g.st[r] = "Resident"
  PROVE  Sound([g EXCEPT !.st[r] = "EvictQueued", !.evictQ = Append(@, r)], d)
<1> DEFINE k == Append(g.evictQ, r)
           s == [g.st EXCEPT ![r] = "EvictQueued"]
           n == [g EXCEPT !.st[r] = "EvictQueued", !.evictQ = Append(@, r)]
<1>1. /\ g \in GameSides /\ g.st \in [Res -> ResourceStates] /\ g.evictQ \in Seq(Res)
      /\ Sums(g.st, g.reserved, gpu) /\ Reads(g.st, g.pending, working, d)
      /\ Queued(g.st, g.evictQ, "EvictQueued") /\ Queued(g.st, commitQ, "CommitPending")
      /\ Queued(g.st, inFlight, "RemovalInFlight") /\ g.readmit \subseteq Range(inFlight)
      /\ Agrees(g.st, planner.resident) /\ Harmless(g.st, list)
  BY DEF Sound, GameSides
<1>2. s \in [Res -> ResourceStates] /\ k \in Seq(Res) /\ Queued(s, k, "EvictQueued")
  BY <1>1, QueuedJoins DEF ResourceStates
<1>3. Queued(s, commitQ, "CommitPending") /\ Queued(s, inFlight, "RemovalInFlight")
  BY <1>1, QueuedShift
<1>4. Reads(s, g.pending, working, d)
  BY <1>1, ReadsShift
<1>5. Agrees(s, planner.resident)
  BY <1>1, StatesDiffer, AgreesShift
<1>6. Harmless(s, list)
  BY <1>1, StatesDiffer, HarmlessShift
<1>7. Sums(s, g.reserved, gpu)
  <2>1. Sums(s, Shifted(g.reserved, HoldsBytes, g.st[r], "EvictQueued", r),
                Shifted(gpu, HasBuffers, g.st[r], "EvictQueued", r))
    BY <1>1, SumsShift
  <2> QED
    BY <2>1, StatesDiffer DEF Shifted
<1>8. /\ n.st = s /\ n.evictQ = k /\ n.reserved = g.reserved /\ n.readmit = g.readmit
      /\ n.pending = g.pending
  BY <1>1 DEF GameSides
<1> HIDE DEF s, k
<1>9. n \in GameSides
  BY <1>1, <1>2 DEF GameSides, s, k
<1> HIDE DEF n
<1>10. Sound(n, d)
  BY <1>1, <1>2, <1>3, <1>4, <1>5, <1>6, <1>7, <1>8, <1>9 DEF Sound
<1> QED
  BY <1>10 DEF n

(* A resource is to be read: its bytes are reserved first. *)
LEMMA Admitted ==
  ASSUME NEW g, NEW d, Sound(g, d), NEW r \in Res, g.st[r] = "Unloaded", NEW e \in Nat
  PROVE  Sound([g EXCEPT !.st[r] = "IoQueued", !.reserved = @ + Bytes[r],
                         !.pending = Append(@, [res |-> r, epoch |-> e])], d)
<1> DEFINE x == [res |-> r, epoch |-> e]
           p == Append(g.pending, x)
           s == [g.st EXCEPT ![r] = "IoQueued"]
           b == g.reserved + Bytes[r]
           n == [g EXCEPT !.st[r] = "IoQueued", !.reserved = @ + Bytes[r],
                          !.pending = Append(@, x)]
<1>1. /\ g \in GameSides /\ g.st \in [Res -> ResourceStates] /\ g.pending \in Seq(Requests)
      /\ Sums(g.st, g.reserved, gpu) /\ Reads(g.st, g.pending, working, d)
      /\ Queued(g.st, g.evictQ, "EvictQueued") /\ Queued(g.st, commitQ, "CommitPending")
      /\ Queued(g.st, inFlight, "RemovalInFlight") /\ g.readmit \subseteq Range(inFlight)
      /\ Agrees(g.st, planner.resident) /\ Harmless(g.st, list)
  BY DEF Sound, GameSides
<1>2. s \in [Res -> ResourceStates]
  BY <1>1 DEF ResourceStates
<1>3. /\ Queued(s, g.evictQ, "EvictQueued") /\ Queued(s, commitQ, "CommitPending")
      /\ Queued(s, inFlight, "RemovalInFlight")
  BY <1>1, QueuedShift
<1>4. Reads(s, p, working, d) /\ p \in Seq(Requests)
  <2>1. x \in Requests /\ ByRes[x] = r
    BY DEF Requests, ByRes
  <2> HIDE DEF x
  <2>2. /\ p \in Seq(Requests) /\ KeysOf(p, ByRes) = KeysOf(g.pending, ByRes) \cup {r}
        /\ Once(g.pending, ByRes) /\ r \notin KeysOf(g.pending, ByRes) => Once(p, ByRes)
    BY <1>1, <2>1, OnceAppend
  <2> HIDE DEF p
  <2> DEFINE P == KeysOf(g.pending, ByRes)
             W == KeysOf(working, ByRes)
             D == KeysOf(d, ByReq)
  <2>3. /\ working # <<>> => Tail(working) = <<>>
        /\ Once(g.pending, ByRes) /\ Once(working, ByRes) /\ Once(d, ByReq)
        /\ P \cap W = {} /\ P \cap D = {} /\ W \cap D = {}
        /\ \A o \in Res : g.st[o] = "IoQueued" <=> o \in P \/ o \in W \/ o \in D
    BY <1>1 DEF Reads
  <2> HIDE DEF P, W, D
  <2>4. r \notin P /\ r \notin W /\ r \notin D
    BY <2>3
  <2>5. \A o \in Res : s[o] = "IoQueued" <=> o \in P \cup {r} \/ o \in W \/ o \in D
    BY <1>1, <2>3
  <2>6. (P \cup {r}) \cap W = {} /\ (P \cup {r}) \cap D = {}
    BY <2>3, <2>4
  <2>7. KeysOf(p, ByRes) = P \cup {r} /\ Once(p, ByRes)
    BY <2>2, <2>3, <2>4 DEF P
  <2> HIDE DEF s
  <2> QED
    BY <2>2, <2>3, <2>5, <2>6, <2>7 DEF Reads, W, D
<1>5. Agrees(s, planner.resident)
  BY <1>1, StatesDiffer, AgreesShift
<1>6. Harmless(s, list)
  BY <1>1, StatesDiffer, HarmlessShift
<1>7. Sums(s, b, gpu)
  <2>1. Sums(s, Shifted(g.reserved, HoldsBytes, g.st[r], "IoQueued", r),
                Shifted(gpu, HasBuffers, g.st[r], "IoQueued", r))
    BY <1>1, SumsShift
  <2>2. /\ "IoQueued" \in HoldsBytes /\ g.st[r] \notin HoldsBytes
        /\ "IoQueued" \notin HasBuffers /\ g.st[r] \notin HasBuffers
    BY DEF HoldsBytes, HasBuffers
  <2> QED
    BY <2>1, <2>2 DEF Shifted
<1>8. /\ n.st = s /\ n.pending = p /\ n.reserved = b /\ n.readmit = g.readmit
      /\ n.evictQ = g.evictQ
  BY <1>1 DEF GameSides
<1>9. n \in GameSides
  <2>1. b \in Nat
    BY <1>7, SumsTyped
  <2> HIDE DEF s, p, b
  <2>2. n = [g EXCEPT !.st = s, !.reserved = b, !.pending = p]
    BY <1>1 DEF s, p, b
  <2> QED
    BY <1>1, <1>2, <1>4, <2>1, <2>2 DEF GameSides
<1> HIDE DEF s, p, b, n
<1>10. Sound(n, d)
  BY <1>1, <1>2, <1>3, <1>4, <1>5, <1>6, <1>7, <1>8, <1>9 DEF Sound
<1> QED
  BY <1>10 DEF n, x

(* A request leaves the game in step, and reserves only what the cap leaves. *)
LEMMA TakeKeeps ==
  ASSUME NEW g, NEW d, Sound(g, d), NEW q \in Offers, q.do = "evict" => q.res \in planner.resident,
         NEW e \in Nat, NEW open, cap \in Nat
  PROVE  /\ Sound(Take(g, q, e, open), d)
         /\ Take(g, q, e, open).reserved <= g.reserved \/ Take(g, q, e, open).reserved <= cap
<1> DEFINE r == q.res
           free == IF cap > g.reserved THEN cap - g.reserved ELSE 0
           a == [g EXCEPT !.st[r] = "Resident", !.evictQ = Keep(@, Res \ {r})]
           b == [g EXCEPT !.readmit = @ \cup {r}]
           c == [g EXCEPT !.st[r] = "IoQueued", !.reserved = @ + Bytes[r],
                          !.pending = Append(@, [res |-> r, epoch |-> e])]
           f == [g EXCEPT !.st[r] = "EvictQueued", !.evictQ = Append(@, r)]
           out == Take(g, q, e, open)
           ok(x) == Sound(x, d) /\ (x.reserved <= g.reserved \/ x.reserved <= cap)
<1>1. r \in Res /\ g \in GameSides /\ g.reserved \in Nat /\ Bytes[r] \in Nat \ {0}
  BY ResTyped DEF Offers, Sound, GameSides
<1>2. q.do = "evict" => g.st[r] # "IoQueued"
  BY <1>1, StatesDiffer DEF Sound, Agrees
<1>3. \/ g.st[r] = "EvictQueued" /\ out = a
      \/ g.st[r] = "RemovalInFlight" /\ out = b
      \/ g.st[r] = "Unloaded" /\ Bytes[r] <= free /\ out = c
      \/ g.st[r] = "Resident" /\ out = f
      \/ out = g
  BY <1>2 DEF Take
<1>4. ok(g)
  BY <1>1
<1>5. ASSUME g.st[r] = "EvictQueued"
      PROVE  ok(a)
  <2>1. a.reserved = g.reserved
    BY <1>1 DEF GameSides
  <2>2. Sound(a, d)
    BY <1>1, <1>5, Reprieved
  <2> HIDE DEF a
  <2> QED
    BY <1>1, <2>1, <2>2
<1>6. ASSUME g.st[r] = "RemovalInFlight"
      PROVE  ok(b)
  <2>1. b.reserved = g.reserved
    BY <1>1 DEF GameSides
  <2>2. Sound(b, d)
    BY <1>1, <1>6, AskedBack
  <2> HIDE DEF b
  <2> QED
    BY <1>1, <2>1, <2>2
<1>7. ASSUME g.st[r] = "Unloaded", Bytes[r] <= free
      PROVE  ok(c)
  <2>1. c.reserved = g.reserved + Bytes[r]
    BY <1>1 DEF GameSides
  <2>2. Sound(c, d)
    BY <1>1, <1>7, Admitted
  <2> DEFINE m == g.reserved
             k == Bytes[r]
  <2>3. m \in Nat /\ k \in Nat \ {0} /\ k <= IF cap > m THEN cap - m ELSE 0
    BY <1>1, <1>7
  <2>4. c.reserved = m + k
    BY <2>1
  <2> HIDE DEF c, m, k
  <2>5. m + k <= cap
    <3>1. CASE cap > m
      BY <2>3, <3>1
    <3>2. CASE ~(cap > m)
      BY <2>3, <3>2
    <3> QED
      BY <3>1, <3>2
  <2> QED
    BY <2>2, <2>4, <2>5
<1>8. ASSUME g.st[r] = "Resident"
      PROVE  ok(f)
  <2>1. f.reserved = g.reserved
    BY <1>1 DEF GameSides
  <2>2. Sound(f, d)
    BY <1>1, <1>8, Dropped
  <2> HIDE DEF f
  <2> QED
    BY <1>1, <2>1, <2>2
<1> HIDE DEF a, b, c, f, out, free
<1>9. ok(out)
  BY <1>3, <1>4, <1>5, <1>6, <1>7, <1>8
<1> QED
  BY <1>9 DEF out

(* A new epoch drops what the old one queued and what it read, and leaves the
   request being read.                                                      *)
Fresh(q, e) == Keep(q, {x \in Range(q) : x.epoch = e})
FreshReady(q, e) == Keep(q, {x \in Range(q) : x.req.epoch = e})
Stale(p, d, s, e) == {r \in {q.res : q \in {x \in Range(p) \cup {y.req : y \in Range(d)} :
                                                 x.epoch # e}} : s[r] = "IoQueued"}

(* What a new epoch leaves of the reads: what it drops, and nothing else,
   is IoQueued no more. *)
LEMMA FreshReads ==
  ASSUME NEW p \in Seq(Requests), NEW d \in Seq(Deliveries), NEW e \in Nat,
         NEW s, NEW w, Reads(s, p, w, d),
         NEW s2, \A r \in Res : s2[r] = IF r \in Stale(p, d, s, e) THEN "Unloaded" ELSE s[r]
  PROVE  /\ Reads(s2, Fresh(p, e), w, FreshReady(d, e))
         /\ Fresh(p, e) \in Seq(Requests) /\ FreshReady(d, e) \in Seq(Deliveries)
<1> DEFINE drop == Stale(p, d, s, e)
           p2 == Fresh(p, e)
           d2 == FreshReady(d, e)
           P == KeysOf(p, ByRes)
           W == KeysOf(w, ByRes)
           D == KeysOf(d, ByReq)
           P2 == KeysOf(p2, ByRes)
           D2 == KeysOf(d2, ByReq)
<1>1. /\ w # <<>> => Tail(w) = <<>>
      /\ Once(p, ByRes) /\ Once(w, ByRes) /\ Once(d, ByReq)
      /\ P \cap W = {} /\ P \cap D = {} /\ W \cap D = {}
      /\ \A r \in Res : s[r] = "IoQueued" <=> r \in P \/ r \in W \/ r \in D
  BY DEF Reads
<1>2. /\ p2 \in Seq(Requests) /\ Range(p2) = {x \in Range(p) : x.epoch = e} /\ Once(p2, ByRes)
  <2> DEFINE S == {x \in Range(p) : x.epoch = e}
  <2>1. /\ Keep(p, S) \in Seq(Requests) /\ Range(Keep(p, S)) = Range(p) \cap S
        /\ Once(p, ByRes) => Once(Keep(p, S), ByRes)
    BY KeepIs
  <2>2. p2 = Keep(p, S) /\ Range(p) \cap S = S
    BY DEF Fresh
  <2> HIDE DEF p2, P, W, D
  <2> QED
    BY <1>1, <2>1, <2>2
<1>3. /\ d2 \in Seq(Deliveries) /\ Range(d2) = {x \in Range(d) : x.req.epoch = e}
      /\ Once(d2, ByReq)
  <2> DEFINE S == {x \in Range(d) : x.req.epoch = e}
  <2>1. /\ Keep(d, S) \in Seq(Deliveries) /\ Range(Keep(d, S)) = Range(d) \cap S
        /\ Once(d, ByReq) => Once(Keep(d, S), ByReq)
    BY KeepIs
  <2>2. d2 = Keep(d, S) /\ Range(d) \cap S = S
    BY DEF FreshReady
  <2> HIDE DEF d2, P, W, D
  <2> QED
    BY <1>1, <2>1, <2>2
<1>4. /\ P = {x.res : x \in Range(p)} /\ D = {x.req.res : x \in Range(d)}
      /\ P2 = {x.res : x \in Range(p2)} /\ D2 = {x.req.res : x \in Range(d2)}
  BY <1>2, <1>3, KeysAre
<1> HIDE DEF p2, d2
<1>5. P2 \subseteq P /\ D2 \subseteq D
  BY <1>2, <1>3, <1>4
<1>6. Range(p) \subseteq Requests /\ Range(d) \subseteq Deliveries
  BY RangeIs
<1>7. ASSUME NEW r \in Res, r \in P, r \notin P2
      PROVE  r \in drop
  <2>1. PICK x \in Range(p) : x.res = r
    BY <1>4, <1>7
  <2>2. x.epoch # e
    BY <1>2, <1>4, <1>7, <2>1
  <2>3. s[r] = "IoQueued"
    BY <1>1, <1>7
  <2> QED
    BY <2>1, <2>2, <2>3 DEF Stale
<1>8. ASSUME NEW r \in Res, r \in D, r \notin D2
      PROVE  r \in drop
  <2>1. PICK x \in Range(d) : x.req.res = r
    BY <1>4, <1>8
  <2>2. x.req.epoch # e
    BY <1>3, <1>4, <1>8, <2>1
  <2>3. s[r] = "IoQueued"
    BY <1>1, <1>8
  <2> QED
    BY <2>1, <2>2, <2>3 DEF Stale
<1>9. ASSUME NEW r \in drop
      PROVE  /\ r \in P \/ r \in D
             /\ r \notin P2 /\ r \notin D2 /\ r \notin W
  <2>1. \/ \E x \in Range(p) : x.res = r /\ x.epoch # e
        \/ \E y \in Range(d) : y.req.res = r /\ y.req.epoch # e
    BY <1>9 DEF Stale
  <2>2. CASE \E x \in Range(p) : x.res = r /\ x.epoch # e
    <3>1. PICK x \in Range(p) : x.res = r /\ x.epoch # e
      BY <2>2
    <3>2. r \in P /\ r \notin W /\ r \notin D
      BY <1>1, <1>4, <3>1
    <3>3. ASSUME r \in P2
          PROVE  FALSE
      <4>1. PICK z \in Range(p) : z.res = r /\ z.epoch = e
        BY <1>2, <1>4, <3>3
      <4>2. ByRes[x] = r /\ ByRes[z] = r
        BY <1>6, <3>1, <4>1 DEF ByRes
      <4>3. x = z
        BY <1>1, <4>2, OnceUnique
      <4> QED
        BY <3>1, <4>1, <4>3
    <3> QED
      BY <1>5, <3>2, <3>3
  <2>3. CASE \E y \in Range(d) : y.req.res = r /\ y.req.epoch # e
    <3>1. PICK x \in Range(d) : x.req.res = r /\ x.req.epoch # e
      BY <2>3
    <3>2. r \in D /\ r \notin W /\ r \notin P
      BY <1>1, <1>4, <3>1
    <3>3. ASSUME r \in D2
          PROVE  FALSE
      <4>1. PICK z \in Range(d) : z.req.res = r /\ z.req.epoch = e
        BY <1>3, <1>4, <3>3
      <4>2. ByReq[x] = r /\ ByReq[z] = r
        BY <1>6, <3>1, <4>1 DEF ByReq
      <4>3. x = z
        BY <1>1, <4>2, OnceUnique
      <4> QED
        BY <3>1, <4>1, <4>3
    <3> QED
      BY <1>5, <3>2, <3>3
  <2> QED
    BY <2>1, <2>2, <2>3
<1> HIDE DEF P, W, D, P2, D2, drop
<1>10. ASSUME NEW r \in Res
       PROVE  s2[r] = "IoQueued" <=> r \in P2 \/ r \in W \/ r \in D2
  <2>1. s2[r] = "IoQueued" <=> r \notin drop /\ (r \in P \/ r \in W \/ r \in D)
    BY <1>1 DEF drop
  <2> QED
    BY <1>5, <1>7, <1>8, <1>9, <2>1
<1>11. P2 \cap W = {} /\ P2 \cap D2 = {} /\ W \cap D2 = {}
  BY <1>1, <1>5
<1>12. Reads(s2, p2, w, d2)
  BY <1>1, <1>2, <1>3, <1>10, <1>11 DEF Reads, P2, W, D2
<1> QED
  BY <1>2, <1>3, <1>12 DEF p2, d2

(* A new epoch gives back the bytes of all it drops. *)
LEMMA CancelKeeps ==
  ASSUME NEW g, Sound(g, ready), g.pending = pending, ready \in Seq(Deliveries), NEW e \in Nat
  PROVE  /\ Sound(Cancel(g, e), FreshReady(ready, e)) /\ FreshReady(ready, e) \in Seq(Deliveries)
         /\ Cancel(g, e).reserved <= g.reserved
<1> DEFINE stale == {q \in Range(pending) \cup {x.req : x \in Range(ready)} : q.epoch # e}
           drop == {r \in {q.res : q \in stale} : g.st[r] = "IoQueued"}
           s == [r \in Res |-> IF r \in drop THEN "Unloaded" ELSE g.st[r]]
           m == Minus(g.reserved, BytesOf(drop))
           p == Fresh(pending, e)
           d == FreshReady(ready, e)
           n == Cancel(g, e)
<1>1. /\ g \in GameSides /\ g.st \in [Res -> ResourceStates] /\ pending \in Seq(Requests)
      /\ Sums(g.st, g.reserved, gpu) /\ Reads(g.st, pending, working, ready)
      /\ Queued(g.st, g.evictQ, "EvictQueued") /\ Queued(g.st, commitQ, "CommitPending")
      /\ Queued(g.st, inFlight, "RemovalInFlight") /\ g.readmit \subseteq Range(inFlight)
      /\ Agrees(g.st, planner.resident) /\ Harmless(g.st, list)
  BY DEF Sound, GameSides
<1>2. drop \subseteq Res
  <2>1. Range(pending) \subseteq Requests /\ Range(ready) \subseteq Deliveries
    BY <1>1, RangeIs
  <2> QED
    BY <2>1 DEF Requests, Deliveries
<1>3. Reads(s, p, working, d) /\ p \in Seq(Requests) /\ d \in Seq(Deliveries)
  <2>1. drop = Stale(pending, ready, g.st, e)
    BY DEF Stale
  <2>2. \A r \in Res : s[r] = IF r \in drop THEN "Unloaded" ELSE g.st[r]
    OBVIOUS
  <2> HIDE DEF s, drop
  <2>3. \A r \in Res : s[r] = IF r \in Stale(pending, ready, g.st, e) THEN "Unloaded" ELSE g.st[r]
    BY <2>1, <2>2
  <2> QED
    BY <1>1, <2>3, FreshReads
<1>4. \A r \in drop : g.st[r] = "IoQueued"
  OBVIOUS
<1>5. n = [g EXCEPT !.st = s, !.reserved = m, !.pending = p]
  BY <1>1 DEF Cancel, Fresh, GameSides
<1> HIDE DEF drop
<1>6. /\ s \in [Res -> ResourceStates]
      /\ \A r \in Res : s[r] = IF r \in drop THEN "Unloaded" ELSE g.st[r]
  BY <1>1 DEF ResourceStates
<1> HIDE DEF s, d, p
<1>7. /\ Queued(s, g.evictQ, "EvictQueued") /\ Queued(s, commitQ, "CommitPending")
      /\ Queued(s, inFlight, "RemovalInFlight")
  BY <1>1, <1>4, <1>6 DEF Queued
<1>8. Agrees(s, planner.resident)
  BY <1>1, <1>4, <1>6 DEF Agrees, HasBuffers
<1>9. Harmless(s, list)
  BY <1>1, <1>4, <1>6 DEF Harmless, HasBuffers
<1>10. Sums(s, m, gpu)
  <2>1. BytesOf(Those(s, HoldsBytes)) = m
    <3>1. \A r \in drop : g.st[r] \in HoldsBytes /\ s[r] \notin HoldsBytes
      BY <1>2, <1>4, <1>6 DEF HoldsBytes, HasBuffers
    <3>2. \A r \in Res \ drop : (s[r] \in HoldsBytes) = (g.st[r] \in HoldsBytes)
      BY <1>6
    <3> QED
      BY <1>1, <1>2, <3>1, <3>2, SumsDrop
  <2>2. Those(s, HasBuffers) = Those(g.st, HasBuffers)
    BY <1>2, <1>4, <1>6 DEF Those, HasBuffers
  <2> QED
    BY <1>1, <2>1, <2>2 DEF Sums
<1>11. m \in Nat /\ g.reserved \in Nat /\ BytesOf(drop) \in Nat
  BY <1>1, <1>2, <1>10, SumsTyped, UnitsAre
<1>12. m <= g.reserved
  <2> DEFINE a == g.reserved
             b == BytesOf(drop)
  <2>1. m = Minus(a, b) /\ a \in Nat /\ b \in Nat
    BY <1>11
  <2> HIDE DEF a, b, m
  <2>2. m <= a
    BY <2>1 DEF Minus
  <2> QED
    BY <2>2 DEF a
<1> HIDE DEF m, n
<1>13. /\ n.st = s /\ n.pending = p /\ n.reserved = m /\ n.readmit = g.readmit
       /\ n.evictQ = g.evictQ /\ n \in GameSides
  BY <1>1, <1>3, <1>5, <1>6, <1>11 DEF GameSides
<1>14. Sound(n, d)
  BY <1>1, <1>3, <1>7, <1>8, <1>9, <1>10, <1>13 DEF Sound
<1> QED
  BY <1>3, <1>12, <1>13, <1>14 DEF n, d

GrantAt(f, first, l, e, closed, i) ==
  IF i = 0 THEN first ELSE Take(f[i - 1], l[i], e, i < closed)

(* The recursive function in Plan is a function, whenever readyBytes reaches its limit. *)
LEMMA GrantedExists ==
  ASSUME NEW l, Len(l) \in Nat, NEW first, NEW e, NEW closed
  PROVE  \E f : f = [i \in 0..Len(l) |-> GrantAt(f, first, l, e, closed, i)]
<1> DEFINE Upto(n) == \E f : f = [i \in 0..n |-> GrantAt(f, first, l, e, closed, i)]
           T == {n \in Nat : Upto(n)}
<1>1. Upto(0)
  <2> DEFINE f == [i \in 0..0 |-> first]
  <2>1. f = [i \in 0..0 |-> GrantAt(f, first, l, e, closed, i)]
    BY DEF GrantAt
  <2> QED
    BY <2>1
<1>2. ASSUME NEW n \in Nat, Upto(n)
      PROVE  Upto(n + 1)
  <2>1. PICK f : f = [i \in 0..n |-> GrantAt(f, first, l, e, closed, i)]
    BY <1>2
  <2> DEFINE z == Take(f[n], l[n + 1], e, n + 1 < closed)
             g == [i \in 0..(n + 1) |-> IF i = n + 1 THEN z ELSE f[i]]
  <2>2. ASSUME NEW i \in 0..(n + 1)
        PROVE  g[i] = GrantAt(g, first, l, e, closed, i)
    <3>1. CASE i = n + 1
      <4>1. i # 0 /\ g[i] = z /\ i - 1 = n /\ g[i - 1] = f[n]
        BY <3>1
      <4> QED
        BY <3>1, <4>1 DEF GrantAt
    <3>2. CASE i = 0
      <4>1. i \in 0..n /\ i # n + 1 /\ g[i] = f[i]
        BY <3>2
      <4>2. f[i] = first
        BY <2>1, <3>2, <4>1 DEF GrantAt
      <4> QED
        BY <3>2, <4>1, <4>2 DEF GrantAt
    <3>3. CASE i # 0 /\ i # n + 1
      <4>1. i \in 0..n /\ i - 1 \in 0..n /\ i - 1 # n + 1 /\ g[i] = f[i] /\ g[i - 1] = f[i - 1]
        BY <3>3
      <4>2. f[i] = GrantAt(f, first, l, e, closed, i)
        BY <2>1, <4>1
      <4> QED
        BY <3>3, <4>1, <4>2 DEF GrantAt
    <3> QED
      BY <3>1, <3>2, <3>3
  <2> HIDE DEF z
  <2>3. g = [i \in 0..(n + 1) |-> GrantAt(g, first, l, e, closed, i)]
    BY <2>2
  <2> QED
    BY <2>3
<1> HIDE DEF Upto
<1>3. Nat \subseteq T
  <2>1. 0 \in T
    BY <1>1
  <2>2. \A n \in Nat : n \in T => n + 1 \in T
    BY <1>2
  <2> HIDE DEF T
  <2> QED
    BY <2>1, <2>2, StepByStep
<1> QED
  BY <1>3 DEF Upto

(* Granted is that function. *)
LEMMA GrantedUnfolds ==
  ASSUME NEW l, Len(l) \in Nat, NEW first, NEW e, NEW closed
  PROVE  LET f == Granted(first, l, e, closed)
         IN f = [i \in 0..Len(l) |-> GrantAt(f, first, l, e, closed, i)]
<1> DEFINE k == CHOOSE f : f = [i \in 0..Len(l) |-> GrantAt(f, first, l, e, closed, i)]
<1>1. Granted(first, l, e, closed) = k
  BY DEF Granted, GrantAt
<1>2. k = [i \in 0..Len(l) |-> GrantAt(k, first, l, e, closed, i)]
  BY GrantedExists
<1> HIDE DEF k
<1> QED
  BY <1>1, <1>2

(* The requests of a plan, granted one by one, keep the game in step and
   within the cap. *)
LEMMA GrantedKeeps ==
  ASSUME NEW l, Asks(l, planner.resident), NEW first, NEW d, Sound(first, d), NEW e \in Nat,
         NEW closed, cap \in Nat, NEW f, f = [i \in 0..Len(l) |-> GrantAt(f, first, l, e, closed, i)]
  PROVE  LET last == f[Len(l)]
         IN Sound(last, d) /\ (last.reserved <= first.reserved \/ last.reserved <= cap)
<1>1. l \in Seq(Offers) /\ \A x \in Range(l) : x.do = "evict" => x.res \in planner.resident
  BY DEF Asks
<1>2. /\ Len(l) \in Nat /\ \A i \in 1..Len(l) : l[i] \in Offers /\ l[i] \in Range(l)
  BY <1>1, RangeIs, ElementOfSeq
<1> DEFINE n == Len(l)
           ok(x) == Sound(x, d) /\ (x.reserved <= first.reserved \/ x.reserved <= cap)
           I == {i \in Nat : i <= n => ok(f[i])}
<1>3. first.reserved \in Nat
  BY DEF Sound, GameSides
<1>4. Nat \subseteq I
  <2>1. 0 \in I
    <3>1. f[0] = first
      BY <1>2 DEF GrantAt
    <3> QED
      BY <1>3, <3>1
  <2>2. ASSUME NEW i \in Nat, i \in I, i + 1 <= n
        PROVE  ok(f[i + 1])
    <3>1. i + 1 \in 0..n /\ i + 1 # 0 /\ (i + 1) - 1 = i /\ i <= n /\ i + 1 \in 1..n
      BY <1>2, <2>2
    <3> DEFINE q == l[i + 1]
               a == f[i]
               b == f[i + 1]
    <3>2. b = Take(a, q, e, i + 1 < closed)
      BY <3>1 DEF GrantAt
    <3>3. ok(a) /\ q \in Offers /\ (q.do = "evict" => q.res \in planner.resident)
      BY <1>1, <1>2, <2>2, <3>1
    <3> HIDE DEF a, b, q
    <3>4. Sound(b, d) /\ (b.reserved <= a.reserved \/ b.reserved <= cap)
      BY <3>2, <3>3, TakeKeeps
    <3>5. a.reserved \in Nat /\ b.reserved \in Nat
      BY <3>3, <3>4 DEF Sound, GameSides
    <3>6. b.reserved <= first.reserved \/ b.reserved <= cap
      <4> DEFINE x == a.reserved
                 y == b.reserved
                 z == first.reserved
      <4>1. x \in Nat /\ y \in Nat /\ z \in Nat /\ (y <= x \/ y <= cap) /\ (x <= z \/ x <= cap)
        BY <1>3, <3>3, <3>4, <3>5
      <4> HIDE DEF x, y, z
      <4>2. y <= z \/ y <= cap
        BY <4>1
      <4> QED
        BY <4>2 DEF y, z
    <3> QED
      BY <3>4, <3>6 DEF b
  <2>3. \A i \in Nat : i \in I => i + 1 \in I
    BY <2>2
  <2> HIDE DEF I
  <2> QED
    BY <2>1, <2>3, StepByStep
<1> QED
  BY <1>2, <1>4

(* The game now, as the requests find it.                                  *)
Now == [st |-> st, reserved |-> reserved, readmit |-> readmit, evictQ |-> evictQ,
        pending |-> pending]

(* The game as it is now. *)
LEMMA SoundNow ==
  ASSUME StreamInv
  PROVE  /\ Sound(Now, ready) /\ Now.st = st /\ Now.reserved = reserved /\ Now.readmit = readmit
         /\ Now.evictQ = evictQ /\ Now.pending = pending /\ ready \in Seq(Deliveries)
<1>1. /\ st \in [Res -> ResourceStates] /\ reserved \in Nat /\ readmit \in SUBSET Res
      /\ evictQ \in Seq(Res) /\ pending \in Seq(Requests) /\ ready \in Seq(Deliveries)
  BY DEF StreamInv, StreamTypeOK, Deliveries
<1>2. /\ Now.st = st /\ Now.reserved = reserved /\ Now.readmit = readmit
      /\ Now.evictQ = evictQ /\ Now.pending = pending
  BY DEF Now
<1>3. Now \in GameSides
  BY <1>1 DEF Now, GameSides
<1> QED
  BY <1>1, <1>2, <1>3 DEF Sound, StreamInv, Matched

(* No step outgrows the cap.                                               *)
Grows == reserved' > reserved => reserved' <= cap'

(* Types of what the operations read. *)
LEMMA TypesNow ==
  ASSUME StreamInv
  PROVE  /\ cap \in Nat /\ epoch \in Nat /\ {reserved, gpu} \subseteq Nat
         /\ Plans(planner) /\ todo \in Seq(Operations \cup {"drain"})
<1>1. cap \in Nat /\ epoch \in Nat /\ {reserved, gpu} \subseteq Nat
  BY ResidencyAssumption DEF StreamInv, StreamTypeOK
<1>2. todo \in Seq(Operations \cup {"drain"})
  <2>1. CASE phase = "drain"
    <3>1. todo \in {<<>>, <<"drain">>}
      BY <2>1 DEF StreamInv, Draining
    <3>2. <<>> \in Seq(Operations \cup {"drain"}) /\ <<"drain">> \in Seq(Operations \cup {"drain"})
      OBVIOUS
    <3> QED
      BY <3>1, <3>2
  <2>2. CASE phase # "drain"
    <3>1. todo \in Seq(Operations)
      BY <2>2 DEF StreamInv, Draining
    <3> QED
      BY <3>1, SeqMonotonic
  <2> QED
    BY <2>1, <2>2
<1> QED
  BY <1>1, <1>2 DEF StreamInv

-----------------------------------------------------------------------------
(* The operations.                                                         *)

(* An operation of a frame is not the drain. *)
LEMMA Playing ==
  ASSUME StreamInv, NEW op, Doing(op), op # "drain"
  PROVE  /\ phase # "drain" /\ todo # <<>> /\ todo \in Seq(Operations)
         /\ Head(todo) = op /\ Tail(todo) \in Seq(Operations)
<1>1. todo # <<>> /\ Head(todo) = op
  BY DEF Doing
<1>2. phase # "drain"
  <2> SUFFICES ASSUME phase = "drain"
               PROVE  FALSE
    OBVIOUS
  <2>1. todo = <<"drain">>
    BY <1>1 DEF StreamInv, Draining
  <2> QED
    BY <1>1, <2>1
<1>3. todo \in Seq(Operations)
  BY <1>2 DEF StreamInv, Draining
<1>4. Tail(todo) \in Seq(Operations)
  BY <1>1, <1>3, HeadTailProperties
<1> QED
  BY <1>1, <1>2, <1>3, <1>4

(* A plan that came to g, in time or not, keeps the game in step.          *)
LEMMA PlannedKeeps ==
  ASSUME StreamInv, NEW g, Sound(g, ready'), ready' \in Seq(Deliveries),
         g.reserved <= reserved \/ g.reserved <= cap,
         st' = g.st, reserved' = g.reserved, readmit' = g.readmit, evictQ' = g.evictQ,
         pending' = g.pending, Plans(planner'), planner'.resident = planner.resident,
         epoch' \in Nat, late' \in {"none", "update", "plan"}, Doing("plan"), OpDone,
         UNCHANGED <<session, gpu, idle, budget, inFlight, commitQ, refused, frozen, working,
                     list, faults>>
  PROVE  StreamInv' /\ Grows
<1>1. g \in GameSides /\ g.reserved \in Nat
  BY DEF Sound, GameSides
<1>2. StreamTypeOK'
  <2>1. /\ st' \in [Res -> ResourceStates] /\ readmit' \subseteq Res /\ reserved' \in Nat
        /\ evictQ' \in Seq(Res) /\ pending' \in Seq(Requests)
    BY <1>1 DEF GameSides
  <2>2. planner'.resident \subseteq Res /\ planner'.unavailable \subseteq Res
    BY DEF Plans
  <2>3. ready' \in Seq([req : Requests, ok : BOOLEAN])
    BY DEF Deliveries
  <2>4. UNCHANGED <<phase, left, pos, exterior, moves, gpu, idle, cap, lower, inFlight, commitQ,
                    refused, frozen, working>>
    BY DEF session, budget
  <2> QED
    BY <2>1, <2>2, <2>3, <2>4 DEF StreamInv, StreamTypeOK
<1>3. Matched'
  BY DEF Sound, Matched
<1>4. Agrees(st', planner'.resident) /\ Harmless(st', list')
  BY DEF Sound
<1>5. Draining'
  <2>1. phase # "drain" /\ Tail(todo) \in Seq(Operations)
    BY Playing
  <2> QED
    BY <2>1 DEF Draining, OpDone, session
<1>6. list' \in Seq(Commits)
  BY DEF StreamInv
<1>7. Grows
  <2>1. cap' = cap /\ cap \in Nat /\ reserved \in Nat /\ reserved' \in Nat
    BY <1>1, TypesNow DEF budget
  <2> QED
    BY <2>1 DEF Grows
<1> QED
  BY <1>2, <1>3, <1>4, <1>5, <1>6, <1>7 DEF StreamInv

(* A plan, in time or late, in this epoch or a new one. *)
LEMMA PlanKeeps ==
  ASSUME StreamInv, NEW heading, Plan(heading)
  PROVE  StreamInv' /\ Grows
<1> DEFINE new == Cell(pos) # cell
           e == IF new THEN epoch + 1 ELSE epoch
           g1 == IF new THEN Cancel(Now, e) ELSE Now
           free == IF cap > g1.reserved THEN cap - g1.reserved ELSE 0
           debt == IF g1.reserved > cap THEN g1.reserved - cap ELSE 0
           reply == PlanResidency(planner, e, pos, exterior, heading, cap, free, debt)
           granted(c) == Granted(g1, reply.plan, e, c)
           Becomes(g) == /\ st' = g.st /\ reserved' = g.reserved /\ readmit' = g.readmit
                         /\ evictQ' = g.evictQ /\ pending' = g.pending
<1>1. /\ Doing("plan") /\ OpDone /\ epoch' = e
      /\ ready' = IF new THEN FreshReady(ready, e) ELSE ready
      /\ UNCHANGED <<session, gpu, idle, budget, inFlight, commitQ, refused, frozen, working,
                     list, faults>>
  BY DEF Plan, FreshReady
<1>2. \/ /\ late = "none" /\ planner' = reply.h /\ late' = late
         /\ \E c : Becomes(granted(c)[Len(reply.plan)])
      \/ late' = "plan" /\ planner' = reply.h /\ Becomes(g1)
      \/ Becomes(g1) /\ planner' = planner /\ late' = late
  BY ZenonT(60) DEF Plan, Now
<1>3. e \in Nat /\ cap \in Nat /\ reserved \in Nat /\ Plans(planner)
  BY TypesNow
<1>4. Sound(g1, ready') /\ ready' \in Seq(Deliveries) /\ g1.reserved <= reserved
  <2>1. /\ Sound(Now, ready) /\ Now.reserved = reserved /\ Now.pending = pending
        /\ ready \in Seq(Deliveries)
    BY SoundNow
  <2>2. CASE new
    <3>1. /\ Sound(Cancel(Now, e), FreshReady(ready, e)) /\ Cancel(Now, e).reserved <= reserved
          /\ FreshReady(ready, e) \in Seq(Deliveries)
      BY <1>3, <2>1, CancelKeeps
    <3> QED
      BY <1>1, <2>2, <3>1
  <2>3. CASE ~new
    BY <1>1, <1>3, <2>1, <2>3
  <2> QED
    BY <2>2, <2>3
<1> HIDE DEF new, e, g1, free, debt
<1>5. Plans(reply.h) /\ Same(reply.h, planner) /\ Asks(reply.plan, planner.resident)
  BY <1>3, PlanResidencyKeeps
<1> HIDE DEF reply
<1>6. ASSUME NEW c
      PROVE  LET g2 == granted(c)[Len(reply.plan)]
             IN Sound(g2, ready') /\ (g2.reserved <= reserved \/ g2.reserved <= cap)
  <2> DEFINE f == granted(c)
             g2 == f[Len(reply.plan)]
  <2>1. Len(reply.plan) \in Nat
    BY <1>5, LenProperties DEF Asks
  <2>2. f = [i \in 0..Len(reply.plan) |-> GrantAt(f, g1, reply.plan, e, c, i)]
    BY <2>1, GrantedUnfolds
  <2> HIDE DEF f
  <2>3. Sound(g2, ready') /\ (g2.reserved <= g1.reserved \/ g2.reserved <= cap)
    BY <1>3, <1>4, <1>5, <2>2, GrantedKeeps
  <2>4. g1.reserved \in Nat /\ g2.reserved \in Nat
    BY <1>4, <2>3 DEF Sound, GameSides
  <2> DEFINE x == g1.reserved
             y == g2.reserved
  <2>5. x \in Nat /\ y \in Nat /\ x <= reserved /\ (y <= x \/ y <= cap)
    BY <1>4, <2>3, <2>4
  <2> HIDE DEF x, y
  <2>6. y <= reserved \/ y <= cap
    BY <1>3, <2>5
  <2> QED
    BY <2>3, <2>6 DEF y, f
<1> HIDE DEF granted
<1>7. late' \in {"none", "update", "plan"}
  BY <1>2 DEF StreamInv, StreamTypeOK
<1>8. Plans(planner') /\ planner'.resident = planner.resident
  BY <1>2, <1>3, <1>5 DEF Same
<1>9. CASE Becomes(g1)
  BY <1>1, <1>3, <1>4, <1>7, <1>8, <1>9, PlannedKeeps
<1>10. CASE \E c : Becomes(granted(c)[Len(reply.plan)])
  <2>1. PICK c : Becomes(granted(c)[Len(reply.plan)])
    BY <1>10
  <2> DEFINE g2 == granted(c)[Len(reply.plan)]
  <2>2. Sound(g2, ready') /\ (g2.reserved <= reserved \/ g2.reserved <= cap) /\ Becomes(g2)
    BY <1>6, <2>1
  <2> HIDE DEF g2
  <2> QED
    BY <1>1, <1>3, <1>4, <1>7, <1>8, <2>2, PlannedKeeps
<1> QED
  BY <1>2, <1>9, <1>10

(* The catalog, its queues and the host stay as they are.                  *)
LEMMA StillInStep ==
  ASSUME StreamInv, UNCHANGED <<ledger, queues, io, planner, list>>,
         phase' \in {"drain", "boot", "play", "failed"}, left' \in 0..AdmitRes, pos' \in Places,
         moves' \in 0..MaxMoves, lower' \in 0..(Samples - 1), cap' \in Candidates \cup FirstCaps,
         {idle', exterior'} \subseteq BOOLEAN, epoch' \in Nat,
         late' \in {"none", "update", "plan"}, Draining'
  PROVE  StreamInv' /\ Grows
<1>1. UNCHANGED <<st, reserved, gpu, readmit, evictQ, inFlight, commitQ, refused, frozen, pending,
                  working, ready, planner, list>>
  BY DEF ledger, queues, io
<1>2. StreamTypeOK'
  <2>1. {reserved, gpu} \subseteq Nat /\ frozen \in BOOLEAN /\ st \in [Res -> ResourceStates]
    BY DEF StreamInv, StreamTypeOK
  <2>2. /\ readmit \subseteq Res /\ \A q \in {evictQ, inFlight, commitQ} : q \in Seq(Res)
        /\ \A q \in {pending, working} : q \in Seq(Requests)
        /\ ready \in Seq([req : Requests, ok : BOOLEAN])
        /\ planner.resident \subseteq Res /\ planner.unavailable \subseteq Res
    BY DEF StreamInv, StreamTypeOK
  <2> QED
    BY <1>1, <2>1, <2>2 DEF StreamTypeOK
<1>3. Matched' /\ Agrees(st', planner'.resident) /\ Harmless(st', list')
  BY <1>1 DEF StreamInv, Matched
<1>4. Plans(planner') /\ list' \in Seq(Commits)
  BY <1>1 DEF StreamInv
<1>5. Grows
  BY <1>1, TypesNow DEF Grows
<1> QED
  BY <1>2, <1>3, <1>4, <1>5 DEF StreamInv

(* Types of what most operations leave alone. *)
LEMMA TypedNow ==
  ASSUME StreamInv
  PROVE  /\ phase \in {"drain", "boot", "play", "failed"} /\ left \in 0..AdmitRes /\ pos \in Places
         /\ moves \in 0..MaxMoves /\ lower \in 0..(Samples - 1)
         /\ cap \in Candidates \cup FirstCaps /\ {idle, exterior} \subseteq BOOLEAN
         /\ epoch \in Nat /\ late \in {"none", "update", "plan"}
BY DEF StreamInv, StreamTypeOK

(* The operations left are operations of a frame. *)
LEMMA OperationEnds ==
  ASSUME StreamInv, NEW op, Doing(op), op # "drain", phase' # "drain",
         todo' = <<>> \/ todo' = Tail(todo) \/ todo' = todo
  PROVE  Draining'
<1>1. todo \in Seq(Operations) /\ Tail(todo) \in Seq(Operations) /\ <<>> \in Seq(Operations)
  BY Playing, OnceNone
<1> QED
  BY <1>1 DEF Draining

(* A skipped operation changes nothing else. *)
LEMMA SkipKeeps ==
  ASSUME StreamInv, NEW op, op # "drain", Skip(op)
  PROVE  StreamInv' /\ Grows
<1>1. /\ UNCHANGED <<ledger, queues, io, planner, list>>
      /\ UNCHANGED <<phase, left, pos, moves, lower, cap, idle, exterior, epoch, late>>
  BY DEF Skip, session, plan, budget, rpc
<1>2. Draining'
  <2>1. phase # "drain" /\ Doing(op) /\ todo' = Tail(todo)
    BY Playing DEF Skip, OpDone
  <2> QED
    BY <1>1, <2>1, OperationEnds
<1> QED
  BY <1>1, <1>2, TypedNow, StillInStep

(* A frame begins. *)
LEMMA FrameKeeps ==
  ASSUME StreamInv, Frame
  PROVE  StreamInv' /\ Grows
<1>1. /\ UNCHANGED <<ledger, queues, io, planner, list>>
      /\ UNCHANGED <<phase, left, pos, moves, lower, cap, idle, exterior, epoch, late>>
  BY DEF Frame, session, plan, budget, rpc
<1>2. UNCHANGED <<st, cap, phase>>
  BY <1>1 DEF ledger
<1>3. Draining'
  <2>1. CASE phase = "drain"
    <3>1. todo' = <<"drain">>
      BY <2>1 DEF Frame
    <3> QED
      BY <1>2, <2>1, <3>1 DEF StreamInv, Draining
  <2>2. CASE phase # "drain"
    <3>1. /\ Boot \in Seq(Operations) /\ Stage0Frame \in Seq(Operations)
          /\ MenuFrame \in Seq(Operations)
      BY DEF Boot, Stage0Frame, MenuFrame, Operations
    <3>2. todo' \in Seq(Operations)
      BY <2>2, <3>1 DEF Frame
    <3> QED
      BY <1>2, <2>2, <3>2 DEF Draining
  <2> QED
    BY <2>1, <2>2
<1> QED
  BY <1>1, <1>3, TypedNow, StillInStep

(* The player moves, or a save is loaded. *)
LEMMA MoveKeeps ==
  ASSUME StreamInv, Move
  PROVE  StreamInv' /\ Grows
<1>1. /\ UNCHANGED <<ledger, queues, io, planner, list>>
      /\ UNCHANGED <<phase, todo, left, lower, cap, idle, epoch, late>>
  BY DEF Move, budget, rpc
<1>2. pos' \in Places /\ exterior' \in BOOLEAN /\ moves' \in 0..MaxMoves
  <2>1. pos \in Places /\ exterior \in BOOLEAN /\ moves \in 0..MaxMoves
    BY TypedNow
  <2>2. moves' = moves + 1 /\ moves < MaxMoves
    BY DEF Move
  <2>3. MaxMoves \in Nat
    BY ResidencyAssumption
  <2>4. moves' \in 0..MaxMoves
    BY <2>1, <2>2, <2>3
  <2> QED
    BY <2>1, <2>4 DEF Move
<1>3. Draining'
  <2>1. phase = "play"
    BY DEF Move
  <2> QED
    BY <1>1, <2>1 DEF StreamInv, Draining
<1> QED
  BY <1>1, <1>2, <1>3, TypedNow, StillInStep

(* A sample of the memory budget: the cap may fall below what is held,
   but nothing grows. *)
LEMMA SampleKeeps ==
  ASSUME StreamInv, Sample
  PROVE  StreamInv' /\ Grows
<1>1. /\ UNCHANGED <<ledger, queues, io, planner, list>>
      /\ UNCHANGED <<phase, left, pos, moves, exterior, late>>
  BY DEF Sample, session, rpc
<1>2. epoch' \in Nat /\ idle' \in BOOLEAN /\ cap' \in Candidates \cup FirstCaps
      /\ lower' \in 0..(Samples - 1)
  <2>1. CASE UNCHANGED <<budget, plan>>
    BY <2>1, TypedNow DEF budget, plan
  <2>2. ASSUME NEW c \in Candidates, Resample(c)
        PROVE  epoch' \in Nat /\ idle' \in BOOLEAN /\ cap' \in Candidates \cup FirstCaps
               /\ lower' \in 0..(Samples - 1)
    <3>1. Samples \in Nat \ {0} /\ lower \in 0..(Samples - 1)
      BY TypedNow, ResidencyAssumption
    <3>2. epoch' = epoch /\ (idle' = idle \/ idle' = FALSE) /\ (cap' = cap \/ cap' = c)
      BY <2>2 DEF Resample, plan
    <3>3. lower' = 0 \/ (lower' = lower + 1 /\ lower + 1 < Samples)
      BY <2>2 DEF Resample
    <3>4. lower' \in 0..(Samples - 1)
      BY <3>1, <3>3
    <3> QED
      BY <3>2, <3>4, TypedNow
  <2> QED
    BY <2>1, <2>2 DEF Sample
<1>3. Draining'
  <2>1. Doing("sample") /\ (todo' = <<>> \/ todo' = Tail(todo))
    BY DEF Sample
  <2>2. phase' # "drain"
    BY <1>1, <2>1, Playing
  <2> QED
    BY <2>1, <2>2, OperationEnds
<1> QED
  BY <1>1, <1>2, <1>3, TypedNow, StillInStep

(* The bootstrap settles, or is given up. *)
LEMMA SettleKeeps ==
  ASSUME StreamInv, Settle \/ BootTimeout
  PROVE  StreamInv' /\ Grows
<1>1. /\ UNCHANGED <<ledger, queues, io, planner, list>>
      /\ UNCHANGED <<left, pos, moves, exterior, lower, cap, idle, epoch, late>>
      /\ Doing("settle") /\ todo' = Tail(todo) /\ (phase' = phase \/ phase' = "play")
  BY DEF Settle, BootTimeout, plan, budget, rpc, OpDone
<1>2. phase # "drain"
  BY <1>1, Playing
<1>3. Draining'
  BY <1>1, <1>2, OperationEnds
<1>4. phase' \in {"drain", "boot", "play", "failed"}
  BY <1>1, TypedNow
<1> QED
  BY <1>1, <1>3, <1>4, TypedNow, StillInStep

(* An admission tick ends. *)
LEMMA AdmitDoneKeeps ==
  ASSUME StreamInv, AdmitDone
  PROVE  StreamInv' /\ Grows
<1>1. /\ UNCHANGED <<ledger, queues, io, planner, list>>
      /\ UNCHANGED <<phase, pos, moves, exterior, lower, cap, idle, epoch, late>>
      /\ Doing("admit") /\ todo' = Tail(todo) /\ left' = 0
  BY DEF AdmitDone, plan, budget, rpc, OpDone
<1>2. Draining'
  <2>1. phase # "drain"
    BY <1>1, Playing
  <2> QED
    BY <1>1, <2>1, OperationEnds
<1>3. left' \in 0..AdmitRes
  BY <1>1, ResidencyAssumption
<1> QED
  BY <1>1, <1>2, <1>3, TypedNow, StillInStep

-----------------------------------------------------------------------------
(* Commits, answered or not.                                               *)

(* A harmless list that names every resource on which game and host
   differ makes them agree. *)
LEMMA CommitKeeps ==
  ASSUME NEW h, Plans(h), NEW l \in Seq(Commits), NEW s, Harmless(s, l),
         \A r \in Res : (\A x \in Range(l) : x.res # r) =>
                          /\ r \in h.resident => s[r] \in HasBuffers
                          /\ s[r] \in {"Resident", "EvictQueued"} => r \in h.resident
  PROVE  Plans(Commit(h, l)) /\ Agrees(s, Commit(h, l).resident)
<1> DEFINE named == {c.res : c \in Range(l)}
           Becomes(status) == {c.res : c \in {d \in Range(l) : d.state = status}}
           R == (h.resident \ named) \cup Becomes("resident")
           U == (h.unavailable \ named) \cup Becomes("unavailable")
           n == Commit(h, l)
<1>1. \A x \in Range(l) : x.res \in Res /\ x.state \in {"resident", "unloaded", "unavailable"}
  <2>1. Range(l) \subseteq Commits
    BY RangeIs
  <2> QED
    BY <2>1 DEF Commits
<1>2. R \in SUBSET Res /\ U \in SUBSET Res
  BY <1>1 DEF Plans
<1>3. n = [h EXCEPT !.resident = R, !.unavailable = U]
  BY DEF Commit
<1>4. Agrees(s, R)
  <2> SUFFICES ASSUME NEW r \in Res
               PROVE  /\ r \in R => s[r] \in HasBuffers
                      /\ s[r] \in {"Resident", "EvictQueued"} => r \in R
    BY DEF Agrees
  <2>1. CASE r \notin named
    <3>1. \A x \in Range(l) : x.res # r
      BY <2>1
    <3>2. r \in R <=> r \in h.resident
      BY <2>1
    <3> QED
      BY <3>1, <3>2
  <2>2. CASE r \in named
    <3>1. PICK x \in Range(l) : x.res = r
      BY <2>2
    <3>2. r \in R <=> \E y \in Range(l) : y.res = r /\ y.state = "resident"
      BY <2>2
    <3>3. s[r] \in {"Resident", "EvictQueued"} => x.state = "resident"
      BY <1>1, <3>1 DEF Harmless
    <3>4. r \in R => s[r] \in HasBuffers
      BY <3>2 DEF Harmless
    <3> QED
      BY <3>1, <3>2, <3>3, <3>4
  <2> QED
    BY <2>1, <2>2
<1> HIDE DEF R, U
<1>5. DOMAIN h = DOMAIN NewPlanner /\ h.bucket \in Nat
  BY DEF Plans
<1>6. DOMAIN n = DOMAIN NewPlanner /\ n.resident = R /\ n.unavailable = U /\ n.bucket = h.bucket
  BY <1>3, <1>5 DEF NewPlanner
<1> HIDE DEF n
<1>7. Plans(n)
  BY <1>2, <1>5, <1>6 DEF Plans
<1> QED
  BY <1>4, <1>6, <1>7 DEF n

(* Acknowledged or not, a commit leaves a host that agrees and a list
   that is harmless. *)
LEMMA SubmitKeeps ==
  ASSUME StreamInv, NEW l \in Seq(Commits), NEW acked \in BOOLEAN, Submit(l, acked),
         NEW s, Harmless(s, l), ~acked => Agrees(s, planner.resident),
         \A r \in Res : (\A x \in Range(l) : x.res # r) =>
                          /\ r \in planner.resident => s[r] \in HasBuffers
                          /\ s[r] \in {"Resident", "EvictQueued"} => r \in planner.resident
  PROVE  /\ Plans(planner') /\ list' \in Seq(Commits) /\ late' \in {"none", "update", "plan"}
         /\ Agrees(s, planner'.resident) /\ Harmless(s, list')
<1>1. Plans(planner) /\ Agrees(st, planner.resident) /\ late \in {"none", "update", "plan"}
  BY DEF StreamInv, StreamTypeOK
<1>2. CASE acked
  <2>1. planner' = Commit(planner, l) /\ late' = "none" /\ list' = <<>>
    BY <1>2 DEF Submit
  <2>3. Plans(Commit(planner, l)) /\ Agrees(s, Commit(planner, l).resident)
    BY <1>1, CommitKeeps
  <2>4. <<>> \in Seq(Commits) /\ Harmless(s, <<>>)
    BY OnceNone DEF Harmless
  <2> QED
    BY <2>1, <2>3, <2>4
<1>3. CASE ~acked
  <2>1. planner' = planner /\ list' = l /\ late' \in {late, "update"}
    BY <1>3 DEF Submit
  <2> QED
    BY <1>1, <1>3, <2>1
<1> QED
  BY <1>2, <1>3

(* The same, for the commit of one resource. *)
LEMMA SubmitOne ==
  ASSUME StreamInv, NEW r \in Res, NEW status \in {"resident", "unavailable"},
         NEW acked \in BOOLEAN, Submit(<<Entry(r, status)>>, acked), NEW b \in ResourceStates,
         status = "resident" => b \in HasBuffers, status = "unavailable" => b = "Unavailable",
         ~acked => b \notin {"Resident", "EvictQueued"} /\ (st[r] \in HasBuffers => b \in HasBuffers)
  PROVE  /\ Plans(planner') /\ list' \in Seq(Commits) /\ late' \in {"none", "update", "plan"}
         /\ Agrees([st EXCEPT ![r] = b], planner'.resident)
         /\ Harmless([st EXCEPT ![r] = b], list')
<1> DEFINE x == Entry(r, status)
           l == <<x>>
           s == [st EXCEPT ![r] = b]
<1>1. x \in Commits /\ x.res = r /\ x.state = status
  BY DEF Entry, Commits
<1> HIDE DEF x
<1>2. l \in Seq(Commits) /\ Range(l) = {x}
  BY <1>1, OnceOne
<1>3. Submit(l, acked)
  BY DEF x
<1> HIDE DEF l
<1>4. st \in [Res -> ResourceStates] /\ Agrees(st, planner.resident)
  BY DEF StreamInv, StreamTypeOK
<1>5. s[r] = b /\ \A o \in Res : o # r => s[o] = st[o]
  BY <1>4
<1>6. ~acked => Agrees(s, planner.resident)
  BY <1>4, AgreesShift
<1> HIDE DEF s
<1>7. Harmless(s, l)
  BY <1>1, <1>2, <1>5 DEF Harmless
<1>8. \A o \in Res : (\A y \in Range(l) : y.res # o) =>
                         /\ o \in planner.resident => s[o] \in HasBuffers
                         /\ s[o] \in {"Resident", "EvictQueued"} => o \in planner.resident
  BY <1>1, <1>2, <1>4, <1>5 DEF Agrees
<1>9. /\ Plans(planner') /\ list' \in Seq(Commits) /\ late' \in {"none", "update", "plan"}
      /\ Agrees(s, planner'.resident) /\ Harmless(s, list')
  BY <1>2, <1>3, <1>6, <1>7, <1>8, SubmitKeeps
<1> QED
  BY <1>9 DEF s

(* The host comes to a late command and finds whatever list is there by
   then. *)
LEMMA HostLateKeeps ==
  ASSUME StreamInv, HostLate
  PROVE  StreamInv' /\ Grows
<1>1. /\ UNCHANGED <<st, reserved, gpu, phase, left, pos, moves, lower, cap, idle, exterior, epoch,
                     todo, readmit, evictQ, inFlight, commitQ, frozen, pending, working, ready>>
      /\ late' = "none" /\ list' = <<>>
  BY DEF HostLate, session, ledger, queues, plan, budget, io
<1>2. Plans(planner) /\ Agrees(st, planner.resident) /\ list \in Seq(Commits) /\ Harmless(st, list)
  BY DEF StreamInv
<1>3. Plans(planner') /\ Agrees(st, planner'.resident)
  <2>1. CASE late = "update"
    <3>1. planner' = Commit(planner, list)
      BY <2>1 DEF HostLate
    <3>2. Plans(Commit(planner, list)) /\ Agrees(st, Commit(planner, list).resident)
      BY <1>2, CommitKeeps DEF Agrees
    <3> QED
      BY <3>1, <3>2
  <2>2. CASE late # "update"
    <3>1. planner' = planner
      BY <2>2 DEF HostLate
    <3> QED
      BY <1>2, <3>1
  <2> QED
    BY <2>1, <2>2
<1>4. <<>> \in Seq(Commits) /\ Harmless(st, <<>>)
  BY OnceNone DEF Harmless
<1>5. StreamTypeOK'
  BY <1>1, <1>3 DEF StreamInv, StreamTypeOK, Plans
<1>6. Matched' /\ Draining'
  BY <1>1 DEF StreamInv, Matched, Draining
<1>7. Grows
  BY <1>1, TypesNow DEF Grows
<1> QED
  BY <1>1, <1>3, <1>4, <1>5, <1>6, <1>7 DEF StreamInv

(* What a step has to show that changes the catalog or its queues.         *)
LEMMA InStepAgain ==
  ASSUME StreamInv, UNCHANGED <<pos, exterior, moves, plan, budget>>,
         phase' \in {"drain", "boot", "play", "failed"}, left' \in 0..AdmitRes,
         st' \in [Res -> ResourceStates], readmit' \subseteq Res, frozen' \in BOOLEAN,
         evictQ' \in Seq(Res), inFlight' \in Seq(Res), commitQ' \in Seq(Res),
         pending' \in Seq(Requests), working' \in Seq(Requests), ready' \in Seq(Deliveries),
         late' \in {"none", "update", "plan"}, Plans(planner'), list' \in Seq(Commits),
         Matched', Agrees(st', planner'.resident), Harmless(st', list'), Draining',
         reserved' <= reserved \/ reserved' <= cap
  PROVE  StreamInv' /\ Grows
<1>1. UNCHANGED <<pos, exterior, moves, epoch, idle, cap, lower>>
  BY DEF plan, budget
<1>2. reserved' \in Nat /\ gpu' \in Nat
  <2>1. Sums(st', reserved', gpu')
    BY DEF Matched
  <2> QED
    BY <2>1, SumsTyped
<1>3. /\ pos \in Places /\ moves \in 0..MaxMoves /\ lower \in 0..(Samples - 1)
      /\ cap \in Candidates \cup FirstCaps /\ {idle, exterior} \subseteq BOOLEAN /\ epoch \in Nat
  BY TypedNow
<1>4. StreamTypeOK'
  BY <1>1, <1>2, <1>3 DEF StreamTypeOK, Plans, Deliveries
<1>5. Grows
  <2>1. cap \in Nat /\ reserved \in Nat
    BY TypesNow
  <2> QED
    BY <1>1, <1>2, <2>1 DEF Grows
<1> QED
  BY <1>4, <1>5 DEF StreamInv

(* The I/O thread takes a request. *)
LEMMA ReadKeeps ==
  ASSUME StreamInv, Read
  PROVE  StreamInv' /\ Grows
<1> DEFINE x == Head(pending)
<1>1. /\ pending # <<>> /\ working = <<>> /\ working' = <<x>> /\ pending' = Tail(pending)
      /\ UNCHANGED <<phase, left, pos, exterior, moves, plan, budget, todo, st, reserved, gpu,
                     readmit, evictQ, inFlight, commitQ, frozen, ready, late, planner, list>>
      /\ UNCHANGED cap
  BY DEF Read, session, ledger, queues, budget, rpc
<1>2. /\ pending \in Seq(Requests) /\ ready \in Seq(Deliveries)
      /\ Reads(st, pending, working, ready)
  BY DEF StreamInv, StreamTypeOK, Matched, Deliveries
<1>3. /\ x \in Requests /\ Tail(pending) \in Seq(Requests)
      /\ KeysOf(pending, ByRes) = {ByRes[x]} \cup KeysOf(Tail(pending), ByRes)
      /\ Once(pending, ByRes) => Once(Tail(pending), ByRes)
                                 /\ ByRes[x] \notin KeysOf(Tail(pending), ByRes)
  BY <1>1, <1>2, OnceTail
<1> HIDE DEF x
<1>4. <<x>> \in Seq(Requests) /\ KeysOf(<<x>>, ByRes) = {ByRes[x]} /\ Once(<<x>>, ByRes)
  BY <1>3, OnceOne
<1>5. Reads(st, Tail(pending), <<x>>, ready)
  <2> DEFINE k == ByRes[x]
             P == KeysOf(pending, ByRes)
             P2 == KeysOf(Tail(pending), ByRes)
             D == KeysOf(ready, ByReq)
  <2>1. /\ Once(pending, ByRes) /\ Once(ready, ByReq) /\ P \cap D = {}
        /\ \A r \in Res : st[r] = "IoQueued" <=> r \in P \/ r \in D
    BY <1>1, <1>2, OnceNone DEF Reads
  <2>2. P = {k} \cup P2 /\ k \notin P2 /\ Once(Tail(pending), ByRes)
    BY <1>3, <2>1
  <2>3. KeysOf(<<x>>, ByRes) = {k}
    BY <1>4
  <2> HIDE DEF k, P, P2, D
  <2>5. Tail(<<x>>) = <<>>
    OBVIOUS
  <2>4. /\ P2 \cap {k} = {} /\ P2 \cap D = {} /\ {k} \cap D = {}
        /\ \A r \in Res : st[r] = "IoQueued" <=> r \in P2 \/ r \in {k} \/ r \in D
    BY <2>1, <2>2
  <2> QED
    BY <1>4, <2>1, <2>2, <2>3, <2>4, <2>5 DEF Reads, P2, D
<1>6. Matched'
  BY <1>1, <1>5 DEF StreamInv, Matched
<1>7. Draining' /\ Agrees(st', planner'.resident) /\ Harmless(st', list') /\ Plans(planner')
  BY <1>1 DEF StreamInv, Draining
<1>8. /\ left' \in 0..AdmitRes /\ phase' \in {"drain", "boot", "play", "failed"}
      /\ st' \in [Res -> ResourceStates] /\ readmit' \subseteq Res /\ frozen' \in BOOLEAN
      /\ evictQ' \in Seq(Res) /\ inFlight' \in Seq(Res) /\ commitQ' \in Seq(Res)
      /\ late' \in {"none", "update", "plan"} /\ list' \in Seq(Commits)
      /\ reserved' <= reserved
  BY <1>1 DEF StreamInv, StreamTypeOK
<1> QED
  BY <1>1, <1>2, <1>3, <1>4, <1>6, <1>7, <1>8, InStepAgain

(* The I/O thread delivers, or fails. *)
LEMMA DeliverKeeps ==
  ASSUME StreamInv, Deliver
  PROVE  StreamInv' /\ Grows
<1>1. PICK ok \in BOOLEAN : ready' = Append(ready, [req |-> Head(working), ok |-> ok])
  BY DEF Deliver
<1> DEFINE x == Head(working)
           y == [req |-> x, ok |-> ok]
           d == Append(ready, y)
<1>2. /\ working # <<>> /\ working' = <<>> /\ ready' = d
      /\ UNCHANGED <<phase, left, pos, exterior, moves, plan, budget, todo, st, reserved, gpu,
                     readmit, evictQ, inFlight, commitQ, frozen, pending, late, planner, list>>
      /\ UNCHANGED cap
  BY <1>1 DEF Deliver, session, ledger, queues, budget, rpc
<1>3. /\ working \in Seq(Requests) /\ ready \in Seq(Deliveries) /\ pending \in Seq(Requests)
      /\ Reads(st, pending, working, ready)
  BY DEF StreamInv, StreamTypeOK, Matched, Deliveries
<1>4. x \in Requests /\ KeysOf(working, ByRes) = {ByRes[x]} \cup KeysOf(Tail(working), ByRes)
  BY <1>2, <1>3, OnceTail
<1>5. y \in Deliveries /\ ByReq[y] = x.res /\ ByRes[x] = x.res
  BY <1>4 DEF Deliveries, ByReq, ByRes
<1> HIDE DEF x, y
<1>6. /\ d \in Seq(Deliveries) /\ KeysOf(d, ByReq) = KeysOf(ready, ByReq) \cup {ByReq[y]}
      /\ Once(ready, ByReq) /\ ByReq[y] \notin KeysOf(ready, ByReq) => Once(d, ByReq)
  BY <1>3, <1>5, OnceAppend
<1> HIDE DEF d
<1>7. Reads(st, pending, <<>>, d)
  <2> DEFINE k == x.res
             P == KeysOf(pending, ByRes)
             W == KeysOf(working, ByRes)
             D == KeysOf(ready, ByReq)
  <2>1. /\ Tail(working) = <<>> /\ Once(pending, ByRes) /\ Once(ready, ByReq)
        /\ P \cap W = {} /\ P \cap D = {} /\ W \cap D = {}
        /\ \A r \in Res : st[r] = "IoQueued" <=> r \in P \/ r \in W \/ r \in D
    BY <1>2, <1>3 DEF Reads
  <2>2. W = {k}
    BY <1>4, <1>5, <2>1, OnceNone
  <2>3. KeysOf(d, ByReq) = D \cup {k}
    BY <1>5, <1>6
  <2> HIDE DEF k, P, W, D
  <2>4. P \cap (D \cup {k}) = {} /\ k \notin D
    BY <2>1, <2>2
  <2>5. \A r \in Res : st[r] = "IoQueued" <=> r \in P \/ r \in D \cup {k}
    BY <2>1, <2>2
  <2>6. Once(d, ByReq)
    BY <1>5, <1>6, <2>1, <2>4 DEF k, D
  <2>7. KeysOf(<<>>, ByRes) = {} /\ Once(<<>>, ByRes)
    BY OnceNone
  <2> QED
    BY <2>1, <2>3, <2>4, <2>5, <2>6, <2>7 DEF Reads, P
<1>8. Matched'
  BY <1>2, <1>7 DEF StreamInv, Matched
<1>9. Draining' /\ Agrees(st', planner'.resident) /\ Harmless(st', list') /\ Plans(planner')
  BY <1>2 DEF StreamInv, Draining
<1>10. /\ left' \in 0..AdmitRes /\ phase' \in {"drain", "boot", "play", "failed"}
       /\ st' \in [Res -> ResourceStates] /\ readmit' \subseteq Res /\ frozen' \in BOOLEAN
       /\ evictQ' \in Seq(Res) /\ inFlight' \in Seq(Res) /\ commitQ' \in Seq(Res)
       /\ late' \in {"none", "update", "plan"} /\ list' \in Seq(Commits)
       /\ working' \in Seq(Requests) /\ reserved' <= reserved
  BY <1>2 DEF StreamInv, StreamTypeOK
<1> QED
  BY <1>2, <1>3, <1>6, <1>8, <1>9, <1>10, InStepAgain

(* What an admission leaves of its tick. *)
LEMMA AdmitTurns ==
  ASSUME StreamInv, Doing("admit"), phase' = phase,
         \/ left' = Left - 1 /\ todo' = todo
         \/ left' = 0 /\ todo' = Tail(todo)
         \/ left' = left /\ todo' = todo
  PROVE  left' \in 0..AdmitRes /\ Draining'
<1>1. left \in 0..AdmitRes /\ AdmitRes \in Nat \ {0}
  BY TypedNow, ResidencyAssumption
<1>2. Left \in 1..AdmitRes
  BY <1>1 DEF Left
<1>3. left' \in 0..AdmitRes
  BY <1>1, <1>2
<1>4. Draining'
  <2>1. phase # "drain"
    BY Playing
  <2> QED
    BY <2>1, OperationEnds
<1> QED
  BY <1>3, <1>4

(* The last of a queue leaves the state it stood for. *)
LEMMA QueuedPops ==
  ASSUME NEW s \in [Res -> ResourceStates], NEW q \in Seq(Res), NEW x, Queued(s, q, x), q # <<>>,
         NEW b, b # x
  PROVE  /\ Last(q) \in Res /\ s[Last(q)] = x /\ Front(q) \in Seq(Res)
         /\ Queued([s EXCEPT ![Last(q)] = b], Front(q), x)
<1> DEFINE r == Last(q)
           f == Front(q)
<1>1. Once(q, Self) /\ \A o \in Res : s[o] = x <=> o \in Range(q)
  BY DEF Queued
<1>2. /\ r \in Res /\ f \in Seq(Res) /\ Range(q) = {r} \cup Range(f)
      /\ Once(q, Self) => Once(f, Self) /\ Self[r] \notin KeysOf(f, Self)
  BY OnceFront
<1> HIDE DEF r, f
<1>3. KeysOf(f, Self) = Range(f) /\ Self[r] = r
  BY <1>2, KeysAre DEF Self
<1>4. \A o \in Res : [s EXCEPT ![r] = b][o] = x <=> o \in Range(f)
  BY <1>1, <1>2, <1>3
<1>5. Queued([s EXCEPT ![r] = b], f, x)
  BY <1>1, <1>2, <1>4 DEF Queued
<1>6. s[r] = x
  BY <1>1, <1>2
<1> QED
  BY <1>2, <1>5, <1>6 DEF r, f

(* A commit is tried again. *)
LEMMA RetryCommitKeeps ==
  ASSUME StreamInv, RetryCommit
  PROVE  StreamInv' /\ Grows
<1> DEFINE r == Last(commitQ)
           s == [st EXCEPT ![r] = "Resident"]
<1>1. PICK acked \in BOOLEAN :
        /\ Submit(<<Entry(r, "resident")>>, acked)
        /\ IF acked THEN commitQ' = Front(commitQ) /\ st' = s /\ Uploaded(Left > 1)
           ELSE left' = 0 /\ OpDone /\ UNCHANGED <<st, commitQ>>
  BY DEF RetryCommit
<1>2. /\ Doing("admit") /\ commitQ # <<>>
      /\ UNCHANGED <<phase, pos, exterior, moves, plan, budget, reserved, gpu, readmit, evictQ,
                     inFlight, frozen, pending, working, ready>>
  BY DEF RetryCommit, Admitting, io
<1>3. /\ st \in [Res -> ResourceStates] /\ commitQ \in Seq(Res)
      /\ Sums(st, reserved, gpu) /\ Reads(st, pending, working, ready)
      /\ Queued(st, evictQ, "EvictQueued") /\ Queued(st, commitQ, "CommitPending")
      /\ Queued(st, inFlight, "RemovalInFlight") /\ readmit \subseteq Range(inFlight)
  BY DEF StreamInv, StreamTypeOK, Matched
<1>4. r \in Res /\ st[r] = "CommitPending" /\ Front(commitQ) \in Seq(Res)
      /\ Queued(s, Front(commitQ), "CommitPending")
  <2> DEFINE q == commitQ
             x == "CommitPending"
             b == "Resident"
  <2>1. q \in Seq(Res) /\ Queued(st, q, x) /\ q # <<>> /\ b # x /\ st \in [Res -> ResourceStates]
    BY <1>2, <1>3
  <2> HIDE DEF q, x, b
  <2>2. /\ Last(q) \in Res /\ st[Last(q)] = x /\ Front(q) \in Seq(Res)
        /\ Queued([st EXCEPT ![Last(q)] = b], Front(q), x)
    BY <2>1, QueuedPops
  <2> QED
    BY <2>2 DEF q, x, b
<1>5. /\ reserved' <= reserved /\ frozen' \in BOOLEAN /\ evictQ' \in Seq(Res)
      /\ inFlight' \in Seq(Res) /\ pending' \in Seq(Requests) /\ working' \in Seq(Requests)
      /\ ready' \in Seq(Deliveries) /\ readmit' \subseteq Res
      /\ phase' \in {"drain", "boot", "play", "failed"}
  BY <1>2 DEF StreamInv, StreamTypeOK, Deliveries
<1> HIDE DEF r, s
<1>6. left' \in 0..AdmitRes /\ Draining'
  <2>1. \/ left' = Left - 1 /\ todo' = todo
        \/ left' = 0 /\ todo' = Tail(todo)
    BY <1>1 DEF Uploaded, OpDone
  <2> QED
    BY <1>2, <2>1, AdmitTurns
<1>7. CASE acked
  <2>1. st' = s /\ commitQ' = Front(commitQ)
    BY <1>1, <1>7
  <2>2. s \in [Res -> ResourceStates]
    BY <1>3 DEF s, ResourceStates
  <2>3. /\ Plans(planner') /\ list' \in Seq(Commits) /\ late' \in {"none", "update", "plan"}
        /\ Agrees(s, planner'.resident) /\ Harmless(s, list')
    BY <1>1, <1>4, <1>7, StatesDiffer, SubmitOne DEF s
  <2>4. Queued(s, evictQ, "EvictQueued") /\ Queued(s, inFlight, "RemovalInFlight")
    BY <1>3, <1>4, QueuedShift DEF s
  <2>5. Reads(s, pending, working, ready)
    BY <1>3, <1>4, ReadsShift DEF s
  <2>6. Sums(s, reserved, gpu)
    <3>1. Sums(s, Shifted(reserved, HoldsBytes, st[r], "Resident", r),
                  Shifted(gpu, HasBuffers, st[r], "Resident", r))
      BY <1>3, <1>4, SumsShift DEF s
    <3> QED
      BY <1>4, <3>1, StatesDiffer DEF Shifted
  <2>7. Matched'
    BY <1>2, <1>3, <1>4, <2>1, <2>4, <2>5, <2>6 DEF Matched
  <2> QED
    BY <1>2, <1>4, <1>5, <1>6, <2>1, <2>2, <2>3, <2>7, InStepAgain
<1>8. CASE ~acked
  <2>1. st' = st /\ commitQ' = commitQ
    BY <1>1, <1>8
  <2>2. [st EXCEPT ![r] = "CommitPending"] = st
    BY <1>3, <1>4
  <2>3. /\ Plans(planner') /\ list' \in Seq(Commits) /\ late' \in {"none", "update", "plan"}
        /\ Agrees(st, planner'.resident) /\ Harmless(st, list')
    <3>1. "CommitPending" \in ResourceStates /\ "CommitPending" \in HasBuffers
      BY DEF ResourceStates, HasBuffers
    <3> QED
      BY <1>1, <1>4, <1>8, <2>2, <3>1, SubmitOne
  <2>4. Matched'
    BY <1>2, <1>3, <2>1 DEF Matched
  <2> QED
    BY <1>2, <1>3, <1>5, <1>6, <2>1, <2>3, <2>4, InStepAgain
<1> QED
  BY <1>7, <1>8

(* What was read is collected: its resource leaves the stages of a read.   *)
LEMMA CollectedReads ==
  ASSUME NEW s \in [Res -> ResourceStates], NEW p, NEW w, NEW d \in Seq(Deliveries), d # <<>>,
         Reads(s, p, w, d), NEW b, b # "IoQueued"
  PROVE  LET r == Head(d).req.res
         IN /\ r \in Res /\ s[r] = "IoQueued" /\ Tail(d) \in Seq(Deliveries)
            /\ Reads([s EXCEPT ![r] = b], p, w, Tail(d))
<1> DEFINE y == Head(d)
           r == y.req.res
           s2 == [s EXCEPT ![r] = b]
           P == KeysOf(p, ByRes)
           W == KeysOf(w, ByRes)
           D == KeysOf(d, ByReq)
           D2 == KeysOf(Tail(d), ByReq)
<1>1. /\ y \in Deliveries /\ Tail(d) \in Seq(Deliveries) /\ D = {ByReq[y]} \cup D2
      /\ Once(d, ByReq) => Once(Tail(d), ByReq) /\ ByReq[y] \notin D2
  BY OnceTail
<1>2. r \in Res /\ ByReq[y] = r
  BY <1>1 DEF Deliveries, Requests, ByReq
<1>3. /\ w # <<>> => Tail(w) = <<>>
      /\ Once(p, ByRes) /\ Once(w, ByRes) /\ Once(d, ByReq)
      /\ P \cap W = {} /\ P \cap D = {} /\ W \cap D = {}
      /\ \A o \in Res : s[o] = "IoQueued" <=> o \in P \/ o \in W \/ o \in D
  BY DEF Reads
<1>4. /\ s2[r] = b /\ \A o \in Res : o # r => s2[o] = s[o]
  BY <1>2
<1> HIDE DEF y, s2, P, W, D, D2
<1> DEFINE k == r
<1>5. /\ k \in Res /\ D = {k} \cup D2 /\ k \notin D2 /\ Once(Tail(d), ByReq)
      /\ s2[k] = b /\ \A o \in Res : o # k => s2[o] = s[o]
  BY <1>1, <1>2, <1>3, <1>4
<1> HIDE DEF r, k
<1>6. /\ P \cap D2 = {} /\ W \cap D2 = {} /\ s[k] = "IoQueued"
      /\ \A o \in Res : s2[o] = "IoQueued" <=> o \in P \/ o \in W \/ o \in D2
  BY <1>3, <1>5
<1>7. Reads(s2, p, w, Tail(d))
  BY <1>3, <1>5, <1>6 DEF Reads, P, W, D2
<1> QED
  BY <1>1, <1>5, <1>6, <1>7 DEF s2, k, r, y

(* A collected read: ledgers, reads and queues follow the state it led
   to. *)
LEMMA CollectedMatched ==
  ASSUME StreamInv, ready # <<>>, NEW r, r = Head(ready).req.res,
         NEW b \in {"Unavailable", "Unloaded", "Resident", "CommitPending"},
         st' = [st EXCEPT ![r] = b], ready' = Tail(ready),
         reserved' = IF b \in HasBuffers THEN reserved ELSE Minus(reserved, Bytes[r]),
         gpu' = IF b \in HasBuffers THEN gpu + Bytes[r] ELSE gpu,
         commitQ' = IF b = "CommitPending" THEN Append(commitQ, r) ELSE commitQ,
         UNCHANGED <<readmit, evictQ, inFlight, pending, working>>
  PROVE  /\ Matched' /\ r \in Res /\ st[r] = "IoQueued" /\ reserved' <= reserved
         /\ st' \in [Res -> ResourceStates] /\ ready' \in Seq(Deliveries)
         /\ commitQ' \in Seq(Res)
<1> DEFINE s == [st EXCEPT ![r] = b]
<1>1. /\ st \in [Res -> ResourceStates] /\ commitQ \in Seq(Res) /\ ready \in Seq(Deliveries)
      /\ Sums(st, reserved, gpu) /\ Reads(st, pending, working, ready)
      /\ Queued(st, evictQ, "EvictQueued") /\ Queued(st, commitQ, "CommitPending")
      /\ Queued(st, inFlight, "RemovalInFlight") /\ readmit \subseteq Range(inFlight)
  BY DEF StreamInv, StreamTypeOK, Matched, Deliveries
<1>2. b # "IoQueued" /\ b \in ResourceStates /\ b \notin {"EvictQueued", "RemovalInFlight"}
  BY DEF ResourceStates
<1>3. /\ r \in Res /\ st[r] = "IoQueued" /\ Tail(ready) \in Seq(Deliveries)
      /\ Reads(s, pending, working, Tail(ready))
  BY <1>1, <1>2, CollectedReads
<1>4. s \in [Res -> ResourceStates]
  BY <1>1, <1>2
<1>5. Queued(s, evictQ, "EvictQueued") /\ Queued(s, inFlight, "RemovalInFlight")
  BY <1>1, <1>2, <1>3, QueuedShift
<1>6. Queued(s, commitQ', "CommitPending") /\ commitQ' \in Seq(Res)
  <2>1. CASE b = "CommitPending"
    <3>1. st[r] # "CommitPending"
      BY <1>3
    <3>2. /\ Queued([st EXCEPT ![r] = "CommitPending"], Append(commitQ, r), "CommitPending")
          /\ Append(commitQ, r) \in Seq(Res)
      BY <1>1, <1>3, <3>1, QueuedJoins
    <3> QED
      BY <2>1, <3>2
  <2>2. CASE b # "CommitPending"
    <3>1. Queued(s, commitQ, "CommitPending")
      BY <1>1, <1>3, <2>2, QueuedShift
    <3> QED
      BY <1>1, <2>2, <3>1
  <2> QED
    BY <2>1, <2>2
<1>7. Sums(s, reserved', gpu')
  <2>1. Sums(s, Shifted(reserved, HoldsBytes, st[r], b, r), Shifted(gpu, HasBuffers, st[r], b, r))
    BY <1>1, <1>3, SumsShift
  <2>2. /\ st[r] \in HoldsBytes /\ st[r] \notin HasBuffers
        /\ b \in HoldsBytes <=> b \in HasBuffers
    BY <1>2, <1>3 DEF HoldsBytes, HasBuffers
  <2> HIDE DEF s
  <2>3. /\ reserved' = Shifted(reserved, HoldsBytes, st[r], b, r)
        /\ gpu' = Shifted(gpu, HasBuffers, st[r], b, r)
    BY <2>2 DEF Shifted
  <2> QED
    BY <2>1, <2>3
<1>8. reserved' <= reserved
  <2>1. reserved \in Nat /\ Bytes[r] \in Nat
    BY <1>3, TypesNow, ResTyped
  <2> DEFINE k == Bytes[r]
  <2>2. reserved' = reserved \/ reserved' = Minus(reserved, k)
    OBVIOUS
  <2> HIDE DEF k
  <2>3. k \in Nat
    BY <2>1 DEF k
  <2> QED
    BY <2>1, <2>2, <2>3 DEF Minus
<1> HIDE DEF s
<1>9. Matched'
  BY <1>1, <1>3, <1>5, <1>6, <1>7 DEF Matched, s
<1> QED
  BY <1>3, <1>4, <1>6, <1>8, <1>9 DEF s

(* A read is collected: stale, failed, of an old epoch, uploaded, or
   refused by Direct3D. *)
LEMMA CollectKeeps ==
  ASSUME StreamInv, Collect
  PROVE  StreamInv' /\ Grows
<1> DEFINE x == Head(ready)
           r == x.req.res
           Turns == \/ left' = Left - 1 /\ todo' = todo
                    \/ left' = 0 /\ todo' = Tail(todo)
                    \/ left' = left /\ todo' = todo
           To(b) == [st EXCEPT ![r] = b]
           Heard(b) == /\ Plans(planner') /\ list' \in Seq(Commits)
                       /\ late' \in {"none", "update", "plan"}
                       /\ Agrees(To(b), planner'.resident) /\ Harmless(To(b), list')
<1>1. /\ Doing("admit") /\ ready # <<>> /\ ready' = Tail(ready)
      /\ UNCHANGED <<phase, pos, exterior, moves, plan, budget, readmit, evictQ, inFlight, frozen,
                     pending, working>>
  BY DEF Collect, Admitting
<1>2. /\ st \in [Res -> ResourceStates] /\ ready \in Seq(Deliveries)
      /\ Reads(st, pending, working, ready) /\ Agrees(st, planner.resident) /\ Harmless(st, list)
      /\ Plans(planner) /\ list \in Seq(Commits) /\ late \in {"none", "update", "plan"}
  BY DEF StreamInv, StreamTypeOK, Matched, Deliveries
<1>3. r \in Res /\ st[r] = "IoQueued"
  BY <1>1, <1>2, CollectedReads
<1>4. /\ frozen' \in BOOLEAN /\ evictQ' \in Seq(Res) /\ inFlight' \in Seq(Res)
      /\ pending' \in Seq(Requests) /\ working' \in Seq(Requests) /\ readmit' \subseteq Res
      /\ phase' \in {"drain", "boot", "play", "failed"}
  BY <1>1 DEF StreamInv, StreamTypeOK
<1>5. \/ Unavailable(r) /\ Turns
      \/ /\ st' = To("Unloaded") /\ ReleaseBytes(r) /\ Turns
         /\ UNCHANGED <<gpu, commitQ, late, list, planner>>
      \/ Upload(r) /\ Turns
  BY <1>3 DEF Collect, MayGoOn, Uploaded, OpDone, rpc
<1> HIDE DEF x, r, Turns
<1>6. ASSUME NEW b \in {"Unavailable", "Unloaded", "Resident", "CommitPending"}, Turns, Heard(b),
             st' = To(b),
             reserved' = IF b \in HasBuffers THEN reserved ELSE Minus(reserved, Bytes[r]),
             gpu' = IF b \in HasBuffers THEN gpu + Bytes[r] ELSE gpu,
             commitQ' = IF b = "CommitPending" THEN Append(commitQ, r) ELSE commitQ
      PROVE  StreamInv' /\ Grows
  <2>1. r = Head(ready).req.res
    BY DEF r, x
  <2>2. /\ Matched' /\ reserved' <= reserved /\ st' \in [Res -> ResourceStates]
        /\ ready' \in Seq(Deliveries) /\ commitQ' \in Seq(Res)
    BY <1>1, <1>6, <2>1, CollectedMatched
  <2>3. left' \in 0..AdmitRes /\ Draining'
    <3>1. \/ left' = Left - 1 /\ todo' = todo
          \/ left' = 0 /\ todo' = Tail(todo)
          \/ left' = left /\ todo' = todo
      BY <1>6 DEF Turns
    <3> QED
      BY <1>1, <3>1, AdmitTurns
  <2>4. /\ Plans(planner') /\ list' \in Seq(Commits) /\ late' \in {"none", "update", "plan"}
        /\ Agrees(st', planner'.resident) /\ Harmless(st', list')
    BY <1>6
  <2> QED
    BY <1>1, <1>4, <2>2, <2>3, <2>4, InStepAgain
<1>7. CASE Unavailable(r) /\ Turns
  <2>1. PICK acked \in BOOLEAN : Submit(<<Entry(r, "unavailable")>>, acked)
    BY <1>7 DEF Unavailable
  <2>2. Heard("Unavailable")
    <3>1. st[r] \notin HasBuffers /\ "Unavailable" \in ResourceStates
      BY <1>3 DEF HasBuffers, ResourceStates
    <3> QED
      BY <1>3, <2>1, <3>1, SubmitOne
  <2>3. "Unavailable" \notin HasBuffers
    BY DEF HasBuffers
  <2>4. /\ st' = To("Unavailable") /\ reserved' = Minus(reserved, Bytes[r])
        /\ UNCHANGED <<gpu, commitQ>>
    BY <1>7 DEF Unavailable, ReleaseBytes
  <2> HIDE DEF Heard, To
  <2> QED
    BY <1>6, <1>7, <2>2, <2>3, <2>4
<1>8. CASE /\ st' = To("Unloaded") /\ ReleaseBytes(r) /\ Turns
           /\ UNCHANGED <<gpu, commitQ, late, list, planner>>
  <2>1. "Unloaded" \notin HasBuffers /\ st[r] \notin HasBuffers
    BY <1>3 DEF HasBuffers
  <2>2. Heard("Unloaded")
    <3> DEFINE b == "Unloaded"
    <3>1. /\ st \in [Res -> ResourceStates] /\ r \in Res /\ Agrees(st, planner.resident)
          /\ Harmless(st, list) /\ st[r] # "Unavailable" /\ (st[r] \in HasBuffers => b \in HasBuffers)
          /\ b \in {"Resident", "EvictQueued"} => st[r] \in {"Resident", "EvictQueued"}
      BY <1>2, <1>3, <2>1
    <3> HIDE DEF b
    <3>2. Agrees(To(b), planner.resident)
      BY <3>1, AgreesShift
    <3>3. Harmless(To(b), list)
      BY <3>1, HarmlessShift
    <3> HIDE DEF To
    <3> QED
      BY <1>2, <1>8, <3>2, <3>3 DEF b
  <2>3. reserved' = Minus(reserved, Bytes[r])
    BY <1>8 DEF ReleaseBytes
  <2> HIDE DEF Heard, To
  <2> QED
    BY <1>6, <1>8, <2>1, <2>2, <2>3
<1>9. CASE Upload(r) /\ Turns
  <2>1. PICK acked \in BOOLEAN :
          /\ Submit(<<Entry(r, "resident")>>, acked)
          /\ st' = To(IF acked THEN "Resident" ELSE "CommitPending")
          /\ commitQ' = IF acked THEN commitQ ELSE Append(commitQ, r)
    BY <1>9 DEF Upload
  <2>2. gpu' = gpu + Bytes[r] /\ reserved' = reserved
    BY <1>9 DEF Upload
  <2>3. {"Resident", "CommitPending"} \subseteq HasBuffers \cap ResourceStates
    BY DEF HasBuffers, ResourceStates
  <2>4. CASE acked
    <3>1. Heard("Resident")
      BY <1>3, <2>1, <2>3, <2>4, SubmitOne
    <3> HIDE DEF Heard, To
    <3> QED
      BY <1>6, <1>9, <2>1, <2>2, <2>3, <2>4, <3>1
  <2>5. CASE ~acked
    <3>1. Heard("CommitPending")
      BY <1>3, <2>1, <2>3, <2>5, SubmitOne
    <3> HIDE DEF Heard, To
    <3> QED
      BY <1>6, <1>9, <2>1, <2>2, <2>3, <2>5, <3>1
  <2> QED
    BY <2>4, <2>5
<1> QED
  BY <1>5, <1>7, <1>8, <1>9

-----------------------------------------------------------------------------
(* Evictions.                                                              *)

(* A batch of removals is the whole of taken but what was asked back.      *)
Taken == IF inFlight = <<>>
         THEN SubSeq(evictQ, 1, IF Len(evictQ) < EvictRes THEN Len(evictQ) ELSE EvictRes)
         ELSE inFlight
Rest == IF inFlight = <<>>
        THEN SubSeq(evictQ, (IF Len(evictQ) < EvictRes THEN Len(evictQ) ELSE EvictRes) + 1,
                    Len(evictQ))
        ELSE evictQ
Batch == Keep(Taken, Res \ readmit)
Back == Keep(Taken, readmit)
Removing == [r \in Res |-> IF r \in Range(Back) THEN "CommitPending"
                           ELSE IF r \in Range(Batch) THEN "RemovalInFlight" ELSE st[r]]
Removed == [r \in Res |-> IF r \in Range(Batch) THEN "Unloaded" ELSE Removing[r]]

(* What an eviction tick takes on was queued or in flight, and the rest
   still is queued. *)
LEMMA TakenIs ==
  ASSUME StreamInv
  PROVE  /\ Taken \in Seq(Res) /\ Rest \in Seq(Res) /\ Once(Taken, Self) /\ Once(Rest, Self)
         /\ Range(Taken) \cap Range(Rest) = {} /\ readmit \subseteq Range(Taken)
         /\ \A r \in Res : st[r] \in {"EvictQueued", "RemovalInFlight"}
                             <=> r \in Range(Taken) \/ r \in Range(Rest)
         /\ \A r \in Range(Rest) : st[r] = "EvictQueued"
<1>1. /\ evictQ \in Seq(Res) /\ inFlight \in Seq(Res) /\ readmit \subseteq Range(inFlight)
      /\ Once(evictQ, Self) /\ Once(inFlight, Self)
      /\ \A r \in Res : st[r] = "EvictQueued" <=> r \in Range(evictQ)
      /\ \A r \in Res : st[r] = "RemovalInFlight" <=> r \in Range(inFlight)
  BY DEF StreamInv, StreamTypeOK, Matched, Queued
<1>2. CASE inFlight = <<>>
  <2> DEFINE n == IF Len(evictQ) < EvictRes THEN Len(evictQ) ELSE EvictRes
             a == SubSeq(evictQ, 1, n)
             b == SubSeq(evictQ, n + 1, Len(evictQ))
  <2>1. Len(evictQ) \in Nat /\ EvictRes \in Nat
    BY <1>1, LenProperties, ResidencyAssumption
  <2>2. n \in 0..Len(evictQ)
    BY <2>1
  <2>3. Taken = a /\ Rest = b
    BY <1>2 DEF Taken, Rest
  <2> HIDE DEF n
  <2>4. Splits(evictQ, n, a, b)
    BY DEF Splits
  <2> HIDE DEF a, b
  <2>5. /\ a \in Seq(Res) /\ b \in Seq(Res) /\ Range(evictQ) = Range(a) \cup Range(b)
        /\ KeysOf(evictQ, Self) = KeysOf(a, Self) \cup KeysOf(b, Self)
        /\ Once(evictQ, Self) => /\ Once(a, Self) /\ Once(b, Self)
                                 /\ KeysOf(a, Self) \cap KeysOf(b, Self) = {}
    BY <1>1, <2>2, <2>4, OnceSplit
  <2>6. KeysOf(a, Self) = Range(a) /\ KeysOf(b, Self) = Range(b)
    BY <2>5, KeysAre
  <2>7. Range(inFlight) = {}
    BY <1>2, OnceNone
  <2>8. readmit \subseteq Range(a)
    BY <1>1, <2>7
  <2>9. \A r \in Res : st[r] \in {"EvictQueued", "RemovalInFlight"} <=> r \in Range(a) \/ r \in Range(b)
    BY <1>1, <2>5, <2>7
  <2>10. \A r \in Range(b) : st[r] = "EvictQueued"
    <3>1. Range(evictQ) \subseteq Res
      BY <1>1, RangeIs
    <3> QED
      BY <1>1, <2>5, <3>1
  <2>11. Once(a, Self) /\ Once(b, Self) /\ Range(a) \cap Range(b) = {}
    BY <1>1, <2>5, <2>6
  <2> QED
    BY <2>3, <2>5, <2>8, <2>9, <2>10, <2>11
<1>3. CASE inFlight # <<>>
  <2>1. Taken = inFlight /\ Rest = evictQ
    BY <1>3 DEF Taken, Rest
  <2>2. Range(inFlight) \subseteq Res /\ Range(evictQ) \subseteq Res
    BY <1>1, RangeIs
  <2> QED
    BY <1>1, <2>1, <2>2
<1> QED
  BY <1>2, <1>3

(* What was asked back meanwhile is no part of the batch. *)
LEMMA BatchIs ==
  ASSUME StreamInv
  PROVE  /\ Batch \in Seq(Res) /\ Back \in Seq(Res) /\ Once(Batch, Self) /\ Once(Back, Self)
         /\ Range(Back) = readmit /\ Range(Batch) = Range(Taken) \ readmit
         /\ Range(Taken) \subseteq Res
<1>1. /\ Taken \in Seq(Res) /\ Once(Taken, Self) /\ readmit \subseteq Range(Taken)
  BY TakenIs
<1>2. /\ Batch \in Seq(Res) /\ Range(Batch) = Range(Taken) \cap (Res \ readmit)
      /\ Once(Taken, Self) => Once(Batch, Self)
  BY <1>1, KeepIs DEF Batch
<1>3. /\ Back \in Seq(Res) /\ Range(Back) = Range(Taken) \cap readmit
      /\ Once(Taken, Self) => Once(Back, Self)
  BY <1>1, KeepIs DEF Back
<1>4. Range(Taken) \subseteq Res
  BY <1>1, RangeIs
<1> QED
  BY <1>1, <1>2, <1>3, <1>4

(* What Removing says of each resource.                                    *)
LEMMA RemovingIs ==
  ASSUME StreamInv
  PROVE  /\ Removing \in [Res -> ResourceStates] /\ Removed \in [Res -> ResourceStates]
         /\ \A r \in readmit : /\ Removing[r] = "CommitPending" /\ Removed[r] = "CommitPending"
                               /\ st[r] \in {"EvictQueued", "RemovalInFlight"}
         /\ \A r \in Range(Batch) : /\ Removing[r] = "RemovalInFlight" /\ Removed[r] = "Unloaded"
                                    /\ st[r] \in {"EvictQueued", "RemovalInFlight"}
         /\ \A r \in Res : r \notin readmit /\ r \notin Range(Batch) =>
                             /\ Removing[r] = st[r] /\ Removed[r] = st[r]
                             /\ r \notin Range(Taken)
<1>1. /\ st \in [Res -> ResourceStates]
      /\ {"CommitPending", "RemovalInFlight", "Unloaded"} \subseteq ResourceStates
  BY DEF StreamInv, StreamTypeOK, ResourceStates
<1>2. /\ Range(Back) = readmit /\ Range(Batch) = Range(Taken) \ readmit /\ Range(Taken) \subseteq Res
      /\ readmit \subseteq Range(Taken)
      /\ \A r \in Range(Taken) : st[r] \in {"EvictQueued", "RemovalInFlight"}
  BY TakenIs, BatchIs
<1>3. \A r \in Res : Removing[r] = IF r \in readmit THEN "CommitPending"
                                   ELSE IF r \in Range(Batch) THEN "RemovalInFlight" ELSE st[r]
  BY <1>2 DEF Removing
<1>4. \A r \in Res : Removed[r] = IF r \in Range(Batch) THEN "Unloaded" ELSE Removing[r]
  BY DEF Removed
<1>5. Removing \in [Res -> ResourceStates]
  BY <1>1 DEF Removing
<1>6. Removed \in [Res -> ResourceStates]
  BY <1>1, <1>5 DEF Removed
<1> QED
  BY <1>2, <1>3, <1>4, <1>5, <1>6

(* Queues and reads follow the states of a batch, submitted or removed. *)
LEMMA RemovingMatches ==
  ASSUME StreamInv
  PROVE  /\ Queued(Removing, Rest, "EvictQueued") /\ Queued(Removed, Rest, "EvictQueued")
         /\ commitQ \o Back \in Seq(Res)
         /\ Queued(Removing, commitQ \o Back, "CommitPending")
         /\ Queued(Removed, commitQ \o Back, "CommitPending")
         /\ Queued(Removing, Batch, "RemovalInFlight") /\ Queued(Removed, <<>>, "RemovalInFlight")
         /\ Reads(Removing, pending, working, ready) /\ Reads(Removed, pending, working, ready)
<1>1. /\ Taken \in Seq(Res) /\ Rest \in Seq(Res) /\ Once(Taken, Self) /\ Once(Rest, Self)
      /\ Range(Taken) \cap Range(Rest) = {} /\ readmit \subseteq Range(Taken)
      /\ \A r \in Res : st[r] \in {"EvictQueued", "RemovalInFlight"}
                          <=> r \in Range(Taken) \/ r \in Range(Rest)
      /\ \A r \in Range(Rest) : st[r] = "EvictQueued"
  BY TakenIs
<1>2. /\ Batch \in Seq(Res) /\ Back \in Seq(Res) /\ Once(Batch, Self) /\ Once(Back, Self)
      /\ Range(Back) = readmit /\ Range(Batch) = Range(Taken) \ readmit
      /\ Range(Taken) \subseteq Res
  BY BatchIs
<1>3. /\ \A r \in readmit : /\ Removing[r] = "CommitPending" /\ Removed[r] = "CommitPending"
                            /\ st[r] \in {"EvictQueued", "RemovalInFlight"}
      /\ \A r \in Range(Batch) : /\ Removing[r] = "RemovalInFlight" /\ Removed[r] = "Unloaded"
                                 /\ st[r] \in {"EvictQueued", "RemovalInFlight"}
      /\ \A r \in Res : r \notin readmit /\ r \notin Range(Batch) =>
                          /\ Removing[r] = st[r] /\ Removed[r] = st[r]
                          /\ r \notin Range(Taken)
  BY RemovingIs
<1>4. Queued(Removing, Rest, "EvictQueued") /\ Queued(Removed, Rest, "EvictQueued")
  <2>1. ASSUME NEW r \in Res
        PROVE  /\ Removing[r] = "EvictQueued" <=> r \in Range(Rest)
               /\ Removed[r] = "EvictQueued" <=> r \in Range(Rest)
    BY <1>1, <1>2, <1>3
  <2> QED
    BY <1>1, <2>1 DEF Queued
<1>5. Queued(Removing, Batch, "RemovalInFlight") /\ Queued(Removed, <<>>, "RemovalInFlight")
  <2>1. ASSUME NEW r \in Res
        PROVE  /\ Removing[r] = "RemovalInFlight" <=> r \in Range(Batch)
               /\ Removed[r] # "RemovalInFlight"
    BY <1>1, <1>2, <1>3
  <2>2. Once(<<>>, Self) /\ Range(<<>>) = {}
    BY OnceNone
  <2> QED
    BY <1>2, <2>1, <2>2 DEF Queued
<1>6. /\ commitQ \in Seq(Res) /\ Once(commitQ, Self)
      /\ \A r \in Res : st[r] = "CommitPending" <=> r \in Range(commitQ)
  BY DEF StreamInv, StreamTypeOK, Matched, Queued
<1>7. /\ commitQ \o Back \in Seq(Res) /\ Range(commitQ \o Back) = Range(commitQ) \cup readmit
      /\ Once(commitQ \o Back, Self)
  <2>1. KeysOf(commitQ, Self) = Range(commitQ) /\ KeysOf(Back, Self) = readmit
    BY <1>2, <1>6, KeysAre
  <2>2. Range(commitQ) \cap readmit = {}
    BY <1>1, <1>2, <1>3, <1>6
  <2>3. /\ commitQ \o Back \in Seq(Res) /\ Range(commitQ \o Back) = Range(commitQ) \cup Range(Back)
        /\ KeysOf(commitQ \o Back, Self) = KeysOf(commitQ, Self) \cup KeysOf(Back, Self)
        /\ Once(commitQ, Self) /\ Once(Back, Self) /\ KeysOf(commitQ, Self) \cap KeysOf(Back, Self) = {}
              => Once(commitQ \o Back, Self)
    BY <1>2, <1>6, OnceConcat
  <2> QED
    BY <1>2, <1>6, <2>1, <2>2, <2>3
<1>8. /\ Queued(Removing, commitQ \o Back, "CommitPending")
      /\ Queued(Removed, commitQ \o Back, "CommitPending")
  <2>1. ASSUME NEW r \in Res
        PROVE  /\ Removing[r] = "CommitPending" <=> r \in Range(commitQ) \cup readmit
               /\ Removed[r] = "CommitPending" <=> r \in Range(commitQ) \cup readmit
    BY <1>1, <1>2, <1>3, <1>6
  <2> QED
    BY <1>7, <2>1 DEF Queued
<1>9. Reads(Removing, pending, working, ready) /\ Reads(Removed, pending, working, ready)
  <2>1. ASSUME NEW r \in Res
        PROVE  /\ Removing[r] = "IoQueued" <=> st[r] = "IoQueued"
               /\ Removed[r] = "IoQueued" <=> st[r] = "IoQueued"
    BY <1>1, <1>2, <1>3
  <2>2. Reads(st, pending, working, ready)
    BY DEF StreamInv, Matched
  <2> QED
    BY <2>1, <2>2 DEF Reads
<1> QED
  BY <1>4, <1>5, <1>7, <1>8, <1>9

(* A submitted batch keeps its bytes, a removed one gives them all back. *)
LEMMA RemovingSums ==
  ASSUME StreamInv
  PROVE  /\ Sums(Removing, reserved, gpu) /\ Range(Batch) \subseteq Res
         /\ Sums(Removed, Minus(reserved, BytesOf(Range(Batch))), Minus(gpu, BytesOf(Range(Batch))))
         /\ Minus(reserved, BytesOf(Range(Batch))) <= reserved
<1> DEFINE D == Range(Batch)
<1>1. D \subseteq Res /\ readmit \subseteq Res
  BY BatchIs DEF StreamInv, StreamTypeOK
<1>2. /\ \A r \in readmit : /\ Removing[r] = "CommitPending" /\ Removed[r] = "CommitPending"
                            /\ st[r] \in {"EvictQueued", "RemovalInFlight"}
      /\ \A r \in D : /\ Removing[r] = "RemovalInFlight" /\ Removed[r] = "Unloaded"
                      /\ st[r] \in {"EvictQueued", "RemovalInFlight"}
      /\ \A r \in Res : r \notin readmit /\ r \notin D =>
                          Removing[r] = st[r] /\ Removed[r] = st[r]
  BY RemovingIs
<1>3. Sums(st, reserved, gpu) /\ reserved \in Nat
  BY TypesNow DEF StreamInv, Matched
<1> HIDE DEF D
<1>4. Those(Removing, HoldsBytes) = Those(st, HoldsBytes)
  BY <1>1, <1>2 DEF Those, HoldsBytes, HasBuffers
<1>5. Those(Removing, HasBuffers) = Those(st, HasBuffers)
  BY <1>1, <1>2 DEF Those, HasBuffers
<1>6. Those(Removed, HoldsBytes) = Those(st, HoldsBytes) \ D
  BY <1>1, <1>2 DEF Those, HoldsBytes, HasBuffers
<1>7. Those(Removed, HasBuffers) = Those(st, HasBuffers) \ D
  BY <1>1, <1>2 DEF Those, HasBuffers
<1>8. /\ Those(st, HoldsBytes) \in SUBSET Res /\ Those(st, HasBuffers) \in SUBSET Res
      /\ D \in SUBSET Those(st, HoldsBytes) /\ D \in SUBSET Those(st, HasBuffers)
  BY <1>1, <1>2 DEF Those, HoldsBytes, HasBuffers
<1>9. /\ Minus(reserved, BytesOf(D)) = BytesOf(Those(Removed, HoldsBytes))
      /\ Minus(gpu, BytesOf(D)) = BytesOf(Those(Removed, HasBuffers))
  BY <1>3, <1>6, <1>7, <1>8, BytesDrop DEF Sums
<1>10. Minus(reserved, BytesOf(D)) <= reserved
  <2>1. BytesOf(D) \in Nat
    BY <1>1, UnitsAre
  <2> DEFINE k == BytesOf(D)
  <2>2. k \in Nat
    BY <2>1
  <2> HIDE DEF k
  <2>3. Minus(reserved, k) <= reserved
    BY <1>3, <2>2 DEF Minus
  <2> QED
    BY <2>3 DEF k
<1>11. Sums(Removing, reserved, gpu)
  BY <1>3, <1>4, <1>5 DEF Sums
<1>12. Sums(Removed, Minus(reserved, BytesOf(D)), Minus(gpu, BytesOf(D)))
  BY <1>9 DEF Sums
<1> QED
  BY <1>1, <1>10, <1>11, <1>12 DEF D

(* An eviction tick: nothing left to remove, a batch refused, a batch
   acknowledged. *)
LEMMA EvictKeeps ==
  ASSUME StreamInv, Evict
  PROVE  StreamInv' /\ Grows
<1> DEFINE l == [i \in DOMAIN Batch |-> Entry(Batch[i], "unloaded")]
           D == Range(Batch)
<1>1. /\ Doing("evict") \/ Doing("stage0")
      /\ todo' = Tail(todo) /\ evictQ' = Rest /\ readmit' = readmit \ Range(Back)
      /\ commitQ' = commitQ \o Back
      /\ UNCHANGED <<phase, left, pos, exterior, moves, plan, budget, pending, working, ready>>
  BY DEF Evict, Taken, Rest, Back, OpDone, session, io
<1>2. \/ /\ Batch = <<>> /\ st' = Removing /\ inFlight' = Batch
         /\ UNCHANGED <<reserved, gpu, frozen, late, list, planner>>
      \/ /\ Submit(l, FALSE) /\ st' = Removing /\ inFlight' = Batch /\ frozen' \in BOOLEAN
         /\ UNCHANGED <<reserved, gpu>>
      \/ /\ Submit(l, TRUE) /\ st' = Removed /\ inFlight' = <<>> /\ frozen' = frozen
         /\ reserved' = Minus(reserved, BytesOf(D)) /\ gpu' = Minus(gpu, BytesOf(D))
  <2>1. \/ /\ Batch = <<>> /\ st' = Removing /\ inFlight' = <<>>
           /\ UNCHANGED <<reserved, gpu, refused, frozen, rpc>>
        \/ /\ Submit(l, FALSE) /\ st' = Removing /\ inFlight' = Batch
           /\ frozen' = (refused' >= FreezeAfter) /\ UNCHANGED <<reserved, gpu>>
        \/ /\ Submit(l, TRUE) /\ st' = Removed /\ inFlight' = <<>>
           /\ reserved' = Minus(reserved, BytesOf(D)) /\ gpu' = Minus(gpu, BytesOf(D))
           /\ UNCHANGED <<refused, frozen>>
    BY DEF Evict, Taken, Back, Batch, Removing, Removed
  <2>2. (refused' >= FreezeAfter) \in BOOLEAN
    OBVIOUS
  <2> HIDE DEF l, D
  <2> QED
    BY <2>1, <2>2 DEF rpc
<1>3. /\ Batch \in Seq(Res) /\ Range(Back) = readmit /\ D \subseteq Res /\ Rest \in Seq(Res)
  BY TakenIs, BatchIs, RangeIs
<1>4. /\ Removing \in [Res -> ResourceStates] /\ Removed \in [Res -> ResourceStates]
      /\ \A r \in readmit : /\ Removing[r] = "CommitPending" /\ Removed[r] = "CommitPending"
                            /\ st[r] \in {"EvictQueued", "RemovalInFlight"}
      /\ \A r \in D : /\ Removing[r] = "RemovalInFlight" /\ Removed[r] = "Unloaded"
                      /\ st[r] \in {"EvictQueued", "RemovalInFlight"}
      /\ \A r \in Res : r \notin readmit /\ r \notin D =>
                          Removing[r] = st[r] /\ Removed[r] = st[r]
  BY RemovingIs
<1>5. /\ Queued(Removing, Rest, "EvictQueued") /\ Queued(Removed, Rest, "EvictQueued")
      /\ commitQ \o Back \in Seq(Res)
      /\ Queued(Removing, commitQ \o Back, "CommitPending")
      /\ Queued(Removed, commitQ \o Back, "CommitPending")
      /\ Queued(Removing, Batch, "RemovalInFlight") /\ Queued(Removed, <<>>, "RemovalInFlight")
      /\ Reads(Removing, pending, working, ready) /\ Reads(Removed, pending, working, ready)
  BY RemovingMatches
<1>6. /\ Sums(Removing, reserved, gpu)
      /\ Sums(Removed, Minus(reserved, BytesOf(D)), Minus(gpu, BytesOf(D)))
      /\ Minus(reserved, BytesOf(D)) <= reserved
  BY RemovingSums
<1>7. /\ l \in Seq(Commits) /\ \A x \in Range(l) : x.res \in D /\ x.state = "unloaded"
      /\ \A r \in D : \E x \in Range(l) : x.res = r
  <2>1. Len(Batch) \in Nat /\ DOMAIN Batch = 1..Len(Batch) /\ \A i \in DOMAIN Batch : Batch[i] \in Res
    BY <1>3, LenProperties, ElementOfSeq
  <2>2. \A i \in DOMAIN Batch : /\ Entry(Batch[i], "unloaded") \in Commits
                                /\ Entry(Batch[i], "unloaded").res = Batch[i]
                                /\ Entry(Batch[i], "unloaded").state = "unloaded"
    BY <2>1 DEF Entry, Commits
  <2>3. l \in Seq(Commits)
    BY <2>1, <2>2
  <2>4. /\ DOMAIN l = DOMAIN Batch
        /\ \A i \in DOMAIN Batch : l[i].res = Batch[i] /\ l[i].state = "unloaded"
    BY <2>2
  <2> HIDE DEF l
  <2>5. \A x \in Range(l) : x.res \in D /\ x.state = "unloaded"
    BY <2>4 DEF Range
  <2>6. \A r \in D : \E x \in Range(l) : x.res = r
    BY <2>4 DEF Range
  <2> QED
    BY <2>3, <2>5, <2>6
<1> HIDE DEF l, D
<1>8. /\ Agrees(st, planner.resident) /\ Harmless(st, list) /\ Plans(planner)
      /\ list \in Seq(Commits) /\ late \in {"none", "update", "plan"}
  BY DEF StreamInv, StreamTypeOK
<1>9. Agrees(Removing, planner.resident)
  BY <1>4, <1>8 DEF Agrees, HasBuffers
<1>10. left' \in 0..AdmitRes /\ phase' \in {"drain", "boot", "play", "failed"} /\ Draining'
  <2>1. phase # "drain" /\ phase' = phase /\ left' = left
    BY <1>1, Playing
  <2>2. Draining'
    BY <1>1, <2>1, OperationEnds
  <2> QED
    BY <2>1, <2>2, TypedNow
<1>11. /\ readmit' = {} /\ evictQ' \in Seq(Res) /\ commitQ' \in Seq(Res)
       /\ pending' \in Seq(Requests) /\ working' \in Seq(Requests) /\ ready' \in Seq(Deliveries)
       /\ frozen \in BOOLEAN /\ reserved \in Nat
  BY <1>1, <1>3, <1>5, TypesNow DEF StreamInv, StreamTypeOK, Deliveries
<1>12. ASSUME st' = Removing, inFlight' = Batch, UNCHANGED <<reserved, gpu>>, frozen' \in BOOLEAN,
              Plans(planner'), list' \in Seq(Commits), late' \in {"none", "update", "plan"},
              Agrees(Removing, planner'.resident), Harmless(Removing, list')
       PROVE  StreamInv' /\ Grows
  <2>1. Matched'
    BY <1>1, <1>5, <1>6, <1>11, <1>12 DEF Matched
  <2>2. /\ st' \in [Res -> ResourceStates] /\ readmit' \subseteq Res /\ inFlight' \in Seq(Res)
        /\ reserved' <= reserved
    BY <1>3, <1>4, <1>11, <1>12
  <2> QED
    BY <1>1, <1>10, <1>11, <1>12, <2>1, <2>2, InStepAgain
<1>13. CASE /\ Batch = <<>> /\ st' = Removing /\ inFlight' = Batch
            /\ UNCHANGED <<reserved, gpu, frozen, late, list, planner>>
  <2>1. Harmless(Removing, list)
    BY <1>4, <1>8 DEF Harmless, HasBuffers
  <2> QED
    BY <1>8, <1>9, <1>11, <1>12, <1>13, <2>1
<1>14. CASE /\ Submit(l, FALSE) /\ st' = Removing /\ inFlight' = Batch /\ frozen' \in BOOLEAN
            /\ UNCHANGED <<reserved, gpu>>
  <2>1. Harmless(Removing, l)
    BY <1>3, <1>4, <1>7 DEF Harmless
  <2>2. \A r \in Res : (\A x \in Range(l) : x.res # r) =>
                         /\ r \in planner.resident => Removing[r] \in HasBuffers
                         /\ Removing[r] \in {"Resident", "EvictQueued"} => r \in planner.resident
    BY <1>9 DEF Agrees
  <2>3. /\ Plans(planner') /\ list' \in Seq(Commits) /\ late' \in {"none", "update", "plan"}
        /\ Agrees(Removing, planner'.resident) /\ Harmless(Removing, list')
    BY <1>7, <1>9, <1>14, <2>1, <2>2, SubmitKeeps
  <2> QED
    BY <1>12, <1>14, <2>3
<1>15. CASE /\ Submit(l, TRUE) /\ st' = Removed /\ inFlight' = <<>> /\ frozen' = frozen
            /\ reserved' = Minus(reserved, BytesOf(D)) /\ gpu' = Minus(gpu, BytesOf(D))
  <2>1. Harmless(Removed, l)
    BY <1>3, <1>4, <1>7 DEF Harmless
  <2>2. \A r \in Res : (\A x \in Range(l) : x.res # r) =>
                         /\ r \in planner.resident => Removed[r] \in HasBuffers
                         /\ Removed[r] \in {"Resident", "EvictQueued"} => r \in planner.resident
    <3> SUFFICES ASSUME NEW r \in Res, \A x \in Range(l) : x.res # r
                 PROVE  /\ r \in planner.resident => Removed[r] \in HasBuffers
                        /\ Removed[r] \in {"Resident", "EvictQueued"} => r \in planner.resident
      OBVIOUS
    <3>1. r \notin D
      BY <1>7
    <3> QED
      BY <1>4, <1>8, <3>1 DEF Agrees, HasBuffers
  <2>3. /\ Plans(planner') /\ list' \in Seq(Commits) /\ late' \in {"none", "update", "plan"}
        /\ Agrees(Removed, planner'.resident) /\ Harmless(Removed, list')
    BY <1>7, <1>15, <2>1, <2>2, SubmitKeeps
  <2>4. Matched'
    BY <1>1, <1>5, <1>6, <1>11, <1>15 DEF Matched
  <2>5. /\ st' \in [Res -> ResourceStates] /\ readmit' \subseteq Res /\ inFlight' \in Seq(Res)
        /\ reserved' <= reserved /\ frozen' \in BOOLEAN
    BY <1>4, <1>6, <1>11, <1>15, OnceNone
  <2> QED
    BY <1>1, <1>10, <1>11, <1>15, <2>3, <2>4, <2>5, InStepAgain
<1> QED
  BY <1>2, <1>13, <1>14, <1>15

-----------------------------------------------------------------------------
(* The drain of the whole set, and the steps that change nothing.          *)

(* While the drain has an operation left, nothing but it has happened.     *)
LEMMA StillDraining ==
  ASSUME StreamInv, Doing("drain")
  PROVE  /\ phase = "drain" /\ Total <= cap
         /\ \A r \in Res : st[r] \in {"Unloaded", "Resident"}
<1>1. phase = "drain"
  <2> SUFFICES ASSUME phase # "drain"
               PROVE  FALSE
    OBVIOUS
  <2>1. todo \in Seq(Operations) /\ todo # <<>> /\ Head(todo) = "drain"
    BY DEF StreamInv, Draining, Doing
  <2>2. Head(todo) \in Operations
    BY <2>1, HeadTailProperties
  <2> QED
    BY <2>1, <2>2 DEF Operations
<1> QED
  BY <1>1 DEF StreamInv, Draining

(* The resource the drain is at has not been touched yet.                  *)
LEMMA DrainsUnloaded ==
  ASSUME StreamInv, Doing("drain"), NEW rest, rest = {r \in Res : st[r] # "Resident"},
         rest # {}
  PROVE  /\ (CHOOSE q \in rest : \A o \in rest : q <= o) \in Res
         /\ st[CHOOSE q \in rest : \A o \in rest : q <= o] = "Unloaded"
<1>1. rest \subseteq Nat
  BY ResTyped
<1>2. \E q \in rest : \A o \in rest : q <= o
  BY <1>1, SmallestOf
<1>3. (CHOOSE q \in rest : \A o \in rest : q <= o) \in rest
  BY <1>2
<1>4. \A r \in Res : st[r] \in {"Unloaded", "Resident"}
  BY StillDraining
<1> QED
  BY <1>3, <1>4

(* What the drain makes of one resource.                                   *)
LEMMA DrainOne ==
  ASSUME StreamInv, Doing("drain"), todo' = <<>>,
         UNCHANGED <<left, pos, exterior, moves, readmit, evictQ, inFlight, frozen, plan, budget,
                     pending, working, ready>>,
         NEW r \in Res, st[r] = "Unloaded", NEW b \in {"Resident", "CommitPending", "Unavailable"},
         st' = [st EXCEPT ![r] = b],
         reserved' = Shifted(reserved, HoldsBytes, "Unloaded", b, r),
         gpu' = Shifted(gpu, HasBuffers, "Unloaded", b, r),
         commitQ' = IF b = "CommitPending" THEN Append(commitQ, r) ELSE commitQ,
         phase' = IF b = "Resident" THEN phase ELSE "failed",
         Plans(planner'), list' \in Seq(Commits), late' \in {"none", "update", "plan"},
         Agrees(st', planner'.resident), Harmless(st', list')
  PROVE  StreamInv' /\ Grows
<1>1. /\ phase = "drain" /\ Total <= cap /\ \A o \in Res : st[o] \in {"Unloaded", "Resident"}
  BY StillDraining
<1>2. /\ st \in [Res -> ResourceStates] /\ b \in ResourceStates
      /\ st' \in [Res -> ResourceStates]
  BY DEF StreamInv, StreamTypeOK, ResourceStates
<1>3. Sums(st, reserved, gpu) /\ Reads(st, pending, working, ready)
  BY DEF StreamInv, Matched
<1>4. /\ Queued(st, evictQ, "EvictQueued") /\ Queued(st, commitQ, "CommitPending")
      /\ Queued(st, inFlight, "RemovalInFlight") /\ readmit \subseteq Range(inFlight)
  BY DEF StreamInv, Matched
<1>5. /\ evictQ \in Seq(Res) /\ inFlight \in Seq(Res) /\ commitQ \in Seq(Res)
      /\ pending \in Seq(Requests) /\ working \in Seq(Requests) /\ ready \in Seq(Deliveries)
      /\ readmit \subseteq Res /\ frozen \in BOOLEAN
  BY DEF StreamInv, StreamTypeOK, Deliveries
<1>6. Sums(st', reserved', gpu')
  BY <1>2, <1>3, SumsShift
<1>7. Reads(st', pending, working, ready)
  BY <1>2, <1>3, ReadsShift
<1>8. Queued(st', evictQ, "EvictQueued") /\ Queued(st', inFlight, "RemovalInFlight")
  BY <1>2, <1>4, QueuedShift
<1>9. Queued(st', commitQ', "CommitPending") /\ commitQ' \in Seq(Res)
  <2>1. CASE b = "CommitPending"
    BY <1>2, <1>4, <1>5, <2>1, QueuedJoins
  <2>2. CASE b # "CommitPending"
    BY <1>2, <1>4, <1>5, <2>2, QueuedShift
  <2> QED
    BY <2>1, <2>2
<1>10. Matched'
  BY <1>4, <1>6, <1>7, <1>8, <1>9 DEF Matched
<1>11. phase' \in {"drain", "boot", "play", "failed"} /\ left' \in 0..AdmitRes
  BY <1>1, TypedNow
<1>12. Draining'
  <2>1. <<>> \in Seq(Operations)
    BY OnceNone
  <2>2. CASE b = "Resident"
    <3>1. \A o \in Res : st'[o] \in {"Unloaded", "Resident"}
      BY <1>1, <1>2, <2>2
    <3>2. phase' = "drain" /\ (Total <= cap)'
      BY <1>1, <2>2 DEF Total, budget
    <3> QED
      BY <3>1, <3>2 DEF Draining
  <2>3. CASE b # "Resident"
    BY <2>1, <2>3 DEF Draining
  <2> QED
    BY <2>2, <2>3
<1>13. reserved' <= cap
  <2>1. Those(st', HoldsBytes) \in SUBSET Res /\ Res \in SUBSET Res
    BY DEF Those
  <2>2. /\ BytesOf(Those(st', HoldsBytes)) <= BytesOf(Res)
        /\ BytesOf(Those(st', HoldsBytes)) \in Nat /\ BytesOf(Res) \in Nat
    BY <2>1, BytesSplit
  <2>3. reserved' = BytesOf(Those(st', HoldsBytes)) /\ Total = BytesOf(Res)
    BY <1>6 DEF Sums, Total
  <2>4. cap \in Nat
    BY TypesNow
  <2> DEFINE n == BytesOf(Those(st', HoldsBytes))
             all == BytesOf(Res)
  <2>5. n <= all /\ n \in Nat /\ all \in Nat /\ reserved' = n /\ all <= cap
    BY <1>1, <2>2, <2>3
  <2> HIDE DEF n, all
  <2> QED
    BY <2>4, <2>5
<1> QED
  BY <1>2, <1>5, <1>9, <1>10, <1>11, <1>12, <1>13, InStepAgain

(* One step of the drain. *)
LEMMA DrainKeeps ==
  ASSUME StreamInv, Drain
  PROVE  StreamInv' /\ Grows
<1> DEFINE rest == {r \in Res : st[r] # "Resident"}
           r == CHOOSE q \in rest : \A o \in rest : q <= o
<1>1. /\ Doing("drain") /\ todo' = <<>>
      /\ UNCHANGED <<left, pos, exterior, moves, readmit, evictQ, inFlight, frozen, refused, plan,
                     budget, pending, working, ready>>
  BY DEF Drain, io
<1>2. \/ rest = {} /\ phase' = "play" /\ UNCHANGED <<ledger, commitQ, rpc>>
      \/ /\ rest # {} /\ gpu' = gpu + Bytes[r] /\ reserved' = reserved + Bytes[r]
         /\ \E acked \in BOOLEAN :
              /\ Submit(<<Entry(r, "resident")>>, acked)
              /\ st' = [st EXCEPT ![r] = IF acked THEN "Resident" ELSE "CommitPending"]
              /\ commitQ' = IF acked THEN commitQ ELSE Append(commitQ, r)
              /\ phase' = IF acked THEN phase ELSE "failed"
      \/ /\ rest # {} /\ st' = [st EXCEPT ![r] = "Unavailable"]
         /\ UNCHANGED <<reserved, gpu, commitQ>>
         /\ \E acked \in BOOLEAN : Submit(<<Entry(r, "unavailable")>>, acked)
         /\ phase' = "failed"
  BY DEF Drain
<1>3. rest # {} => r \in Res /\ st[r] = "Unloaded"
  BY <1>1, DrainsUnloaded
<1> HIDE DEF rest, r
<1>4. CASE rest = {} /\ phase' = "play" /\ UNCHANGED <<ledger, commitQ, rpc>>
  <2>1. UNCHANGED <<ledger, queues, io, planner, list, late>>
    BY <1>1, <1>4 DEF queues, io, rpc
  <2>2. UNCHANGED <<left, pos, moves, lower, cap, idle, exterior, epoch>>
    BY <1>1 DEF plan, budget
  <2>3. Draining'
    BY <1>1, <1>4, OnceNone DEF Draining
  <2>4. phase' \in {"drain", "boot", "play", "failed"}
    BY <1>4
  <2> QED
    BY <2>1, <2>2, <2>3, <2>4, TypedNow, StillInStep
<1>5. ASSUME rest # {}, gpu' = gpu + Bytes[r], reserved' = reserved + Bytes[r],
             NEW acked \in BOOLEAN, Submit(<<Entry(r, "resident")>>, acked),
             st' = [st EXCEPT ![r] = IF acked THEN "Resident" ELSE "CommitPending"],
             commitQ' = IF acked THEN commitQ ELSE Append(commitQ, r),
             phase' = IF acked THEN phase ELSE "failed"
      PROVE  StreamInv' /\ Grows
  <2> DEFINE b == IF acked THEN "Resident" ELSE "CommitPending"
  <2>1. /\ b \in {"Resident", "CommitPending", "Unavailable"} /\ b \in ResourceStates
        /\ b \in HasBuffers /\ (~acked => b \notin {"Resident", "EvictQueued"})
        /\ b \in HoldsBytes /\ st' = [st EXCEPT ![r] = b]
        /\ commitQ' = (IF b = "CommitPending" THEN Append(commitQ, r) ELSE commitQ)
        /\ phase' = (IF b = "Resident" THEN phase ELSE "failed")
    BY <1>5 DEF HasBuffers, HoldsBytes, ResourceStates
  <2> HIDE DEF b
  <2>2. "Unloaded" \notin HoldsBytes /\ "Unloaded" \notin HasBuffers
    BY StatesDiffer
  <2>3. /\ reserved' = Shifted(reserved, HoldsBytes, "Unloaded", b, r)
        /\ gpu' = Shifted(gpu, HasBuffers, "Unloaded", b, r)
    BY <1>5, <2>1, <2>2 DEF Shifted
  <2>4. /\ Plans(planner') /\ list' \in Seq(Commits) /\ late' \in {"none", "update", "plan"}
        /\ Agrees([st EXCEPT ![r] = b], planner'.resident)
        /\ Harmless([st EXCEPT ![r] = b], list')
    BY <1>3, <1>5, <2>1, SubmitOne
  <2> QED
    BY <1>1, <1>3, <1>5, <2>1, <2>3, <2>4, DrainOne
<1>6. ASSUME rest # {}, st' = [st EXCEPT ![r] = "Unavailable"],
             UNCHANGED <<reserved, gpu, commitQ>>, phase' = "failed",
             NEW acked \in BOOLEAN, Submit(<<Entry(r, "unavailable")>>, acked)
      PROVE  StreamInv' /\ Grows
  <2>1. /\ "Unavailable" \notin HoldsBytes /\ "Unavailable" \notin HasBuffers
        /\ "Unloaded" \notin HoldsBytes /\ "Unloaded" \notin HasBuffers
        /\ "Unavailable" \in ResourceStates
    BY StatesDiffer
  <2>2. /\ reserved' = Shifted(reserved, HoldsBytes, "Unloaded", "Unavailable", r)
        /\ gpu' = Shifted(gpu, HasBuffers, "Unloaded", "Unavailable", r)
    BY <1>6, <2>1 DEF Shifted
  <2>3. /\ Plans(planner') /\ list' \in Seq(Commits) /\ late' \in {"none", "update", "plan"}
        /\ Agrees([st EXCEPT ![r] = "Unavailable"], planner'.resident)
        /\ Harmless([st EXCEPT ![r] = "Unavailable"], list')
    BY <1>3, <1>6, <2>1, SubmitOne
  <2> QED
    BY <1>1, <1>3, <1>6, <2>2, <2>3, DrainOne
<1> QED
  BY <1>2, <1>4, <1>5, <1>6

(* An operation that has nothing to do is skipped.                         *)
LEMMA NothingToDoKeeps ==
  ASSUME StreamInv, NoEvict \/ NoPlan
  PROVE  StreamInv' /\ Grows
<1>1. Skip("evict") \/ Skip("stage0") \/ Skip("plan")
  BY DEF NoEvict, NoPlan
<1> QED
  BY <1>1, SkipKeeps

(* Nothing happens. *)
LEMMA StutterKeeps ==
  ASSUME StreamInv, UNCHANGED streamVars
  PROVE  StreamInv' /\ Grows
<1>1. /\ UNCHANGED <<ledger, queues, io, planner, list, todo>>
      /\ UNCHANGED <<phase, left, pos, moves, lower, cap, idle, exterior, epoch, late, st>>
  BY DEF streamVars, session, plan, budget, rpc, ledger
<1>2. Draining'
  BY <1>1 DEF StreamInv, Draining
<1> QED
  BY <1>1, <1>2, TypedNow, StillInStep

-----------------------------------------------------------------------------
(* The invariant of the specification.                                     *)

(* No resource, no bytes. *)
LEMMA BytesOfNone == BytesOf({}) = 0
<1>1. Units({}) = {}
  BY DEF Units
<1>2. BytesOf({}) = Cardinality(Units({}))
  BY UnitsAre
<1> QED
  BY <1>1, <1>2, FS_EmptySet

(* The invariant holds where a session begins. *)
LEMMA StreamInitHolds ==
  ASSUME StreamInit
  PROVE  StreamInv
<1>1. /\ cap \in FirstCaps /\ phase \in {"drain", "boot", "play"} /\ (phase = "drain" => Total <= cap)
      /\ idle \in BOOLEAN /\ pos \in FirstPlaces /\ exterior = TRUE /\ moves = 0 /\ left = 0
      /\ todo = <<>> /\ st = [r \in Res |-> "Unloaded"] /\ reserved = 0 /\ gpu = 0
      /\ readmit = {} /\ evictQ = <<>> /\ inFlight = <<>> /\ commitQ = <<>> /\ frozen = FALSE
      /\ epoch = 0 /\ lower = 0 /\ pending = <<>> /\ working = <<>> /\ ready = <<>>
      /\ late = "none" /\ list = <<>> /\ planner = NewPlanner
  BY DEF StreamInit
<1>2. Plans(planner)
  <2> DEFINE fields == DOMAIN NewPlanner
  <2>1. NewPlanner.resident = {} /\ NewPlanner.unavailable = {} /\ NewPlanner.bucket = 0
    BY DEF NewPlanner
  <2> QED
    BY <1>1, <2>1 DEF Plans
<1>3. /\ <<>> \in Seq(Res) /\ <<>> \in Seq(Requests) /\ <<>> \in Seq(Deliveries)
      /\ <<>> \in Seq(Commits) /\ <<>> \in Seq(Operations)
  OBVIOUS
<1>4. StreamTypeOK
  <2>1. /\ left \in 0..AdmitRes /\ pos \in Places /\ moves \in 0..MaxMoves
        /\ lower \in 0..(Samples - 1)
    BY <1>1, ResidencyAssumption
  <2>2. st \in [Res -> ResourceStates]
    BY <1>1 DEF ResourceStates
  <2>3. /\ late \in {"none", "update", "plan"} /\ phase \in {"drain", "boot", "play", "failed"}
        /\ cap \in Candidates \cup FirstCaps /\ readmit \subseteq Res
    BY <1>1
  <2>6. reserved \in Nat /\ gpu \in Nat /\ epoch \in Nat
    BY <1>1
  <2>7. idle \in BOOLEAN /\ frozen \in BOOLEAN /\ exterior \in BOOLEAN
    BY <1>1
  <2>4. planner.resident \subseteq Res /\ planner.unavailable \subseteq Res
    BY <1>2 DEF Plans
  <2>5. /\ \A q \in {evictQ, inFlight, commitQ} : q \in Seq(Res)
        /\ \A q \in {pending, working} : q \in Seq(Requests) /\ ready \in Seq(Deliveries)
    BY <1>1, <1>3
  <2> QED
    BY <2>1, <2>2, <2>3, <2>4, <2>5, <2>6, <2>7 DEF StreamTypeOK, Deliveries
<1>5. \A r \in Res : st[r] = "Unloaded"
  BY <1>1
<1>6. Matched
  <2>1. Those(st, HoldsBytes) = {} /\ Those(st, HasBuffers) = {}
    BY <1>5, StatesDiffer DEF Those
  <2>2. Sums(st, reserved, gpu)
    BY <1>1, <2>1, BytesOfNone DEF Sums
  <2>3. /\ Once(<<>>, Self) /\ Once(<<>>, ByRes) /\ Once(<<>>, ByReq) /\ Range(<<>>) = {}
        /\ KeysOf(<<>>, ByRes) = {} /\ KeysOf(<<>>, ByReq) = {}
    BY OnceNone DEF KeysOf
  <2>4. Reads(st, <<>>, <<>>, <<>>)
    BY <1>5, <2>3 DEF Reads
  <2>5. /\ Queued(st, <<>>, "EvictQueued") /\ Queued(st, <<>>, "CommitPending")
        /\ Queued(st, <<>>, "RemovalInFlight")
    BY <1>5, <2>3 DEF Queued
  <2> QED
    BY <1>1, <2>2, <2>4, <2>5 DEF Matched
<1>7. Agrees(st, planner.resident) /\ Harmless(st, list)
  <2>1. planner.resident = {} /\ Range(<<>>) = {}
    BY <1>1, OnceNone DEF NewPlanner
  <2> QED
    BY <1>1, <1>5, <2>1 DEF Agrees, Harmless
<1>8. Draining
  BY <1>1, <1>3, <1>5 DEF Draining
<1> QED
  BY <1>1, <1>2, <1>3, <1>4, <1>6, <1>7, <1>8 DEF StreamInv

(* Every step keeps it, and none outgrows the cap. *)
LEMMA StreamNextKeeps ==
  ASSUME StreamInv, [StreamNext]_streamVars
  PROVE  StreamInv' /\ Grows
<1>1. CASE Other
  BY <1>1, FrameKeeps, SampleKeeps, NothingToDoKeeps, RetryCommitKeeps, CollectKeeps, AdmitDoneKeeps,
     EvictKeeps, DrainKeeps, SettleKeeps DEF Other
<1>2. CASE Planned
  BY <1>2, PlanKeeps DEF Planned
<1>3. CASE Worker
  BY <1>3, ReadKeeps, DeliverKeeps DEF Worker
<1>4. CASE HostLate
  BY <1>4, HostLateKeeps
<1>5. CASE Move
  BY <1>5, MoveKeeps
<1>6. CASE UNCHANGED streamVars
  BY <1>6, StutterKeeps
<1> QED
  BY <1>1, <1>2, <1>3, <1>4, <1>5, <1>6 DEF StreamNext

(* The invariant holds of every state.                                     *)
THEOREM StreamInvariance == StreamSpec => []StreamInv
<1>1. StreamInit => StreamInv
  BY StreamInitHolds
<1>2. StreamInv /\ [StreamNext]_streamVars => StreamInv'
  BY StreamNextKeeps
<1> QED
  BY <1>1, <1>2, PTL DEF StreamSpec

-----------------------------------------------------------------------------
(* What the runs check of it.                                              *)

AllReads == pending \o working \o [i \in DOMAIN ready |-> ready[i].req]

(* A key of a queue is the key of an element. *)
LEMMA KeyIs ==
  ASSUME NEW q, NEW key, NEW y
  PROVE  /\ y \in KeysOf(q, key) => \E i \in DOMAIN q : y = key[q[i]]
         /\ \A i \in DOMAIN q : key[q[i]] \in KeysOf(q, key)
BY DEF KeysOf, Range

(* A resource waits for one read exactly while it is IoQueued.             *)
LEMMA ReadsMatch ==
  ASSUME StreamInv, NEW r \in Res
  PROVE  Cardinality({i \in DOMAIN AllReads : AllReads[i].res = r})
           = IF st[r] = "IoQueued" THEN 1 ELSE 0
<1> DEFINE reads == AllReads
           got == [i \in DOMAIN ready |-> ready[i].req]
           both == pending \o working
<1>1. pending \in Seq(Requests) /\ working \in Seq(Requests) /\ ready \in Seq(Deliveries)
  BY DEF StreamInv, StreamTypeOK, Deliveries
<1>2. /\ Once(pending, ByRes) /\ Once(working, ByRes) /\ Once(ready, ByReq)
      /\ KeysOf(pending, ByRes) \cap KeysOf(working, ByRes) = {}
      /\ KeysOf(pending, ByRes) \cap KeysOf(ready, ByReq) = {}
      /\ KeysOf(working, ByRes) \cap KeysOf(ready, ByReq) = {}
      /\ st[r] = "IoQueued" <=> \/ r \in KeysOf(pending, ByRes) \/ r \in KeysOf(working, ByRes)
                                \/ r \in KeysOf(ready, ByReq)
  BY DEF StreamInv, Matched, Reads
<1>3. /\ got \in Seq(Requests) /\ DOMAIN got = DOMAIN ready
      /\ \A i \in DOMAIN ready : got[i] = ready[i].req /\ ByRes[got[i]] = ByReq[ready[i]]
  <2>1. /\ Len(ready) \in Nat /\ DOMAIN ready = 1..Len(ready)
        /\ \A i \in DOMAIN ready : ready[i] \in Deliveries
    BY <1>1, LenProperties, ElementOfSeq
  <2>2. \A i \in DOMAIN ready : /\ ready[i].req \in Requests
                                /\ ByReq[ready[i]] = ready[i].req.res
                                /\ ByRes[ready[i].req] = ready[i].req.res
    BY <2>1 DEF Deliveries, ByReq, ByRes
  <2>3. got \in Seq(Requests)
    BY <2>1, <2>2
  <2> QED
    BY <2>2, <2>3
<1> HIDE DEF got
<1>4. Once(got, ByRes)
  BY <1>2, <1>3 DEF Once
<1>5. KeysOf(got, ByRes) = KeysOf(ready, ByReq)
  <2>1. ASSUME NEW y \in KeysOf(got, ByRes)
        PROVE  y \in KeysOf(ready, ByReq)
    <3>1. PICK i \in DOMAIN got : y = ByRes[got[i]]
      BY KeyIs
    <3>2. i \in DOMAIN ready /\ y = ByReq[ready[i]]
      BY <1>3, <3>1
    <3> QED
      BY <3>2, KeyIs
  <2>2. ASSUME NEW y \in KeysOf(ready, ByReq)
        PROVE  y \in KeysOf(got, ByRes)
    <3>1. PICK i \in DOMAIN ready : y = ByReq[ready[i]]
      BY KeyIs
    <3>2. i \in DOMAIN got /\ y = ByRes[got[i]]
      BY <1>3, <3>1
    <3> QED
      BY <3>2, KeyIs
  <2> QED
    BY <2>1, <2>2
<1>6. /\ both \in Seq(Requests) /\ Once(both, ByRes)
      /\ KeysOf(both, ByRes) = KeysOf(pending, ByRes) \cup KeysOf(working, ByRes)
  BY <1>1, <1>2, OnceConcat
<1> HIDE DEF both
<1>7. KeysOf(both, ByRes) \cap KeysOf(got, ByRes) = {}
  BY <1>2, <1>5, <1>6
<1>8. /\ both \o got \in Seq(Requests) /\ Once(both \o got, ByRes)
      /\ KeysOf(both \o got, ByRes) = KeysOf(both, ByRes) \cup KeysOf(got, ByRes)
  BY <1>3, <1>4, <1>6, <1>7, OnceConcat
<1>9. reads = both \o got
  BY DEF both, got, AllReads
<1> HIDE DEF reads
<1>10. /\ reads \in Seq(Requests) /\ Once(reads, ByRes)
       /\ st[r] = "IoQueued" <=> r \in KeysOf(reads, ByRes)
  BY <1>2, <1>5, <1>6, <1>8, <1>9
<1>11. \A i \in DOMAIN reads : ByRes[reads[i]] = reads[i].res
  <2>1. Range(reads) \subseteq Requests
    BY <1>10, RangeIs
  <2>2. \A i \in DOMAIN reads : reads[i] \in Requests
    BY <2>1 DEF Range
  <2> QED
    BY <2>2 DEF ByRes
<1>12. \A i, j \in DOMAIN reads : reads[i].res = reads[j].res => i = j
  BY <1>10, <1>11 DEF Once
<1>13. r \in KeysOf(reads, ByRes) <=> \E i \in DOMAIN reads : reads[i].res = r
  <2>1. /\ r \in KeysOf(reads, ByRes) => \E i \in DOMAIN reads : r = ByRes[reads[i]]
        /\ \A i \in DOMAIN reads : ByRes[reads[i]] \in KeysOf(reads, ByRes)
    BY KeyIs
  <2> QED
    BY <1>11, <2>1
<1> DEFINE I == {i \in DOMAIN reads : reads[i].res = r}
<1>14. CASE st[r] = "IoQueued"
  <2>1. PICK i \in DOMAIN reads : reads[i].res = r
    BY <1>10, <1>13, <1>14
  <2>2. I = {i}
    BY <1>12, <2>1
  <2>3. Cardinality({i}) = 1
    BY FS_Singleton
  <2> QED
    BY <1>14, <2>2, <2>3 DEF reads
<1>15. CASE st[r] # "IoQueued"
  <2>1. I = {}
    BY <1>10, <1>13, <1>15
  <2> QED
    BY <1>15, <2>1, FS_EmptySet DEF reads
<1> QED
  BY <1>14, <1>15 DEF reads

(* A queue has exactly the resources in its state, each once.              *)
LEMMA QueueMatches ==
  ASSUME NEW q \in Seq(Res), NEW status, Queued(st, q, status)
  PROVE  IsInjective(q) /\ \A r \in Res : (st[r] = status) = Contains(q, r)
<1>1. Once(q, Self) /\ \A r \in Res : st[r] = status <=> r \in Range(q)
  BY DEF Queued
<1>2. Len(q) \in Nat /\ DOMAIN q = 1..Len(q)
  BY LenProperties
<1>3. Range(q) \subseteq Res /\ \A i \in DOMAIN q : q[i] \in Range(q)
  BY RangeIs DEF Range
<1>4. \A i \in DOMAIN q : Self[q[i]] = q[i]
  BY <1>3 DEF Self
<1>5. \A i, j \in DOMAIN q : q[i] = q[j] => i = j
  BY <1>1, <1>4 DEF Once
<1>6. IsInjective(q)
  BY <1>5 DEF IsInjective
<1>7. \A r \in Res : r \in Range(q) <=> Contains(q, r)
  BY <1>2 DEF Contains, Range
<1>8. ASSUME NEW r \in Res
      PROVE  (st[r] = status) = Contains(q, r)
  <2>1. Contains(q, r) \in BOOLEAN
    BY DEF Contains
  <2>2. (st[r] = status) <=> Contains(q, r)
    BY <1>1, <1>7
  <2> QED
    BY <2>1, <2>2
<1> QED
  BY <1>6, <1>8

(* The invariant says all that the runs check of a state. *)
LEMMA InvariantInStep ==
  ASSUME StreamInv
  PROVE  InStep
<1>1. StreamTypeOK
  BY DEF StreamInv
<1>2. LedgersAddUp
  <2>1. \A X : SumOf(X) = BytesOf(Those(st, X))
    BY DEF SumOf, Those
  <2> QED
    BY <2>1 DEF StreamInv, Matched, Sums, LedgersAddUp
<1>3. HostAgrees
  <2>1. planner.resident \subseteq Res
    BY DEF StreamInv, Plans
  <2> QED
    BY <2>1 DEF StreamInv, Agrees, HostAgrees
<1>4. QueuesMatch
  <2>1. evictQ \in Seq(Res) /\ inFlight \in Seq(Res) /\ commitQ \in Seq(Res)
    BY DEF StreamInv, StreamTypeOK
  <2>2. /\ Queued(st, evictQ, "EvictQueued") /\ Queued(st, commitQ, "CommitPending")
        /\ Queued(st, inFlight, "RemovalInFlight") /\ readmit \subseteq Range(inFlight)
    BY DEF StreamInv, Matched
  <2>3. /\ IsInjective(evictQ) /\ IsInjective(inFlight) /\ IsInjective(commitQ)
        /\ \A r \in Res : (st[r] = "EvictQueued") = Contains(evictQ, r)
        /\ \A r \in Res : (st[r] = "RemovalInFlight") = Contains(inFlight, r)
        /\ \A r \in Res : (st[r] = "CommitPending") = Contains(commitQ, r)
    BY <2>1, <2>2, QueueMatches
  <2>4. \A r \in Res : Cardinality({i \in DOMAIN AllReads : AllReads[i].res = r})
                         = IF st[r] = "IoQueued" THEN 1 ELSE 0
    BY ReadsMatch
  <2> QED
    BY <2>2, <2>3, <2>4 DEF QueuesMatch, AllReads
<1> QED
  BY <1>1, <1>2, <1>3, <1>4 DEF InStep

(* The ledgers are what the states add up to, the host agrees with the game, and
   every queue and read belongs to one resource in the state it serves, for any
   catalog, any cap, any number of late RPCs and of failures.                  *)
THEOREM GameStaysInStep == StreamSpec => []InStep
<1>1. StreamInv => InStep
  BY InvariantInStep
<1> QED
  BY <1>1, StreamInvariance, PTL

(* Whatever the cap falls to, the bytes held or waited for outgrow it in no step. *)
THEOREM CapIsNotOutgrown == StreamSpec => GrowsWithinCap
<1>1. ASSUME StreamInv, [StreamNext]_streamVars
      PROVE  SumOf(HoldsBytes)' > SumOf(HoldsBytes) => SumOf(HoldsBytes)' <= cap'
  <2>1. StreamInv' /\ Grows
    BY <1>1, StreamNextKeeps
  <2>2. SumOf(HoldsBytes) = reserved
    BY <1>1 DEF StreamInv, Matched, Sums, SumOf, Those
  <2>3. SumOf(HoldsBytes)' = reserved'
    BY <2>1 DEF StreamInv, Matched, Sums, SumOf, Those, HoldsBytes, HasBuffers
  <2> QED
    BY <2>1, <2>2, <2>3 DEF Grows
<1> QED
  BY <1>1, StreamInvariance, PTL DEF StreamSpec, GrowsWithinCap

=============================================================================
