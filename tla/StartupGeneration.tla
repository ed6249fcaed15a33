------------------------- MODULE StartupGeneration --------------------------
(***************************************************************************)
(* Who regenerates the distant-land tree, and who is told what.            *)
(*                                                                         *)
(* Every game has a host process whose worker thread inspects the tree,    *)
(* takes the named mutex of the installation, generates, and then pins a   *)
(* snapshot for the session; the game polls the outcome.  The GUI runs the *)
(* same generator from a worker thread of its own, without the mutex.  The *)
(* writer lock (one writer or any number of readers) is what they share.   *)
(*                                                                         *)
(* The tree is a value here: the inputs it was generated from, or why it   *)
(* is none.  OutputStore shows that the files behave like that.            *)
(***************************************************************************)
EXTENDS Naturals, FiniteSets

CONSTANTS
  Hosts,      (* host processes, one for each running game                *)
  Guis,       (* configuration programs                                   *)
  Jobs,       (* what a load of the job may give: settings and plugins    *)
  Files,      (* contents of the plugins' files                           *)
  Inputs,     (* inputs a tree may have been generated from               *)
  Reads,      (* what a generation of a job reads from such files         *)
  FirstJob,   (* the job at first                                         *)
  FirstFiles, (* the files at first                                       *)
  None,       (* nobody                                                   *)
  InitTrees,  (* the trees found at first                                 *)
  MaxStarts,  (* bound: how often each host is started                    *)
  MaxChanges, (* bound: how often the job, the load order or the files change *)
  Faults      (* whether calls that may fail do                           *)

NoTree == {"absent", "partial", "older", "newer"}
Actors == Hosts \cup Guis

ASSUME StartupAssumption ==
  /\ Hosts \cap Guis = {}
  /\ None \notin Hosts \cup Guis
  /\ Inputs \cap NoTree = {}
  /\ InitTrees \subseteq Inputs \cup NoTree
  /\ Reads \in [Jobs \X Files -> Inputs]
  /\ FirstJob \in Jobs
  /\ FirstFiles \in Files
  /\ MaxStarts \in Nat
  /\ MaxChanges \in Nat
  /\ Faults \in BOOLEAN

VARIABLES
  tree,    (* the inputs of a complete tree, or a member of NoTree         *)
  config,  (* the job that mgeXE.toml and the load order give a load now   *)
  files,   (* what the plugins' files hold                                *)
  changes, (* how often one of the two changed                            *)
  job,     (* the job that each actor's run has loaded, or was given       *)
  readers, (* holders of the shared side of the writer lock               *)
  writer,  (* holder of the exclusive side                                *)
  mutex,   (* owner of the generation mutex                               *)
  at,      (* where each worker thread is                                 *)
  why,     (* Hosts -> the span of check_output_status                    *)
  base,    (* the tree as its status check, then its session, classified it *)
  made,    (* the inputs that the generation under way has read           *)
  force,   (* settings.force_rebuild of the run                           *)
  out,     (* Hosts -> OutputState                                        *)
  game,    (* Hosts -> the game's upload pump                             *)
  starts,  (* Hosts -> how often it was started                           *)
  window,  (* Guis -> Phase of the generator window                       *)
  barred,  (* Guis -> cache_source_incompatible                           *)
  mail     (* Guis -> the Done message in the channel                     *)

store == << tree, readers, writer >>
env   == << config, files, changes, starts >>
hosts == << mutex, why, out, game >>
guis  == << window, barred, mail >>
run   == << job, base, made, force >>
vars  == << store, env, at, run, hosts, guis >>

HostPlaces == {"off", "check", "inspect", "try", "wait", "pass", "again",
               "lock", "front", "write", "open", "serve"}
GuiPlaces == {"idle", "probe", "lock", "front", "write"}

TypeOK ==
  /\ tree \in Inputs \cup NoTree
  /\ config \in Jobs
  /\ files \in Files
  /\ job \in [Actors -> Jobs]
  /\ changes \in 0 .. MaxChanges
  /\ readers \subseteq Hosts
  /\ writer \in Actors \cup {None}
  /\ writer # None => readers = {}
  /\ mutex \in Hosts \cup {None}
  /\ at \in [Actors -> HostPlaces \cup GuiPlaces]
  /\ \A g \in Guis : at[g] \in GuiPlaces
  /\ why \in [Hosts -> {"initial", "after wait", "post failure"}]
  /\ base \in [Actors -> Inputs \cup NoTree]
  /\ made \in [Actors -> Inputs \cup NoTree]
  /\ force \in [Actors -> BOOLEAN]
  /\ out \in [Hosts -> {"pending", "ready", "failed"}]
  /\ game \in [Hosts -> {"waits", "uploads", "gave up"}]
  /\ starts \in [Hosts -> 0 .. MaxStarts]
  /\ window \in [Guis -> {"closed", "consent", "blocked", "editing", "generating",
                          "finished", "failed"}]
  /\ barred \in [Guis -> BOOLEAN]
  /\ mail \in [Guis -> {"none", "success", "in use", "failure"}]

Init ==
  /\ tree \in InitTrees
  /\ config = FirstJob
  /\ files = FirstFiles
  /\ job = [a \in Actors |-> FirstJob]
  /\ changes = 0
  /\ readers = {}
  /\ writer = None
  /\ mutex = None
  /\ at = [a \in Actors |-> IF a \in Hosts THEN "off" ELSE "idle"]
  /\ why = [h \in Hosts |-> "initial"]
  /\ base = [a \in Actors |-> "absent"]
  /\ made = [a \in Actors |-> "absent"]
  /\ force = [a \in Actors |-> FALSE]
  /\ out = [h \in Hosts |-> "pending"]
  /\ game = [h \in Hosts |-> "waits"]
  /\ starts = [h \in Hosts |-> 0]
  /\ window = [g \in Guis |-> "closed"]
  /\ barred = [g \in Guis |-> FALSE]
  /\ mail = [g \in Guis |-> "none"]

Complete == tree \in Inputs

(* What a check or a run of this actor compares the tree with.             *)
Wanted(a) == Reads[job[a], files]
Moves(a, place) == at' = [at EXCEPT ![a] = place]

(* A wait for the shared side gives up after 30 s, for the exclusive side  *)
(* after 2 s: while another process holds it, either may happen.           *)
NeverLocked == TRUE          (* Mutant: readers do not take the lock.      *)
ReadersIgnored == writer = None (* Mutant: the lock excludes writers only. *)

SharedFree == writer = None
ExclusiveFree == writer = None /\ readers = {}

(***************************************************************************)
(* The host's worker thread.                                               *)
(***************************************************************************)
(* The job is loaded once, for every check and run of this start.  Distant *)
(* land off, no job or an invalid job: the tree is used as it is.          *)
StartHost(h) ==
  /\ at[h] = "off"
  /\ starts[h] < MaxStarts
  /\ starts' = [starts EXCEPT ![h] = @ + 1]
  /\ out' = [out EXCEPT ![h] = "pending"]
  /\ game' = [game EXCEPT ![h] = "waits"]
  /\ \/ /\ Moves(h, "check")
        /\ job' = [job EXCEPT ![h] = config]
     \/ Moves(h, "open") /\ UNCHANGED job
  /\ UNCHANGED << store, config, files, changes, base, made, force, mutex, why, guis >>

(* A run or a check is over: its locals are gone.                          *)
Settles(a) ==
  /\ base' = [base EXCEPT ![a] = "absent"]
  /\ made' = [made EXCEPT ![a] = "absent"]
  /\ force' = [force EXCEPT ![a] = FALSE]

(* Nothing of the actor's job is under way any more.                       *)
Drops(a) == Settles(a) /\ job' = [job EXCEPT ![a] = FirstJob]

(* Mutant: the guard is not dropped.                                       *)
ConcludesHolding(h) ==
  /\ Moves(h, "open")
  /\ Drops(h)
  /\ why' = [why EXCEPT ![h] = "initial"]
  /\ UNCHANGED mutex

(* ensure_distant_land_ready returns; a guard that is held is dropped.  The *)
(* status it returns is only logged, and the flag that a failure clears is *)
(* the worker's own: the tree is opened whatever they say.                 *)
Concludes(h) ==
  /\ mutex' = IF mutex = h THEN None ELSE mutex
  /\ Moves(h, "open")
  /\ Drops(h)
  /\ why' = [why EXCEPT ![h] = "initial"]

Judge(h, valid) ==
  IF valid \/ why[h] = "post failure" THEN Concludes(h)
  ELSE /\ Moves(h, IF why[h] = "initial" THEN "try" ELSE "again")
       /\ UNCHANGED << run, mutex, why >>

(* handle_generation_failure *)
HandleFailure(h) ==
  /\ Moves(h, "check")
  /\ Settles(h)
  /\ why' = [why EXCEPT ![h] = "post failure"]
  /\ UNCHANGED << job, mutex >>

(* The status check pins the tree while its front half runs.               *)
CheckPins(h) ==
  /\ at[h] = "check"
  /\ Complete
  /\ SharedFree
  /\ readers' = readers \cup {h}
  /\ base' = [base EXCEPT ![h] = tree]
  /\ Moves(h, "inspect")
  /\ UNCHANGED << tree, writer, env, job, made, force, hosts, guis >>

(* Missing, of another version, without a readable state, or locked.       *)
CheckSeesNone(h) ==
  /\ at[h] = "check"
  /\ ~Complete \/ ~SharedFree
  /\ Judge(h, FALSE)
  /\ UNCHANGED << store, env, out, game, guis >>

CheckEnds(h) ==
  /\ at[h] = "inspect"
  /\ readers' = readers \ {h}
  /\ Judge(h, base[h] = Wanted(h))
  /\ UNCHANGED << tree, writer, env, out, game, guis >>

(* The check itself fails, before or under its pin.                        *)
CheckErrs(h) ==
  /\ Faults
  /\ at[h] \in {"check", "inspect"}
  /\ readers' = readers \ {h}
  /\ Concludes(h)
  /\ UNCHANGED << tree, writer, env, out, game, guis >>

TryMutex(h) ==
  /\ at[h] = "try"
  /\ \/ /\ mutex = None
        /\ mutex' = h
        /\ Moves(h, "lock")
        /\ UNCHANGED << run, why >>
     \/ /\ mutex # None
        /\ Moves(h, "wait")
        /\ UNCHANGED << run, mutex, why >>
     \/ Faults /\ HandleFailure(h)
  /\ UNCHANGED << store, env, out, game, guis >>

(* wait_for_generation_mutex_owner takes the mutex only to let it go; a    *)
(* chunk of the wait that runs out begins the next.                        *)
WaitMutex(h) ==
  /\ at[h] = "wait"
  /\ mutex = None
  /\ mutex' = h
  /\ Moves(h, "pass")
  /\ UNCHANGED << store, env, run, why, out, game, guis >>

(* An error ends the wait.  Nothing makes one happen.                      *)
MutexWaitErrs(h) ==
  /\ Faults
  /\ at[h] = "wait"
  /\ Moves(h, "check")
  /\ why' = [why EXCEPT ![h] = "after wait"]
  /\ UNCHANGED << store, env, run, mutex, out, game, guis >>

PassMutex(h) ==
  /\ at[h] = "pass"
  /\ mutex' = None
  /\ Moves(h, "check")
  /\ why' = [why EXCEPT ![h] = "after wait"]
  /\ UNCHANGED << store, env, run, out, game, guis >>

(* Mutant: the guard of the wait is taken for the one of the generation.   *)
AgainUnguarded(h) ==
  /\ at[h] = "again"
  /\ Moves(h, "lock")
  /\ UNCHANGED << store, env, run, hosts, guis >>

Again(h) ==
  /\ at[h] = "again"
  /\ \/ /\ mutex = None
        /\ mutex' = h
        /\ Moves(h, "lock")
        /\ UNCHANGED << run, why >>
     \/ mutex # None /\ Concludes(h)
     \/ Faults /\ HandleFailure(h)
  /\ UNCHANGED << store, env, out, game, guis >>

(***************************************************************************)
(* ensure_generated, called by a host or by a GUI's worker.                *)
(***************************************************************************)
(* run_generation and run_worker: what the caller makes of the outcome.    *)
Returns(a, outcome) ==
  IF a \in Guis
    THEN /\ mail' = [mail EXCEPT ![a] = outcome]
         /\ Moves(a, "idle")
         /\ Drops(a)
         /\ UNCHANGED << mutex, why >>
    ELSE /\ IF outcome = "failure" THEN HandleFailure(a) ELSE Concludes(a)
         /\ UNCHANGED mail

(* Mutant: what the check before the lock saw is still taken for true.     *)
ClassifiedAsChecked(a) == IF a \in Hosts THEN base ELSE [base EXCEPT ![a] = tree]

Classified(a) == [base EXCEPT ![a] = tree]

(* A tree of a newer version is refused under the lock.                    *)
Acquire(a) ==
  /\ at[a] = "lock"
  /\ ExclusiveFree
  /\ IF tree = "newer"
       THEN Returns(a, "failure") /\ UNCHANGED writer
       ELSE /\ writer' = a
            /\ base' = Classified(a)
            /\ Moves(a, "front")
            /\ UNCHANGED << job, made, force, mutex, why, mail >>
  /\ UNCHANGED << tree, readers, env, out, game, window, barred >>

(* Mutant: a busy lock is waited for without a limit.                      *)
AcquirePatiently(a) == FALSE

AcquireTimesOut(a) ==
  /\ at[a] = "lock"
  /\ ~ExclusiveFree
  /\ Returns(a, "failure")
  /\ UNCHANGED << store, env, out, game, window, barred >>

(* Mutant: the run reads the job anew.                                     *)
CurrentNow(a) == base[a] = Reads[config, files]

(* The base is valid and the unit diff is clean.                           *)
Current(a) == base[a] = Wanted(a)

KeepCurrent(a) ==
  /\ at[a] = "front"
  /\ Current(a) /\ ~force[a]
  /\ writer' = None
  /\ Returns(a, "success")
  /\ UNCHANGED << tree, readers, env, out, game, window, barred >>

Withdraw(a) ==
  /\ at[a] = "front"
  /\ ~Current(a) \/ force[a]
  /\ tree' = "partial"
  /\ made' = [made EXCEPT ![a] = Wanted(a)]
  /\ Moves(a, "write")
  /\ UNCHANGED << readers, writer, env, job, base, force, hosts, guis >>

Publish(a) ==
  /\ at[a] = "write"
  /\ tree' = made[a]
  /\ writer' = None
  /\ Returns(a, "success")
  /\ UNCHANGED << readers, env, out, game, window, barred >>

(* An error before the state is withdrawn, while artifacts are written, or *)
(* after the state was published.                                          *)
GenerationErrs(a) ==
  /\ Faults
  /\ \/ at[a] = "front" /\ UNCHANGED tree
     \/ at[a] = "write" /\ tree' \in {tree, made[a]}
  /\ writer' = None
  /\ Returns(a, "failure")
  /\ UNCHANGED << readers, env, out, game, window, barred >>

(***************************************************************************)
(* The session's snapshot, and the game that asks for it.                  *)
(***************************************************************************)
(* Mutant: the snapshot is read without the shared lock.                   *)
OpenUnlocked(h) ==
  /\ at[h] = "open"
  /\ Complete
  /\ out' = [out EXCEPT ![h] = "ready"]
  /\ Moves(h, "serve")
  /\ UNCHANGED << store, env, run, mutex, why, game, guis >>

OpenSnapshot(h) ==
  /\ at[h] = "open"
  /\ Complete
  /\ SharedFree
  /\ readers' = readers \cup {h}
  /\ out' = [out EXCEPT ![h] = "ready"]
  /\ Moves(h, "serve")
  /\ UNCHANGED << tree, writer, env, run, mutex, why, game, guis >>

OpenFails(h) ==
  /\ at[h] = "open"
  /\ ~Complete \/ ~SharedFree \/ Faults
  /\ out' = [out EXCEPT ![h] = "failed"]
  /\ Moves(h, "serve")
  /\ UNCHANGED << store, env, run, mutex, why, game, guis >>

(* The pump's OutputWait and the host's query_output_status.  The pump     *)
(* asks again while the answer is that the worker has not finished.        *)
Ask(h) ==
  /\ at[h] # "off"
  /\ game[h] = "waits"
  /\ out[h] # "pending"
  /\ game' = [game EXCEPT ![h] = IF out[h] = "ready" THEN "uploads" ELSE "gave up"]
  /\ UNCHANGED << store, env, at, run, mutex, why, out, guis >>

(* The process ends: its locks are released, its mutex is abandoned, which *)
(* the next wait takes for acquired.                                       *)
Exit(a) ==
  /\ Drops(a)
  /\ readers' = readers \ {a}
  /\ writer' = IF writer = a THEN None ELSE writer
  /\ mutex' = IF mutex = a THEN None ELSE mutex
  /\ UNCHANGED << tree, env >>

HostExits(h) ==
  /\ at[h] # "off"
  /\ Exit(h)
  /\ Moves(h, "off")
  /\ out' = [out EXCEPT ![h] = "pending"]
  /\ game' = [game EXCEPT ![h] = "waits"]
  /\ why' = [why EXCEPT ![h] = "initial"]
  /\ UNCHANGED guis

(***************************************************************************)
(* The generator window.                                                   *)
(***************************************************************************)
Shows(g, phase) == window' = [window EXCEPT ![g] = phase]

(* precheck::classify *)
OpenWindow(g) ==
  /\ window[g] = "closed"
  /\ Shows(g, IF tree = "newer" THEN "blocked"
              ELSE IF tree = "absent" \/ (Complete /\ SharedFree) THEN "editing"
              ELSE "consent")
  /\ UNCHANGED << store, env, at, run, hosts, barred, mail >>

AcceptIncompatible(g) ==
  /\ window[g] = "consent"
  /\ Shows(g, "editing")
  /\ barred' = [barred EXCEPT ![g] = TRUE]
  /\ UNCHANGED << store, env, at, run, hosts, mail >>

(* Mutant: the window is closed although a run is in flight.               *)
MayClose(g) == window[g] # "closed"

Closable(g) == window[g] \notin {"closed", "generating"}

CloseWindow(g) ==
  /\ Closable(g)
  /\ Shows(g, "closed")
  /\ barred' = [barred EXCEPT ![g] = FALSE]
  /\ UNCHANGED << store, env, at, run, hosts, mail >>

(* begin_generation: the job, edited or not, is saved, and the worker is    *)
(* spawned with it.                                                        *)
Generate(g) ==
  /\ window[g] = "editing"
  /\ \E j \in Jobs :
       /\ j = config \/ changes < MaxChanges
       /\ changes' = IF j = config THEN changes ELSE changes + 1
       /\ config' = j
       /\ job' = [job EXCEPT ![g] = j]
  /\ \E box \in BOOLEAN : force' = [force EXCEPT ![g] = box \/ barred[g]]
  /\ Shows(g, "generating")
  /\ Moves(g, "probe")
  /\ UNCHANGED << store, files, starts, base, made, hosts, barred, mail >>

(* output_has_live_session; an error of the probe is not fatal.            *)
Probe(g) ==
  /\ at[g] = "probe"
  /\ IF ExclusiveFree
       THEN Moves(g, "lock") /\ UNCHANGED << run, mail >>
       ELSE /\ Moves(g, "idle")
            /\ Drops(g)
            /\ mail' = [mail EXCEPT ![g] = "in use"]
  /\ UNCHANGED << store, env, hosts, window, barred >>

PumpGenerator(g) ==
  /\ window[g] = "generating"
  /\ mail[g] # "none"
  /\ mail' = [mail EXCEPT ![g] = "none"]
  /\ Shows(g, IF mail[g] = "success" THEN "finished" ELSE "failed")
  /\ UNCHANGED << store, env, at, run, hosts, barred >>

Back(g) ==
  /\ window[g] = "failed"
  /\ Shows(g, "editing")
  /\ UNCHANGED << store, env, at, run, hosts, barred, mail >>

GuiExits(g) ==
  /\ window[g] # "closed"
  /\ Exit(g)
  /\ Moves(g, "idle")
  /\ Shows(g, "closed")
  /\ mail' = [mail EXCEPT ![g] = "none"]
  /\ barred' = [barred EXCEPT ![g] = FALSE]
  /\ UNCHANGED << why, out, game >>

InstallChanges ==
  /\ changes < MaxChanges
  /\ changes' = changes + 1
  /\ \/ config' \in Jobs \ {config} /\ UNCHANGED files
     \/ files' \in Files \ {files} /\ UNCHANGED config
  /\ UNCHANGED << store, starts, at, run, hosts, guis >>

(***************************************************************************)
(* The specification.                                                      *)
(***************************************************************************)
Ensure(a) ==
  \/ Acquire(a) \/ AcquireTimesOut(a) \/ KeepCurrent(a) \/ Withdraw(a) \/ Publish(a)
  \/ GenerationErrs(a)

HostStep(h) ==
  \/ CheckPins(h) \/ CheckSeesNone(h) \/ CheckEnds(h) \/ CheckErrs(h)
  \/ TryMutex(h) \/ WaitMutex(h) \/ PassMutex(h) \/ Again(h)
  \/ Ensure(h) \/ OpenSnapshot(h) \/ OpenFails(h)

GuiStep(g) == Probe(g) \/ Ensure(g) \/ PumpGenerator(g)

User(g) ==
  \/ OpenWindow(g) \/ AcceptIncompatible(g) \/ CloseWindow(g) \/ Generate(g) \/ Back(g)
  \/ GuiExits(g)

Next ==
  \/ \E h \in Hosts : StartHost(h) \/ HostStep(h) \/ MutexWaitErrs(h) \/ Ask(h) \/ HostExits(h)
  \/ \E g \in Guis : GuiStep(g) \/ User(g)
  \/ InstallChanges

Spec == Init /\ [][Next]_vars

(* Worker threads and the two event loops are scheduled.  Nothing makes a  *)
(* process start or end, a user act, the installation change, or the wait  *)
(* for the mutex fail: it ends when the owner lets the mutex go.           *)
FairSpec ==
  /\ Spec
  /\ \A h \in Hosts : WF_vars(HostStep(h)) /\ WF_vars(Ask(h))
  /\ \A g \in Guis : WF_vars(GuiStep(g))

(***************************************************************************)
(* Properties.                                                             *)
(***************************************************************************)
(* While a session or a status check has the tree pinned, nobody withdraws *)
(* or replaces it: neither another host nor the GUI that skips the mutex.  *)
PinnedTreeStays == [][readers # {} /\ readers' # {} => tree' = tree]_vars

(* A game that uploads reads a complete tree that its host has pinned, so  *)
(* that a run it lost the race to cannot have left it half a tree.         *)
GameHasTree == \A h \in Hosts : game[h] = "uploads" => Complete /\ writer = None

(* A host does not withdraw a tree that is current for the job it loaded   *)
(* when it started: of two hosts of one job that both saw a stale tree, the *)
(* one that comes second finds it done.  A tree made meanwhile for another *)
(* job is withdrawn.                                                       *)
NothingRegenerated ==
  [][\A h \in Hosts : at[h] = "front" /\ at'[h] = "write" => tree # Wanted(h)]_vars

(* docs/architecture/distantland-data.md: "A per-install named mutex       *)
(* serializes regeneration", through waits, errors and abandoned mutexes.  *)
MutexSerializes ==
  \A h, k \in Hosts : at[h] \in {"lock", "front", "write"} /\ at[k] \in {"lock", "front", "write"}
                        => h = k

(* The window waits for its run until the run has reported: no run goes on *)
(* behind a window that is closed or that could start another.             *)
WindowFollowsRun ==
  \A g \in Guis : at[g] # "idle" \/ mail[g] # "none" => window[g] = "generating"

(* The game of a host is told in the end whether there is output, however  *)
(* its host fared with the mutex and the lock, unless the host exits.      *)
EventuallyTold(h) == at[h] # "off" ~> game[h] # "waits" \/ at[h] = "off"

(* A run of the GUI ends, and its window says how.                         *)
RunReports == \A g \in Guis : window[g] = "generating" ~> window[g] # "generating"

(* Two runs never go on at once, and no game reads what a run is changing. *)
RunsKeepApart == TypeOK /\ GameHasTree /\ MutexSerializes /\ WindowFollowsRun

(* The tree changes only when it must and only while nobody reads it.      *)
TreeChangesWhenFree == PinnedTreeStays /\ NothingRegenerated
=============================================================================
