---------------------------- MODULE OutputStore -----------------------------
(***************************************************************************)
(* The complete-or-absent output store of the distant-land generator.      *)
(*                                                                         *)
(* Writer processes take the exclusive side of `.writer.lock`, decide what *)
(* to reuse, durably invalidate `generation_state.bin`, overwrite the      *)
(* artifacts in place, run the sync barrier and publish a new state.       *)
(* Readers take the shared side, validate the state and keep the lock for  *)
(* as long as they serve the tree.  A process can be killed between any    *)
(* two steps, an operation can fail, and power can be lost: a file with    *)
(* unsynced bytes then keeps them, or comes back stale, torn or short.     *)
(*                                                                         *)
(* A file's content is one value.  Digests are exact (BLAKE3), so a body   *)
(* stands for its digest.  Routine validation sees existence, length and   *)
(* header only; the worst case for it is that all bodies have one length,  *)
(* so it is modelled as rejecting Missing and Short and nothing else.      *)
(***************************************************************************)
EXTENDS Naturals, FiniteSets

CONSTANTS
  Files,          (* canonical artifact paths                            *)
  Version,        (* the one-byte format marker, one of Files            *)
  Group,          (* Files -> Groups: which publish step writes a file   *)
  Inputs,         (* versions of the plugins, meshes and settings        *)
  Bodies,         (* artifact contents a generation can produce          *)
  Body,           (* Body[i][f]: what input i makes of f, or Unlisted    *)
  CurrentVersion, (* the body of the version marker, MGE_DL_VERSION      *)
  Unlisted,       (* "the inventory has no entry for this path"          *)
  Procs,          (* processes that can hold a WriterSession             *)
  Readers,        (* processes that can hold an OutputSnapshot           *)
  None,           (* no process, no input, no readable state             *)
  MaxDetached     (* bound: with fewer detached writer threads an error  *)
                  (* return of a generation leaves its own running, as   *)
                  (* the code does; 0 takes such an error to end the     *)
                  (* process.  What such threads then write is the       *)
                  (* subject of OutputStoreDetached                      *)

(***************************************************************************)
(* Contents.                                                               *)
(***************************************************************************)
Missing == "missing"  (* no such file                                     *)
Short   == "short"    (* wrong length: Routine validation rejects it      *)
Torn    == "torn"     (* stale or garbage bytes of an acceptable length   *)
Older   == "older"    (* version marker of an older format                *)
Future  == "future"   (* version marker of a newer format                 *)

Partial == {Short, Torn}
Contents == Bodies \cup {Missing, Short, Torn, Older, Future}

(* The publish steps in program order.  Inline groups are written by the   *)
(* generation thread, threaded ones by a thread it spawns and joins later. *)
Inline   == {"version", "usage", "page", "occlusion"}
Threaded == {"shard", "terrain"}
Groups   == Inline \cup Threaded

(* SyncClass::defers_sync: bulk payloads wait for the barrier.             *)
Deferred(f) == Group[f] \in {"shard", "page", "terrain"}

(* An inventory gives each path its recorded body, or Unlisted.            *)
Inventories == [Files -> Bodies \cup {Unlisted}]
NoEntries == [f \in Files |-> Unlisted]
Listed(inv) == {f \in Files : inv[f] # Unlisted}

ASSUME ConstantsAssumption ==
  /\ Version \in Files
  /\ Group \in [Files -> Groups]
  /\ \A f \in Files : Group[f] = "version" <=> f = Version
  /\ CurrentVersion \in Bodies
  /\ Unlisted \notin Contents
  /\ Bodies \cap {Missing, Short, Torn, Older, Future} = {}
  /\ Body \in [Inputs -> Inventories]
  /\ \A i \in Inputs : Body[i][Version] = CurrentVersion
  /\ None \notin Procs \cup Inputs \cup Inventories
  /\ MaxDetached \in Nat

VARIABLES
  (* the output directory *)
  cache,     (* Files -> what a read returns now                          *)
  dirty,     (* files with bytes that no sync has covered                 *)
  state,     (* generation_state.bin as a read decodes it, or None        *)
  stateDisk, (* the same on durable storage                               *)
  (* the one WriterSession the exclusive lock admits *)
  owner,     (* its process, or None                                      *)
  phase,     (* where the generation thread is                            *)
  base,      (* the Routine-valid state found at acquire, or None         *)
  input,     (* the input being generated                                 *)
  inv,       (* the inventory assembled so far                            *)
  prog,      (* Files -> progress of this publication                     *)
  pending,   (* PublicationWrites: handles awaiting the barrier           *)
  thr,       (* Threaded -> state of the attached writer thread           *)
  (* everything else *)
  orphans,   (* writer threads whose session is gone                      *)
  reader     (* Readers -> [at, snap]                                     *)

disk    == << cache, dirty, state, stateDisk >>
session == << owner, phase, base, input, inv, prog, pending, thr >>
vars    == << disk, session, orphans, reader >>

Phases == {"idle", "decide", "zeroed"} \cup Groups
            \cup {"join_shard", "join_terrain", "barrier", "publish", "prune", "validate"}

Following ==
  [version |-> "usage", usage |-> "shard", shard |-> "page", page |-> "occlusion",
   occlusion |-> "terrain", terrain |-> "join_shard"]

Progress == {"out", "carried", "todo", "open", "wrote"}
Orphans == [proc : Procs, kind : Threaded, input : Inputs, prog : [Files -> Progress]]
Snapshots == [at : {"idle", "gated", "pinned", "serving"}, snap : Inventories \cup {None}]

TypeOK ==
  /\ cache \in [Files -> Contents]
  /\ dirty \in SUBSET Files
  /\ state \in Inventories \cup {None}
  /\ stateDisk \in Inventories \cup {None}
  /\ owner \in Procs \cup {None}
  /\ phase \in Phases
  /\ base \in Inventories \cup {None}
  /\ input \in Inputs \cup {None}
  /\ inv \in Inventories
  /\ prog \in [Files -> Progress]
  /\ pending \in SUBSET Files
  /\ thr \in [Threaded -> {"none", "run", "ok", "err"}]
  /\ orphans \in SUBSET Orphans
  /\ reader \in [Readers -> Snapshots]
  /\ phase = "idle" <=> owner = None
  /\ \A r \in Readers : reader[r].at = "serving" <=> reader[r].snap # None

(***************************************************************************)
(* The session record at rest, and the parts of a session every way of     *)
(* ending it resets.                                                       *)
(***************************************************************************)
NoSession ==
  /\ owner' = None
  /\ phase' = "idle"
  /\ base' = None
  /\ input' = None
  /\ inv' = NoEntries
  /\ prog' = [f \in Files |-> "out"]
  /\ pending' = {}
  /\ thr' = [k \in Threaded |-> "none"]

(* state::load_and_validate in Routine mode.                               *)
RoutineValid(s) ==
  /\ s # None
  /\ \A f \in Listed(s) : cache[f] \notin {Missing, Short}

(***************************************************************************)
(* Initial trees: none yet, one a finished run left, one of an older or of *)
(* a newer program version.                                                *)
(***************************************************************************)
InitTree ==
  \/ /\ cache = [f \in Files |-> Missing]
     /\ state = None
  \/ \E i \in Inputs :
       /\ cache = [f \in Files |-> IF Body[i][f] = Unlisted THEN Missing ELSE Body[i][f]]
       /\ state = Body[i]
  \/ \E v \in {Older, Future} :
       /\ cache = [f \in Files |-> IF f = Version THEN v ELSE Torn]
       /\ state = None

Init ==
  /\ InitTree
  /\ dirty = {}
  /\ stateDisk = state
  /\ owner = None
  /\ phase = "idle"
  /\ base = None
  /\ input = None
  /\ inv = NoEntries
  /\ prog = [f \in Files |-> "out"]
  /\ pending = {}
  /\ thr = [k \in Threaded |-> "none"]
  /\ orphans = {}
  /\ reader = [r \in Readers |-> [at |-> "idle", snap |-> None]]

(***************************************************************************)
(* WriterSession::acquire.  The OS lock admits a writer only when no       *)
(* reader holds the shared side; a timed-out wait changes nothing.  A      *)
(* newer version marker is refused before anything is inspected.           *)
(***************************************************************************)
Pinned(r) == reader[r].at \in {"pinned", "serving"}

PinsIgnored == TRUE
NoPins == \A r \in Readers : ~Pinned(r)

AnyVersionAccepted == TRUE
VersionAccepted == cache[Version] # Future

ValidBase ==
  IF cache[Version] = CurrentVersion /\ RoutineValid(state) THEN state ELSE None

Acquire(p) ==
  /\ phase = "idle"
  /\ NoPins
  /\ VersionAccepted
  /\ owner' = p
  /\ phase' = "decide"
  /\ base' = ValidBase
  /\ UNCHANGED << disk, input, inv, prog, pending, thr, orphans, reader >>

(* A clean input over a Routine-valid base: validate again, write nothing. *)
FinishNoop ==
  /\ phase = "decide"
  /\ \E i \in Inputs : base = Body[i]
  /\ RoutineValid(state)
  /\ NoSession
  /\ UNCHANGED << disk, orphans, reader >>

(***************************************************************************)
(* CommitPlan and WriterSession::begin_dirty.  A carried artifact keeps    *)
(* its entry of the base and is not written; fingerprints and              *)
(* force_rebuild decide which of the carryable ones are carried.  The      *)
(* version marker is carried whenever there is a base.                     *)
(***************************************************************************)
CarryAnyListed(i) ==
  IF base = None THEN {} ELSE {f \in Files : base[f] # Unlisted /\ Body[i][f] # Unlisted}
Carryable(i) ==
  IF base = None THEN {} ELSE {f \in Files : base[f] # Unlisted /\ base[f] = Body[i][f]}

BeginDirty(i, carry) ==
  /\ phase = "decide"
  /\ carry \subseteq Carryable(i)
  /\ Version \in Carryable(i) => Version \in carry
  /\ input' = i
  /\ inv' = [f \in Files |-> IF f \in carry THEN base[f] ELSE Unlisted]
  /\ prog' = [f \in Files |-> IF f \in carry THEN "carried"
                              ELSE IF Body[i][f] = Unlisted THEN "out" ELSE "todo"]
  /\ state' = None                     \* the zeroed magic, not yet synced
  /\ phase' = "zeroed"
  /\ UNCHANGED << cache, dirty, stateDisk, owner, base, pending, thr, orphans, reader >>

SkipInvalidationSync ==
  /\ phase = "zeroed"
  /\ phase' = "version"
  /\ UNCHANGED << disk, owner, base, input, inv, prog, pending, thr, orphans, reader >>

SyncInvalidation ==
  /\ phase = "zeroed"
  /\ stateDisk' = None
  /\ phase' = "version"
  /\ UNCHANGED << cache, dirty, state, owner, base, input, inv, prog, pending, thr,
                  orphans, reader >>

(***************************************************************************)
(* Writing one artifact: File::create truncates it and bytes stream in;    *)
(* when the sink finishes the content is whole, and synced unless its      *)
(* class defers the sync to the barrier.                                   *)
(***************************************************************************)
Truncate(f) ==
  /\ \E c \in Partial : cache' = [cache EXCEPT ![f] = c]
  /\ dirty' = dirty \cup {f}

InGroup(g, p, s) == {f \in Files : Group[f] = g /\ p[f] = s}

MainOpen(f) ==
  /\ phase \in Inline
  /\ InGroup(phase, prog, "open") = {}
  /\ f \in InGroup(phase, prog, "todo")
  /\ Truncate(f)
  /\ prog' = [prog EXCEPT ![f] = "open"]
  /\ UNCHANGED << state, stateDisk, owner, phase, base, input, inv, pending, thr,
                  orphans, reader >>

(* SinkFinish: what a finished write leaves unsynced and owes the barrier. *)
ForgetDeferred(f) ==
  /\ dirty' = IF Deferred(f) THEN dirty ELSE dirty \ {f}
  /\ UNCHANGED pending
RegisterDeferred(f) ==
  /\ dirty' = IF Deferred(f) THEN dirty ELSE dirty \ {f}
  /\ pending' = IF Deferred(f) THEN pending \cup {f} ELSE pending

MainClose(f) ==
  /\ phase \in Inline
  /\ f \in InGroup(phase, prog, "open")
  /\ cache' = [cache EXCEPT ![f] = Body[input][f]]
  /\ RegisterDeferred(f)
  /\ inv' = [inv EXCEPT ![f] = Body[input][f]]
  /\ prog' = [prog EXCEPT ![f] = "wrote"]
  /\ UNCHANGED << state, stateDisk, owner, phase, base, input, thr, orphans, reader >>

EndInline ==
  /\ phase \in Inline
  /\ InGroup(phase, prog, "todo") \cup InGroup(phase, prog, "open") = {}
  /\ phase' = Following[phase]
  /\ UNCHANGED << disk, owner, base, input, inv, prog, pending, thr, orphans, reader >>

(***************************************************************************)
(* Writer threads.  Each returns the inventory entries of what it wrote;   *)
(* the generation thread collects them when it joins the thread, and       *)
(* returns the thread's error if it has one (see Abort).                   *)
(***************************************************************************)
Spawn ==
  /\ phase \in Threaded
  /\ thr' = [thr EXCEPT ![phase] = IF InGroup(phase, prog, "todo") = {} THEN "none" ELSE "run"]
  /\ phase' = Following[phase]
  /\ UNCHANGED << disk, owner, base, input, inv, prog, pending, orphans, reader >>

ThreadOpen(k, f) ==
  /\ thr[k] = "run"
  /\ InGroup(k, prog, "open") = {}
  /\ f \in InGroup(k, prog, "todo")
  /\ Truncate(f)
  /\ prog' = [prog EXCEPT ![f] = "open"]
  /\ UNCHANGED << state, stateDisk, owner, phase, base, input, inv, pending, thr,
                  orphans, reader >>

ThreadClose(k, f) ==
  /\ thr[k] = "run"
  /\ f \in InGroup(k, prog, "open")
  /\ cache' = [cache EXCEPT ![f] = Body[input][f]]
  /\ RegisterDeferred(f)
  /\ prog' = [prog EXCEPT ![f] = "wrote"]
  /\ thr' = [thr EXCEPT ![k] = IF InGroup(k, prog, "todo") = {} THEN "ok" ELSE "run"]
  /\ UNCHANGED << state, stateDisk, owner, phase, base, input, inv, orphans, reader >>

ThreadFail(k) ==
  /\ thr[k] = "run"
  /\ thr' = [thr EXCEPT ![k] = "err"]
  /\ UNCHANGED << disk, owner, phase, base, input, inv, prog, pending, orphans, reader >>

JoinPhase == [shard |-> "join_shard", terrain |-> "join_terrain"]
AfterJoin == [shard |-> "join_terrain", terrain |-> "barrier"]

JoinNeedsThread(k) == thr[k] = "ok"
JoinReady(k) == thr[k] \in {"none", "ok"}

Joinable(k) == phase = JoinPhase[k] /\ JoinReady(k)

Join(k) ==
  /\ Joinable(k)
  /\ inv' = [f \in Files |-> IF f \in InGroup(k, prog, "wrote") THEN Body[input][f] ELSE inv[f]]
  /\ thr' = [thr EXCEPT ![k] = "none"]
  /\ phase' = AfterJoin[k]
  /\ UNCHANGED << disk, owner, base, input, prog, pending, orphans, reader >>

(***************************************************************************)
(* WriterSession::finish_publish: sync every pending handle, check the     *)
(* write ledger and the inventory, write the state, sync it, prune.        *)
(***************************************************************************)
SyncPending(f) ==
  /\ phase = "barrier"
  /\ f \in pending
  /\ pending' = pending \ {f}
  /\ dirty' = dirty \ {f}
  /\ UNCHANGED << cache, state, stateDisk, owner, phase, base, input, inv, prog, thr,
                  orphans, reader >>

NoBarrier == TRUE
BarrierDone == pending = {}

WriteEvidence == \A f \in Files : prog[f] = "wrote" => inv[f] = Body[input][f]

CompleteInventory ==
  \A f \in Files : Body[input][f] # Unlisted /\ Group[f] # "page" => inv[f] # Unlisted

WriteState ==
  /\ phase = "barrier"
  /\ BarrierDone
  /\ WriteEvidence
  /\ CompleteInventory
  /\ state' = inv
  /\ phase' = "publish"
  /\ UNCHANGED << cache, dirty, stateDisk, owner, base, input, inv, prog, pending, thr,
                  orphans, reader >>

SyncState ==
  /\ phase = "publish"
  /\ stateDisk' = state
  /\ phase' = "prune"
  /\ UNCHANGED << cache, dirty, state, owner, base, input, inv, prog, pending, thr,
                  orphans, reader >>

(* Removes the owned files the new state does not list; an error stops it  *)
(* part way and is only a warning.                                         *)
Owned == {f \in Files : Group[f] \in {"usage", "page", "occlusion", "terrain"}}

PrunableUnwritten == {f \in Owned : prog[f] # "wrote"}
Prunable == Owned \ Listed(inv)

Prune(gone) ==
  /\ phase = "prune"
  /\ gone \subseteq Prunable
  /\ cache' = [f \in Files |-> IF f \in gone THEN Missing ELSE cache[f]]
  /\ dirty' = dirty \cup gone
  /\ phase' = "validate"
  /\ UNCHANGED << state, stateDisk, owner, base, input, inv, prog, pending, thr,
                  orphans, reader >>

(* validate_published, then the session is dropped.                        *)
FinishPublish ==
  /\ phase = "validate"
  /\ RoutineValid(state)
  /\ state = inv
  /\ NoSession
  /\ UNCHANGED << disk, orphans, reader >>

(***************************************************************************)
(* An error return (or a failed join) drops the session and its lock.  A   *)
(* dropped JoinHandle detaches its thread, which goes on writing.          *)
(***************************************************************************)
Running == {k \in Threaded : thr[k] = "run"}

Detached ==
  {[proc |-> owner, kind |-> k, input |-> input, prog |-> prog] : k \in Running}

Abort ==
  /\ phase # "idle"
  /\ Running = {} \/ Cardinality(orphans) < MaxDetached
  /\ orphans' = orphans \cup Detached
  /\ NoSession
  /\ UNCHANGED << disk, reader >>

(* The error a join returns: the other writer may still be running.        *)
JoinError(k) ==
  /\ phase = JoinPhase[k]
  /\ thr[k] = "err"
  /\ Abort

(***************************************************************************)
(* Interruptions.  The OS releases a dead process's locks.                 *)
(***************************************************************************)
Kill(p) ==
  /\ owner = p \/ \E o \in orphans : o.proc = p
  /\ orphans' = {o \in orphans : o.proc # p}
  /\ IF owner = p THEN NoSession ELSE UNCHANGED session
  /\ UNCHANGED << disk, reader >>

Kept == "kept"

PowerLoss ==
  /\ \E left \in [dirty -> Partial \cup {Kept}] :
       cache' = [f \in Files |->
                   IF f \in dirty /\ left[f] # Kept THEN left[f] ELSE cache[f]]
  /\ dirty' = {}
  /\ state' \in IF state = stateDisk THEN {state} ELSE {state, stateDisk, None}
  /\ stateDisk' = state'
  /\ NoSession
  /\ orphans' = {}
  /\ reader' = [r \in Readers |-> [at |-> "idle", snap |-> None]]

(***************************************************************************)
(* open_output_snapshot and its guard.                                     *)
(***************************************************************************)
ReaderGate(r) ==
  /\ reader[r].at = "idle"
  /\ cache[Version] = CurrentVersion
  /\ reader' = [reader EXCEPT ![r] = [at |-> "gated", snap |-> None]]
  /\ UNCHANGED << disk, session, orphans >>

ReaderPin(r) ==
  /\ reader[r].at = "gated"
  /\ phase = "idle"                    \* the shared side waits for the writer
  /\ reader' = [reader EXCEPT ![r] = [at |-> "pinned", snap |-> None]]
  /\ UNCHANGED << disk, session, orphans >>

ServeAnything == cache[Version] = CurrentVersion
Serveable == cache[Version] = CurrentVersion /\ RoutineValid(state)

ReaderServe(r) ==
  /\ reader[r].at = "pinned"
  /\ Serveable
  /\ reader' = [reader EXCEPT ![r] = [at |-> "serving", snap |-> state]]
  /\ UNCHANGED << disk, session, orphans >>

(* A lock timeout, a refusal, the end of the game session or its crash.    *)
ReaderLeave(r) ==
  /\ \/ reader[r].at \in {"gated", "serving"}
     \/ reader[r].at = "pinned" /\ ~Serveable
  /\ reader' = [reader EXCEPT ![r] = [at |-> "idle", snap |-> None]]
  /\ UNCHANGED << disk, session, orphans >>

(***************************************************************************)
(* The steps a running writer takes by itself, and everything.             *)
(***************************************************************************)
Advance ==
  \/ FinishNoop
  \/ \E i \in Inputs : \E carry \in SUBSET Carryable(i) : BeginDirty(i, carry)
  \/ SyncInvalidation
  \/ \E f \in Files : MainOpen(f) \/ MainClose(f) \/ SyncPending(f)
  \/ EndInline
  \/ Spawn
  \/ \E k \in Threaded, f \in Files : ThreadOpen(k, f) \/ ThreadClose(k, f)
  \/ \E k \in Threaded : Join(k) \/ JoinError(k)
  \/ WriteState
  \/ SyncState
  \/ \E gone \in SUBSET Prunable : Prune(gone)
  \/ FinishPublish

Next ==
  \/ Advance
  \/ \E p \in Procs : Acquire(p) \/ Kill(p)
  \/ \E k \in Threaded : ThreadFail(k)
  \/ Abort
  \/ PowerLoss
  \/ \E r \in Readers : ReaderGate(r) \/ ReaderPin(r) \/ ReaderServe(r) \/ ReaderLeave(r)

Spec == Init /\ [][Next]_vars

(* A generation is never descheduled for ever and its threads are OS       *)
(* threads; nothing obliges a process to start one, or to fail.            *)
FairSpec == Spec /\ WF_vars(Advance)

-----------------------------------------------------------------------------
(***************************************************************************)
(* What the store must guarantee.                                          *)
(***************************************************************************)

(* Every artifact a state lists has exactly the listed bytes, synced.      *)
Backed(s) ==
  s # None => \A f \in Listed(s) : cache[f] = s[f] /\ f \notin dirty

(* No interruption can leave a state, in the cache or on the medium, that  *)
(* vouches for bytes that are not there: publication follows the barrier,  *)
(* and invalidation precedes the first overwrite (begin_dirty,             *)
(* finish_publish).  Routine validation could not detect the mixture.      *)
StateIsBacked == Backed(state) /\ Backed(stateDisk)

(* As long as a reader holds its snapshot, all the files the snapshot      *)
(* lists read exactly as listed, although the game opens them one by one   *)
(* long after validation (OutputSnapshot and its SharedLockGuard).         *)
ServedTreeIntact ==
  \A r \in Readers : reader[r].at = "serving" =>
    \A f \in Listed(reader[r].snap) : cache[f] = reader[r].snap[f]

(* An entry that goes into the next inventory unwritten still describes    *)
(* the file when the state that carries it is published.                   *)
CarriedIntact ==
  \A f \in Files : prog[f] = "carried" => cache[f] = inv[f] /\ f \notin dirty

(* A published tree is the product of one input, never a mix of two, no    *)
(* matter which artifacts the run reused (CommitPlan).                     *)
OneInput == state # None => \E i \in Inputs : state = Body[i]

(* A tree of a newer format version is never modified, not even one file   *)
(* of it, by a writer of this version (WriterSession::acquire).            *)
FutureTreeUntouched ==
  [][cache[Version] = Future => UNCHANGED << cache, state, stateDisk >>]_vars

(* No byte of any artifact changes under a reader that keeps its snapshot. *)
NoWriteUnderPin ==
  [][\A r \in Readers :
       reader[r].at = "serving" /\ reader'[r].at = "serving" => cache' = cache]_vars

(* A writer session ends: joins, barrier and failed threads included, the  *)
(* exclusive lock is given back.                                           *)
SessionEnds == phase # "idle" ~> phase = "idle"

(***************************************************************************)
(* Refinement: the durable or readable tree, and what readers look at.     *)
(***************************************************************************)
TreeOf(s) == [f \in Files |-> IF s[f] = Unlisted THEN Unlisted ELSE cache[f]]

PublishedTree ==
  IF state # None THEN TreeOf(state)
  ELSE IF stateDisk # None THEN TreeOf(stateDisk) ELSE None

ServedTrees ==
  [r \in Readers |-> IF reader[r].at = "serving" THEN TreeOf(reader[r].snap) ELSE None]

Promise == INSTANCE CompleteOrAbsent WITH
  Trees  <- {Body[i] : i \in Inputs},
  Absent <- None,
  tree   <- PublishedTree,
  view   <- ServedTrees

(* The store implements its promise: readers never see anything but whole  *)
(* trees of one input, which do not change while they are open.            *)
ImplementsPromise == Promise!Spec

(***************************************************************************)
(* The inductive invariant behind the properties above: while artifacts    *)
(* are written no readable state is left, and each file's progress says    *)
(* what is known of its bytes, its entry and its sync.                     *)
(***************************************************************************)
Writing == Groups \cup {"join_shard", "join_terrain", "barrier"}

LockExcludes == phase # "idle" => NoPins

Withdrawn ==
  /\ phase \in Writing \cup {"zeroed"} => state = None
  /\ phase \in Writing => stateDisk = None

BaseIsState == phase = "decide" /\ base # None => base = state

Foreign ==
  cache[Version] = Future =>
    phase = "idle" /\ dirty = {} /\ state = None /\ stateDisk = None

Agreed == state # None /\ stateDisk # None => state = stateDisk

ThreadsInPhase ==
  /\ thr["shard"] # "none" => phase \in {"page", "occlusion", "terrain", "join_shard"}
  /\ thr["terrain"] # "none" => phase \in {"join_shard", "join_terrain"}

Undecided ==
  phase \in {"idle", "decide"} => \A f \in Files : prog[f] = "out" /\ inv[f] = Unlisted

Decided == phase \notin {"idle", "decide"} => input \in Inputs

Tracked(f) ==
  /\ prog[f] = "carried" =>
       /\ inv[f] # Unlisted
       /\ inv[f] = Body[input][f]
       /\ cache[f] = inv[f]
       /\ f \notin dirty
  /\ prog[f] = "wrote" =>
       /\ Body[input][f] # Unlisted
       /\ cache[f] = Body[input][f]
       /\ f \in dirty => f \in pending
       /\ inv[f] \in {Unlisted, Body[input][f]}
  /\ prog[f] \in {"todo", "open"} => inv[f] = Unlisted /\ Body[input][f] # Unlisted
  /\ prog[f] = "out" =>
       /\ inv[f] = Unlisted
       /\ phase \notin {"idle", "decide"} => Body[input][f] = Unlisted
  /\ f \in pending => prog[f] = "wrote"
  /\ Group[f] = "page" /\ phase \notin {"idle", "decide", "zeroed", "version", "usage", "shard", "page"} =>
       prog[f] \notin {"todo", "open"}

Published ==
  phase \in {"publish", "prune", "validate"} =>
    /\ state = inv
    /\ pending = {}
    /\ inv = Body[input]
    /\ phase # "publish" => stateDisk = inv

Whole(s) == s # None => \E i \in Inputs : s = Body[i]

Control ==
  /\ orphans = {}
  /\ LockExcludes
  /\ Withdrawn
  /\ BaseIsState
  /\ Foreign
  /\ Agreed
  /\ ThreadsInPhase
  /\ Undecided
  /\ Decided

IInv ==
  /\ TypeOK
  /\ Control
  /\ \A f \in Files : Tracked(f)
  /\ Published
  /\ StateIsBacked
  /\ ServedTreeIntact
  /\ Whole(state)
  /\ Whole(stateDisk)
=============================================================================
