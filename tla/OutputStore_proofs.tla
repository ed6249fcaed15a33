----------------------- MODULE OutputStore_proofs ------------------------
(***************************************************************************)
(* Proofs about the output store, for every set of files, inputs, writer   *)
(* processes and readers.                                                  *)
(*                                                                         *)
(* They take MaxDetached = 0: a generation error ends the process, or      *)
(* leaves no writer thread running.  OutputStoreDetached.cfg shows what    *)
(* fails without it.                                                       *)
(*                                                                         *)
(* IInv is inductive.  One lemma per action shows that it is kept, one     *)
(* step per conjunct; Step puts them together.  The properties follow from *)
(* IInv, and so do the action properties and the refinement of             *)
(* CompleteOrAbsent, step by step.                                         *)
(***************************************************************************)
EXTENDS OutputStore, FiniteSetTheorems, TLAPS

(***************************************************************************)
(* IInv holds in every tree the program can find at the start.             *)
(***************************************************************************)
LEMMA Initially == Init => IInv
<1> SUFFICES ASSUME Init PROVE IInv
  OBVIOUS
<1> USE ConstantsAssumption DEF Init
<1>1. CASE \E i \in Inputs :
             /\ cache = [f \in Files |-> IF Body[i][f] = Unlisted THEN Missing ELSE Body[i][f]]
             /\ state = Body[i]
  <2>1. PICK i \in Inputs :
             /\ cache = [f \in Files |-> IF Body[i][f] = Unlisted THEN Missing ELSE Body[i][f]]
             /\ state = Body[i]
    BY <1>1
  <2>2. Body[i] \in Inventories
    OBVIOUS
  <2>3. TypeOK
    BY <2>1, <2>2
       DEF TypeOK, Inventories, Contents, NoEntries, Phases, Progress,
           Snapshots
  <2>4. cache[Version] # Future
    BY <2>1 DEF Future, Missing
  <2>5. Control
    BY <2>1, <2>4
       DEF Control, LockExcludes, Withdrawn, Writing, Groups, Inline, Threaded,
           BaseIsState, Foreign, Agreed, ThreadsInPhase, Undecided, Decided,
           NoEntries
  <2>6. StateIsBacked
    BY <2>1, <2>2 DEF StateIsBacked, Backed, Listed
  <2> QED
    BY <2>1, <2>2, <2>3, <2>5, <2>6
       DEF IInv, Tracked, Published, Whole, ServedTreeIntact, NoEntries
<1>2. CASE state = None /\ cache \in [Files -> Contents]
  <2>1. TypeOK
    BY <1>2 DEF TypeOK, Inventories, NoEntries, Phases, Progress, Snapshots
  <2>2. Control
    <3>1. LockExcludes /\ Withdrawn /\ BaseIsState /\ Foreign /\ Agreed
      BY <1>2 DEF LockExcludes, Withdrawn, BaseIsState, Foreign, Agreed
    <3>2. ThreadsInPhase /\ Undecided /\ Decided
      BY DEF ThreadsInPhase, Undecided, Decided, NoEntries, Threaded
    <3> QED
      BY <3>1, <3>2 DEF Control
  <2>3. StateIsBacked
    BY <1>2 DEF StateIsBacked, Backed
  <2> QED
    BY <1>2, <2>1, <2>2, <2>3
       DEF IInv, Tracked, Published, Whole, ServedTreeIntact, NoEntries
<1> QED
  BY <1>1, <1>2 DEF InitTree, Contents

(***************************************************************************)
(* Each action keeps IInv.                                                 *)
(***************************************************************************)
(* Taking the exclusive lock: no reader is pinned then, and the state      *)
(* found is remembered only when Routine validation accepts it under this  *)
(* version.                                                                *)
LEMMA AcquireKeeps ==
  ASSUME MaxDetached = 0, IInv, NEW p \in Procs, Acquire(p)
  PROVE  IInv'
<1>1. TypeOK'
  BY ConstantsAssumption
     DEF Acquire, Control, IInv, disk, session, ValidBase, Pinned, TypeOK,
         Phases
<1>2. Control'
  BY DEF Acquire, Control, IInv, disk, session, ValidBase, RoutineValid,
         VersionAccepted, NoPins, Pinned, LockExcludes, Withdrawn, Writing,
         BaseIsState, Foreign, Agreed, ThreadsInPhase, Undecided, Decided,
         TypeOK, Phases, Groups, Inline, Threaded
<1>3. \A g \in Files : Tracked(g)'
  BY DEF Acquire, Control, IInv, disk, session, ValidBase, Pinned, Tracked,
         Decided
<1>4. Published'
  BY DEF Acquire, Control, IInv, Pinned, Published, Withdrawn
<1>5. StateIsBacked'
  BY DEF Acquire, Control, IInv, disk, session, ValidBase, Pinned,
         StateIsBacked, Backed
<1>6. ServedTreeIntact'
  BY DEF Acquire, Control, IInv, NoPins, Pinned, ServedTreeIntact
<1>7. Whole(state)' /\ Whole(stateDisk)'
  BY ConstantsAssumption DEF Acquire, Control, IInv, disk
<1> QED
  BY <1>1, <1>2, <1>3, <1>4, <1>5, <1>6, <1>7 DEF IInv

(* A clean input ends the session without a write.                         *)
LEMMA FinishNoopKeeps ==
  ASSUME MaxDetached = 0, IInv, FinishNoop
  PROVE  IInv'
<1>1. TypeOK'
  BY DEF FinishNoop, Control, IInv, disk, session, NoSession, NoEntries,
         TypeOK, Phases, Progress, Snapshots, Inventories
<1>2. Control'
  BY ConstantsAssumption
     DEF FinishNoop, Control, IInv, disk, session, NoSession, NoEntries,
         LockExcludes, NoPins, Pinned, Withdrawn, Writing, BaseIsState,
         Foreign, Agreed, ThreadsInPhase, Undecided, Decided, TypeOK, Phases,
         Groups, Inline, Threaded
<1>3. \A g \in Files : Tracked(g)'
  BY DEF FinishNoop, Control, IInv, disk, session, NoSession, NoEntries,
         Tracked, Decided
<1>4. Published'
  BY DEF FinishNoop, Control, IInv, session, NoSession, NoEntries, Published,
         Withdrawn
<1>5. StateIsBacked'
  BY DEF FinishNoop, Control, IInv, disk, session, NoSession, NoEntries,
         StateIsBacked, Backed
<1>6. ServedTreeIntact'
  BY DEF FinishNoop, Control, IInv, ServedTreeIntact, LockExcludes, NoPins,
         Pinned, Listed, ThreadsInPhase
<1>7. Whole(state)' /\ Whole(stateDisk)'
  BY ConstantsAssumption DEF FinishNoop, Control, IInv, disk
<1> QED
  BY <1>1, <1>2, <1>3, <1>4, <1>5, <1>6, <1>7 DEF IInv

(* Choosing what to carry zeroes the readable state; a carried entry       *)
(* equals the base, hence the new input, and its bytes back it because no  *)
(* state is admitted whose bytes do not.                                   *)
LEMMA BeginDirtyKeeps ==
  ASSUME MaxDetached = 0, IInv, NEW i \in Inputs, NEW carry \in SUBSET Carryable(i), BeginDirty(i, carry)
  PROVE  IInv'
<1>1. TypeOK'
  BY DEF BeginDirty, Control, IInv, Carryable, TypeOK, Phases, Progress,
         Snapshots, Inventories
<1>2. Control'
  BY DEF BeginDirty, Control, IInv, session, Carryable, LockExcludes, NoPins,
         Pinned, Withdrawn, Writing, BaseIsState, Foreign, Agreed,
         ThreadsInPhase, Undecided, Decided, TypeOK, Phases, Groups, Inline,
         Threaded
<1>3. \A g \in Files : Tracked(g)'
  BY DEF BeginDirty, Control, IInv, session, Carryable, Tracked, Decided,
         Withdrawn, Undecided, BaseIsState, StateIsBacked, Published, Backed,
         Listed, ThreadsInPhase
<1>4. Published'
  BY DEF BeginDirty, Control, IInv, Carryable, Published, Withdrawn
<1>5. StateIsBacked'
  BY DEF BeginDirty, Control, IInv, StateIsBacked, Backed
<1>6. ServedTreeIntact'
  BY DEF BeginDirty, Control, IInv, ServedTreeIntact, LockExcludes, NoPins
<1>7. Whole(state)' /\ Whole(stateDisk)'
  BY DEF BeginDirty, Control, IInv, Carryable, Whole, Published
<1> QED
  BY <1>1, <1>2, <1>3, <1>4, <1>5, <1>6, <1>7 DEF IInv

(* The zeroed state becomes durable before the first artifact write.       *)
LEMMA SyncInvalidationKeeps ==
  ASSUME MaxDetached = 0, IInv, SyncInvalidation
  PROVE  IInv'
<1>1. TypeOK'
  BY DEF SyncInvalidation, Control, IInv, TypeOK, Phases, Groups, Inline,
         Threaded
<1>2. Control'
  BY DEF SyncInvalidation, Control, IInv, session, LockExcludes, NoPins,
         Pinned, Withdrawn, Writing, BaseIsState, Foreign, Agreed,
         ThreadsInPhase, Undecided, Decided
<1>3. \A g \in Files : Tracked(g)'
  BY DEF SyncInvalidation, Control, IInv, session, Tracked, Decided
<1>4. Published'
  BY DEF SyncInvalidation, Control, IInv, session, Published, Withdrawn
<1>5. StateIsBacked'
  BY DEF SyncInvalidation, Control, IInv, StateIsBacked, Backed
<1>6. ServedTreeIntact'
  BY DEF SyncInvalidation, Control, IInv, ServedTreeIntact, LockExcludes,
         NoPins
<1>7. Whole(state)' /\ Whole(stateDisk)'
  BY DEF SyncInvalidation, Control, IInv, session, Whole, Published
<1> QED
  BY <1>1, <1>2, <1>3, <1>4, <1>5, <1>6, <1>7 DEF IInv

(* The generation thread truncates a file.  Both states are None by then.  *)
LEMMA MainOpenKeeps ==
  ASSUME MaxDetached = 0, IInv, NEW f \in Files, MainOpen(f)
  PROVE  IInv'
<1>1. phase \notin {"idle", "decide", "zeroed"}
  BY DEF MainOpen, Inline
<1>2. cache'[Version] = Future => cache[Version] = Future
  BY DEF MainOpen, IInv, Short, Torn, Older, Future, Kept, Partial, Truncate,
         InGroup
<1>3. Foreign'
  BY <1>1, <1>2 DEF MainOpen, Control, IInv, Foreign
<1>4. TypeOK'
  BY DEF MainOpen, Control, IInv, Truncate, Partial, InGroup, Contents,
         TypeOK, Phases, Progress, Snapshots, Inventories
<1>5. Control'
  BY ConstantsAssumption, <1>1, <1>2
     DEF MainOpen, Control, IInv, Contents, LockExcludes, NoPins, Pinned,
         Withdrawn, Writing, BaseIsState, Foreign, Agreed, ThreadsInPhase,
         Undecided, Decided
<1>6. \A g \in Files : Tracked(g)'
  BY DEF MainOpen, Control, IInv, Truncate, Partial, InGroup, Contents,
         Tracked, Decided
<1>7. Published'
  BY DEF MainOpen, Control, IInv, Contents, Published, Withdrawn
<1>8. StateIsBacked'
  BY ConstantsAssumption, <1>1, <1>2
     DEF MainOpen, Control, IInv, Truncate, Partial, InGroup, Contents,
         StateIsBacked, Backed, Listed, Withdrawn, Writing
<1>9. ServedTreeIntact'
  BY <1>1, <1>2, <1>3
     DEF MainOpen, Control, IInv, ServedTreeIntact, LockExcludes, NoPins,
         Pinned, Listed, ThreadsInPhase
<1>10. Whole(state)' /\ Whole(stateDisk)'
  BY DEF MainOpen, Control, IInv
<1> QED
  BY <1>4, <1>5, <1>6, <1>7, <1>8, <1>9, <1>10 DEF IInv

(* A file closes complete; unless its sync is deferred it is durable too.  *)
LEMMA MainCloseKeeps ==
  ASSUME MaxDetached = 0, IInv, NEW f \in Files, MainClose(f)
  PROVE  IInv'
<1>1. Body[input][f] \in Bodies
  BY ConstantsAssumption
     DEF MainClose, Control, IInv, InGroup, Decided, Tracked, TypeOK,
         Inventories, Groups, Inline, Threaded, ThreadsInPhase
<1>2. TypeOK'
  BY <1>1
     DEF MainClose, Control, IInv, disk, session, RegisterDeferred, Deferred,
         InGroup, Contents, TypeOK, Phases, Progress, Snapshots, Inventories
<1>3. Control'
  BY ConstantsAssumption
     DEF MainClose, Control, IInv, RegisterDeferred, Deferred, InGroup,
         Contents, LockExcludes, NoPins, Pinned, Withdrawn, Writing,
         BaseIsState, Foreign, Agreed, ThreadsInPhase, Undecided, Decided
<1>4. \A g \in Files : Tracked(g)'
  BY DEF MainClose, Control, IInv, session, RegisterDeferred, Deferred,
         InGroup, Contents, Tracked, Decided, TypeOK, Phases
<1>5. Published'
  BY DEF MainClose, Control, IInv, Deferred, InGroup, Contents, Published,
         Withdrawn, Writing, Decided, Tracked
<1>6. StateIsBacked'
  BY ConstantsAssumption
     DEF MainClose, Control, IInv, RegisterDeferred, Deferred, InGroup,
         Contents, StateIsBacked, Backed, Listed, Withdrawn, Writing
<1>7. ServedTreeIntact'
  BY DEF MainClose, Control, IInv, Contents, ServedTreeIntact, LockExcludes,
         NoPins, Pinned, Listed, Groups, Inline, Threaded
<1>8. Whole(state)' /\ Whole(stateDisk)'
  BY DEF MainClose, Control, IInv
<1> QED
  BY <1>2, <1>3, <1>4, <1>5, <1>6, <1>7, <1>8 DEF IInv

(* The generation thread moves to the next publish step.                   *)
LEMMA EndInlineKeeps ==
  ASSUME MaxDetached = 0, IInv, EndInline
  PROVE  IInv'
<1>1. TypeOK'
  BY DEF EndInline, Control, IInv, disk, session, Following, InGroup, TypeOK,
         Phases, Groups, Inline, Threaded
<1>2. Control'
  BY ConstantsAssumption
     DEF EndInline, Control, IInv, disk, session, Following, InGroup,
         LockExcludes, NoPins, Pinned, Withdrawn, Writing, BaseIsState,
         Foreign, Agreed, ThreadsInPhase, Undecided, Decided, TypeOK, Phases,
         Groups, Inline, Threaded
<1>3. \A g \in Files : Tracked(g)'
  BY ConstantsAssumption
     DEF EndInline, Control, IInv, disk, session, Following, InGroup, Tracked,
         Groups, Inline, Threaded
<1>4. Published'
  BY DEF EndInline, Control, IInv, Following, InGroup, Published, Groups,
         Inline, Threaded
<1>5. StateIsBacked'
  BY DEF EndInline, Control, IInv, disk, session, Following, InGroup,
         StateIsBacked, Backed
<1>6. ServedTreeIntact'
  BY ConstantsAssumption
     DEF EndInline, Control, IInv, disk, ServedTreeIntact, LockExcludes,
         NoPins
<1>7. Whole(state)' /\ Whole(stateDisk)'
  BY ConstantsAssumption DEF EndInline, Control, IInv, disk
<1> QED
  BY <1>1, <1>2, <1>3, <1>4, <1>5, <1>6, <1>7 DEF IInv

(* A writer thread starts, or its step has nothing to do.                  *)
LEMMA SpawnKeeps ==
  ASSUME MaxDetached = 0, IInv, Spawn
  PROVE  IInv'
<1>1. TypeOK'
  BY DEF Spawn, Control, IInv, disk, session, Following, InGroup, TypeOK,
         Phases, Groups, Inline, Threaded
<1>2. Control'
  BY ConstantsAssumption
     DEF Spawn, Control, IInv, disk, session, Following, InGroup,
         LockExcludes, NoPins, Pinned, Withdrawn, Writing, BaseIsState,
         Foreign, Agreed, ThreadsInPhase, Undecided, Decided, TypeOK, Phases,
         Groups, Inline, Threaded
<1>3. \A g \in Files : Tracked(g)'
  BY ConstantsAssumption
     DEF Spawn, Control, IInv, disk, session, Following, InGroup, Tracked,
         Groups, Inline, Threaded
<1>4. Published'
  BY DEF Spawn, Control, IInv, Following, InGroup, Published, Groups, Inline,
         Threaded
<1>5. StateIsBacked'
  BY DEF Spawn, Control, IInv, disk, session, Following, InGroup,
         StateIsBacked, Backed
<1>6. ServedTreeIntact'
  BY ConstantsAssumption
     DEF Spawn, Control, IInv, disk, ServedTreeIntact, LockExcludes, NoPins
<1>7. Whole(state)' /\ Whole(stateDisk)'
  BY ConstantsAssumption DEF Spawn, Control, IInv, disk
<1> QED
  BY <1>1, <1>2, <1>3, <1>4, <1>5, <1>6, <1>7 DEF IInv

(* A writer thread truncates a file of its group.  Both states are None.   *)
LEMMA ThreadOpenKeeps ==
  ASSUME MaxDetached = 0, IInv, NEW k \in Threaded, NEW f \in Files, ThreadOpen(k, f)
  PROVE  IInv'
<1>1. TypeOK'
  BY DEF ThreadOpen, Control, IInv, Truncate, Partial, InGroup, Contents,
         TypeOK, Phases, Progress, Snapshots, Inventories
<1>2. Control'
  BY ConstantsAssumption
     DEF ThreadOpen, Control, IInv, disk, session, Truncate, Partial, InGroup,
         Contents, LockExcludes, NoPins, Pinned, Withdrawn, Writing,
         BaseIsState, Foreign, Agreed, ThreadsInPhase, Undecided, Decided,
         TypeOK, Phases, Groups, Inline, Threaded
<1>3. \A g \in Files : Tracked(g)'
  BY DEF ThreadOpen, Control, IInv, Truncate, Partial, InGroup, Contents,
         Tracked, Decided
<1>4. Published'
  BY DEF ThreadOpen, Control, IInv, Contents, Published, Withdrawn
<1>5. StateIsBacked'
  BY DEF ThreadOpen, Control, IInv, StateIsBacked, Backed, Listed, Withdrawn,
         Writing, Published, Tracked, ThreadsInPhase, TypeOK, Phases, Groups,
         Inline, Threaded
<1>6. ServedTreeIntact'
  BY DEF ThreadOpen, Control, IInv, Contents, ServedTreeIntact, LockExcludes,
         NoPins, Pinned, Listed, ThreadsInPhase, TypeOK, Phases, Groups,
         Inline, Threaded
<1>7. Whole(state)' /\ Whole(stateDisk)'
  BY DEF ThreadOpen, Control, IInv
<1> QED
  BY <1>1, <1>2, <1>3, <1>4, <1>5, <1>6, <1>7 DEF IInv

(* A writer thread closes a file and defers or performs its sync.          *)
LEMMA ThreadCloseKeeps ==
  ASSUME MaxDetached = 0, IInv, NEW k \in Threaded, NEW f \in Files, ThreadClose(k, f)
  PROVE  IInv'
<1>1. Body[input][f] \in Bodies
  BY ConstantsAssumption
     DEF ThreadClose, Control, IInv, InGroup, Decided, Tracked, TypeOK,
         Inventories, Groups, Inline, Threaded, ThreadsInPhase
<1>2. TypeOK'
  BY <1>1
     DEF ThreadClose, Control, IInv, disk, session, RegisterDeferred,
         Deferred, InGroup, Contents, TypeOK, Phases, Progress, Snapshots,
         Inventories
<1>3. Control'
  BY ConstantsAssumption
     DEF ThreadClose, Control, IInv, RegisterDeferred, Deferred, InGroup,
         Contents, LockExcludes, NoPins, Pinned, Withdrawn, Writing,
         BaseIsState, Foreign, Agreed, ThreadsInPhase, Undecided, Decided
<1>4. \A g \in Files : Tracked(g)'
  BY DEF ThreadClose, Control, IInv, session, RegisterDeferred, Deferred,
         InGroup, Contents, Tracked, Decided, TypeOK, Phases
<1>5. Published'
  BY DEF ThreadClose, Control, IInv, Deferred, InGroup, Contents, Published,
         Withdrawn, Writing, Decided, Tracked
<1>6. StateIsBacked'
  BY DEF ThreadClose, Control, IInv, StateIsBacked, Backed, Listed, Withdrawn,
         Writing, Published, Tracked, ThreadsInPhase, TypeOK, Phases, Groups,
         Inline, Threaded
<1>7. ServedTreeIntact'
  BY DEF ThreadClose, Control, IInv, Contents, ServedTreeIntact, LockExcludes,
         NoPins, Pinned, Listed, ThreadsInPhase, TypeOK, Phases, Groups,
         Inline, Threaded
<1>8. Whole(state)' /\ Whole(stateDisk)'
  BY DEF ThreadClose, Control, IInv
<1> QED
  BY <1>2, <1>3, <1>4, <1>5, <1>6, <1>7, <1>8 DEF IInv

(* A writer thread fails: nothing on disk changes.                         *)
LEMMA ThreadFailKeeps ==
  ASSUME MaxDetached = 0, IInv, NEW k \in Threaded, ThreadFail(k)
  PROVE  IInv'
<1>1. TypeOK'
  BY ConstantsAssumption
     DEF ThreadFail, Control, IInv, disk, session, TypeOK, Phases
<1>2. Control'
  BY ConstantsAssumption
     DEF ThreadFail, Control, IInv, disk, session, LockExcludes, NoPins,
         Pinned, Withdrawn, Writing, BaseIsState, Foreign, Agreed,
         ThreadsInPhase, Undecided, Decided
<1>3. \A g \in Files : Tracked(g)'
  BY ConstantsAssumption
     DEF ThreadFail, Control, IInv, disk, session, Tracked, Decided
<1>4. Published'
  BY ConstantsAssumption
     DEF ThreadFail, Control, IInv, disk, session, Published, Withdrawn
<1>5. StateIsBacked'
  BY ConstantsAssumption
     DEF ThreadFail, Control, IInv, disk, session, StateIsBacked, Backed
<1>6. ServedTreeIntact'
  BY DEF ThreadFail, Control, IInv, disk, session, ServedTreeIntact,
         LockExcludes, NoPins
<1>7. Whole(state)' /\ Whole(stateDisk)'
  BY ConstantsAssumption DEF ThreadFail, Control, IInv, disk
<1> QED
  BY <1>1, <1>2, <1>3, <1>4, <1>5, <1>6, <1>7 DEF IInv

(* Joining a thread moves its entries into the inventory.  The join waits  *)
(* for every file of the group, so each entry describes finished bytes.    *)
LEMMA JoinKeeps ==
  ASSUME MaxDetached = 0, IInv, NEW k \in Threaded, Join(k)
  PROVE  IInv'
<1>1. Body[input] \in Inventories
  BY ConstantsAssumption
     DEF Join, Control, IInv, Joinable, JoinPhase, Decided, TypeOK, Threaded
<1>2. TypeOK'
  BY <1>1
     DEF Join, Control, IInv, disk, session, Joinable, JoinReady, JoinPhase,
         AfterJoin, InGroup, TypeOK, Phases, Groups, Inline, Threaded,
         Progress, Snapshots, Inventories
<1>3. Control'
  BY ConstantsAssumption, <1>1
     DEF Join, Control, IInv, disk, session, Joinable, JoinReady, JoinPhase,
         AfterJoin, InGroup, LockExcludes, NoPins, Pinned, Withdrawn, Writing,
         BaseIsState, Foreign, Agreed, ThreadsInPhase, Undecided, Decided,
         TypeOK, Phases, Groups, Inline, Threaded
<1>4. \A g \in Files : Tracked(g)'
  BY <1>1
     DEF Join, Control, IInv, disk, session, Joinable, JoinReady, JoinPhase,
         AfterJoin, InGroup, Tracked, Groups, Inline, Threaded
<1>5. Published'
  BY DEF Join, Control, IInv, AfterJoin, InGroup, Published, Groups, Inline,
         Threaded
<1>6. StateIsBacked'
  BY DEF Join, Control, IInv, disk, session, Joinable, InGroup, StateIsBacked,
         Backed
<1>7. ServedTreeIntact'
  BY ConstantsAssumption, <1>1
     DEF Join, Control, IInv, disk, ServedTreeIntact, LockExcludes, NoPins
<1>8. Whole(state)' /\ Whole(stateDisk)'
  BY ConstantsAssumption, <1>1 DEF Join, Control, IInv, disk
<1> QED
  BY <1>2, <1>3, <1>4, <1>5, <1>6, <1>7, <1>8 DEF IInv

(* The barrier syncs one deferred handle.                                  *)
LEMMA SyncPendingKeeps ==
  ASSUME MaxDetached = 0, IInv, NEW f \in Files, SyncPending(f)
  PROVE  IInv'
<1>1. TypeOK'
  BY DEF SyncPending, Control, IInv, TypeOK, Phases
<1>2. Control'
  BY DEF SyncPending, Control, IInv, session, LockExcludes, NoPins, Pinned,
         Withdrawn, Writing, BaseIsState, Foreign, Agreed, ThreadsInPhase,
         Undecided, Decided
<1>3. \A g \in Files : Tracked(g)'
  BY DEF SyncPending, Control, IInv, session, Tracked, Decided
<1>4. Published'
  BY DEF SyncPending, Control, IInv, session, Published, Withdrawn
<1>5. StateIsBacked'
  BY DEF SyncPending, Control, IInv, StateIsBacked, Backed
<1>6. ServedTreeIntact'
  BY DEF SyncPending, Control, IInv, ServedTreeIntact, LockExcludes, NoPins
<1>7. Whole(state)' /\ Whole(stateDisk)'
  BY DEF SyncPending, Control, IInv
<1> QED
  BY <1>1, <1>2, <1>3, <1>4, <1>5, <1>6, <1>7 DEF IInv

(* After the barrier nothing is dirty and the inventory is complete, so    *)
(* the new state describes exactly the bytes of its one input.             *)
LEMMA WriteStateKeeps ==
  ASSUME MaxDetached = 0, IInv, WriteState
  PROVE  IInv'
<1>1. inv = Body[input]
  BY ConstantsAssumption
     DEF WriteState, Control, IInv, disk, session, BarrierDone, WriteEvidence,
         CompleteInventory, Whole, Published, Withdrawn, Writing, Decided,
         TypeOK, Phases, Groups, Inline, Threaded, Progress, Snapshots,
         Inventories, Tracked
<1>2. TypeOK'
  BY DEF WriteState, Control, IInv, TypeOK, Phases
<1>3. Control'
  BY DEF WriteState, Control, IInv, WriteEvidence, CompleteInventory,
         LockExcludes, NoPins, Pinned, Withdrawn, Writing, BaseIsState,
         Foreign, Agreed, ThreadsInPhase, Undecided, Decided, TypeOK, Phases,
         Groups, Inline, Threaded
<1>4. \A g \in Files : Tracked(g)'
  BY DEF WriteState, Control, IInv, CompleteInventory, Tracked, Decided
<1>5. Published'
  BY ConstantsAssumption, <1>1
     DEF WriteState, Control, IInv, disk, session, BarrierDone, WriteEvidence,
         CompleteInventory, Published, Withdrawn
<1>6. StateIsBacked'
  BY DEF WriteState, Control, IInv, disk, session, BarrierDone, WriteEvidence,
         CompleteInventory, StateIsBacked, Backed, Listed, Withdrawn, Writing,
         Published, Tracked, ThreadsInPhase, TypeOK, Phases, Progress,
         Snapshots, Inventories
<1>7. ServedTreeIntact'
  BY DEF WriteState, Control, IInv, ServedTreeIntact, LockExcludes, NoPins
<1>8. Whole(state)' /\ Whole(stateDisk)'
  BY ConstantsAssumption, <1>1
     DEF WriteState, Control, IInv, disk, CompleteInventory, Whole, Published,
         Withdrawn, Writing, Decided
<1> QED
  BY <1>2, <1>3, <1>4, <1>5, <1>6, <1>7, <1>8 DEF IInv

(* The new state becomes durable.                                          *)
LEMMA SyncStateKeeps ==
  ASSUME MaxDetached = 0, IInv, SyncState
  PROVE  IInv'
<1>1. TypeOK'
  BY DEF SyncState, Control, IInv, TypeOK, Phases
<1>2. Control'
  BY DEF SyncState, Control, IInv, disk, session, LockExcludes, NoPins,
         Pinned, Withdrawn, Writing, BaseIsState, Foreign, Agreed,
         ThreadsInPhase, Undecided, Decided, TypeOK, Phases, Groups, Inline,
         Threaded
<1>3. \A g \in Files : Tracked(g)'
  BY DEF SyncState, Control, IInv, session, Tracked, Decided
<1>4. Published'
  BY DEF SyncState, Control, IInv, session, Published, Withdrawn
<1>5. StateIsBacked'
  BY DEF SyncState, Control, IInv, StateIsBacked, Backed
<1>6. ServedTreeIntact'
  BY DEF SyncState, Control, IInv, ServedTreeIntact, LockExcludes, NoPins
<1>7. Whole(state)' /\ Whole(stateDisk)'
  BY DEF SyncState, Control, IInv
<1> QED
  BY <1>1, <1>2, <1>3, <1>4, <1>5, <1>6, <1>7 DEF IInv

(* Pruning removes only files the published state does not list.           *)
LEMMA PruneKeeps ==
  ASSUME MaxDetached = 0, IInv, NEW gone \in SUBSET Prunable, Prune(gone)
  PROVE  IInv'
<1>1. TypeOK'
  BY DEF Prune, Control, IInv, session, Prunable, Owned, Contents, TypeOK,
         Phases
<1>2. Control'
  BY ConstantsAssumption
     DEF Prune, Control, IInv, disk, session, Prunable, Owned, Contents,
         LockExcludes, NoPins, Pinned, Withdrawn, Writing, BaseIsState,
         Foreign, Agreed, ThreadsInPhase, Undecided, Decided, TypeOK, Phases,
         Groups, Inline, Threaded
<1>3. \A g \in Files : Tracked(g)'
  BY DEF Prune, Control, IInv, disk, session, Prunable, Owned, Contents,
         Tracked, BaseIsState, StateIsBacked, Published, Backed, Listed,
         ThreadsInPhase
<1>4. Published'
  BY DEF Prune, Control, IInv, Contents, Published, Withdrawn
<1>5. StateIsBacked'
  BY DEF Prune, Control, IInv, session, Prunable, Owned, Contents,
         StateIsBacked, Backed, Listed, Withdrawn, Writing, Published,
         Tracked, ThreadsInPhase
<1>6. ServedTreeIntact'
  BY DEF Prune, Control, IInv, ServedTreeIntact, LockExcludes, NoPins, Pinned,
         Listed, ThreadsInPhase
<1>7. Whole(state)' /\ Whole(stateDisk)'
  BY DEF Prune, Control, IInv
<1> QED
  BY <1>1, <1>2, <1>3, <1>4, <1>5, <1>6, <1>7 DEF IInv

(* The session ends with the validated state in place.                     *)
LEMMA FinishPublishKeeps ==
  ASSUME MaxDetached = 0, IInv, FinishPublish
  PROVE  IInv'
<1>1. TypeOK'
  BY DEF FinishPublish, Control, IInv, disk, session, NoSession, NoEntries,
         TypeOK, Phases, Progress, Snapshots, Inventories
<1>2. Control'
  BY ConstantsAssumption
     DEF FinishPublish, Control, IInv, disk, session, NoSession, NoEntries,
         LockExcludes, NoPins, Pinned, Withdrawn, Writing, BaseIsState,
         Foreign, Agreed, ThreadsInPhase, Undecided, Decided, TypeOK, Phases,
         Groups, Inline, Threaded
<1>3. \A g \in Files : Tracked(g)'
  BY DEF FinishPublish, Control, IInv, disk, session, NoSession, NoEntries,
         Tracked, Decided
<1>4. Published'
  BY DEF FinishPublish, Control, IInv, session, NoSession, NoEntries,
         Published, Withdrawn
<1>5. StateIsBacked'
  BY DEF FinishPublish, Control, IInv, disk, session, NoSession, NoEntries,
         StateIsBacked, Backed
<1>6. ServedTreeIntact'
  BY DEF FinishPublish, Control, IInv, ServedTreeIntact, LockExcludes, NoPins,
         Pinned, Listed, ThreadsInPhase
<1>7. Whole(state)' /\ Whole(stateDisk)'
  BY ConstantsAssumption DEF FinishPublish, Control, IInv, disk
<1> QED
  BY <1>1, <1>2, <1>3, <1>4, <1>5, <1>6, <1>7 DEF IInv

(* A generation error with no detached threads ends the process.           *)
LEMMA AbortKeeps ==
  ASSUME MaxDetached = 0, IInv, Abort
  PROVE  IInv'
<1>1. Detached = {}
  BY FS_EmptySet DEF Abort, Control, IInv, Detached, Running
<1>2. TypeOK'
  BY ConstantsAssumption, <1>1
     DEF Abort, Control, IInv, disk, session, NoSession, NoEntries, TypeOK,
         Phases, Progress, Snapshots, Inventories
<1>3. Control'
  BY <1>1
     DEF Abort, Control, IInv, disk, session, NoSession, NoEntries,
         LockExcludes, NoPins, Pinned, Withdrawn, Writing, BaseIsState,
         Foreign, Agreed, ThreadsInPhase, Undecided, Decided, TypeOK, Phases,
         Groups, Inline, Threaded
<1>4. \A g \in Files : Tracked(g)'
  BY DEF Abort, Control, IInv, disk, session, NoSession, NoEntries, Tracked,
         Decided
<1>5. Published'
  BY DEF Abort, Control, IInv, session, NoSession, NoEntries, Published,
         Withdrawn
<1>6. StateIsBacked'
  BY DEF Abort, Control, IInv, disk, session, NoSession, NoEntries,
         StateIsBacked, Backed
<1>7. ServedTreeIntact'
  BY DEF Abort, Control, IInv, ServedTreeIntact, LockExcludes, NoPins, Pinned,
         Listed, ThreadsInPhase
<1>8. Whole(state)' /\ Whole(stateDisk)'
  BY ConstantsAssumption, <1>1 DEF Abort, Control, IInv, disk
<1> QED
  BY <1>2, <1>3, <1>4, <1>5, <1>6, <1>7, <1>8 DEF IInv

(* The writer process dies: the lock and all its threads go with it.       *)
LEMMA KillKeeps ==
  ASSUME MaxDetached = 0, IInv, NEW p \in Procs, Kill(p)
  PROVE  IInv'
<1>1. TypeOK'
  BY DEF Kill, Control, IInv, disk, session, NoSession, NoEntries, TypeOK,
         Phases, Progress, Snapshots, Inventories
<1>2. Control'
  BY ConstantsAssumption
     DEF Kill, Control, IInv, disk, session, NoSession, NoEntries,
         LockExcludes, NoPins, Pinned, Withdrawn, Writing, BaseIsState,
         Foreign, Agreed, ThreadsInPhase, Undecided, Decided, TypeOK, Phases,
         Groups, Inline, Threaded
<1>3. \A g \in Files : Tracked(g)'
  BY DEF Kill, Control, IInv, disk, session, NoSession, NoEntries, Tracked,
         Decided
<1>4. Published'
  BY DEF Kill, Control, IInv, session, NoSession, NoEntries, Published,
         Withdrawn
<1>5. StateIsBacked'
  BY DEF Kill, Control, IInv, disk, session, NoSession, NoEntries,
         StateIsBacked, Backed
<1>6. ServedTreeIntact'
  BY ConstantsAssumption
     DEF Kill, Control, IInv, disk, ServedTreeIntact, LockExcludes, NoPins
<1>7. Whole(state)' /\ Whole(stateDisk)'
  BY ConstantsAssumption DEF Kill, Control, IInv, disk
<1> QED
  BY <1>1, <1>2, <1>3, <1>4, <1>5, <1>6, <1>7 DEF IInv

(* After power loss the state on disk is one of the two known ones, and    *)
(* only files with unsynced bytes may differ; no state lists any of those. *)
LEMMA PowerLossKeeps ==
  ASSUME MaxDetached = 0, IInv, PowerLoss
  PROVE  IInv'
<1>1. cache'[Version] = Future => cache[Version] = Future
  BY ConstantsAssumption
     DEF PowerLoss, IInv, TypeOK, Contents, Missing, Short, Torn, Older,
         Future, Kept, Partial, NoSession, NoEntries
<1>2. Foreign'
  BY <1>1
     DEF PowerLoss, Control, IInv, Foreign, disk, session, NoSession,
         NoEntries
<1>3. TypeOK'
  BY DEF PowerLoss, Control, IInv, session, NoSession, NoEntries, Kept,
         Partial, Contents, TypeOK, Phases, Groups, Inline, Threaded,
         Progress, Snapshots, Inventories, StateIsBacked
<1>4. Control'
  BY ConstantsAssumption, <1>1, <1>2
     DEF PowerLoss, Control, IInv, disk, session, NoSession, NoEntries, Kept,
         Partial, Contents, LockExcludes, NoPins, Pinned, Withdrawn, Writing,
         BaseIsState, Foreign, Agreed, ThreadsInPhase, Undecided, Decided,
         TypeOK, Phases, Groups, Inline, Threaded, Progress
<1>5. \A g \in Files : Tracked(g)'
  BY DEF PowerLoss, Control, IInv, session, NoSession, NoEntries, Kept,
         Partial, Contents, Tracked, Decided
<1>6. Published'
  BY DEF PowerLoss, Control, IInv, session, NoSession, NoEntries, Published,
         Withdrawn, Writing
<1>7. StateIsBacked'
  BY DEF PowerLoss, Control, IInv, StateIsBacked, Backed, Listed, Withdrawn,
         Writing
<1>8. ServedTreeIntact'
  BY DEF PowerLoss, Control, IInv, Contents, ServedTreeIntact
<1>9. Whole(state)' /\ Whole(stateDisk)'
  BY DEF PowerLoss, Control, IInv, Whole, Published, Withdrawn
<1> QED
  BY <1>3, <1>4, <1>5, <1>6, <1>7, <1>8, <1>9 DEF IInv

(* A reader passes the writer gate.                                        *)
LEMMA ReaderGateKeeps ==
  ASSUME MaxDetached = 0, IInv, NEW r \in Readers, ReaderGate(r)
  PROVE  IInv'
<1>1. TypeOK'
  BY ConstantsAssumption
     DEF ReaderGate, Control, IInv, disk, session, TypeOK, Phases, Progress,
         Snapshots, Inventories
<1>2. Control'
  BY ConstantsAssumption
     DEF ReaderGate, Control, IInv, disk, session, LockExcludes, NoPins,
         Pinned, Withdrawn, Writing, BaseIsState, Foreign, Agreed,
         ThreadsInPhase, Undecided, Decided
<1>3. \A g \in Files : Tracked(g)'
  BY ConstantsAssumption
     DEF ReaderGate, Control, IInv, disk, session, Tracked, Decided
<1>4. Published'
  BY ConstantsAssumption
     DEF ReaderGate, Control, IInv, disk, session, Published, Withdrawn
<1>5. StateIsBacked'
  BY ConstantsAssumption
     DEF ReaderGate, Control, IInv, disk, session, StateIsBacked, Backed
<1>6. ServedTreeIntact'
  BY DEF ReaderGate, Control, IInv, disk, session, ServedTreeIntact,
         LockExcludes, NoPins
<1>7. Whole(state)' /\ Whole(stateDisk)'
  BY ConstantsAssumption DEF ReaderGate, Control, IInv, disk
<1> QED
  BY <1>1, <1>2, <1>3, <1>4, <1>5, <1>6, <1>7 DEF IInv

(* A reader takes the shared lock; no session is open then.                *)
LEMMA ReaderPinKeeps ==
  ASSUME MaxDetached = 0, IInv, NEW r \in Readers, ReaderPin(r)
  PROVE  IInv'
<1>1. TypeOK'
  BY ConstantsAssumption
     DEF ReaderPin, Control, IInv, disk, session, TypeOK, Phases, Progress,
         Snapshots, Inventories
<1>2. Control'
  BY ConstantsAssumption
     DEF ReaderPin, Control, IInv, disk, session, LockExcludes, NoPins,
         Pinned, Withdrawn, Writing, BaseIsState, Foreign, Agreed,
         ThreadsInPhase, Undecided, Decided
<1>3. \A g \in Files : Tracked(g)'
  BY ConstantsAssumption
     DEF ReaderPin, Control, IInv, disk, session, Tracked, Decided
<1>4. Published'
  BY DEF ReaderPin, Control, IInv, session, Published, Withdrawn
<1>5. StateIsBacked'
  BY ConstantsAssumption
     DEF ReaderPin, Control, IInv, disk, session, StateIsBacked, Backed
<1>6. ServedTreeIntact'
  BY DEF ReaderPin, Control, IInv, disk, session, ServedTreeIntact,
         LockExcludes, NoPins
<1>7. Whole(state)' /\ Whole(stateDisk)'
  BY ConstantsAssumption DEF ReaderPin, Control, IInv, disk
<1> QED
  BY <1>1, <1>2, <1>3, <1>4, <1>5, <1>6, <1>7 DEF IInv

(* A reader starts serving a validated state, which its bytes back.        *)
LEMMA ReaderServeKeeps ==
  ASSUME MaxDetached = 0, IInv, NEW r \in Readers, ReaderServe(r)
  PROVE  IInv'
<1>1. TypeOK'
  BY ConstantsAssumption
     DEF ReaderServe, Control, IInv, disk, session, Serveable, RoutineValid,
         TypeOK, Threaded, Progress, Snapshots
<1>2. Control'
  BY ConstantsAssumption
     DEF ReaderServe, Control, IInv, disk, session, Serveable, RoutineValid,
         LockExcludes, NoPins, Pinned, Withdrawn, Writing, BaseIsState,
         Foreign, Agreed, ThreadsInPhase, Undecided, Decided, TypeOK, Phases
<1>3. \A g \in Files : Tracked(g)'
  BY DEF ReaderServe, Control, IInv, disk, session, Serveable, RoutineValid,
         Tracked, Decided
<1>4. Published'
  BY ConstantsAssumption
     DEF ReaderServe, Control, IInv, disk, session, Serveable, RoutineValid,
         Published
<1>5. StateIsBacked'
  BY DEF ReaderServe, Control, IInv, disk, session, Serveable, RoutineValid,
         StateIsBacked, Backed
<1>6. ServedTreeIntact'
  BY ConstantsAssumption
     DEF ReaderServe, Control, IInv, disk, session, Serveable, RoutineValid,
         ServedTreeIntact, Inventories, StateIsBacked, Backed
<1>7. Whole(state)' /\ Whole(stateDisk)'
  BY DEF ReaderServe, Control, IInv, disk, session, Serveable
<1> QED
  BY <1>1, <1>2, <1>3, <1>4, <1>5, <1>6, <1>7 DEF IInv

(* A reader lets go.                                                       *)
LEMMA ReaderLeaveKeeps ==
  ASSUME MaxDetached = 0, IInv, NEW r \in Readers, ReaderLeave(r)
  PROVE  IInv'
<1>1. TypeOK'
  BY ConstantsAssumption
     DEF ReaderLeave, Control, IInv, disk, session, Serveable, TypeOK, Phases,
         Progress, Snapshots, Inventories
<1>2. Control'
  BY ConstantsAssumption
     DEF ReaderLeave, Control, IInv, disk, session, Serveable, LockExcludes,
         NoPins, Pinned, Withdrawn, Writing, BaseIsState, Foreign, Agreed,
         ThreadsInPhase, Undecided, Decided
<1>3. \A g \in Files : Tracked(g)'
  BY ConstantsAssumption
     DEF ReaderLeave, Control, IInv, disk, session, Serveable, Tracked,
         Decided
<1>4. Published'
  BY DEF ReaderLeave, Control, IInv, disk, session, Serveable, Published,
         Withdrawn
<1>5. StateIsBacked'
  BY ConstantsAssumption
     DEF ReaderLeave, Control, IInv, disk, session, Serveable, StateIsBacked,
         Backed
<1>6. ServedTreeIntact'
  BY DEF ReaderLeave, Control, IInv, disk, session, Serveable,
         ServedTreeIntact, LockExcludes, NoPins
<1>7. Whole(state)' /\ Whole(stateDisk)'
  BY DEF ReaderLeave, Control, IInv, disk, session
<1> QED
  BY <1>1, <1>2, <1>3, <1>4, <1>5, <1>6, <1>7 DEF IInv

(* A step that changes nothing.                                            *)
LEMMA StutterKeeps ==
  ASSUME MaxDetached = 0, IInv, UNCHANGED vars
  PROVE  IInv'
<1>1. TypeOK'
  BY ConstantsAssumption DEF Control, IInv, disk, session, vars, TypeOK, Phases
<1>2. Control'
  BY ConstantsAssumption
     DEF Control, IInv, disk, session, vars, LockExcludes, NoPins, Pinned,
         Withdrawn, Writing, BaseIsState, Foreign, Agreed, ThreadsInPhase,
         Undecided, Decided
<1>3. \A g \in Files : Tracked(g)'
  BY ConstantsAssumption
     DEF Control, IInv, disk, session, vars, Tracked, Decided
<1>4. Published'
  BY DEF Control, IInv, disk, session, vars, Published, Withdrawn
<1>5. StateIsBacked'
  BY ConstantsAssumption
     DEF Control, IInv, disk, session, vars, StateIsBacked, Backed
<1>6. ServedTreeIntact'
  BY DEF Control, IInv, disk, session, vars, ServedTreeIntact, LockExcludes,
         NoPins
<1>7. Whole(state)' /\ Whole(stateDisk)'
  BY DEF Control, IInv, disk, session, vars, Whole, Published
<1> QED
  BY <1>1, <1>2, <1>3, <1>4, <1>5, <1>6, <1>7 DEF IInv

(* Every step keeps IInv.                                                  *)
LEMMA Step ==
  ASSUME MaxDetached = 0, IInv, [Next]_vars
  PROVE  IInv'
<1>1. CASE Advance
  <2>1. CASE FinishNoop \/ SyncInvalidation \/ EndInline \/ Spawn
    BY <2>1, FinishNoopKeeps, SyncInvalidationKeeps, EndInlineKeeps, SpawnKeeps
  <2>2. CASE WriteState \/ SyncState \/ FinishPublish
    BY <2>2, WriteStateKeeps, SyncStateKeeps, FinishPublishKeeps
  <2>3. CASE \E i \in Inputs : \E carry \in SUBSET Carryable(i) : BeginDirty(i, carry)
    BY <2>3, BeginDirtyKeeps
  <2>4. CASE \E f \in Files : MainOpen(f) \/ MainClose(f) \/ SyncPending(f)
    BY <2>4, MainOpenKeeps, MainCloseKeeps, SyncPendingKeeps
  <2>5. CASE \E k \in Threaded, f \in Files : ThreadOpen(k, f) \/ ThreadClose(k, f)
    BY <2>5, ThreadOpenKeeps, ThreadCloseKeeps
  <2>6. CASE \E k \in Threaded : Join(k) \/ JoinError(k)
    BY <2>6, JoinKeeps, AbortKeeps DEF JoinError
  <2>7. CASE \E gone \in SUBSET Prunable : Prune(gone)
    BY <2>7, PruneKeeps
  <2> QED
    BY <1>1, <2>1, <2>2, <2>3, <2>4, <2>5, <2>6, <2>7 DEF Advance
<1>2. CASE \E p \in Procs : Acquire(p) \/ Kill(p)
  BY <1>2, AcquireKeeps, KillKeeps
<1>3. CASE (\E k \in Threaded : ThreadFail(k)) \/ Abort \/ PowerLoss
  BY <1>3, ThreadFailKeeps, AbortKeeps, PowerLossKeeps
<1>4. CASE \E r \in Readers : ReaderGate(r) \/ ReaderPin(r) \/ ReaderServe(r) \/ ReaderLeave(r)
  BY <1>4, ReaderGateKeeps, ReaderPinKeeps, ReaderServeKeeps, ReaderLeaveKeeps
<1>5. CASE UNCHANGED vars
  BY <1>5, StutterKeeps
<1> QED
  BY <1>1, <1>2, <1>3, <1>4, <1>5 DEF Next

(* The strengthened invariant holds always.                                *)
THEOREM InductiveInvariant ==
  ASSUME MaxDetached = 0
  PROVE  Spec => []IInv
<1>1. IInv /\ [Next]_vars => IInv'
  BY Step
<1> QED
  BY Initially, <1>1, PTL DEF Spec

(* Type correctness.                                                       *)
THEOREM TypeCorrect ==
  ASSUME MaxDetached = 0
  PROVE  Spec => []TypeOK
<1>1. IInv => TypeOK
  BY DEF IInv
<1> QED
  BY <1>1, InductiveInvariant, PTL

(* A state that a read accepts, now or after power loss, describes the     *)
(* bytes on disk, all of them durable.                                     *)
THEOREM StatesAreBacked ==
  ASSUME MaxDetached = 0
  PROVE  Spec => []StateIsBacked
<1>1. IInv => StateIsBacked
  BY DEF IInv
<1> QED
  BY <1>1, InductiveInvariant, PTL

(* An entry carried over from the base still describes its file.           *)
THEOREM CarriedEntriesHold ==
  ASSUME MaxDetached = 0
  PROVE  Spec => []CarriedIntact
<1>1. IInv => CarriedIntact
  BY DEF IInv, CarriedIntact, Tracked
<1> QED
  BY <1>1, InductiveInvariant, PTL

(* A complete state is that of one input: reuse never mixes generations.   *)
THEOREM TreesAreOfOneInput ==
  ASSUME MaxDetached = 0
  PROVE  Spec => []OneInput
<1>1. IInv => OneInput
  BY DEF IInv, OneInput, Whole
<1> QED
  BY <1>1, InductiveInvariant, PTL

(* What a reader serves stays what it validated, for as long as it serves. *)
THEOREM ServedTreesStayIntact ==
  ASSUME MaxDetached = 0
  PROVE  Spec => []ServedTreeIntact
<1>1. IInv => ServedTreeIntact
  BY DEF IInv
<1> QED
  BY <1>1, InductiveInvariant, PTL

(***************************************************************************)
(* Action properties.                                                      *)
(***************************************************************************)
(* Nothing a step does touches the tree of a newer program version.        *)
LEMMA FutureStep ==
  ASSUME MaxDetached = 0, IInv, [Next]_vars, cache[Version] = Future
  PROVE  UNCHANGED << cache, state, stateDisk >>
<1> USE DEF IInv, Control, Foreign, disk, session
<1>1. phase = "idle" /\ dirty = {} /\ state = None /\ stateDisk = None /\ orphans = {}
  OBVIOUS
<1>2. CASE PowerLoss
  BY <1>1, <1>2 DEF PowerLoss, TypeOK
<1>3. CASE Advance
  BY <1>1, <1>3
     DEF Advance, FinishNoop, BeginDirty, SyncInvalidation, MainOpen,
         MainClose, SyncPending, EndInline, Spawn, ThreadOpen, ThreadClose,
         Join, Joinable, JoinError, JoinPhase, WriteState, SyncState, Prune,
         FinishPublish, Inline, Threaded, ThreadsInPhase
<1>4. CASE \E r \in Readers : ReaderGate(r) \/ ReaderPin(r) \/ ReaderServe(r) \/ ReaderLeave(r)
  BY <1>4 DEF ReaderGate, ReaderPin, ReaderServe, ReaderLeave
<1>5. CASE \E p \in Procs : Acquire(p) \/ Kill(p)
  BY <1>5 DEF Acquire, Kill
<1>6. CASE (\E k \in Threaded : ThreadFail(k)) \/ Abort
  BY <1>6 DEF ThreadFail, Abort
<1>7. CASE UNCHANGED vars
  BY <1>7 DEF vars
<1> QED
  BY <1>1, <1>2, <1>3, <1>4, <1>5, <1>6, <1>7 DEF Next

(* No step changes a file while a reader serves.                           *)
LEMMA PinStep ==
  ASSUME MaxDetached = 0, IInv, [Next]_vars, NEW r \in Readers,
         reader[r].at = "serving", reader'[r].at = "serving"
  PROVE  cache' = cache
<1> USE DEF IInv, Control, disk, session
<1>1. phase = "idle" /\ orphans = {}
  BY DEF LockExcludes, NoPins, Pinned
<1>2. CASE PowerLoss
  BY <1>1, <1>2 DEF PowerLoss
<1>3. CASE Advance
  BY <1>1, <1>3
     DEF Advance, FinishNoop, BeginDirty, SyncInvalidation, MainOpen,
         MainClose, SyncPending, EndInline, Spawn, ThreadOpen, ThreadClose,
         Join, Joinable, JoinError, JoinPhase, WriteState, SyncState, Prune,
         FinishPublish, Inline, Threaded, ThreadsInPhase
<1>4. CASE \E q \in Readers : ReaderGate(q) \/ ReaderPin(q) \/ ReaderServe(q) \/ ReaderLeave(q)
  BY <1>4 DEF ReaderGate, ReaderPin, ReaderServe, ReaderLeave
<1>5. CASE \E p \in Procs : Acquire(p) \/ Kill(p)
  BY <1>5 DEF Acquire, Kill
<1>6. CASE (\E k \in Threaded : ThreadFail(k)) \/ Abort
  BY <1>6 DEF ThreadFail, Abort
<1>7. CASE UNCHANGED vars
  BY <1>7 DEF vars
<1> QED
  BY <1>1, <1>2, <1>3, <1>4, <1>5, <1>6, <1>7 DEF Next

(* A tree with a newer version marker is never written.                    *)
THEOREM NewerTreesAreUntouched ==
  ASSUME MaxDetached = 0
  PROVE  Spec => FutureTreeUntouched
<1>1. IInv /\ [Next]_vars => [cache[Version] = Future => UNCHANGED << cache, state, stateDisk >>]_vars
  BY FutureStep
<1> QED
  BY <1>1, InductiveInvariant, PTL DEF Spec, FutureTreeUntouched

(* The shared lock keeps every writer out.                                 *)
THEOREM PinnedTreesAreNotWritten ==
  ASSUME MaxDetached = 0
  PROVE  Spec => NoWriteUnderPin
<1>1. IInv /\ [Next]_vars =>
        [\A r \in Readers :
           reader[r].at = "serving" /\ reader'[r].at = "serving" => cache' = cache]_vars
  BY PinStep
<1> QED
  BY <1>1, InductiveInvariant, PTL DEF Spec, NoWriteUnderPin

(***************************************************************************)
(* Refinement.  Under IInv the two abstract variables are simply the state *)
(* that counts and the snapshots served, because the bytes agree with them.*)
(***************************************************************************)
Tree == IF state # None THEN state ELSE stateDisk
Snaps == [r \in Readers |-> reader[r].snap]

(* The refinement mapping, under IInv.                                     *)
LEMMA Abstraction == IInv => PublishedTree = Tree /\ ServedTrees = Snaps
<1> SUFFICES ASSUME IInv PROVE PublishedTree = Tree /\ ServedTrees = Snaps
  OBVIOUS
<1>1. ASSUME NEW s \in {state, stateDisk}, s # None PROVE TreeOf(s) = s
  <2>1. s \in [Files -> Bodies \cup {Unlisted}]
    BY <1>1 DEF IInv, TypeOK, Inventories
  <2>2. \A f \in Files : s[f] # Unlisted => cache[f] = s[f]
    BY <1>1 DEF IInv, StateIsBacked, Backed, Listed
  <2> QED
    BY <2>1, <2>2 DEF TreeOf
<1>2. ASSUME NEW r \in Readers
      PROVE  (IF reader[r].at = "serving" THEN TreeOf(reader[r].snap) ELSE None) = reader[r].snap
  <2>1. CASE reader[r].at = "serving"
    <3>1. reader[r].snap \in [Files -> Bodies \cup {Unlisted}]
      BY <2>1, ConstantsAssumption DEF IInv, TypeOK, Snapshots, Inventories
    <3>2. \A f \in Files : reader[r].snap[f] # Unlisted => cache[f] = reader[r].snap[f]
      BY <2>1 DEF IInv, ServedTreeIntact, Listed
    <3> QED
      BY <2>1, <3>1, <3>2 DEF TreeOf
  <2>2. CASE reader[r].at # "serving"
    BY <2>2 DEF IInv, TypeOK
  <2> QED
    BY <2>1, <2>2
<1> QED
  BY <1>1, <1>2 DEF PublishedTree, Tree, ServedTrees, Snaps

(* The same in the next state.                                             *)
LEMMA AbstractionNext == IInv' => (PublishedTree = Tree /\ ServedTrees = Snaps)'
BY Abstraction, PTL

(* An initial store is an initial promise.                                 *)
LEMMA PromiseInit == Init /\ IInv => Promise!Init
<1> SUFFICES ASSUME Init, IInv PROVE Promise!Init
  OBVIOUS
<1>1. Tree \in {Body[i] : i \in Inputs} \cup {None}
  BY DEF Tree, IInv, Whole
<1>2. Snaps = [r \in Readers |-> None]
  BY DEF Snaps, Init
<1> QED
  BY <1>1, <1>2, Abstraction DEF Promise!Init

(* Every step of the store is a step of the promise or leaves it alone.    *)
LEMMA PromiseStep ==
  ASSUME MaxDetached = 0, IInv, IInv', [Next]_vars
  PROVE  [Promise!Next]_(Promise!vars)
<1> USE DEF IInv, Control, disk, session
<1>1. PublishedTree = Tree /\ ServedTrees = Snaps /\ PublishedTree' = Tree' /\ ServedTrees' = Snaps'
  BY Abstraction, AbstractionNext
<1>2. SUFFICES \/ UNCHANGED << Tree, Snaps >>
               \/ /\ Tree # None
                  /\ \A r \in Readers : Snaps[r] = None
                  /\ Tree' = None
                  /\ UNCHANGED Snaps
               \/ Tree = None /\ Tree' \in {Body[i] : i \in Inputs} /\ UNCHANGED Snaps
               \/ \E r \in Readers :
                     /\ Snaps[r] = None
                     /\ Tree # None
                     /\ Snaps' = [Snaps EXCEPT ![r] = Tree]
                     /\ UNCHANGED Tree
               \/ \E r \in Readers : Snaps' = [Snaps EXCEPT ![r] = None] /\ UNCHANGED Tree
               \/ Tree' \in {Tree, None} /\ Snaps' = [r \in Readers |-> None]
  BY <1>1
     DEF Promise!Next, Promise!vars, Promise!Withdraw, Promise!Unpinned,
         Promise!Publish, Promise!Open, Promise!Close, Promise!PowerLoss
<1>3. CASE UNCHANGED << state, stateDisk, reader >>
  BY <1>3 DEF Tree, Snaps
<1>4. CASE PowerLoss
  <2>1. Snaps' = [r \in Readers |-> None]
    BY <1>4 DEF Snaps, PowerLoss
  <2>2. Tree' \in {Tree, None}
    BY <1>4 DEF PowerLoss, Tree, Agreed
  <2> QED
    BY <2>1, <2>2
<1>5. ASSUME NEW i \in Inputs, NEW carry \in SUBSET Carryable(i), BeginDirty(i, carry)
      PROVE  \/ UNCHANGED << Tree, Snaps >>
             \/ Tree # None /\ (\A r \in Readers : Snaps[r] = None) /\ Tree' = None /\ UNCHANGED Snaps
  BY <1>5
     DEF BeginDirty, Tree, Snaps, Agreed, LockExcludes, NoPins, Pinned, TypeOK
<1>6. CASE SyncInvalidation
  BY <1>6
     DEF SyncInvalidation, Tree, Snaps, Withdrawn, LockExcludes, NoPins,
         Pinned, TypeOK
<1>7. CASE WriteState
  BY <1>7 DEF WriteState, Tree, Snaps, Withdrawn, Writing, Whole
<1>8. CASE SyncState
  BY <1>8, ConstantsAssumption DEF SyncState, Tree, Snaps, Published, TypeOK
<1>9. ASSUME NEW r \in Readers, ReaderGate(r) \/ ReaderPin(r)
      PROVE  UNCHANGED << Tree, Snaps >>
  BY <1>9 DEF ReaderGate, ReaderPin, Tree, Snaps, TypeOK, Snapshots
<1>10. ASSUME NEW r \in Readers, ReaderServe(r)
      PROVE  /\ Snaps[r] = None
             /\ Tree # None
             /\ Snaps' = [Snaps EXCEPT ![r] = Tree]
             /\ UNCHANGED Tree
  BY <1>10
     DEF ReaderServe, Serveable, RoutineValid, Tree, Snaps, TypeOK, Snapshots
<1>11. ASSUME NEW r \in Readers, ReaderLeave(r)
      PROVE  Snaps' = [Snaps EXCEPT ![r] = None] /\ UNCHANGED Tree
  BY <1>11 DEF ReaderLeave, Tree, Snaps, TypeOK, Snapshots
<1>12. CASE Advance
  <2>1. CASE FinishNoop \/ EndInline \/ Spawn \/ FinishPublish
    BY <1>3, <2>1 DEF FinishNoop, EndInline, Spawn, FinishPublish
  <2>2. CASE \E f \in Files : MainOpen(f) \/ MainClose(f) \/ SyncPending(f)
    BY <1>3, <2>2 DEF MainOpen, MainClose, SyncPending
  <2>3. CASE \E k \in Threaded, f \in Files : ThreadOpen(k, f) \/ ThreadClose(k, f)
    BY <1>3, <2>3 DEF ThreadOpen, ThreadClose
  <2>4. CASE \E k \in Threaded : Join(k) \/ JoinError(k)
    BY <1>3, <2>4 DEF Join, JoinError, Abort
  <2>5. CASE \E gone \in SUBSET Prunable : Prune(gone)
    BY <1>3, <2>5 DEF Prune
  <2> QED
    BY <1>12, <1>5, <1>6, <1>7, <1>8, <2>1, <2>2, <2>3, <2>4, <2>5 DEF Advance
<1>13. CASE \/ \E p \in Procs : Acquire(p) \/ Kill(p)
            \/ \E k \in Threaded : ThreadFail(k)
            \/ Abort
            \/ UNCHANGED vars
  BY <1>3, <1>13 DEF Acquire, Kill, ThreadFail, Abort, vars
<1> QED
  BY <1>4, <1>9, <1>10, <1>11, <1>12, <1>13 DEF Next

(* The store implements the complete-or-absent promise.                    *)
THEOREM StoreImplementsPromise ==
  ASSUME MaxDetached = 0
  PROVE  Spec => ImplementsPromise
<1>1. Init /\ IInv => Promise!Init
  BY PromiseInit
<1>2. IInv /\ IInv' /\ [Next]_vars => [Promise!Next]_(Promise!vars)
  BY PromiseStep
<1> QED
  BY <1>1, <1>2, InductiveInvariant, PTL
     DEF Spec, ImplementsPromise, Promise!Spec
=============================================================================
