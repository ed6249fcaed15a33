---------------------- MODULE StartupGeneration_proofs ----------------------
(***************************************************************************)
(* Proofs about who regenerates the tree, for any number of hosts, GUIs,   *)
(* jobs, contents of the files, restarts and changes of them.              *)
(*                                                                         *)
(* IInv is inductive.  The writer lock and the mutex are tied to the place *)
(* their owner's thread has reached, the readers to the hosts that pin or  *)
(* serve the tree, and a run's verdict on the tree to the tree itself.     *)
(***************************************************************************)
EXTENDS StartupGeneration, TLAPS

(* The worker thread of a host is at one of its own places.                *)
HostsAtPlaces == \A h \in Hosts : at[h] \in HostPlaces

(* Whoever changes the tree holds the lock, and whoever holds it is there. *)
WriterAtWork == \A a \in Actors : at[a] \in {"front", "write"} <=> writer = a

Serves(h) == at[h] = "serve" /\ out[h] = "ready"
ReadersPin == \A h \in Hosts : h \in readers <=> at[h] = "inspect" \/ Serves(h)

(* The mutex is owned through the wait, the lock and the run.              *)
MutexOwned == \A h \in Hosts : at[h] \in {"pass", "lock", "front", "write"} => mutex = h

(* The outcome exists once the worker has finished; then the tree is whole *)
(* if it says so, and only then does a game upload.                        *)
OutcomeSettled ==
  \A h \in Hosts :
    /\ out[h] # "pending" <=> at[h] = "serve"
    /\ Serves(h) => Complete
    /\ game[h] = "uploads" => Serves(h)

(* A host's run judges the tree that is there, and never by force.         *)
JudgesTree == \A h \in Hosts : force[h] = FALSE /\ (at[h] = "front" => base[h] = tree)

(* A window waits for a worker or for its message, never for both.         *)
RunOrMail == \A g \in Guis : at[g] # "idle" => mail[g] = "none"

Ties == HostsAtPlaces /\ WriterAtWork /\ ReadersPin /\ MutexOwned /\ OutcomeSettled
        /\ JudgesTree /\ RunOrMail /\ WindowFollowsRun
IInv == TypeOK /\ Ties

---------------------------------------------------------------------------
(* What the end of a check, a wait or a run leaves behind: its owner moves *)
(* on, lets the mutex go at most, and forgets its locals.                  *)
Leaves(a, places) == at' = [at EXCEPT ![a] = at'[a]] /\ at'[a] \in places

LocalsTyped ==
  /\ mutex \in Hosts \cup {None}
  /\ why \in [Hosts -> {"initial", "after wait", "post failure"}]
  /\ job \in [Actors -> Jobs]
  /\ base \in [Actors -> Inputs \cup NoTree] /\ made \in [Actors -> Inputs \cup NoTree]
  /\ force \in [Actors -> BOOLEAN]

Ends(a, places) ==
  /\ Leaves(a, places)
  /\ mutex' = mutex \/ (mutex = a /\ mutex' = None /\ at'[a] = "open")
  /\ \A b \in Actors \ {a} : base'[b] = base[b] /\ force'[b] = force[b]
  /\ force'[a] \in {force[a], FALSE}
  /\ LocalsTyped'

LEMMA ActorsApart == ASSUME StartupAssumption
                     PROVE  /\ \A h \in Hosts : h \in Actors /\ h \notin Guis
                            /\ \A g \in Guis : g \in Actors /\ g \notin Hosts
                            /\ None \notin Actors
BY DEF StartupAssumption, Actors

LEMMA Typed == ASSUME TypeOK
               PROVE  LocalsTyped /\ at \in [Actors -> HostPlaces \cup GuiPlaces] /\ mail \in [Guis -> {"none", "success", "in use", "failure"}]
BY DEF TypeOK, LocalsTyped

LEMMA WantedTyped == ASSUME StartupAssumption, TypeOK, NEW a \in Actors
                     PROVE  Wanted(a) \in Inputs
BY DEF StartupAssumption, TypeOK, Wanted

LEMMA SettlesForgets ==
  ASSUME LocalsTyped, NEW a \in Actors, Settles(a)
  PROVE  /\ base' \in [Actors -> Inputs \cup NoTree] /\ made' \in [Actors -> Inputs \cup NoTree]
         /\ force' \in [Actors -> BOOLEAN] /\ force'[a] = FALSE
         /\ \A b \in Actors \ {a} : base'[b] = base[b] /\ force'[b] = force[b]
BY DEF Settles, LocalsTyped, NoTree

LEMMA ConcludesEnds ==
  ASSUME StartupAssumption, LocalsTyped, at \in [Actors -> HostPlaces \cup GuiPlaces], NEW h \in Hosts,
         Concludes(h)
  PROVE  Ends(h, {"open"})
<1>1. h \in Actors
  BY ActorsApart
<1>2. Settles(h) /\ Leaves(h, {"open"})
  BY <1>1 DEF Concludes, Drops, Moves, Leaves
<1>3. mutex' = mutex \/ (mutex = h /\ mutex' = None /\ at'[h] = "open")
  BY <1>1 DEF Concludes, Moves
<1>4. LocalsTyped'
  <2>1. job' \in [Actors -> Jobs]
    BY <1>1 DEF Concludes, Drops, LocalsTyped, StartupAssumption
  <2> QED
    BY <1>1, <1>2, <1>3, <2>1, SettlesForgets DEF Concludes, LocalsTyped
<1> QED
  BY <1>1, <1>2, <1>3, <1>4, SettlesForgets DEF Ends

LEMMA HandleFailureEnds ==
  ASSUME StartupAssumption, LocalsTyped, at \in [Actors -> HostPlaces \cup GuiPlaces], NEW h \in Hosts, HandleFailure(h)
  PROVE  Ends(h, {"check"})
<1>1. h \in Actors
  BY ActorsApart
<1>2. Settles(h) /\ Leaves(h, {"check"}) /\ mutex' = mutex
  BY <1>1 DEF HandleFailure, Moves, Leaves
<1>3. LocalsTyped'
  BY <1>1, <1>2, SettlesForgets DEF HandleFailure, LocalsTyped
<1> QED
  BY <1>1, <1>2, <1>3, SettlesForgets DEF Ends

LEMMA JudgeEnds ==
  ASSUME StartupAssumption, LocalsTyped, at \in [Actors -> HostPlaces \cup GuiPlaces], NEW h \in Hosts, NEW valid \in BOOLEAN, Judge(h, valid)
  PROVE  Ends(h, {"open", "try", "again"})
<1>1. CASE Concludes(h)
  BY <1>1, ConcludesEnds DEF Ends, Leaves
<1>2. CASE \E place \in {"try", "again"} : Moves(h, place) /\ UNCHANGED << run, mutex, why >>
  BY <1>2, ActorsApart DEF Ends, Leaves, Moves, run, LocalsTyped
<1> QED
  BY <1>1, <1>2 DEF Judge

LEMMA ReturnsEnds ==
  ASSUME StartupAssumption, LocalsTyped, at \in [Actors -> HostPlaces \cup GuiPlaces], NEW a \in Actors,
         mail \in [Guis -> {"none", "success", "in use", "failure"}],
         NEW outcome \in {"failure", "success"}, Returns(a, outcome)
  PROVE  /\ Ends(a, IF a \in Hosts THEN {"check", "open"} ELSE {"idle"})
         /\ mail' \in [Guis -> {"none", "success", "in use", "failure"}]
         /\ \A g \in Guis : g = a \/ mail'[g] = mail[g]
<1>1. CASE a \in Guis
  <2>1. Leaves(a, {"idle"}) /\ UNCHANGED <<mutex, why>> /\ Settles(a)
    BY <1>1 DEF Returns, Drops, Moves, Leaves
  <2>2. job' \in [Actors -> Jobs]
    BY <1>1 DEF Returns, Drops, LocalsTyped, StartupAssumption
  <2>3. LocalsTyped' /\ Ends(a, {"idle"})
    BY <2>1, <2>2, SettlesForgets DEF Ends, LocalsTyped
  <2> QED
    BY <1>1, <2>3, ActorsApart DEF Returns
<1>2. CASE a \in Hosts
  <2>1. UNCHANGED mail /\ (HandleFailure(a) \/ Concludes(a)) /\ (outcome = "failure" => HandleFailure(a))
    BY <1>2, ActorsApart DEF Returns
  <2>2. Ends(a, {"check"}) \/ Ends(a, {"open"})
    BY <1>2, <2>1, HandleFailureEnds, ConcludesEnds DEF Returns
  <2> QED
    BY <1>2, <2>1, <2>2 DEF Ends, Leaves
<1> QED
  BY <1>1, <1>2 DEF Actors

LEMMA StartHostKeeps ==
  ASSUME StartupAssumption, IInv, NEW h \in Hosts, StartHost(h)  PROVE IInv'
<1>a. /\ TypeOK /\ HostsAtPlaces /\ WriterAtWork /\ ReadersPin /\ MutexOwned
      /\ OutcomeSettled /\ JudgesTree /\ RunOrMail /\ WindowFollowsRun
  BY DEF IInv, Ties
<1>b. /\ at'[h] \in {"check", "open"} /\ at' \in [Actors -> HostPlaces \cup GuiPlaces]
      /\ \A b \in Actors : b = h \/ at'[b] = at[b]
  BY <1>a, ActorsApart, Typed DEF StartHost, Moves, HostPlaces, GuiPlaces
<1>1. TypeOK'
  <2>0. starts \in [Hosts -> 0 .. MaxStarts] /\ MaxStarts \in Nat
    BY <1>a DEF StartupAssumption, TypeOK
  <2>1. starts' \in [Hosts -> 0 .. MaxStarts]
    BY <2>0 DEF StartHost
  <2>2. at' \in [Actors -> HostPlaces \cup GuiPlaces] /\ \A g \in Guis : at'[g] \in GuiPlaces
    BY <1>a, <1>b, ActorsApart DEF TypeOK
  <2>3. job' \in [Actors -> Jobs]
    BY <1>a DEF StartHost, TypeOK
  <2> QED
    BY <1>a, <2>1, <2>2, <2>3 DEF StartHost, store, guis, TypeOK
<1>2. HostsAtPlaces'
  BY <1>a, <1>b, ActorsApart DEF HostsAtPlaces, HostPlaces
<1>3. WriterAtWork'
  BY <1>a, <1>b, ActorsApart DEF StartHost, store, WriterAtWork
<1>4. ReadersPin'
  BY <1>a, <1>b, ActorsApart DEF StartHost, store, ReadersPin, Serves
<1>5. MutexOwned'
  BY <1>a, <1>b, ActorsApart DEF StartHost, MutexOwned
<1>6. OutcomeSettled'
  BY <1>a, <1>b, ActorsApart DEF StartHost, store, OutcomeSettled, Serves, Complete
<1>7. JudgesTree'
  BY <1>a, <1>b, ActorsApart DEF StartHost, store, JudgesTree
<1>8. RunOrMail'
  BY <1>a, <1>b, ActorsApart DEF StartHost, guis, RunOrMail
<1>9. WindowFollowsRun'
  BY <1>a, <1>b, ActorsApart DEF StartHost, guis, WindowFollowsRun
<1> QED
  BY <1>1, <1>2, <1>3, <1>4, <1>5, <1>6, <1>7, <1>8, <1>9 DEF IInv, Ties

LEMMA CheckPinsKeeps ==
  ASSUME StartupAssumption, IInv, NEW h \in Hosts, CheckPins(h)  PROVE IInv'
<1>a. /\ TypeOK /\ HostsAtPlaces /\ WriterAtWork /\ ReadersPin /\ MutexOwned
      /\ OutcomeSettled /\ JudgesTree /\ RunOrMail /\ WindowFollowsRun
  BY DEF IInv, Ties
<1>b. /\ at'[h] \in {"inspect"} /\ at' \in [Actors -> HostPlaces \cup GuiPlaces]
      /\ \A b \in Actors : b = h \/ at'[b] = at[b]
  BY <1>a, ActorsApart, Typed DEF CheckPins, Moves, HostPlaces, GuiPlaces, Complete, SharedFree
<1>1. TypeOK'
  BY <1>a, <1>b, ActorsApart DEF CheckPins, env, hosts, guis, SharedFree, TypeOK, StartupAssumption
<1>2. HostsAtPlaces'
  BY <1>a, <1>b, ActorsApart DEF HostsAtPlaces, HostPlaces
<1>3. WriterAtWork'
  BY <1>a, <1>b, ActorsApart DEF CheckPins, WriterAtWork
<1>4. ReadersPin'
  BY <1>a, <1>b, ActorsApart DEF CheckPins, hosts, ReadersPin, Serves
<1>5. MutexOwned'
  BY <1>a, <1>b, ActorsApart DEF CheckPins, hosts, MutexOwned
<1>6. OutcomeSettled'
  BY <1>a, <1>b, ActorsApart DEF CheckPins, hosts, Complete, OutcomeSettled, Serves
<1>7. JudgesTree'
  BY <1>a, <1>b, ActorsApart DEF CheckPins, JudgesTree
<1>8. RunOrMail'
  BY <1>a, <1>b, ActorsApart DEF CheckPins, guis, RunOrMail
<1>9. WindowFollowsRun'
  BY <1>a, <1>b, ActorsApart DEF CheckPins, guis, WindowFollowsRun
<1> QED
  BY <1>1, <1>2, <1>3, <1>4, <1>5, <1>6, <1>7, <1>8, <1>9 DEF IInv, Ties

LEMMA WaitMutexKeeps ==
  ASSUME StartupAssumption, IInv, NEW h \in Hosts, WaitMutex(h)  PROVE IInv'
<1>a. /\ TypeOK /\ HostsAtPlaces /\ WriterAtWork /\ ReadersPin /\ MutexOwned
      /\ OutcomeSettled /\ JudgesTree /\ RunOrMail /\ WindowFollowsRun
  BY DEF IInv, Ties
<1>b. /\ at'[h] \in {"pass"} /\ at' \in [Actors -> HostPlaces \cup GuiPlaces]
      /\ \A b \in Actors : b = h \/ at'[b] = at[b]
  BY <1>a, ActorsApart, Typed DEF WaitMutex, Moves, HostPlaces, GuiPlaces
<1>1. TypeOK'
  <2>1. mutex' \in Hosts \cup {None} /\ why' \in [Hosts -> {"initial", "after wait", "post failure"}]
    BY <1>a DEF WaitMutex, TypeOK
  <2>2. \A g \in Guis : at'[g] \in GuiPlaces
    BY <1>a, <1>b, ActorsApart DEF TypeOK
  <2> QED
    BY <1>a, <1>b, <2>1, <2>2 DEF WaitMutex, store, env, run, guis, TypeOK
<1>2. HostsAtPlaces'
  BY <1>a, <1>b, ActorsApart DEF HostsAtPlaces, HostPlaces
<1>3. WriterAtWork'
  BY <1>a, <1>b, ActorsApart DEF WaitMutex, store, WriterAtWork
<1>4. ReadersPin'
  BY <1>a, <1>b, ActorsApart DEF WaitMutex, store, ReadersPin, Serves
<1>5. MutexOwned'
  <2>1. at'[h] = "pass" => mutex' = h
    BY <1>a, ActorsApart DEF WaitMutex, Moves, TypeOK
  <2>2. mutex' = mutex \/ mutex = None
    BY DEF WaitMutex
  <2> QED
    BY <1>a, <1>b, <2>1, <2>2, ActorsApart DEF MutexOwned
<1>6. OutcomeSettled'
  BY <1>a, <1>b, ActorsApart DEF WaitMutex, store, OutcomeSettled, Serves, Complete
<1>7. JudgesTree'
  BY <1>a, <1>b, ActorsApart DEF WaitMutex, store, run, JudgesTree
<1>8. RunOrMail'
  BY <1>a, <1>b, ActorsApart DEF WaitMutex, guis, RunOrMail
<1>9. WindowFollowsRun'
  BY <1>a, <1>b, ActorsApart DEF WaitMutex, guis, WindowFollowsRun
<1> QED
  BY <1>1, <1>2, <1>3, <1>4, <1>5, <1>6, <1>7, <1>8, <1>9 DEF IInv, Ties

LEMMA MutexWaitErrsKeeps ==
  ASSUME StartupAssumption, IInv, NEW h \in Hosts, MutexWaitErrs(h)  PROVE IInv'
<1>a. /\ TypeOK /\ HostsAtPlaces /\ WriterAtWork /\ ReadersPin /\ MutexOwned
      /\ OutcomeSettled /\ JudgesTree /\ RunOrMail /\ WindowFollowsRun
  BY DEF IInv, Ties
<1>b. /\ at'[h] \in {"check"} /\ at' \in [Actors -> HostPlaces \cup GuiPlaces]
      /\ \A b \in Actors : b = h \/ at'[b] = at[b]
  BY <1>a, ActorsApart, Typed DEF MutexWaitErrs, Moves, HostPlaces, GuiPlaces
<1>1. TypeOK'
  <2>1. mutex' \in Hosts \cup {None} /\ why' \in [Hosts -> {"initial", "after wait", "post failure"}]
    BY <1>a DEF MutexWaitErrs, TypeOK
  <2>2. \A g \in Guis : at'[g] \in GuiPlaces
    BY <1>a, <1>b, ActorsApart DEF TypeOK
  <2> QED
    BY <1>a, <1>b, <2>1, <2>2 DEF MutexWaitErrs, store, env, run, guis, TypeOK
<1>2. HostsAtPlaces'
  BY <1>a, <1>b, ActorsApart DEF HostsAtPlaces, HostPlaces
<1>3. WriterAtWork'
  BY <1>a, <1>b, ActorsApart DEF MutexWaitErrs, store, WriterAtWork
<1>4. ReadersPin'
  BY <1>a, <1>b, ActorsApart DEF MutexWaitErrs, store, ReadersPin, Serves
<1>5. MutexOwned'
  BY <1>a, <1>b, ActorsApart DEF MutexWaitErrs, MutexOwned
<1>6. OutcomeSettled'
  BY <1>a, <1>b, ActorsApart DEF MutexWaitErrs, store, OutcomeSettled, Serves, Complete
<1>7. JudgesTree'
  BY <1>a, <1>b, ActorsApart DEF MutexWaitErrs, store, run, JudgesTree
<1>8. RunOrMail'
  BY <1>a, <1>b, ActorsApart DEF MutexWaitErrs, guis, RunOrMail
<1>9. WindowFollowsRun'
  BY <1>a, <1>b, ActorsApart DEF MutexWaitErrs, guis, WindowFollowsRun
<1> QED
  BY <1>1, <1>2, <1>3, <1>4, <1>5, <1>6, <1>7, <1>8, <1>9 DEF IInv, Ties

LEMMA PassMutexKeeps ==
  ASSUME StartupAssumption, IInv, NEW h \in Hosts, PassMutex(h)  PROVE IInv'
<1>a. /\ TypeOK /\ HostsAtPlaces /\ WriterAtWork /\ ReadersPin /\ MutexOwned
      /\ OutcomeSettled /\ JudgesTree /\ RunOrMail /\ WindowFollowsRun
  BY DEF IInv, Ties
<1>b. /\ at'[h] \in {"check"} /\ at' \in [Actors -> HostPlaces \cup GuiPlaces]
      /\ \A b \in Actors : b = h \/ at'[b] = at[b]
  BY <1>a, ActorsApart, Typed DEF PassMutex, Moves, HostPlaces, GuiPlaces
<1>1. TypeOK'
  BY <1>a, <1>b, ActorsApart DEF PassMutex, store, env, guis, run, TypeOK, StartupAssumption
<1>2. HostsAtPlaces'
  BY <1>a, <1>b, ActorsApart DEF HostsAtPlaces, HostPlaces
<1>3. WriterAtWork'
  BY <1>a, <1>b, ActorsApart DEF PassMutex, store, WriterAtWork
<1>4. ReadersPin'
  BY <1>a, <1>b, ActorsApart DEF PassMutex, store, ReadersPin, Serves
<1>5. MutexOwned'
  BY <1>a, <1>b, ActorsApart DEF PassMutex, MutexOwned
<1>6. OutcomeSettled'
  BY <1>a, <1>b, ActorsApart DEF PassMutex, store, OutcomeSettled, Serves, Complete
<1>7. JudgesTree'
  BY <1>a, <1>b, ActorsApart DEF PassMutex, store, run, JudgesTree
<1>8. RunOrMail'
  BY <1>a, <1>b, ActorsApart DEF PassMutex, guis, RunOrMail
<1>9. WindowFollowsRun'
  BY <1>a, <1>b, ActorsApart DEF PassMutex, guis, WindowFollowsRun
<1> QED
  BY <1>1, <1>2, <1>3, <1>4, <1>5, <1>6, <1>7, <1>8, <1>9 DEF IInv, Ties

LEMMA OpenSnapshotKeeps ==
  ASSUME StartupAssumption, IInv, NEW h \in Hosts, OpenSnapshot(h)  PROVE IInv'
<1>a. /\ TypeOK /\ HostsAtPlaces /\ WriterAtWork /\ ReadersPin /\ MutexOwned
      /\ OutcomeSettled /\ JudgesTree /\ RunOrMail /\ WindowFollowsRun
  BY DEF IInv, Ties
<1>b. /\ at'[h] \in {"serve"} /\ at' \in [Actors -> HostPlaces \cup GuiPlaces]
      /\ \A b \in Actors : b = h \/ at'[b] = at[b]
  BY <1>a, ActorsApart, Typed DEF OpenSnapshot, Moves, HostPlaces, GuiPlaces, SharedFree, Complete
<1>1. TypeOK'
  BY <1>a, <1>b, ActorsApart DEF OpenSnapshot, env, guis, run, SharedFree, TypeOK, StartupAssumption
<1>2. HostsAtPlaces'
  BY <1>a, <1>b, ActorsApart DEF HostsAtPlaces, HostPlaces
<1>3. WriterAtWork'
  BY <1>a, <1>b, ActorsApart DEF OpenSnapshot, WriterAtWork
<1>4. ReadersPin'
  BY ZenonT(60), <1>a, <1>b, ActorsApart DEF OpenSnapshot, ReadersPin, Serves, TypeOK
<1>5. MutexOwned'
  BY <1>a, <1>b, ActorsApart DEF OpenSnapshot, MutexOwned
<1>6. OutcomeSettled'
  BY ZenonT(60), <1>a, <1>b, ActorsApart DEF OpenSnapshot, Complete, OutcomeSettled, Serves, TypeOK
<1>7. JudgesTree'
  BY <1>a, <1>b, ActorsApart DEF OpenSnapshot, run, JudgesTree
<1>8. RunOrMail'
  BY <1>a, <1>b, ActorsApart DEF OpenSnapshot, guis, RunOrMail
<1>9. WindowFollowsRun'
  BY <1>a, <1>b, ActorsApart DEF OpenSnapshot, guis, WindowFollowsRun
<1> QED
  BY <1>1, <1>2, <1>3, <1>4, <1>5, <1>6, <1>7, <1>8, <1>9 DEF IInv, Ties

LEMMA OpenFailsKeeps ==
  ASSUME StartupAssumption, IInv, NEW h \in Hosts, OpenFails(h)  PROVE IInv'
<1>a. /\ TypeOK /\ HostsAtPlaces /\ WriterAtWork /\ ReadersPin /\ MutexOwned
      /\ OutcomeSettled /\ JudgesTree /\ RunOrMail /\ WindowFollowsRun
  BY DEF IInv, Ties
<1>b. /\ at'[h] \in {"serve"} /\ at' \in [Actors -> HostPlaces \cup GuiPlaces]
      /\ \A b \in Actors : b = h \/ at'[b] = at[b]
  BY <1>a, ActorsApart, Typed DEF OpenFails, Moves, HostPlaces, GuiPlaces
<1>1. TypeOK'
  BY <1>a, <1>b, ActorsApart DEF OpenFails, store, env, guis, run, TypeOK, StartupAssumption
<1>2. HostsAtPlaces'
  BY <1>a, <1>b, ActorsApart DEF HostsAtPlaces, HostPlaces
<1>3. WriterAtWork'
  BY <1>a, <1>b, ActorsApart DEF OpenFails, store, WriterAtWork
<1>4. ReadersPin'
  BY <1>a, <1>b, ActorsApart DEF OpenFails, store, ReadersPin, Serves, OutcomeSettled
<1>5. MutexOwned'
  BY <1>a, <1>b, ActorsApart DEF OpenFails, MutexOwned
<1>6. OutcomeSettled'
  BY ZenonT(60), <1>a, <1>b, ActorsApart DEF OpenFails, store, OutcomeSettled, Serves, Complete, TypeOK
<1>7. JudgesTree'
  BY <1>a, <1>b, ActorsApart DEF OpenFails, store, run, JudgesTree
<1>8. RunOrMail'
  BY <1>a, <1>b, ActorsApart DEF OpenFails, guis, RunOrMail
<1>9. WindowFollowsRun'
  BY <1>a, <1>b, ActorsApart DEF OpenFails, guis, WindowFollowsRun
<1> QED
  BY <1>1, <1>2, <1>3, <1>4, <1>5, <1>6, <1>7, <1>8, <1>9 DEF IInv, Ties

LEMMA AskKeeps ==
  ASSUME StartupAssumption, IInv, NEW h \in Hosts, Ask(h)  PROVE IInv'
<1>a. /\ TypeOK /\ HostsAtPlaces /\ WriterAtWork /\ ReadersPin /\ MutexOwned
      /\ OutcomeSettled /\ JudgesTree /\ RunOrMail /\ WindowFollowsRun
  BY DEF IInv, Ties
<1>b. UNCHANGED at
  BY DEF Ask
<1>1. TypeOK'
  BY <1>a, <1>b, ActorsApart DEF Ask, store, env, guis, run, TypeOK, StartupAssumption
<1>2. HostsAtPlaces'
  BY <1>a, <1>b, ActorsApart DEF HostsAtPlaces, HostPlaces
<1>3. WriterAtWork'
  BY <1>a, <1>b, ActorsApart DEF Ask, store, WriterAtWork
<1>4. ReadersPin'
  BY <1>a, <1>b, ActorsApart DEF Ask, store, ReadersPin, Serves
<1>5. MutexOwned'
  BY <1>a, <1>b, ActorsApart DEF Ask, MutexOwned
<1>6. OutcomeSettled'
  BY <1>a, <1>b, ActorsApart DEF Ask, store, OutcomeSettled, Serves, Complete, TypeOK
<1>7. JudgesTree'
  BY <1>a, <1>b, ActorsApart DEF Ask, store, run, JudgesTree
<1>8. RunOrMail'
  BY <1>a, <1>b, ActorsApart DEF Ask, guis, RunOrMail
<1>9. WindowFollowsRun'
  BY <1>a, <1>b, ActorsApart DEF Ask, guis, WindowFollowsRun
<1> QED
  BY <1>1, <1>2, <1>3, <1>4, <1>5, <1>6, <1>7, <1>8, <1>9 DEF IInv, Ties

LEMMA HostExitsKeeps ==
  ASSUME StartupAssumption, IInv, NEW h \in Hosts, HostExits(h)  PROVE IInv'
<1>a. /\ TypeOK /\ HostsAtPlaces /\ WriterAtWork /\ ReadersPin /\ MutexOwned
      /\ OutcomeSettled /\ JudgesTree /\ RunOrMail /\ WindowFollowsRun
  BY DEF IInv, Ties
<1>b. /\ at'[h] \in {"off"} /\ at' \in [Actors -> HostPlaces \cup GuiPlaces]
      /\ \A b \in Actors : b = h \/ at'[b] = at[b]
  BY <1>a, ActorsApart, Typed DEF HostExits, Moves, HostPlaces, GuiPlaces, Exit, Settles
<1>1. TypeOK'
  BY ZenonT(60), <1>a, <1>b, ActorsApart DEF HostExits, env, guis, Exit, Drops, Settles, TypeOK,
     HostPlaces, NoTree, StartupAssumption
<1>2. HostsAtPlaces'
  BY <1>a, <1>b, ActorsApart DEF HostsAtPlaces, HostPlaces
<1>3. WriterAtWork'
  BY <1>a, <1>b, ActorsApart DEF HostExits, Exit, WriterAtWork
<1>4. ReadersPin'
  BY <1>a, <1>b, ActorsApart DEF HostExits, Exit, ReadersPin, Serves
<1>5. MutexOwned'
  BY <1>a, <1>b, ActorsApart DEF HostExits, Exit, MutexOwned
<1>6. OutcomeSettled'
  BY ZenonT(60), <1>a, <1>b, ActorsApart DEF HostExits, Exit, OutcomeSettled, Serves, Complete, TypeOK
<1>7. JudgesTree'
  BY <1>a, <1>b, ActorsApart DEF HostExits, Exit, Drops, Settles, JudgesTree
<1>8. RunOrMail'
  BY <1>a, <1>b, ActorsApart DEF HostExits, guis, RunOrMail
<1>9. WindowFollowsRun'
  BY <1>a, <1>b, ActorsApart DEF HostExits, guis, WindowFollowsRun
<1> QED
  BY <1>1, <1>2, <1>3, <1>4, <1>5, <1>6, <1>7, <1>8, <1>9 DEF IInv, Ties

LEMMA WithdrawKeeps ==
  ASSUME StartupAssumption, IInv, NEW a \in Actors, Withdraw(a)  PROVE IInv'
<1>a. /\ TypeOK /\ HostsAtPlaces /\ WriterAtWork /\ ReadersPin /\ MutexOwned
      /\ OutcomeSettled /\ JudgesTree /\ RunOrMail /\ WindowFollowsRun
  BY DEF IInv, Ties
<1>b. /\ at'[a] \in {"write"} /\ at' \in [Actors -> HostPlaces \cup GuiPlaces]
      /\ \A b \in Actors : b = a \/ at'[b] = at[b]
  BY <1>a, ActorsApart, Typed DEF Withdraw, Moves, HostPlaces, GuiPlaces, Current
<1>1. TypeOK'
  <2>1. made' \in [Actors -> Inputs \cup NoTree] /\ tree' \in Inputs \cup NoTree
    BY <1>a, WantedTyped DEF Withdraw, TypeOK, NoTree
  <2>2. at' \in [Actors -> HostPlaces \cup GuiPlaces] /\ \A g \in Guis : at'[g] \in GuiPlaces
    BY <1>a, <1>b, ActorsApart DEF TypeOK, GuiPlaces
  <2> QED
    BY <1>a, <2>1, <2>2 DEF Withdraw, env, hosts, guis, TypeOK
<1>2. HostsAtPlaces'
  BY <1>a, <1>b, ActorsApart DEF HostsAtPlaces, HostPlaces
<1>3. WriterAtWork'
  BY <1>a, <1>b, ActorsApart DEF Withdraw, WriterAtWork
<1>4. ReadersPin'
  BY <1>a, <1>b, ActorsApart DEF Withdraw, hosts, ReadersPin, Serves
<1>5. MutexOwned'
  BY <1>a, <1>b, ActorsApart DEF Withdraw, hosts, MutexOwned
<1>6. OutcomeSettled'
  <2>0. (writer # None => readers = {}) /\ at[a] = "front"
    BY <1>a DEF Withdraw, TypeOK
  <2>1. writer = a /\ readers = {}
    BY <1>a, <2>0, ActorsApart DEF WriterAtWork
  <2>2. \A h \in Hosts : ~Serves(h)
    BY <1>a, <2>1 DEF ReadersPin
  <2> QED
    BY <1>a, <1>b, <2>2, ActorsApart DEF Withdraw, hosts, OutcomeSettled, Serves
<1>7. JudgesTree'
  BY <1>a, <1>b, ActorsApart DEF Withdraw, JudgesTree, WriterAtWork
<1>8. RunOrMail'
  BY <1>a, <1>b, ActorsApart DEF Withdraw, guis, RunOrMail
<1>9. WindowFollowsRun'
  BY <1>a, <1>b, ActorsApart DEF Withdraw, guis, WindowFollowsRun
<1> QED
  BY <1>1, <1>2, <1>3, <1>4, <1>5, <1>6, <1>7, <1>8, <1>9 DEF IInv, Ties

LEMMA ProbeKeeps ==
  ASSUME StartupAssumption, IInv, NEW g \in Guis, Probe(g)  PROVE IInv'
<1>a. /\ TypeOK /\ HostsAtPlaces /\ WriterAtWork /\ ReadersPin /\ MutexOwned
      /\ OutcomeSettled /\ JudgesTree /\ RunOrMail /\ WindowFollowsRun
  BY DEF IInv, Ties
<1>b. /\ at'[g] \in {"lock", "idle"} /\ at' \in [Actors -> HostPlaces \cup GuiPlaces]
      /\ \A b \in Actors : b = g \/ at'[b] = at[b]
  BY <1>a, ActorsApart, Typed DEF Probe, Moves, HostPlaces, GuiPlaces, Settles
<1>1. TypeOK'
  <2>0. job' \in [Actors -> Jobs]
    <3>1. job' = job \/ job' = [job EXCEPT ![g] = FirstJob]
      BY DEF Probe, Drops, run
    <3>2. job \in [Actors -> Jobs] /\ FirstJob \in Jobs
      BY <1>a DEF TypeOK, StartupAssumption
    <3> QED
      BY <3>1, <3>2
  <2>1. LocalsTyped'
    BY <1>a, <2>0, ActorsApart, Typed, SettlesForgets DEF Probe, Drops, run, hosts, LocalsTyped
  <2>2. at' \in [Actors -> HostPlaces \cup GuiPlaces] /\ \A o \in Guis : at'[o] \in GuiPlaces
    BY <1>a, <1>b, ActorsApart DEF TypeOK, GuiPlaces
  <2>3. mail' \in [Guis -> {"none", "success", "in use", "failure"}]
    BY <1>a DEF Probe, TypeOK
  <2> QED
    BY <1>a, <2>1, <2>2, <2>3 DEF Probe, store, env, hosts, TypeOK, LocalsTyped
<1>2. HostsAtPlaces'
  BY <1>a, <1>b, ActorsApart DEF HostsAtPlaces, HostPlaces
<1>3. WriterAtWork'
  BY <1>a, <1>b, ActorsApart DEF Probe, store, WriterAtWork
<1>4. ReadersPin'
  BY <1>a, <1>b, ActorsApart DEF Probe, store, hosts, ReadersPin, Serves
<1>5. MutexOwned'
  BY <1>a, <1>b, ActorsApart DEF Probe, hosts, MutexOwned
<1>6. OutcomeSettled'
  BY <1>a, <1>b, ActorsApart DEF Probe, store, hosts, OutcomeSettled, Serves, Complete
<1>7. JudgesTree'
  BY ZenonT(60), <1>a, <1>b, ActorsApart DEF Probe, store, run, Drops, Settles, JudgesTree, TypeOK
<1>8. RunOrMail'
  <2>1. at'[g] # "idle" => UNCHANGED mail
    BY <1>a, ActorsApart DEF Probe, Moves, TypeOK
  <2>2. \A o \in Guis : o = g \/ mail'[o] = mail[o]
    BY <1>a DEF Probe, TypeOK
  <2> QED
    BY <1>a, <1>b, <2>1, <2>2, ActorsApart DEF Probe, RunOrMail
<1>9. WindowFollowsRun'
  BY ZenonT(60), <1>a, <1>b, ActorsApart DEF Probe, WindowFollowsRun, TypeOK
<1> QED
  BY <1>1, <1>2, <1>3, <1>4, <1>5, <1>6, <1>7, <1>8, <1>9 DEF IInv, Ties

LEMMA PumpGeneratorKeeps ==
  ASSUME StartupAssumption, IInv, NEW g \in Guis, PumpGenerator(g)  PROVE IInv'
<1>a. /\ TypeOK /\ HostsAtPlaces /\ WriterAtWork /\ ReadersPin /\ MutexOwned
      /\ OutcomeSettled /\ JudgesTree /\ RunOrMail /\ WindowFollowsRun
  BY DEF IInv, Ties
<1>b. UNCHANGED at
  BY DEF PumpGenerator
<1>1. TypeOK'
  BY <1>a, <1>b, ActorsApart DEF PumpGenerator, store, env, hosts, run, Shows, TypeOK, StartupAssumption
<1>2. HostsAtPlaces'
  BY <1>a, <1>b, ActorsApart DEF HostsAtPlaces, HostPlaces
<1>3. WriterAtWork'
  BY <1>a, <1>b, ActorsApart DEF PumpGenerator, store, WriterAtWork
<1>4. ReadersPin'
  BY <1>a, <1>b, ActorsApart DEF PumpGenerator, store, hosts, ReadersPin, Serves
<1>5. MutexOwned'
  BY <1>a, <1>b, ActorsApart DEF PumpGenerator, hosts, MutexOwned
<1>6. OutcomeSettled'
  BY <1>a, <1>b, ActorsApart DEF PumpGenerator, store, hosts, OutcomeSettled, Serves, Complete
<1>7. JudgesTree'
  BY <1>a, <1>b, ActorsApart DEF PumpGenerator, store, run, JudgesTree
<1>8. RunOrMail'
  BY <1>a, <1>b, ActorsApart DEF PumpGenerator, RunOrMail
<1>9. WindowFollowsRun'
  BY <1>a, <1>b, ActorsApart DEF PumpGenerator, Shows, WindowFollowsRun, TypeOK, RunOrMail
<1> QED
  BY <1>1, <1>2, <1>3, <1>4, <1>5, <1>6, <1>7, <1>8, <1>9 DEF IInv, Ties

LEMMA OpenWindowKeeps ==
  ASSUME StartupAssumption, IInv, NEW g \in Guis, OpenWindow(g)  PROVE IInv'
<1>a. /\ TypeOK /\ HostsAtPlaces /\ WriterAtWork /\ ReadersPin /\ MutexOwned
      /\ OutcomeSettled /\ JudgesTree /\ RunOrMail /\ WindowFollowsRun
  BY DEF IInv, Ties
<1>b. UNCHANGED at
  BY DEF OpenWindow
<1>1. TypeOK'
  BY <1>a, <1>b, ActorsApart DEF OpenWindow, store, env, hosts, run, Shows, TypeOK, StartupAssumption
<1>2. HostsAtPlaces'
  BY <1>a, <1>b, ActorsApart DEF HostsAtPlaces, HostPlaces
<1>3. WriterAtWork'
  BY <1>a, <1>b, ActorsApart DEF OpenWindow, store, WriterAtWork
<1>4. ReadersPin'
  BY <1>a, <1>b, ActorsApart DEF OpenWindow, store, hosts, ReadersPin, Serves
<1>5. MutexOwned'
  BY <1>a, <1>b, ActorsApart DEF OpenWindow, hosts, MutexOwned
<1>6. OutcomeSettled'
  BY <1>a, <1>b, ActorsApart DEF OpenWindow, store, hosts, OutcomeSettled, Serves, Complete
<1>7. JudgesTree'
  BY <1>a, <1>b, ActorsApart DEF OpenWindow, store, run, JudgesTree
<1>8. RunOrMail'
  BY <1>a, <1>b, ActorsApart DEF OpenWindow, RunOrMail
<1>9. WindowFollowsRun'
  BY <1>a, <1>b, ActorsApart DEF OpenWindow, Shows, WindowFollowsRun
<1> QED
  BY <1>1, <1>2, <1>3, <1>4, <1>5, <1>6, <1>7, <1>8, <1>9 DEF IInv, Ties

LEMMA AcceptIncompatibleKeeps ==
  ASSUME StartupAssumption, IInv, NEW g \in Guis, AcceptIncompatible(g)  PROVE IInv'
<1>a. /\ TypeOK /\ HostsAtPlaces /\ WriterAtWork /\ ReadersPin /\ MutexOwned
      /\ OutcomeSettled /\ JudgesTree /\ RunOrMail /\ WindowFollowsRun
  BY DEF IInv, Ties
<1>b. UNCHANGED at
  BY DEF AcceptIncompatible
<1>1. TypeOK'
  BY <1>a, <1>b, ActorsApart DEF AcceptIncompatible, store, env, hosts, run, Shows, TypeOK, StartupAssumption
<1>2. HostsAtPlaces'
  BY <1>a, <1>b, ActorsApart DEF HostsAtPlaces, HostPlaces
<1>3. WriterAtWork'
  BY <1>a, <1>b, ActorsApart DEF AcceptIncompatible, store, WriterAtWork
<1>4. ReadersPin'
  BY <1>a, <1>b, ActorsApart DEF AcceptIncompatible, store, hosts, ReadersPin, Serves
<1>5. MutexOwned'
  BY <1>a, <1>b, ActorsApart DEF AcceptIncompatible, hosts, MutexOwned
<1>6. OutcomeSettled'
  BY <1>a, <1>b, ActorsApart DEF AcceptIncompatible, store, hosts, OutcomeSettled, Serves, Complete
<1>7. JudgesTree'
  BY <1>a, <1>b, ActorsApart DEF AcceptIncompatible, store, run, JudgesTree
<1>8. RunOrMail'
  BY <1>a, <1>b, ActorsApart DEF AcceptIncompatible, RunOrMail
<1>9. WindowFollowsRun'
  BY <1>a, <1>b, ActorsApart DEF AcceptIncompatible, Shows, WindowFollowsRun
<1> QED
  BY <1>1, <1>2, <1>3, <1>4, <1>5, <1>6, <1>7, <1>8, <1>9 DEF IInv, Ties

LEMMA CloseWindowKeeps ==
  ASSUME StartupAssumption, IInv, NEW g \in Guis, CloseWindow(g)  PROVE IInv'
<1>a. /\ TypeOK /\ HostsAtPlaces /\ WriterAtWork /\ ReadersPin /\ MutexOwned
      /\ OutcomeSettled /\ JudgesTree /\ RunOrMail /\ WindowFollowsRun
  BY DEF IInv, Ties
<1>b. UNCHANGED at
  BY DEF CloseWindow
<1>1. TypeOK'
  BY <1>a, <1>b, ActorsApart DEF CloseWindow, store, env, hosts, run, Shows, TypeOK, StartupAssumption
<1>2. HostsAtPlaces'
  BY <1>a, <1>b, ActorsApart DEF HostsAtPlaces, HostPlaces
<1>3. WriterAtWork'
  BY <1>a, <1>b, ActorsApart DEF CloseWindow, store, WriterAtWork
<1>4. ReadersPin'
  BY <1>a, <1>b, ActorsApart DEF CloseWindow, store, hosts, ReadersPin, Serves
<1>5. MutexOwned'
  BY <1>a, <1>b, ActorsApart DEF CloseWindow, hosts, MutexOwned
<1>6. OutcomeSettled'
  BY <1>a, <1>b, ActorsApart DEF CloseWindow, store, hosts, OutcomeSettled, Serves, Complete
<1>7. JudgesTree'
  BY <1>a, <1>b, ActorsApart DEF CloseWindow, store, run, JudgesTree
<1>8. RunOrMail'
  BY <1>a, <1>b, ActorsApart DEF CloseWindow, RunOrMail
<1>9. WindowFollowsRun'
  BY <1>a, <1>b, ActorsApart DEF CloseWindow, Shows, Closable, WindowFollowsRun
<1> QED
  BY <1>1, <1>2, <1>3, <1>4, <1>5, <1>6, <1>7, <1>8, <1>9 DEF IInv, Ties

LEMMA GenerateKeeps ==
  ASSUME StartupAssumption, IInv, NEW g \in Guis, Generate(g)  PROVE IInv'
<1>a. /\ TypeOK /\ HostsAtPlaces /\ WriterAtWork /\ ReadersPin /\ MutexOwned
      /\ OutcomeSettled /\ JudgesTree /\ RunOrMail /\ WindowFollowsRun
  BY DEF IInv, Ties
<1>b. /\ at'[g] \in {"probe"} /\ at' \in [Actors -> HostPlaces \cup GuiPlaces]
      /\ \A b \in Actors : b = g \/ at'[b] = at[b]
  BY <1>a, ActorsApart, Typed DEF Generate, Moves, HostPlaces, GuiPlaces, Shows
<1>1. TypeOK'
  <2>1. config' \in Jobs /\ job' \in [Actors -> Jobs] /\ force' \in [Actors -> BOOLEAN]
    <3>1. PICK j \in Jobs : config' = j /\ job' = [job EXCEPT ![g] = j]
      BY DEF Generate
    <3>2. PICK box \in BOOLEAN : force' = [force EXCEPT ![g] = box \/ barred[g]]
      BY DEF Generate
    <3>3. job \in [Actors -> Jobs] /\ force \in [Actors -> BOOLEAN]
      BY <1>a DEF TypeOK
    <3>4. force' \in [Actors -> BOOLEAN]
      BY <3>2, <3>3
    <3> QED
      BY <3>1, <3>3, <3>4
  <2>2. changes' \in 0 .. MaxChanges
    <3>1. changes \in 0 .. MaxChanges /\ MaxChanges \in Nat
      BY <1>a DEF StartupAssumption, TypeOK
    <3>2. changes' = changes \/ (changes < MaxChanges /\ changes' = changes + 1)
      BY DEF Generate
    <3> QED
      BY <3>1, <3>2
  <2>3. \A o \in Guis : at'[o] \in GuiPlaces
    BY <1>a, <1>b, ActorsApart DEF TypeOK, GuiPlaces
  <2>4. window' \in [Guis -> {"closed", "consent", "blocked", "editing", "generating", "finished", "failed"}]
    BY <1>a DEF Generate, Shows, TypeOK
  <2> QED
    BY <1>a, <1>b, <2>1, <2>2, <2>3, <2>4 DEF Generate, store, hosts, TypeOK
<1>2. HostsAtPlaces'
  BY <1>a, <1>b, ActorsApart DEF HostsAtPlaces, HostPlaces
<1>3. WriterAtWork'
  BY <1>a, <1>b, ActorsApart DEF Generate, store, WriterAtWork, WindowFollowsRun
<1>4. ReadersPin'
  BY <1>a, <1>b, ActorsApart DEF Generate, store, hosts, ReadersPin, Serves
<1>5. MutexOwned'
  BY <1>a, <1>b, ActorsApart DEF Generate, hosts, MutexOwned
<1>6. OutcomeSettled'
  BY <1>a, <1>b, ActorsApart DEF Generate, store, hosts, OutcomeSettled, Serves, Complete
<1>7. JudgesTree'
  <2>1. UNCHANGED <<base, tree>> /\ \A h \in Hosts : force'[h] = force[h]
    BY <1>a, Typed, ActorsApart DEF Generate, store, LocalsTyped
  <2> QED
    BY <1>a, <1>b, <2>1, ActorsApart DEF JudgesTree
<1>8. RunOrMail'
  BY <1>a, <1>b, ActorsApart DEF Generate, RunOrMail, WindowFollowsRun
<1>9. WindowFollowsRun'
  BY ZenonT(60), <1>a, <1>b, ActorsApart DEF Generate, Shows, WindowFollowsRun, TypeOK
<1> QED
  BY <1>1, <1>2, <1>3, <1>4, <1>5, <1>6, <1>7, <1>8, <1>9 DEF IInv, Ties

LEMMA BackKeeps ==
  ASSUME StartupAssumption, IInv, NEW g \in Guis, Back(g)  PROVE IInv'
<1>a. /\ TypeOK /\ HostsAtPlaces /\ WriterAtWork /\ ReadersPin /\ MutexOwned
      /\ OutcomeSettled /\ JudgesTree /\ RunOrMail /\ WindowFollowsRun
  BY DEF IInv, Ties
<1>b. UNCHANGED at
  BY DEF Back
<1>1. TypeOK'
  BY <1>a, <1>b, ActorsApart DEF Back, store, env, hosts, run, Shows, TypeOK, StartupAssumption
<1>2. HostsAtPlaces'
  BY <1>a, <1>b, ActorsApart DEF HostsAtPlaces, HostPlaces
<1>3. WriterAtWork'
  BY <1>a, <1>b, ActorsApart DEF Back, store, WriterAtWork
<1>4. ReadersPin'
  BY <1>a, <1>b, ActorsApart DEF Back, store, hosts, ReadersPin, Serves
<1>5. MutexOwned'
  BY <1>a, <1>b, ActorsApart DEF Back, hosts, MutexOwned
<1>6. OutcomeSettled'
  BY <1>a, <1>b, ActorsApart DEF Back, store, hosts, OutcomeSettled, Serves, Complete
<1>7. JudgesTree'
  BY <1>a, <1>b, ActorsApart DEF Back, store, run, JudgesTree
<1>8. RunOrMail'
  BY <1>a, <1>b, ActorsApart DEF Back, RunOrMail
<1>9. WindowFollowsRun'
  BY <1>a, <1>b, ActorsApart DEF Back, Shows, WindowFollowsRun
<1> QED
  BY <1>1, <1>2, <1>3, <1>4, <1>5, <1>6, <1>7, <1>8, <1>9 DEF IInv, Ties

LEMMA GuiExitsKeeps ==
  ASSUME StartupAssumption, IInv, NEW g \in Guis, GuiExits(g)  PROVE IInv'
<1>a. /\ TypeOK /\ HostsAtPlaces /\ WriterAtWork /\ ReadersPin /\ MutexOwned
      /\ OutcomeSettled /\ JudgesTree /\ RunOrMail /\ WindowFollowsRun
  BY DEF IInv, Ties
<1>b. /\ at'[g] \in {"idle"} /\ at' \in [Actors -> HostPlaces \cup GuiPlaces]
      /\ \A b \in Actors : b = g \/ at'[b] = at[b]
  BY <1>a, ActorsApart, Typed DEF GuiExits, Moves, HostPlaces, GuiPlaces, Exit, Settles, Shows
<1>1. TypeOK'
  BY ZenonT(60), <1>a, <1>b, ActorsApart DEF GuiExits, env, Exit, Drops, Settles, Shows, TypeOK,
     HostPlaces, NoTree, StartupAssumption
<1>2. HostsAtPlaces'
  BY <1>a, <1>b, ActorsApart DEF HostsAtPlaces, HostPlaces
<1>3. WriterAtWork'
  BY <1>a, <1>b, ActorsApart DEF GuiExits, Exit, WriterAtWork
<1>4. ReadersPin'
  BY <1>a, <1>b, ActorsApart DEF GuiExits, Exit, ReadersPin, Serves
<1>5. MutexOwned'
  BY <1>a, <1>b, ActorsApart DEF GuiExits, Exit, MutexOwned
<1>6. OutcomeSettled'
  BY <1>a, <1>b, ActorsApart DEF GuiExits, Exit, OutcomeSettled, Serves, Complete
<1>7. JudgesTree'
  BY <1>a, <1>b, ActorsApart DEF GuiExits, Exit, Drops, Settles, JudgesTree
<1>8. RunOrMail'
  BY <1>a, <1>b, ActorsApart DEF GuiExits, RunOrMail
<1>9. WindowFollowsRun'
  BY <1>a, <1>b, ActorsApart DEF GuiExits, Shows, WindowFollowsRun, TypeOK
<1> QED
  BY <1>1, <1>2, <1>3, <1>4, <1>5, <1>6, <1>7, <1>8, <1>9 DEF IInv, Ties

LEMMA InstallChangesKeeps ==
  ASSUME StartupAssumption, IInv, InstallChanges  PROVE IInv'
<1>a. /\ TypeOK /\ HostsAtPlaces /\ WriterAtWork /\ ReadersPin /\ MutexOwned
      /\ OutcomeSettled /\ JudgesTree /\ RunOrMail /\ WindowFollowsRun
  BY DEF IInv, Ties
<1>b. UNCHANGED at
  BY DEF InstallChanges
<1>1. TypeOK'
  <2>1. changes \in 0 .. MaxChanges /\ MaxChanges \in Nat
    BY <1>a DEF StartupAssumption, TypeOK
  <2>2. changes' \in 0 .. MaxChanges
    BY <2>1 DEF InstallChanges
  <2>3. config' \in Jobs /\ files' \in Files
    BY <1>a DEF InstallChanges, TypeOK
  <2> QED
    BY <1>a, <1>b, <2>2, <2>3 DEF InstallChanges, store, run, hosts, guis, TypeOK
<1>2. HostsAtPlaces'
  BY <1>a, <1>b DEF HostsAtPlaces, HostPlaces
<1>3. WriterAtWork'
  BY <1>a, <1>b DEF InstallChanges, store, WriterAtWork
<1>4. ReadersPin'
  BY <1>a, <1>b DEF InstallChanges, store, hosts, ReadersPin, Serves
<1>5. MutexOwned'
  BY <1>a, <1>b DEF InstallChanges, hosts, MutexOwned
<1>6. OutcomeSettled'
  BY <1>a, <1>b DEF InstallChanges, store, hosts, OutcomeSettled, Serves, Complete
<1>7. JudgesTree'
  BY <1>a, <1>b DEF InstallChanges, store, run, JudgesTree
<1>8. RunOrMail'
  BY <1>a, <1>b DEF InstallChanges, guis, RunOrMail
<1>9. WindowFollowsRun'
  BY <1>a, <1>b DEF InstallChanges, guis, WindowFollowsRun
<1> QED
  BY <1>1, <1>2, <1>3, <1>4, <1>5, <1>6, <1>7, <1>8, <1>9 DEF IInv, Ties

---------------------------------------------------------------------------
(* An action by which a stops: a check concludes or is judged, a run or a  *)
(* wait gives up, fails or succeeds.  What it held is free again.          *)
AtWork(a) == at[a] \in {"front", "write"}
Stops(a) ==
  /\ Ends(a, IF a \in Hosts THEN {"open", "try", "again", "check"} ELSE {"idle"})
  /\ at[a] \notin {"serve", "idle"}
  /\ readers' = readers \ {a}
  /\ writer' = IF AtWork(a) THEN None ELSE writer
  /\ tree' = tree \/ (AtWork(a) /\ tree' \in Inputs \cup NoTree)
  /\ mail' \in [Guis -> {"none", "success", "in use", "failure"}]
  /\ \A g \in Guis : g = a \/ mail'[g] = mail[g]
  /\ UNCHANGED <<env, out, game, window, barred>>

LEMMA StopsKeeps ==
  ASSUME StartupAssumption, IInv, NEW a \in Actors, Stops(a)
  PROVE  IInv'
<1>a. /\ TypeOK /\ HostsAtPlaces /\ WriterAtWork /\ ReadersPin /\ MutexOwned
      /\ OutcomeSettled /\ JudgesTree /\ RunOrMail /\ WindowFollowsRun
  BY DEF IInv, Ties
<1>b. at' \in [Actors -> HostPlaces \cup GuiPlaces] /\ (\A b \in Actors : b = a \/ at'[b] = at[b])
      /\ at'[a] \in (IF a \in Hosts THEN {"open", "try", "again", "check"} ELSE {"idle"})
  BY ZenonT(60), <1>a, Typed DEF Stops, Ends, Leaves, HostPlaces, GuiPlaces
<1>c. at[a] \notin {"serve", "idle"} /\ LocalsTyped'
  BY DEF Stops, Ends
<1>1. TypeOK'
  <2>1. \A g \in Guis : at'[g] \in GuiPlaces
    BY <1>a, <1>b, ActorsApart DEF TypeOK, GuiPlaces
  <2>2. tree' \in Inputs \cup NoTree /\ readers' \subseteq Hosts /\ writer' \in Actors \cup {None}
        /\ (writer' # None => readers' = {})
    BY <1>a DEF TypeOK, Stops
  <2>3. mail' \in [Guis -> {"none", "success", "in use", "failure"}] /\ UNCHANGED <<config, files, changes, starts, out, game, window, barred>>
    BY DEF Stops, env
  <2> QED
    BY <1>a, <1>b, <1>c, <2>1, <2>2, <2>3 DEF TypeOK, LocalsTyped
<1>2. HostsAtPlaces'
  <2> SUFFICES ASSUME NEW h \in Hosts PROVE at'[h] \in HostPlaces
    BY DEF HostsAtPlaces
  <2>1. CASE h = a
    BY <1>b, <2>1 DEF HostPlaces
  <2>2. CASE h # a
    BY <1>a, <1>b, <2>2, ActorsApart DEF HostsAtPlaces
  <2> QED
    BY <2>1, <2>2
<1>3. WriterAtWork'
  BY <1>a, <1>b, ActorsApart DEF WriterAtWork, Stops, AtWork
<1>4. ReadersPin'
  <2> SUFFICES ASSUME NEW h \in Hosts PROVE (h \in readers <=> at[h] = "inspect" \/ Serves(h))'
    BY DEF ReadersPin
  <2>1. readers' = readers \ {a} /\ UNCHANGED out
    BY DEF Stops
  <2> QED
    BY <1>a, <1>b, <2>1, ActorsApart DEF ReadersPin, Serves
<1>5. MutexOwned'
  <2>1. mutex' = mutex \/ mutex = a
    BY DEF Stops, Ends
  <2> QED
    BY <1>a, <1>b, <2>1, ActorsApart DEF MutexOwned
<1>6. OutcomeSettled'
  <2>1. UNCHANGED <<out, game>> /\ (tree' = tree \/ AtWork(a))
    BY DEF Stops
  <2>2. ASSUME NEW h \in Hosts PROVE (out'[h] # "pending" <=> at'[h] = "serve") /\ (Serves(h)' <=> Serves(h))
    BY <1>a, <1>b, <1>c, <2>1, ActorsApart DEF OutcomeSettled, Serves
  <2>3. ASSUME NEW h \in Hosts, Serves(h) PROVE tree' = tree
    <3>1. h \in readers /\ writer = None
      BY <1>a, <2>3 DEF ReadersPin, TypeOK
    <3> QED
      BY <1>a, <2>1, <3>1, ActorsApart DEF WriterAtWork, AtWork
  <2> QED
    BY <1>a, <2>1, <2>2, <2>3 DEF OutcomeSettled, Complete
<1>7. JudgesTree'
  <2>1. (\A b \in Actors \ {a} : base'[b] = base[b] /\ force'[b] = force[b]) /\ force'[a] \in {force[a], FALSE}
        /\ (tree' = tree \/ AtWork(a))
    BY DEF Stops, Ends
  <2>2. ASSUME NEW h \in Hosts, at'[h] = "front" PROVE h # a /\ at[h] = "front" /\ tree' = tree
    BY <1>a, <1>b, <2>1, <2>2, ActorsApart DEF WriterAtWork, AtWork
  <2> QED
    BY <1>a, <2>1, <2>2, ActorsApart DEF JudgesTree
<1>8. RunOrMail'
  BY <1>a, <1>b, ActorsApart DEF RunOrMail, Stops
<1>9. WindowFollowsRun'
  BY <1>a, <1>b, <1>c, ActorsApart DEF WindowFollowsRun, Stops
<1> QED
  BY <1>1, <1>2, <1>3, <1>4, <1>5, <1>6, <1>7, <1>8, <1>9 DEF IInv, Ties

(* Who waits for a lock, the mutex or a judgement does not read.           *)
LEMMA WaitersRead ==
  ASSUME StartupAssumption, TypeOK, ReadersPin, NEW a \in Actors, at[a] \notin {"inspect", "serve"}
  PROVE  readers \ {a} = readers
BY ZenonT(60), ActorsApart DEF TypeOK, ReadersPin, Serves

LEMMA CheckSeesNoneKeeps ==
  ASSUME StartupAssumption, IInv, NEW h \in Hosts, CheckSeesNone(h)  PROVE IInv'
<1>1. TypeOK /\ ReadersPin /\ at[h] = "check"
  BY DEF IInv, Ties, CheckSeesNone
<1>2. Ends(h, {"open", "try", "again"})
  BY <1>1, JudgeEnds, Typed DEF CheckSeesNone
<1>3. Stops(h)
  BY <1>1, <1>2, WaitersRead, ActorsApart DEF CheckSeesNone, Stops, Ends, Leaves, AtWork, store, guis, TypeOK
<1> QED
  BY <1>3, StopsKeeps, ActorsApart

LEMMA CheckEndsKeeps ==
  ASSUME StartupAssumption, IInv, NEW h \in Hosts, CheckEnds(h)  PROVE IInv'
<1>1. TypeOK /\ at[h] = "inspect" /\ (base[h] = Wanted(h)) \in BOOLEAN
  BY DEF IInv, CheckEnds
<1>2. Ends(h, {"open", "try", "again"})
  BY <1>1, JudgeEnds, Typed DEF CheckEnds
<1>3. Stops(h)
  BY <1>1, <1>2, ActorsApart DEF CheckEnds, Stops, Ends, Leaves, AtWork, guis, TypeOK
<1> QED
  BY <1>3, StopsKeeps, ActorsApart

LEMMA CheckErrsKeeps ==
  ASSUME StartupAssumption, IInv, NEW h \in Hosts, CheckErrs(h)  PROVE IInv'
<1>1. TypeOK /\ at[h] \in {"check", "inspect"}
  BY DEF IInv, CheckErrs
<1>2. Ends(h, {"open"})
  BY <1>1, ConcludesEnds, Typed DEF CheckErrs
<1>3. Stops(h)
  BY <1>1, <1>2, ActorsApart DEF CheckErrs, Stops, Ends, Leaves, AtWork, guis, TypeOK
<1> QED
  BY <1>3, StopsKeeps, ActorsApart

(* The five ways a run of ensure_generated ends.                           *)
LEMMA RunStops ==
  ASSUME StartupAssumption, IInv, NEW a \in Actors, NEW outcome \in {"failure", "success"},
         Returns(a, outcome), at[a] \in {"lock", "front", "write"},
         readers' = readers, writer' = IF AtWork(a) THEN None ELSE writer,
         tree' = tree \/ (AtWork(a) /\ tree' \in Inputs \cup NoTree),
         UNCHANGED <<env, out, game, window, barred>>
  PROVE  IInv'
<1>1. TypeOK /\ ReadersPin
  BY DEF IInv, Ties
<1>2. readers \ {a} = readers
  BY <1>1, WaitersRead
<1>3. /\ Ends(a, IF a \in Hosts THEN {"check", "open"} ELSE {"idle"})
      /\ mail' \in [Guis -> {"none", "success", "in use", "failure"}] /\ \A g \in Guis : g = a \/ mail'[g] = mail[g]
  BY <1>1, ReturnsEnds, Typed
<1>4. Ends(a, IF a \in Hosts THEN {"open", "try", "again", "check"} ELSE {"idle"})
  BY <1>3 DEF Ends, Leaves
<1>5. Stops(a)
  BY <1>2, <1>3, <1>4 DEF Stops
<1> QED
  BY <1>5, StopsKeeps

LEMMA AcquireTimesOutKeeps ==
  ASSUME StartupAssumption, IInv, NEW a \in Actors, AcquireTimesOut(a)  PROVE IInv'
BY RunStops DEF AcquireTimesOut, store, AtWork

LEMMA KeepCurrentKeeps ==
  ASSUME StartupAssumption, IInv, NEW a \in Actors, KeepCurrent(a)  PROVE IInv'
BY RunStops DEF KeepCurrent, AtWork

LEMMA PublishKeeps ==
  ASSUME StartupAssumption, IInv, NEW a \in Actors, Publish(a)  PROVE IInv'
<1>1. made[a] \in Inputs \cup NoTree
  BY DEF IInv, TypeOK
<1> QED
  BY <1>1, RunStops DEF Publish, AtWork

LEMMA GenerationErrsKeeps ==
  ASSUME StartupAssumption, IInv, NEW a \in Actors, GenerationErrs(a)  PROVE IInv'
<1>1. made[a] \in Inputs \cup NoTree
  BY DEF IInv, TypeOK
<1> QED
  BY <1>1, RunStops DEF GenerationErrs, AtWork

---------------------------------------------------------------------------
(* The actions by which a host takes the mutex, or a run the lock.         *)
LEMMA TakesMutex ==
  ASSUME StartupAssumption, IInv, NEW h \in Hosts, at[h] \in {"try", "again"}, mutex = None, mutex' = h,
         Moves(h, "lock"), UNCHANGED <<store, env, run, why, out, game, guis>>
  PROVE  IInv'
<1>a. /\ TypeOK /\ HostsAtPlaces /\ WriterAtWork /\ ReadersPin /\ MutexOwned
      /\ OutcomeSettled /\ JudgesTree /\ RunOrMail /\ WindowFollowsRun
  BY DEF IInv, Ties
<1>b. /\ at'[h] = "lock" /\ at' \in [Actors -> HostPlaces \cup GuiPlaces]
      /\ \A b \in Actors : b = h \/ at'[b] = at[b]
  BY <1>a, ActorsApart, Typed DEF Moves, HostPlaces
<1>1. TypeOK'
  <2>1. \A g \in Guis : at'[g] \in GuiPlaces
    BY <1>a, <1>b, ActorsApart DEF TypeOK
  <2> QED
    BY <1>a, <1>b, <2>1 DEF TypeOK, store, env, run, guis
<1>2. HostsAtPlaces'
  BY <1>a, <1>b, ActorsApart DEF HostsAtPlaces, HostPlaces
<1>3. WriterAtWork'
  BY <1>a, <1>b, ActorsApart DEF WriterAtWork, store
<1>4. ReadersPin'
  BY <1>a, <1>b, ActorsApart DEF ReadersPin, Serves, store
<1>5. MutexOwned'
  BY <1>a, <1>b, ActorsApart DEF MutexOwned
<1>6. OutcomeSettled'
  BY <1>a, <1>b, ActorsApart DEF OutcomeSettled, Serves, Complete, store
<1>7. JudgesTree'
  BY <1>a, <1>b, ActorsApart DEF JudgesTree, run, store
<1>8. RunOrMail' /\ WindowFollowsRun'
  BY <1>a, <1>b, ActorsApart DEF RunOrMail, WindowFollowsRun, guis
<1> QED
  BY <1>1, <1>2, <1>3, <1>4, <1>5, <1>6, <1>7, <1>8 DEF IInv, Ties

LEMMA TryMutexKeeps ==
  ASSUME StartupAssumption, IInv, NEW h \in Hosts, TryMutex(h)  PROVE IInv'
<1>a. /\ TypeOK /\ HostsAtPlaces /\ WriterAtWork /\ ReadersPin /\ MutexOwned
      /\ OutcomeSettled /\ JudgesTree /\ RunOrMail /\ WindowFollowsRun
  BY DEF IInv, Ties
<1>1. CASE HandleFailure(h)
  <2>1. Ends(h, {"check"}) /\ at[h] = "try"
    BY <1>1, <1>a, HandleFailureEnds, Typed DEF TryMutex
  <2>2. Stops(h)
    BY <2>1, <1>a, WaitersRead, ActorsApart DEF TryMutex, Stops, Ends, Leaves, AtWork, store, guis, TypeOK
  <2> QED
    BY <2>2, StopsKeeps, ActorsApart
<1>2. CASE mutex = None /\ mutex' = h /\ Moves(h, "lock") /\ UNCHANGED <<run, why>>
  BY <1>2, TakesMutex DEF TryMutex
<1>3. CASE Moves(h, "wait") /\ UNCHANGED <<run, mutex, why>>
  <2>1. Ends(h, {"wait"}) /\ at[h] = "try" /\ UNCHANGED <<store, env, out, game, guis>>
    BY <1>3, <1>a, Typed, ActorsApart DEF TryMutex, Ends, Leaves, Moves, run, LocalsTyped
  <2>2. at'[h] = "wait" /\ at' \in [Actors -> HostPlaces \cup GuiPlaces] /\ \A b \in Actors : b = h \/ at'[b] = at[b]
    BY <1>3, <1>a, ActorsApart, Typed DEF Moves, HostPlaces
  <2>3. TypeOK'
    <3>1. \A g \in Guis : at'[g] \in GuiPlaces
      BY <1>a, <2>2, ActorsApart DEF TypeOK
    <3> QED
      BY <1>a, <1>3, <2>1, <2>2, <3>1 DEF TypeOK, store, env, run, guis
  <2>4. HostsAtPlaces' /\ WriterAtWork' /\ MutexOwned'
    BY <1>a, <1>3, <2>1, <2>2, ActorsApart DEF HostsAtPlaces, HostPlaces, WriterAtWork, MutexOwned, store
  <2>5. ReadersPin'
    BY <1>a, <2>1, <2>2, ActorsApart DEF ReadersPin, Serves, store
  <2>6. OutcomeSettled'
    BY <1>a, <2>1, <2>2, ActorsApart DEF OutcomeSettled, Serves, Complete, store
  <2>7. JudgesTree'
    BY <1>a, <1>3, <2>1, <2>2, ActorsApart DEF JudgesTree, run, store
  <2>8. RunOrMail' /\ WindowFollowsRun'
    BY <1>a, <2>1, <2>2, ActorsApart DEF RunOrMail, WindowFollowsRun, guis
  <2> QED
    BY <2>3, <2>4, <2>5, <2>6, <2>7, <2>8 DEF IInv, Ties
<1> QED
  BY <1>1, <1>2, <1>3 DEF TryMutex

LEMMA AgainKeeps ==
  ASSUME StartupAssumption, IInv, NEW h \in Hosts, Again(h)  PROVE IInv'
<1>a. /\ TypeOK /\ HostsAtPlaces /\ WriterAtWork /\ ReadersPin /\ MutexOwned
      /\ OutcomeSettled /\ JudgesTree /\ RunOrMail /\ WindowFollowsRun
  BY DEF IInv, Ties
<1>1. CASE HandleFailure(h) \/ Concludes(h)
  <2>1. (Ends(h, {"check"}) \/ Ends(h, {"open"})) /\ at[h] = "again"
    BY <1>1, <1>a, HandleFailureEnds, ConcludesEnds, Typed DEF Again
  <2>2. Stops(h)
    BY <2>1, <1>a, WaitersRead, ActorsApart DEF Again, Stops, Ends, Leaves, AtWork, store, guis, TypeOK
  <2> QED
    BY <2>2, StopsKeeps, ActorsApart
<1>2. CASE mutex = None /\ mutex' = h /\ Moves(h, "lock") /\ UNCHANGED <<run, why>>
  BY <1>2, TakesMutex DEF Again
<1> QED
  BY <1>1, <1>2 DEF Again

LEMMA AcquireKeeps ==
  ASSUME StartupAssumption, IInv, NEW a \in Actors, Acquire(a)  PROVE IInv'
<1>a. /\ TypeOK /\ HostsAtPlaces /\ WriterAtWork /\ ReadersPin /\ MutexOwned
      /\ OutcomeSettled /\ JudgesTree /\ RunOrMail /\ WindowFollowsRun
  BY DEF IInv, Ties
<1>1. CASE Returns(a, "failure") /\ UNCHANGED writer
  BY <1>1, RunStops DEF Acquire, AtWork
<1>2. CASE ~(Returns(a, "failure") /\ UNCHANGED writer)
  <2>1. /\ writer = None /\ readers = {} /\ writer' = a /\ at[a] = "lock" /\ base' = Classified(a)
        /\ UNCHANGED <<tree, readers, env, job, made, force, mutex, why, out, game, guis>>
    BY <1>2 DEF Acquire, ExclusiveFree, guis
  <2>2. at'[a] = "front" /\ at' \in [Actors -> HostPlaces \cup GuiPlaces] /\ \A b \in Actors : b = a \/ at'[b] = at[b]
    BY <1>2, <1>a, Typed DEF Acquire, Moves, HostPlaces
  <2>3. base' \in [Actors -> Inputs \cup NoTree] /\ base'[a] = tree
    BY <2>1, <1>a, Typed DEF Classified, LocalsTyped, TypeOK
  <2>4. TypeOK'
    <3>1. \A g \in Guis : at'[g] \in GuiPlaces
      BY <1>a, <2>2, ActorsApart DEF TypeOK, GuiPlaces
    <3> QED
      BY <1>a, <2>1, <2>2, <2>3, <3>1 DEF TypeOK, env, guis
  <2>5. HostsAtPlaces'
    BY <1>a, <2>2, ActorsApart DEF HostsAtPlaces, HostPlaces
  <2>6. WriterAtWork'
    BY <1>a, <2>1, <2>2, ActorsApart DEF WriterAtWork
  <2>7. ReadersPin'
    BY <1>a, <2>1, <2>2, ActorsApart DEF ReadersPin, Serves
  <2>8. MutexOwned'
    BY <1>a, <2>1, <2>2, ActorsApart DEF MutexOwned
  <2>9. OutcomeSettled'
    BY <1>a, <2>1, <2>2, ActorsApart DEF OutcomeSettled, Serves, Complete
  <2>10. JudgesTree'
    <3> SUFFICES ASSUME NEW h \in Hosts PROVE (force[h] = FALSE /\ (at[h] = "front" => base[h] = tree))'
      BY DEF JudgesTree
    <3>1. h # a => base'[h] = base[h]
      BY <2>1, <1>a, Typed, ActorsApart DEF Classified, LocalsTyped
    <3> QED
      BY <1>a, <2>1, <2>2, <2>3, <3>1, ActorsApart DEF JudgesTree
  <2>11. RunOrMail' /\ WindowFollowsRun'
    BY <1>a, <2>1, <2>2, ActorsApart DEF RunOrMail, WindowFollowsRun, guis
  <2> QED
    BY <2>4, <2>5, <2>6, <2>7, <2>8, <2>9, <2>10, <2>11 DEF IInv, Ties
<1> QED
  BY <1>1, <1>2

---------------------------------------------------------------------------
LEMMA Initially == ASSUME StartupAssumption, Init PROVE IInv
<1>1. TypeOK
  BY ActorsApart DEF Init, TypeOK, StartupAssumption, NoTree, HostPlaces, GuiPlaces
<1>2. HostsAtPlaces /\ WriterAtWork /\ MutexOwned
  BY ActorsApart DEF Init, HostsAtPlaces, HostPlaces, WriterAtWork, MutexOwned
<1>3. ReadersPin /\ OutcomeSettled
  BY ActorsApart DEF Init, ReadersPin, OutcomeSettled, Serves
<1>4. JudgesTree /\ RunOrMail /\ WindowFollowsRun
  BY ActorsApart DEF Init, JudgesTree, RunOrMail, WindowFollowsRun
<1> QED
  BY <1>1, <1>2, <1>3, <1>4 DEF IInv, Ties

LEMMA Stutters == ASSUME IInv, UNCHANGED vars PROVE IInv'
BY DEF IInv, Ties, TypeOK, HostsAtPlaces, WriterAtWork, ReadersPin, Serves, MutexOwned, OutcomeSettled, Complete,
       JudgesTree, RunOrMail, WindowFollowsRun, vars, store, env, hosts, guis, run

LEMMA Step == ASSUME StartupAssumption, IInv, [Next]_vars PROVE IInv'
<1>1. ASSUME NEW a \in Actors, Ensure(a) PROVE IInv'
  BY <1>1, AcquireKeeps, AcquireTimesOutKeeps, KeepCurrentKeeps, WithdrawKeeps, PublishKeeps,
     GenerationErrsKeeps
     DEF Ensure
<1>2. ASSUME NEW h \in Hosts, HostStep(h) PROVE IInv'
  BY <1>1, <1>2, ActorsApart, CheckPinsKeeps, CheckSeesNoneKeeps, CheckEndsKeeps, CheckErrsKeeps,
     TryMutexKeeps,
     WaitMutexKeeps, PassMutexKeeps, AgainKeeps, OpenSnapshotKeeps, OpenFailsKeeps
     DEF HostStep
<1>3. ASSUME NEW g \in Guis, GuiStep(g) PROVE IInv'
  BY <1>1, <1>3, ActorsApart, ProbeKeeps, PumpGeneratorKeeps DEF GuiStep
<1>4. ASSUME NEW g \in Guis, User(g) PROVE IInv'
  BY <1>4, OpenWindowKeeps, AcceptIncompatibleKeeps, CloseWindowKeeps, GenerateKeeps, BackKeeps,
     GuiExitsKeeps DEF User
<1> QED
  BY <1>2, <1>3, <1>4, StartHostKeeps, MutexWaitErrsKeeps, AskKeeps, HostExitsKeeps, InstallChangesKeeps, Stutters DEF Next

---------------------------------------------------------------------------
(* Every state of every run is one in which IInv holds.                    *)
THEOREM Invariance == Spec => []IInv
<1>1. Init => IInv
  BY Initially, StartupAssumption
<1>2. IInv /\ [Next]_vars => IInv'
  BY Step, StartupAssumption
<1> QED
  BY <1>1, <1>2, PTL DEF Spec

LEMMA Apart == ASSUME StartupAssumption, IInv PROVE RunsKeepApart
<1>1. GameHasTree
  BY DEF IInv, Ties, TypeOK, GameHasTree, OutcomeSettled, ReadersPin
<1>2. MutexSerializes
  BY DEF IInv, Ties, MutexSerializes, MutexOwned
<1> QED
  BY <1>1, <1>2 DEF IInv, Ties, RunsKeepApart

(* Of any number of hosts at most one waits for the writer lock or         *)
(* generates, no run goes on behind its window, and a game that uploads    *)
(* has a complete tree that nobody is writing.                             *)
THEOREM RunsAreKeptApart == Spec => []RunsKeepApart
<1>1. IInv => RunsKeepApart
  BY Apart, StartupAssumption
<1> QED
  BY <1>1, Invariance, PTL

(* Only the lock's holder changes the tree.                                *)
LEMMA TreeChanges ==
  ASSUME StartupAssumption, IInv, [Next]_vars, tree' # tree
  PROVE  \E a \in Actors : at[a] \in {"front", "write"}
<1>1. ASSUME NEW a \in Actors, Ensure(a) PROVE at[a] \in {"front", "write"}
  BY <1>1 DEF Ensure, Acquire, AcquireTimesOut, KeepCurrent, Withdraw, Publish, GenerationErrs, store
<1>2. ASSUME NEW h \in Hosts, HostStep(h) PROVE Ensure(h)
  BY <1>2 DEF HostStep, CheckPins, CheckSeesNone, CheckEnds, CheckErrs, TryMutex, WaitMutex, PassMutex, Again,
              OpenSnapshot, OpenFails, store
<1>3. ASSUME NEW h \in Hosts, StartHost(h) \/ MutexWaitErrs(h) \/ Ask(h) \/ HostExits(h) PROVE FALSE
  BY <1>3 DEF StartHost, MutexWaitErrs, Ask, HostExits, Exit, store
<1>4. ASSUME NEW g \in Guis, GuiStep(g) PROVE Ensure(g)
  BY <1>4 DEF GuiStep, Probe, PumpGenerator, store
<1>5. ASSUME NEW g \in Guis, User(g) PROVE FALSE
  BY <1>5 DEF User, OpenWindow, AcceptIncompatible, CloseWindow, Generate, Back, GuiExits, Exit, store
<1>6. ~InstallChanges /\ ~UNCHANGED vars
  BY DEF InstallChanges, vars, store
<1> QED
  BY <1>1, <1>2, <1>3, <1>4, <1>5, <1>6, ActorsApart DEF Next

LEMMA PinHolds == ASSUME StartupAssumption, IInv, [Next]_vars, readers # {} PROVE tree' = tree
<1>1. SUFFICES ASSUME tree' # tree PROVE FALSE
  OBVIOUS
<1>2. PICK a \in Actors : at[a] \in {"front", "write"}
  BY <1>1, TreeChanges
<1>3. writer = a /\ writer = None
  BY <1>2 DEF IInv, Ties, WriterAtWork, TypeOK
<1> QED
  BY <1>3, ActorsApart

(* A host that comes to write has seen, under the lock, a tree that is not *)
(* what its own job reads from the present files.                          *)
LEMMA WithdrawsStale ==
  ASSUME StartupAssumption, IInv, [Next]_vars, NEW h \in Hosts, at[h] = "front", at'[h] = "write"
  PROVE  tree # Wanted(h)
<1>a. TypeOK /\ at \in [Actors -> HostPlaces \cup GuiPlaces] /\ h \in Actors
  BY Typed, ActorsApart DEF IInv
<1>1. ASSUME NEW a \in Actors, Ensure(a) PROVE Withdraw(h)
  <2>1. ASSUME ~Withdraw(a) PROVE at'[h] # "write"
    <3>1. CASE Acquire(a) /\ Moves(a, "front")
      BY <1>a, <3>1 DEF Moves
    <3>2. CASE \E outcome \in {"failure", "success"} : Returns(a, outcome)
      <4>1. PICK outcome \in {"failure", "success"} : Returns(a, outcome)
        BY <3>2
      <4>2. Ends(a, IF a \in Hosts THEN {"check", "open"} ELSE {"idle"})
        BY <1>a, <4>1, Typed, ReturnsEnds
      <4> QED
        BY <1>a, <4>2 DEF Ends, Leaves
    <3> QED
      BY <1>1, <2>1, <3>1, <3>2 DEF Ensure, Acquire, AcquireTimesOut, KeepCurrent, Publish, GenerationErrs
  <2>2. Withdraw(a) /\ Moves(a, "write")
    BY <2>1 DEF Withdraw
  <2> QED
    BY <1>a, <2>2 DEF Moves
<1>2. ASSUME NEW k \in Hosts, HostStep(k), ~Ensure(k) PROVE FALSE
  <2>1. CASE CheckSeesNone(k) \/ CheckEnds(k)
    <3>1. Ends(k, {"open", "try", "again"})
      BY <1>a, <2>1, Typed, JudgeEnds DEF CheckSeesNone, CheckEnds
    <3> QED
      BY <1>a, <3>1 DEF Ends, Leaves
  <2>2. CASE ~(CheckSeesNone(k) \/ CheckEnds(k))
    BY <1>2, <1>a, <2>2, ActorsApart
       DEF HostStep, CheckPins, CheckErrs, TryMutex, WaitMutex, PassMutex, Again, OpenSnapshot, OpenFails, Moves,
           Concludes, HandleFailure
  <2> QED
    BY <2>1, <2>2
<1>3. ASSUME NEW k \in Hosts, StartHost(k) \/ MutexWaitErrs(k) \/ Ask(k) \/ HostExits(k) PROVE FALSE
  BY <1>3, <1>a, ActorsApart DEF StartHost, MutexWaitErrs, Ask, HostExits, Moves
<1>4. ASSUME NEW g \in Guis, GuiStep(g), ~Ensure(g) PROVE FALSE
  BY <1>4, <1>a, ActorsApart DEF GuiStep, Probe, PumpGenerator, Moves
<1>5. ASSUME NEW g \in Guis, User(g) PROVE FALSE
  BY <1>5, <1>a, ActorsApart DEF User, OpenWindow, AcceptIncompatible, CloseWindow, Generate, Back,
     GuiExits, Moves
<1>6. ~InstallChanges /\ ~UNCHANGED vars
  BY DEF InstallChanges, vars
<1>7. Withdraw(h)
  BY <1>1, <1>2, <1>3, <1>4, <1>5, <1>6, ActorsApart DEF Next
<1>8. base[h] = tree /\ force[h] = FALSE
  BY DEF IInv, Ties, JudgesTree
<1> QED
  BY <1>7, <1>8 DEF Withdraw, Current

(* While a session or a status check has the tree pinned it does not       *)
(* change, whoever generates; and of the hosts none withdraws a tree that  *)
(* is current for the job it loaded when it started, whatever has become   *)
(* of the configuration and of the files in the meantime.                  *)
THEOREM TreeOnlyChangesWhenFree == Spec => TreeChangesWhenFree
<1>1. IInv /\ [Next]_vars => [readers # {} /\ readers' # {} => tree' = tree]_vars
  BY PinHolds, StartupAssumption
<1>2. IInv /\ [Next]_vars => [\A h \in Hosts : at[h] = "front" /\ at'[h] = "write" => tree # Wanted(h)]_vars
  BY WithdrawsStale, StartupAssumption
<1>3. Spec => PinnedTreeStays
  BY <1>1, Invariance, PTL DEF Spec, PinnedTreeStays
<1>4. Spec => NothingRegenerated
  BY <1>2, Invariance, PTL DEF Spec, NothingRegenerated
<1> QED
  BY <1>3, <1>4 DEF TreeChangesWhenFree
=============================================================================
