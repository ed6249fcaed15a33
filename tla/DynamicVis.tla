------------------------------ MODULE DynamicVis ------------------------------
(* Dynamic visibility: groups of distant statics that game data switches on and
   off.  On a cell change the render thread compares every group with the game,
   remembers the new state, writes the differences into one shared vector and
   starts UpdateDynVis; the host walks that vector while the game goes on.     *)
EXTENDS Naturals, Sequences

CONSTANTS
  GroupCount,     \* the number of groups in usage.data
  Cells,          \* player cells of the game
  NoCell,         \* lastDistantVisCell == nullptr
  MaxTimeouts,    \* bound: waits for the previous command that give up
  MaxVisChanges   \* bound: changes of game data, walks and loads

ASSUME DynamicVisAssumption ==
  /\ NoCell \notin Cells
  /\ {GroupCount, MaxTimeouts, MaxVisChanges} \subseteq Nat

VARIABLES
  inRange,  \* game data: the group's value lies in one of its ranges
  resolved, \* groups whose gameObject pointer is set
  enabled,  \* client: vis.enabled
  at,       \* the player's cell
  lastCell, \* lastDistantVisCell
  pc,       \* where renderStage0 is
  scanned,  \* groups the scan has looked at
  flags,    \* memory of dynVisFlagsShared that was ever written
  size,     \* its published size; beyond it the memory keeps what older updates left
  command,  \* the command in flight, "none" when answered or never sent
  index,    \* for_each's index while the host serves UpdateDynVis
  reading,  \* its test of the size has passed, the element is not read yet
  shown,    \* host: render_mesh.enabled of every member of the group
  spent     \* the bounds' counters, and whether a quiet frame met an update in flight

client == <<enabled, lastCell, pc, scanned, flags, size>>
host == <<index, reading, shown>>
visVars == <<inRange, resolved, at, client, command, host, spent>>

Groups == 1..GroupCount

VisInit ==
  /\ inRange \in [Groups -> BOOLEAN]
  /\ resolved \in SUBSET Groups
  /\ enabled = [g \in Groups |-> TRUE]
  /\ shown = [g \in Groups |-> TRUE]
  /\ at \in Cells /\ lastCell = NoCell
  /\ pc = "frame" /\ scanned = 0 /\ flags = <<>> /\ size = 0
  /\ command = "none" /\ index = 0 /\ reading = FALSE
  /\ spent = [timeouts |-> 0, changes |-> 0, quiet |-> FALSE]

---------------------------------------------------------------------------
(* The game between frames. *)

VisChanges == spent.changes < MaxVisChanges /\ spent' = [spent EXCEPT !.changes = @ + 1]

SetGameData(g) ==
  /\ pc = "frame" /\ VisChanges
  /\ inRange' = [inRange EXCEPT ![g] = ~@]
  /\ UNCHANGED <<resolved, at, client, command, host>>

Walk(c) ==
  /\ pc = "frame" /\ c # at /\ VisChanges
  /\ at' = c
  /\ UNCHANGED <<inRange, resolved, client, command, host>>

\* resolveDynamicVisGroups: another save resolves other objects, and the cell is scanned again.
LoadSave(objects) ==
  /\ pc = "frame" /\ VisChanges
  /\ resolved' = objects
  /\ lastCell' = NoCell
  /\ UNCHANGED <<inRange, enabled, at, pc, scanned, flags, size, command, host>>

---------------------------------------------------------------------------
(* renderStage0: selectDistantCell's scan, then whatever the frame asks the host. *)

\* Mutant: the vector is not cleared before the differences are pushed.
ScanAppends ==
  /\ pc = "frame" /\ at # lastCell
  /\ scanned' = 0 /\ pc' = "scan"
  /\ UNCHANGED <<inRange, resolved, enabled, at, lastCell, flags, size, command, host, spent>>

\* The vector is cleared and refilled before the previous command is waited for.
Scan ==
  /\ pc = "frame" /\ at # lastCell
  /\ size' = 0 /\ scanned' = 0 /\ pc' = "scan"
  /\ UNCHANGED <<inRange, resolved, enabled, at, lastCell, flags, command, host, spent>>

NextGroup == scanned + 1
Changed(g) == g \in resolved /\ inRange[g] # enabled[g]
Stored(flag) == IF size < Len(flags) THEN [flags EXCEPT ![size + 1] = flag] ELSE Append(flags, flag)

\* Mutant: a difference is pushed, but the group's own state is not remembered.
CompareForgetsState ==
  /\ pc = "scan" /\ scanned < GroupCount
  /\ scanned' = NextGroup
  /\ IF Changed(NextGroup)
     THEN flags' = Stored([group |-> NextGroup, enable |-> inRange[NextGroup]]) /\ pc' = "count"
     ELSE UNCHANGED <<flags, pc>>
  /\ UNCHANGED <<inRange, resolved, enabled, at, lastCell, size, command, host, spent>>

\* One group: what differs is remembered, and its flag stored behind the last one.
Compare ==
  /\ pc = "scan" /\ scanned < GroupCount
  /\ scanned' = NextGroup
  /\ IF Changed(NextGroup)
     THEN /\ enabled' = [enabled EXCEPT ![NextGroup] = inRange[NextGroup]]
          /\ flags' = Stored([group |-> NextGroup, enable |-> inRange[NextGroup]])
          /\ pc' = "count"
     ELSE UNCHANGED <<enabled, flags, pc>>
  /\ UNCHANGED <<inRange, resolved, at, lastCell, size, command, host, spent>>

\* The second half of push_back.
Count ==
  /\ pc = "count"
  /\ size' = size + 1 /\ pc' = "scan"
  /\ UNCHANGED <<inRange, resolved, enabled, at, lastCell, scanned, flags, command, host, spent>>

ScanEnds ==
  /\ pc = "scan" /\ scanned = GroupCount
  /\ lastCell' = at
  /\ pc' = IF size = 0 THEN "query" ELSE "send"
  /\ UNCHANGED <<inRange, resolved, enabled, at, scanned, flags, size, command, host, spent>>

SameCell ==
  /\ pc = "frame" /\ at = lastCell
  /\ pc' = "query"
  /\ UNCHANGED <<inRange, resolved, enabled, at, lastCell, scanned, flags, size, command, host, spent>>

Waits(sent) ==
  IF command = "none" THEN sent
  ELSE /\ spent.timeouts < MaxTimeouts
       /\ spent' = [spent EXCEPT !.timeouts = @ + 1]
       /\ UNCHANGED <<command, index>>

Starts(c) == command' = c /\ index' = 0 /\ UNCHANGED spent

\* updateDynVis: its result is not looked at, so a wait that gives up drops the flags.
UpdateDynVis ==
  /\ pc = "send"
  /\ Waits(Starts("dynvis"))
  /\ pc' = "query"
  /\ UNCHANGED <<inRange, resolved, enabled, at, lastCell, scanned, flags, size, reading, shown>>

\* Mutant: a frame whose previous command is still running asks nothing and goes on.
QueryUnwaited ==
  /\ pc = "query"
  /\ IF command = "none" THEN Starts("visible") ELSE UNCHANGED <<command, index, spent>>
  /\ pc' = "frame"
  /\ UNCHANGED <<inRange, resolved, enabled, at, lastCell, scanned, flags, size, reading, shown>>

\* setWorldSpaceBlocking and the visible sets of the frame.
VisQuery ==
  /\ pc = "query"
  /\ Waits(Starts("visible"))
  /\ pc' = "frame"
  /\ UNCHANGED <<inRange, resolved, enabled, at, lastCell, scanned, flags, size, reading, shown>>

\* A cached menu frame, or a cell without a name: nothing is asked, nothing waited for.
QuietFrame ==
  /\ pc = "query"
  /\ pc' = "frame"
  /\ spent' = [spent EXCEPT !.quiet = @ \/ command = "dynvis"]
  /\ UNCHANGED <<inRange, resolved, enabled, at, lastCell, scanned, flags, size, command, host>>

---------------------------------------------------------------------------
(* The host: for_each over the vector.  Its size is read again before every
   element, and the element is read after that.                              *)

TestSize ==
  /\ command = "dynvis" /\ ~reading /\ index < size
  /\ reading' = TRUE
  /\ UNCHANGED <<inRange, resolved, at, client, command, index, shown, spent>>

\* Mutant: the flag's place in the vector is taken for its group.
UpdateDynVisOneUngrouped ==
  /\ reading
  /\ shown' = [shown EXCEPT ![index + 1] = flags[index + 1].enable]
  /\ index' = index + 1 /\ reading' = FALSE
  /\ UNCHANGED <<inRange, resolved, at, client, command, spent>>

\* Mutant: the walk advances twice per flag.
UpdateDynVisOneSkips ==
  /\ reading
  /\ shown' = [shown EXCEPT ![flags[index + 1].group] = flags[index + 1].enable]
  /\ index' = index + 2 /\ reading' = FALSE
  /\ UNCHANGED <<inRange, resolved, at, client, command, spent>>

UpdateDynVisOne ==
  /\ reading
  /\ shown' = [shown EXCEPT ![flags[index + 1].group] = flags[index + 1].enable]
  /\ index' = index + 1 /\ reading' = FALSE
  /\ UNCHANGED <<inRange, resolved, at, client, command, spent>>

Answer ==
  /\ command # "none" /\ ~reading
  /\ command = "dynvis" => index >= size
  /\ command' = "none" /\ index' = 0
  /\ UNCHANGED <<inRange, resolved, at, client, reading, shown, spent>>

Game == (\E g \in Groups : SetGameData(g)) \/ (\E c \in Cells : Walk(c))
        \/ (\E objects \in SUBSET Groups : LoadSave(objects))
Render == Scan \/ Compare \/ Count \/ ScanEnds \/ SameCell \/ UpdateDynVis \/ VisQuery \/ QuietFrame
Host == TestSize \/ UpdateDynVisOne \/ Answer
VisNext == Game \/ Render \/ Host

\* The host serves what it is sent; frames go on being rendered.
VisSpec == VisInit /\ [][VisNext]_visVars /\ WF_visVars(Host) /\ WF_visVars(Render)

---------------------------------------------------------------------------
VisTypeOK ==
  /\ {inRange, enabled, shown} \subseteq [Groups -> BOOLEAN]
  /\ resolved \subseteq Groups
  /\ at \in Cells /\ lastCell \in Cells \cup {NoCell}
  /\ pc \in {"frame", "scan", "count", "send", "query"}
  /\ scanned \in 0..GroupCount /\ size \in 0..Len(flags) /\ reading \in BOOLEAN
  /\ command \in {"none", "dynvis", "visible"}
  /\ \A i \in DOMAIN flags : flags[i] \in [group : Groups, enable : BOOLEAN]
  /\ index \in Nat

\* No wait gave up, and no frame went on without waiting for an update in flight.
Undisturbed == spent.timeouts = 0 /\ ~spent.quiet

\* "If enable state has changed, propagate to distant land mesh instances"
\* (scanDynamicVisGroups): with nothing left to send and nothing in flight, the
\* meshes the host draws have the state the client believes they have.
HostFollows == Undisturbed /\ command = "none" /\ pc \in {"frame", "query"} => shown = enabled

\* However the vector is cleared and refilled under its walk, the host reads
\* nothing that was never written: memory that is zero names a group.
ReadsWhatWasWritten == reading => index < Len(flags)

\* The host never finds the vector changed under its walk: what it applies is
\* the update it was sent (dynVisFlagsShared.clear against SharedVec::for_each).
WalkUndisturbed == [][Undisturbed /\ <<flags, size>>' # <<flags, size>> => command # "dynvis"]_visVars

\* The host never puts a group into a state the client has already left again.
NeverStale ==
  [][Undisturbed => \A g \in Groups : shown'[g] # shown[g] => shown'[g] = enabled[g]]_visVars

\* Once game data and the player rest, what the host draws ends up, and stays, as
\* the client remembers it: an update is applied however it meets the frames.
EventuallyShown == <>[](Undisturbed => shown = enabled)

\* The two sides are well formed and agree whenever nothing is on its way.
SidesFollow == VisTypeOK /\ HostFollows /\ ReadsWhatWasWritten

\* While nothing is disturbed the host applies each update as it was sent, and
\* none that is out of date.
UpdatesInOrder == WalkUndisturbed /\ NeverStale
===============================================================================
