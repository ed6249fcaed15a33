------------------------------- MODULE VecWindow -------------------------------
(* The storage of one shared vector: a reservation of windows, committed as the
   vector grows; the host maps all of it, the client one window at a time.  One
   side appends, the other walks the elements, afterwards or while it grows; both
   can commit memory, and share the header's counters and two events.  How the
   client waits for a set the host is filling is VisibleSets' subject.            *)
EXTENDS Integers, Sequences

CONSTANTS
  Slots,       \* elements per window, m_windowSize
  Reservations,\* windows a reservation may have
  Initials,    \* windows its creation may commit
  Writers,     \* the sides that may be the one that appends: "host", "client"
  MaxElements, \* bound: elements of a batch
  MaxBatches   \* bound: batches

ASSUME VecWindowAssumption ==
  /\ {Slots, MaxElements} \cup Reservations \cup Initials \subseteq Nat \ {0}
  /\ MaxBatches \in Nat
  /\ Writers \subseteq {"host", "client"}

VARIABLES
  writer,    \* the side that appends to this vector
  parallel,  \* whether the other side reads while it still appends
  reserved,  \* windows of its reservation
  initial,   \* windows committed at its creation
  batch,     \* the batch being passed
  left,      \* elements the writer still has to append
  size,      \* header: size
  committed, \* header: committedBytes, in windows
  pages,     \* the windows that really are committed
  mem,       \* the elements in storage, by window and slot
  host,      \* the host: what push, or the reading loop, is doing, and its index
  reader,    \* the host's reading: what it expects, waits for and was told
  view,      \* the client's VecView: index, subIndex, current window, mapped
  cursor,    \* the client: IpcClientVector's flag and index, and its next step
  taken,     \* what the reader has been handed in this batch
  fault      \* a side touched a window that is not there

vars == <<writer, parallel, reserved, initial, batch, left, size, committed, pages, mem,
          host, reader, view, cursor, taken, fault>>
fixed == <<writer, parallel, reserved, initial>>
storage == <<size, committed, pages, mem>>

Windows == 0..(reserved - 1)
Element(i) == <<batch % 2, i>>
Elements == (0..1) \X (0..MaxElements)
Nothing == <<0, MaxElements>>

WindowOf(i) == i \div Slots
SlotOf(i) == i % Slots

Pushed == [i \in 1..size |-> mem[WindowOf(i - 1)][SlotOf(i - 1)]]

\* SharedVec::create commits the initial capacity; init asks for a window of it.
Init ==
  /\ writer \in Writers /\ parallel \in BOOLEAN
  /\ reserved \in Reservations /\ initial \in Initials /\ initial <= reserved
  /\ batch = 0 /\ left = 0
  /\ size = 0 /\ committed = initial /\ pages = 0..(initial - 1)
  /\ mem = [w \in Windows |-> [k \in 0..(Slots - 1) |-> Nothing]]
  /\ host = [pc |-> "idle", index |-> 0]
  /\ reader = [expected |-> 0, seen |-> 0, then |-> "get", reading |-> FALSE,
                late |-> FALSE, failed |-> FALSE, events |-> {}]
  /\ view = [index |-> 0, sub |-> 0, window |-> 0, mapped |-> TRUE]
  /\ cursor = [pc |-> "idle", then |-> "idle", first |-> TRUE,
                next |-> 0, target |-> 0, seen |-> 0]
  /\ taken = <<>> /\ fault = FALSE

\* A vector the host reads as it grows, that of the terrain, is made for one batch.
MayStart == batch < (IF writer = "client" /\ parallel THEN 1 ELSE MaxBatches)

\* clear, then the command that hands the vector to the other side; a host that
\* reads in parallel knows from terrain.bin how many elements to expect.
StartBatch ==
  /\ MayStart /\ left = 0 /\ host.pc = "idle" /\ cursor.pc = "idle"
  /\ batch' = batch + 1 /\ size' = 0 /\ taken' = <<>>
  /\ \E n \in 1..MaxElements :
       left' = n /\ reader' = [reader EXCEPT !.expected = n, !.late = FALSE, !.failed = FALSE]
  /\ cursor' = [cursor EXCEPT !.pc = IF writer = "host" THEN "ready" ELSE "append"]
  /\ host' = [pc |-> IF writer = "host" THEN "push" ELSE "ready", index |-> 0]
  /\ UNCHANGED <<fixed, committed, pages, mem, view, fault>>

ReaderMayStart == parallel \/ left = 0

---------------------------------------------------------------------------
(* The host as writer: SharedVec::push. *)

HostAt(p) == host' = [host EXCEPT !.pc = p]

PushChecks ==
  /\ host.pc = "push" /\ left > 0
  /\ HostAt(IF size + 1 > committed * Slots THEN "extend" ELSE "store")
  /\ UNCHANGED <<fixed, reader, batch, left, storage, view, cursor, taken, fault>>

\* extend: the page after the last one counted is committed, then counted.
ExtendCommits ==
  /\ host.pc = "extend" /\ committed < reserved
  /\ pages' = pages \cup {committed}
  /\ HostAt("count")
  /\ UNCHANGED <<fixed, reader, batch, left, size, committed, mem, view, cursor, taken, fault>>

ExtendCounts ==
  /\ host.pc = "count"
  /\ committed' = committed + 1
  /\ HostAt("store")
  /\ UNCHANGED <<fixed, reader, batch, left, size, pages, mem, view, cursor, taken, fault>>

ExtendFails ==
  /\ host.pc = "extend" /\ committed >= reserved
  /\ left' = 0 /\ HostAt("idle")
  /\ UNCHANGED <<fixed, reader, batch, storage, view, cursor, taken, fault>>

\* Mutant: the size is published before the element is written.
StoredLate(i) ==
  /\ mem' = IF i = 0 THEN mem
            ELSE [mem EXCEPT ![WindowOf(i - 1)][SlotOf(i - 1)] = Element(i - 1)]
  /\ size' = i + 1

Stored(i) ==
  /\ mem' = [mem EXCEPT ![WindowOf(i)][SlotOf(i)] = Element(i)]
  /\ size' = i + 1

PushStores ==
  /\ host.pc = "store"
  /\ IF WindowOf(size) \in pages
     THEN Stored(size) /\ left' = left - 1 /\ UNCHANGED fault
          /\ HostAt(IF left = 1 THEN "idle" ELSE "push")
     ELSE fault' = TRUE /\ HostAt("idle") /\ UNCHANGED <<mem, size, left>>
  /\ UNCHANGED <<fixed, reader, batch, committed, pages, view, cursor, taken>>

---------------------------------------------------------------------------
(* The client's view: slide_window unmaps, commits what the counter lacks, one
   window at a time, and maps the window it was asked for.                     *)

Stays(i) == i = view.window /\ committed > 0

\* Slides to window i, after which the client's next step is p.
Slide(i, p) ==
  cursor' = [cursor EXCEPT !.pc = IF Stays(i) THEN p ELSE "slide", !.then = p, !.target = i]

\* Mutant: the window itself is not asked for.
NeededShort == cursor.target

\* committedBytes counts no header, newEnd does: one window more is asked for.
Needed == cursor.target + 2

SlideCommits ==
  /\ cursor.pc = "slide" /\ view.mapped /\ committed < Needed /\ committed < reserved
  /\ pages' = pages \cup {committed}
  /\ cursor' = [cursor EXCEPT !.pc = "load"]
  /\ UNCHANGED <<fixed, reader, batch, left, size, committed, mem, host, view, taken, fault>>

\* committedBytes += m_windowBytes is a load and a store, not an atomic add.
SlideLoads ==
  /\ cursor.pc = "load"
  /\ cursor' = [cursor EXCEPT !.pc = "count", !.seen = committed]
  /\ UNCHANGED <<fixed, reader, batch, left, storage, host, view, taken, fault>>

\* Mutant: one commit is counted as two windows.
SlideCountsTwice ==
  /\ cursor.pc = "count"
  /\ committed' = committed + 2
  /\ cursor' = [cursor EXCEPT !.pc = "slide"]
  /\ UNCHANGED <<fixed, reader, batch, left, size, pages, mem, host, view, taken, fault>>

SlideCounts ==
  /\ cursor.pc = "count"
  /\ committed' = cursor.seen + 1
  /\ cursor' = [cursor EXCEPT !.pc = "slide"]
  /\ UNCHANGED <<fixed, reader, batch, left, size, pages, mem, host, view, taken, fault>>

\* update_write: the reader is told of a window before anything is in it.
SlideTells ==
  reader' = IF parallel /\ cursor.then = "store" THEN [reader EXCEPT !.events = @ \cup {"update"}]
            ELSE reader

\* end_write follows where a write was started.
Finished == IF parallel THEN "finish" ELSE "idle"

SlideMaps ==
  /\ cursor.pc = "slide" /\ view.mapped /\ committed >= Needed /\ cursor.target < reserved
  /\ view' = [view EXCEPT !.window = cursor.target]
  /\ cursor' = [cursor EXCEPT !.pc = cursor.then]
  /\ SlideTells
  /\ UNCHANGED <<fixed, batch, left, storage, host, taken, fault>>

\* A window beyond the reservation: the view is left without a buffer, and every
\* later slide fails.  push_back reports it, and this batch ends there.
SlideFails ==
  /\ cursor.pc = "slide"
  /\ ~view.mapped \/ cursor.target >= reserved \/ (committed < Needed /\ committed >= reserved)
  /\ view' = [view EXCEPT !.mapped = FALSE]
  /\ cursor' = [cursor EXCEPT !.pc = IF cursor.then = "store" THEN Finished ELSE cursor.then]
  /\ left' = IF cursor.then = "store" THEN 0 ELSE left
  /\ UNCHANGED <<fixed, reader, batch, storage, host, taken, fault>>

Readable == view.mapped /\ view.window \in pages

---------------------------------------------------------------------------
(* The client as reader: IpcClientVector::restart, at_end, next. *)

\* set_index(0) on an empty vector leaves the view where the last walk ended.
Restart ==
  /\ cursor.pc = "ready" /\ writer = "host" /\ ReaderMayStart
  /\ IF view.index = 0 \/ size = 0
     THEN cursor' = [cursor EXCEPT !.pc = "walk", !.first = TRUE, !.next = 0] /\ UNCHANGED view
     ELSE /\ view' = [view EXCEPT !.index = 0, !.sub = 0]
          /\ cursor' = [cursor EXCEPT !.pc = IF Stays(0) THEN "walk" ELSE "slide", !.then = "walk",
                                      !.target = 0, !.first = TRUE, !.next = 0]
  /\ UNCHANGED <<fixed, reader, batch, left, storage, host, taken, fault>>

\* Mutant: at_end tests the view's own cursor, which is one behind.
AtEndLagging == view.index >= size

AtEnd == cursor.next >= size

\* The first element is fetched by set_index(0), not by an advance.
NextFirst ==
  /\ cursor.pc = "walk" /\ cursor.first /\ ~AtEnd
  /\ view' = [view EXCEPT !.index = 0, !.sub = 0]
  /\ cursor' = [cursor EXCEPT !.first = FALSE, !.next = 1, !.then = "take", !.target = 0,
                              !.pc = IF view.index = 0 \/ Stays(0) THEN "take" ELSE "slide"]
  /\ UNCHANGED <<fixed, reader, batch, left, storage, host, taken, fault>>

\* Mutant: the window is left one element late.
LeavesLate(i) == i > (view.window + 1) * Slots

\* Past the window's last element: nextWindowIndex.
Leaves(i) == i >= (view.window + 1) * Slots

NextAdvances ==
  /\ cursor.pc = "walk" /\ ~cursor.first /\ ~AtEnd
  /\ view' = [view EXCEPT !.index = @ + 1, !.sub = IF Leaves(view.index + 1) THEN 0 ELSE @ + 1]
  /\ cursor' = [cursor EXCEPT !.next = @ + 1, !.then = "take", !.target = view.window + 1,
                              !.pc = IF Leaves(view.index + 1) THEN "slide" ELSE "take"]
  /\ UNCHANGED <<fixed, reader, batch, left, storage, host, taken, fault>>

Takes(readable, w, k) ==
  IF readable THEN taken' = Append(taken, mem[w][k]) /\ UNCHANGED fault
  ELSE fault' = TRUE /\ UNCHANGED taken

ClientTakes ==
  /\ cursor.pc = "take"
  /\ Takes(Readable /\ view.sub < Slots, view.window, view.sub)
  /\ cursor' = [cursor EXCEPT !.pc = "walk"]
  /\ UNCHANGED <<fixed, reader, batch, left, storage, host, view>>

ClientEnds ==
  /\ cursor.pc = "walk" /\ AtEnd /\ left = 0 /\ host.pc = "idle"
  /\ cursor' = [cursor EXCEPT !.pc = "idle"]
  /\ UNCHANGED <<fixed, reader, batch, left, storage, host, view, taken, fault>>

---------------------------------------------------------------------------
(* The client as writer: VecView::reserve, push_back and end_write.          *)

Reserve ==
  /\ cursor.pc = "append" /\ size = 0 /\ left > 0
  /\ (left + Slots - 1) \div Slots > committed
  /\ Slide((left + Slots - 1) \div Slots - 1, "append")
  /\ UNCHANGED <<fixed, reader, batch, left, storage, host, view, taken, fault>>

PushBack ==
  /\ cursor.pc = "append" /\ left > 0
  /\ view' = [view EXCEPT !.sub = SlotOf(size)]
  /\ Slide(WindowOf(size), "store")
  /\ UNCHANGED <<fixed, reader, batch, left, storage, host, taken, fault>>

\* The window it has already is not looked at again: without a buffer, as a slide
\* of an earlier batch may have left the view, the element is stored nowhere.
PushBackStores ==
  /\ cursor.pc = "store"
  /\ IF Readable
     THEN /\ Stored(size) /\ left' = left - 1
          /\ view' = [view EXCEPT !.index = size]
          /\ cursor' = [cursor EXCEPT !.pc = IF left = 1 THEN Finished ELSE "append"]
          /\ UNCHANGED fault
     ELSE fault' = TRUE /\ UNCHANGED <<left, mem, size, view, cursor>>
  /\ UNCHANGED <<fixed, reader, batch, committed, pages, host, taken>>

\* A buffer of Direct3D that cannot be made ends the terrain's batch early.
Abandons ==
  /\ cursor.pc = "append" /\ left > 0 /\ parallel
  /\ left' = 0 /\ cursor' = [cursor EXCEPT !.pc = "finish"]
  /\ UNCHANGED <<fixed, reader, batch, storage, host, view, taken, fault>>

\* Mutant: the reader is not told that nothing more will come.
EndWriteSilent ==
  /\ cursor.pc = "finish"
  /\ cursor' = [cursor EXCEPT !.pc = "idle"]
  /\ UNCHANGED <<fixed, reader, batch, left, storage, host, view, taken, fault>>

EndWrite ==
  /\ cursor.pc = "finish"
  /\ reader' = [reader EXCEPT !.events = @ \cup {"complete"}]
  /\ cursor' = [cursor EXCEPT !.pc = "idle"]
  /\ UNCHANGED <<fixed, batch, left, storage, host, view, taken, fault>>

---------------------------------------------------------------------------
(* The host as reader: for_each when the client has finished, and the loop of
   init_landscape, which starts a read, beside it.                             *)

HostStarts ==
  /\ host.pc = "ready" /\ ReaderMayStart
  /\ HostAt(IF parallel THEN "enter" ELSE "each")
  /\ reader' = [reader EXCEPT !.reading = parallel, !.then = "get"]
  /\ UNCHANGED <<fixed, batch, left, storage, view, cursor, taken, fault>>

\* wait_read remembers the size it finds ...
WaitEnters ==
  /\ host.pc = "enter"
  /\ reader' = [reader EXCEPT !.seen = size] /\ HostAt("wait")
  /\ UNCHANGED <<fixed, batch, left, storage, view, cursor, taken, fault>>

\* ... and waits, until it is another one or the writer has ended ...
WaitTests ==
  /\ host.pc = "wait"
  /\ HostAt(IF reader.reading /\ reader.seen = size THEN "blocked" ELSE reader.then)
  /\ UNCHANGED <<fixed, reader, batch, left, storage, view, cursor, taken, fault>>

\* Mutant: any event is news.
WaitWakesOnce ==
  /\ host.pc = "blocked" /\ reader.events # {}
  /\ IF "update" \in reader.events
     THEN reader' = [reader EXCEPT !.events = @ \ {"update"}]
     ELSE reader' = [reader EXCEPT !.events = {}, !.reading = FALSE]
  /\ HostAt(reader.then)
  /\ UNCHANGED <<fixed, batch, left, storage, view, cursor, taken, fault>>

WaitWakes ==
  /\ host.pc = "blocked" /\ reader.events # {}
  /\ IF "update" \in reader.events
     THEN reader' = [reader EXCEPT !.events = @ \ {"update"}] /\ HostAt("wait")
     ELSE reader' = [reader EXCEPT !.events = {}, !.reading = FALSE] /\ HostAt(reader.then)
  /\ UNCHANGED <<fixed, batch, left, storage, view, cursor, taken, fault>>

\* ... or MAX_WAIT has passed.
TimesOut ==
  /\ host.pc = "blocked" /\ reader.events = {}
  /\ reader' = [reader EXCEPT !.late = TRUE] /\ HostAt(reader.then)
  /\ UNCHANGED <<fixed, batch, left, storage, view, cursor, taken, fault>>

HostTakes ==
  /\ host.pc \in {"each", "get", "recheck"} /\ host.index < size
  /\ Takes(WindowOf(host.index) \in pages, WindowOf(host.index), SlotOf(host.index))
  /\ host' = [pc |-> IF parallel THEN "get" ELSE "each", index |-> host.index + 1]
  /\ UNCHANGED <<fixed, reader, batch, left, storage, view, cursor>>

HostMisses ==
  /\ host.pc = "get" /\ host.index >= size /\ host.index < reader.expected
  /\ reader' = [reader EXCEPT !.then = "recheck"] /\ HostAt("enter")
  /\ UNCHANGED <<fixed, batch, left, storage, view, cursor, taken, fault>>

\* After one wait a buffer that is not there is an error.
HostFails ==
  /\ host.pc = "recheck" /\ host.index >= size
  /\ reader' = [reader EXCEPT !.reading = FALSE, !.failed = TRUE] /\ HostAt("idle")
  /\ UNCHANGED <<fixed, batch, left, storage, view, cursor, taken, fault>>

HostEnds ==
  /\ \/ host.pc = "each" /\ host.index >= size
     \/ host.pc = "get" /\ host.index = reader.expected
  /\ reader' = [reader EXCEPT !.reading = FALSE] /\ HostAt("idle")
  /\ UNCHANGED <<fixed, batch, left, storage, view, cursor, taken, fault>>

HostReads ==
  \/ HostStarts \/ WaitEnters \/ WaitTests \/ WaitWakes
  \/ HostTakes \/ HostMisses \/ HostFails \/ HostEnds
Host == PushChecks \/ ExtendCommits \/ ExtendCounts \/ ExtendFails \/ PushStores \/ HostReads
Client ==
  \/ SlideCommits \/ SlideLoads \/ SlideCounts \/ SlideMaps \/ SlideFails
  \/ Restart \/ NextFirst \/ NextAdvances \/ ClientTakes \/ ClientEnds
  \/ Reserve \/ PushBack \/ PushBackStores \/ EndWrite
\* A touch of memory that is not there ends the process.
Next == ~fault /\ (StartBatch \/ Host \/ Client \/ TimesOut \/ Abandons)

Spec == Init /\ [][Next]_vars /\ WF_vars(Host) /\ WF_vars(Client)

---------------------------------------------------------------------------
Reading == {"ready", "enter", "wait", "blocked", "each", "get", "recheck"}
Hosts == [pc : {"idle", "push", "extend", "count", "store"} \cup Reading, index : Nat]
Readers == [expected : Nat, seen : Nat, then : {"get", "recheck"}, reading : BOOLEAN,
            late : BOOLEAN, failed : BOOLEAN, events : SUBSET {"update", "complete"}]
Views == [index : Nat, sub : Nat, window : Nat, mapped : BOOLEAN]
Steps == {"idle", "ready", "walk", "take", "append", "store", "finish"}
Cursors == [pc : Steps \cup {"slide", "load", "count"}, then : Steps, first : BOOLEAN,
            next : Nat, target : Nat, seen : Nat]

TypeOK ==
  /\ writer \in {"host", "client"} /\ parallel \in BOOLEAN
  /\ reserved \in Nat \ {0} /\ initial \in Nat
  /\ {batch, left, size, committed} \subseteq Nat
  /\ size + left <= MaxElements
  /\ pages \subseteq Windows
  /\ mem \in [Windows -> [0..(Slots - 1) -> Elements]]
  /\ host \in Hosts /\ reader \in Readers /\ view \in Views /\ cursor \in Cursors
  /\ taken \in Seq(Elements) /\ fault \in BOOLEAN

\* The last window an element may lie in.
Furthest == WindowOf(MaxElements - 1)

\* As in the program, whose reservations round up to whole windows: there is a
\* window beyond those of the elements.
Ample == reserved > 1 + Furthest

\* One side commits at a time: the client writes, or reads what the host has
\* finished, or all it may ask for was committed at the vector's creation.  It is
\* not so for the sets that are walked while the host fills them, whose creation
\* commits one window.
OneCommits == writer = "client" \/ ~parallel \/ initial > 1 + Furthest

\* With room to spare neither side ever touches a window that is not committed or
\* not mapped (buffer_range and m_buffer are used without a check).
NoFault == Ample => ~fault

\* The counter both sides rely on tells the truth: every window below it is
\* committed memory, whoever committed it.
CommittedIsReal == 0..(committed - 1) \subseteq pages

\* The vector implements the plain sequence: windows, commits and the cursor's
\* lag are invisible, each element is handed over once, in order; at the end of a
\* reservation appending stops, and what was handed over is still the sequence.
Stream == INSTANCE StreamedVec WITH pushed <- Pushed
ImplementsStream == Stream!Spec

AtRest == left = 0 /\ host.pc = "idle" /\ cursor.pc = "idle"

\* A batch that was started, with room to spare, is passed to its end: both sides
\* come to rest without the help of a time-out; unless a wait timed out the reader
\* was handed all that was appended, and failed only if the writer stopped early.
BatchPasses ==
  (left > 0 /\ Ample /\ OneCommits) ~>
     /\ AtRest
     /\ reader.late \/ (Len(taken) = size /\ (reader.failed <=> size < reader.expected))

\* Every window either side relies on is there, where one side commits at a time.
WindowsSound == TypeOK /\ (OneCommits => NoFault /\ CommittedIsReal)
===============================================================================
