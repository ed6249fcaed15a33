------------------------------- MODULE VecLayout -------------------------------
(* How SharedVecLayout::from_request divides a reservation: whole windows of the
   allocation granularity, no element across two of them, and a size in bytes
   that is 32 bits wide on both sides of the process boundary.  It says where the
   elements lie whose windows VecWindow commits and maps, for the numbers of any
   request instead of its few Slots.                                            *)
EXTENDS VecWindow

CONSTANTS
  Requests,    \* the <<elements, elements per window, bytes per element>> asked for
  Granularity, \* allocation granularity in bytes
  Header,      \* granules of the header
  Granules     \* granules of 2^32 bytes: sizes in bytes wrap there

ASSUME VecLayoutAssumption ==
  /\ Requests \subseteq Nat \X Nat \X (Nat \ {0})
  /\ {Granularity, Header, Granules} \subseteq Nat \ {0}

Bigger(a, b) == IF a > b THEN a ELSE b
RoundedUp(n, unit) == ((n + unit - 1) \div unit) * unit

ElementBytes(r) == r[3]
WindowBytes(r) == RoundedUp(r[3] * Bigger(r[2], 1), Granularity)
WindowSize(r) == Bigger(WindowBytes(r) \div r[3], 1)

\* Mutant: the capacity asked for is not rounded up to whole windows.
MaxSizeUnrounded(r) == Bigger(r[1], 1)

MaxSize(r) == RoundedUp(Bigger(r[1], 1), WindowSize(r))
WindowGranules(r) == WindowBytes(r) \div Granularity

\* Mutant: the bytes of the elements are reserved, not those of the windows.
ReservedByElements(r) == (RoundedUp(MaxSize(r) * r[3], Granularity) \div Granularity) % Granules

\* reserved_bytes = max_size * window_bytes, wrapping.
Reserved(r) == (MaxSize(r) * WindowGranules(r)) % Granules

\* Mutant: elements follow each other without regard to windows.
ElementOffsetPacked(r, i) == i * r[3]

\* element_offset, from the start of the data.
ElementOffset(r, i) == (i \div WindowSize(r)) * WindowBytes(r) + (i % WindowSize(r)) * r[3]

\* The client derives its limits from the reply: window elements and maximum.
ClientWindowSize(r) == WindowBytes(r) \div r[3]
ClientMaxSize(r) == (Reserved(r) \div WindowGranules(r)) * ClientWindowSize(r)

---------------------------------------------------------------------------
\* elements, elements per window, sizeof: RenderMesh, grass, DynVisFlag, residency
\* plans and commits (initialisation), DistantStatic, DistantSubset (statics),
\* LandscapeBuffers (terrain).
ProgramRequests ==
  {<<200000, 1, 88>>, <<16384, 16384, 88>>, <<1000, 1, 4>>, <<128, 64, 16>>,
   <<500000, 1, 52>>, <<500000, 1, 144>>, <<200000, 1, 8>>}

\* The indices worth looking at: both ends of the first, second and last window.
Probes(r) ==
  {i \in {0, 1, WindowSize(r) - 1, WindowSize(r), WindowSize(r) + 1,
          MaxSize(r) - WindowSize(r), MaxSize(r) - 1, r[1] - 1} : 0 <= i /\ i < MaxSize(r)}

\* No element spans two windows, so the client never needs more than the one it
\* has mapped ("elements are not stored at locations that would span multiple
\* windows", VecView).
NoElementSpans ==
  \A r \in Requests : \A i \in Probes(r) :
     LET first == ElementOffset(r, i) IN
       first \div WindowBytes(r) = (first + ElementBytes(r) - 1) \div WindowBytes(r)

\* The reservation, and the mapping with its header, hold every element the
\* vector may have, and the window a client view asks for in excess: the wrapped
\* product is never too small.
ReservationHolds ==
  \A r \in Requests :
    LET windows == MaxSize(r) \div WindowSize(r) IN
      /\ Reserved(r) >= (windows + 1) * WindowGranules(r)
      /\ Header + Reserved(r) < Granules

\* Host and client walk the same windows, and the client's limit is no smaller.
SidesAgree ==
  \A r \in Requests :
    /\ ClientWindowSize(r) = WindowSize(r)
    /\ MaxSize(r) % WindowSize(r) = 0
    /\ ClientMaxSize(r) >= MaxSize(r)

\* Numbers alone: both sides find an element in the same window, and all of it.
LayoutSound == NoElementSpans /\ ReservationHolds /\ SidesAgree

\* The element appended last lies inside the reservation, and not over the one before.
HeldApart ==
  \A r \in Requests : LET i == size - 1 IN 0 <= i /\ i < MaxSize(r) =>
    LET first == ElementOffset(r, i) IN
      /\ (first + ElementBytes(r) - 1) \div Granularity < Reserved(r)
      /\ i > 0 => ElementOffset(r, i - 1) + ElementBytes(r) <= first

\* For every vector the program makes: whatever was appended, the two sides agree where
\* each element lies, and that it lies inside the reservation.
LayoutAgrees == LayoutSound /\ HeldApart
===============================================================================
