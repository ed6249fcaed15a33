------------------------ MODULE HostVisibility_proofs ------------------------
(***************************************************************************)
(* Proofs about what the host's visible sets are computed with: the flags  *)
(* of dynamic visibility (DynamicVis), for any finite number of groups,    *)
(* any cells and any interleaving of the game, its frames and the host;    *)
(* and the horizon table and its gate (HorizonRuntime), for any eyes,      *)
(* parameters and thresholds and any pace of the worker thread.            *)
(*                                                                         *)
(* Dynamic visibility: the flags of the last scan always tell what the     *)
(* client remembers; as long as nothing was disturbed, a group on which    *)
(* the two sides differ has a flag the host has not reached yet.  Horizon: *)
(* the requests under way are ordered, and each is for the field and the   *)
(* parameters in force unless its generation is old.                       *)
(***************************************************************************)
EXTENDS DynamicVis, HorizonRuntime, TLAPS

-----------------------------------------------------------------------------
(* Dynamic visibility.                                                     *)

(* The flags that are published, or about to be.                           *)
Listed == IF pc = "count" THEN 1..(size + 1) ELSE 1..size

Flag == [group : Groups, enable : BOOLEAN]
Spent == [timeouts : Nat, changes : Nat, quiet : BOOLEAN]

VisTyped ==
  /\ VisTypeOK /\ flags \in Seq(Flag) /\ spent \in Spent
  /\ size \in Nat /\ size <= Len(flags) /\ (pc = "count" => size < Len(flags))
  /\ scanned \in Nat

(* They are those of the state the client remembers, of groups the scan    *)
(* has been at.                                                            *)
FlagsAsEnabled ==
  \A i \in Listed : enabled[flags[i].group] = flags[i].enable /\ flags[i].group <= scanned

(* The update on its way, and how much of it the host has applied.         *)
OnItsWay == pc \in {"scan", "count", "send"} \/ command = "dynvis"
Applied == IF command = "dynvis" THEN index ELSE 0

(* Nobody scans while an update is in flight.                              *)
OneUpdate == Undisturbed /\ pc # "query" => command # "dynvis"

(* The host reads what it found to be there, and was written once.         *)
Reads ==
  /\ reading => command = "dynvis" /\ index < Len(flags)
  /\ reading /\ Undisturbed => index < size

(* What the two sides differ on is still to be applied.                    *)
Awaited ==
  Undisturbed => \A g \in Groups :
    shown[g] = enabled[g] \/ (OnItsWay /\ \E i \in Listed : i > Applied /\ flags[i].group = g)

VisInv == VisTyped /\ FlagsAsEnabled /\ OneUpdate /\ Reads /\ Awaited

---------------------------------------------------------------------------
(* Between frames the game changes nothing the two sides agree on.         *)
LEMMA ChangesCounted ==
  ASSUME VisInv, VisChanges
  PROVE  spent' \in Spent /\ (Undisturbed' <=> Undisturbed)
<1> DEFINE c == spent.changes + 1
<1>1. spent \in Spent /\ c \in Nat /\ spent' = [spent EXCEPT !.changes = c]
  BY DEF VisInv, VisTyped, VisChanges, Spent
<1> HIDE DEF c
<1> QED
  BY <1>1 DEF Undisturbed, Spent

LEMMA GameKeeps == ASSUME DynamicVisAssumption, VisInv, Game PROVE VisInv'
<1>1. /\ spent' \in Spent /\ (Undisturbed' <=> Undisturbed)
      /\ UNCHANGED <<enabled, pc, scanned, flags, size, command, index, reading, shown>>
  BY ChangesCounted DEF Game, SetGameData, Walk, LoadSave, client, host
<1>2. /\ inRange' \in [Groups -> BOOLEAN] /\ resolved' \subseteq Groups
      /\ at' \in Cells /\ lastCell' \in Cells \cup {NoCell}
  <2>1. /\ inRange \in [Groups -> BOOLEAN] /\ resolved \subseteq Groups
        /\ at \in Cells /\ lastCell \in Cells \cup {NoCell}
    BY DEF VisInv, VisTyped, VisTypeOK
  <2>2. CASE \E g \in Groups : SetGameData(g)
    BY <2>1, <2>2 DEF SetGameData, client
  <2>3. CASE \E c \in Cells : Walk(c)
    BY <2>1, <2>3 DEF Walk, client
  <2>4. CASE \E objects \in SUBSET Groups : LoadSave(objects)
    BY <2>1, <2>4 DEF LoadSave
  <2> QED
    BY <2>2, <2>3, <2>4 DEF Game
<1>3. VisTyped'
  BY <1>1, <1>2 DEF VisInv, VisTyped, VisTypeOK
<1> QED
  BY <1>1, <1>3 DEF VisInv, FlagsAsEnabled, OneUpdate, Reads, Awaited, OnItsWay, Applied, Listed

---------------------------------------------------------------------------
(* A scan finds no update in flight, unless something was disturbed, and   *)
(* flags whatever it makes the two sides differ on.                        *)
LEMMA ScanKeeps == ASSUME DynamicVisAssumption, VisInv, Scan PROVE VisInv'
<1>1. /\ pc = "frame" /\ pc' = "scan" /\ size' = 0 /\ scanned' = 0
      /\ UNCHANGED <<inRange, resolved, enabled, at, lastCell, flags, command, index, reading, shown, spent>>
  BY DEF Scan, host
<1>2. VisTyped' /\ (Undisturbed' <=> Undisturbed) /\ Listed' = {}
  <2>1. Len(flags) \in Nat /\ 0 \in 0..GroupCount /\ 0 \in 0..Len(flags)
    <3>1. Len(flags) \in Nat /\ GroupCount \in Nat
      BY DEF DynamicVisAssumption, VisInv, VisTyped
    <3> QED
      BY <3>1
  <2> QED
    BY <1>1, <2>1 DEF VisInv, VisTyped, VisTypeOK, Undisturbed, Listed
<1>3. Undisturbed => command # "dynvis"
  BY <1>1 DEF VisInv, OneUpdate
<1>4. Awaited'
  BY <1>1, <1>2, <1>3 DEF VisInv, Awaited, OnItsWay
<1> QED
  BY <1>1, <1>2, <1>3, <1>4 DEF VisInv, FlagsAsEnabled, OneUpdate, Reads

(* What is stored leaves the flags before it as they are.                  *)
LEMMA FlagIs ==
  ASSUME NEW s \in Seq(Flag), NEW i \in 1..Len(s)
  PROVE  s[i] \in Flag /\ s[i].group \in Groups /\ s[i].group \in Int /\ s[i].enable \in BOOLEAN
<1>1. s[i] \in Flag
  OBVIOUS
<1>2. s[i].group \in Groups /\ s[i].enable \in BOOLEAN
  BY <1>1 DEF Flag
<1> QED
  BY <1>1, <1>2 DEF Groups

LEMMA ListedFlagIs ==
  ASSUME VisTyped, NEW i \in 1..size
  PROVE  flags[i] \in Flag /\ flags[i].group \in Groups /\ flags[i].group \in Int
<1>1. flags \in Seq(Flag) /\ i \in 1..Len(flags)
  BY DEF VisTyped
<1> QED
  BY <1>1, FlagIs

LEMMA StoredIs ==
  ASSUME VisTyped, pc = "scan", NEW flag \in Flag
  PROVE  /\ Stored(flag) \in Seq(Flag) /\ Len(Stored(flag)) \in Nat /\ size < Len(Stored(flag))
         /\ Len(flags) <= Len(Stored(flag))
         /\ Stored(flag)[size + 1] = flag
         /\ \A i \in 1..size : Stored(flag)[i] = flags[i]
<1>1. flags \in Seq(Flag) /\ size \in Nat /\ size <= Len(flags)
  BY DEF VisTyped
<1>2. CASE size < Len(flags)
  <2>1. Stored(flag) = [flags EXCEPT ![size + 1] = flag]
    BY <1>2 DEF Stored
  <2>2. Len(Stored(flag)) = Len(flags) /\ Stored(flag) \in Seq(Flag)
    <3>1. flags \in [1..Len(flags) -> Flag] /\ Len(flags) \in Nat
      BY <1>1
    <3>2. Stored(flag) \in [1..Len(flags) -> Flag]
      BY <2>1, <3>1
    <3> HIDE DEF Stored
    <3> QED
      BY <3>1, <3>2
  <2>3. size + 1 \in DOMAIN flags /\ \A i \in 1..size : i \in DOMAIN flags /\ i # size + 1
    BY <1>1, <1>2
  <2> QED
    BY <1>1, <1>2, <2>1, <2>2, <2>3
<1>3. CASE ~(size < Len(flags))
  <2>1. Stored(flag) = Append(flags, flag) /\ Len(flags) = size
    BY <1>1, <1>3 DEF Stored
  <2> QED
    BY <1>1, <2>1
<1> QED
  BY <1>2, <1>3

LEMMA CompareKeeps == ASSUME DynamicVisAssumption, VisInv, Compare PROVE VisInv'
<1> DEFINE g == scanned + 1
           flag == [group |-> g, enable |-> inRange[g]]
<1>1. /\ GroupCount \in Nat /\ scanned \in Nat /\ scanned < GroupCount /\ g \in Groups
      /\ pc = "scan" /\ scanned' = g /\ flag \in Flag
      /\ VisTyped /\ enabled \in [Groups -> BOOLEAN] /\ Listed = 1..size /\ size \in Nat
  BY DEF DynamicVisAssumption, Compare, NextGroup, VisInv, VisTyped, VisTypeOK, Groups, Flag, Listed
<1>2. UNCHANGED <<inRange, resolved, at, lastCell, size, command, index, reading, shown, spent>>
  BY DEF Compare, host
<1>3. (Undisturbed' <=> Undisturbed) /\ (Undisturbed => command # "dynvis") /\ (Undisturbed => ~reading)
  BY <1>1, <1>2 DEF Undisturbed, VisInv, OneUpdate, Reads
<1>4. CASE ~Changed(g)
  <2>1. UNCHANGED <<enabled, flags, pc>>
    BY <1>4 DEF Compare, NextGroup
  <2>2. VisTyped' /\ Listed' = Listed
    BY <1>1, <1>2, <2>1 DEF VisTyped, VisTypeOK, Listed, Groups
  <2>3. FlagsAsEnabled'
    <3>1. \A i \in Listed : flags[i].group \in Groups
      BY <1>1, ListedFlagIs
    <3> QED
      BY <1>1, <2>1, <2>2, <3>1 DEF VisInv, FlagsAsEnabled, Groups
  <2>4. OneUpdate' /\ Reads' /\ Awaited'
    BY <1>1, <1>2, <1>3, <2>1, <2>2 DEF VisInv, OneUpdate, Reads, Awaited, OnItsWay, Applied
  <2> QED
    BY <2>2, <2>3, <2>4 DEF VisInv
<1>5. CASE Changed(g)
  <2>1. enabled' = [enabled EXCEPT ![g] = inRange[g]] /\ flags' = Stored(flag) /\ pc' = "count"
    BY <1>5 DEF Compare, NextGroup
  <2>2. /\ flags' \in Seq(Flag) /\ Len(flags') \in Nat /\ size < Len(flags') /\ Len(flags) <= Len(flags')
        /\ flags'[size + 1] = flag /\ \A i \in 1..size : flags'[i] = flags[i]
    BY <1>1, <2>1, StoredIs
  <2>3. Listed' = 1..(size + 1) /\ \A i \in Listed' : i \in Listed \/ i = size + 1
    BY <1>1, <1>2, <2>1 DEF Listed
  <2> HIDE DEF flag
  <2>4. inRange[g] \in BOOLEAN
    BY <1>1 DEF VisTyped, VisTypeOK
  <2>5. enabled' \in [Groups -> BOOLEAN] /\ enabled'[g] = inRange[g] /\ \A h \in Groups : h # g => enabled'[h] = enabled[h]
    BY <1>1, <2>1, <2>4
  <2>6. \A i \in DOMAIN flags' : flags'[i] \in [group : Groups, enable : BOOLEAN]
    <3>1. DOMAIN flags' = 1..Len(flags')
      BY <2>2
    <3> QED
      BY <2>2, <3>1, FlagIs DEF Flag
  <2>7. VisTyped'
    BY <1>1, <1>2, <2>1, <2>2, <2>5, <2>6 DEF VisTyped, VisTypeOK, Groups
  <2>8. FlagsAsEnabled'
    <3>1. SUFFICES ASSUME NEW i \in Listed'
                   PROVE  enabled'[flags'[i].group] = flags'[i].enable /\ flags'[i].group <= g
      BY <1>1 DEF FlagsAsEnabled
    <3>2. CASE i \in Listed
      <4>1. flags'[i] = flags[i] /\ flags[i].group <= scanned /\ flags[i].enable = enabled[flags[i].group]
        BY <1>1, <2>2, <3>2 DEF VisInv, FlagsAsEnabled
      <4>2. flags[i].group \in Groups /\ flags[i].group \in Int
        BY <1>1, <3>2, ListedFlagIs
      <4> QED
        BY <1>1, <2>5, <4>1, <4>2
    <3>3. CASE i = size + 1
      BY <1>1, <2>2, <2>5, <3>3 DEF flag
    <3> QED
      BY <2>3, <3>2, <3>3
  <2>9. OneUpdate' /\ Reads'
    BY <1>1, <1>2, <1>3, <2>2 DEF VisInv, VisTyped, VisTypeOK, OneUpdate, Reads
  <2>10. Awaited'
    <3>1. SUFFICES ASSUME Undisturbed, NEW h \in Groups, shown[h] # enabled'[h]
                   PROVE  \E i \in Listed' : i > 0 /\ flags'[i].group = h
      BY <1>2, <1>3, <2>1 DEF Awaited, OnItsWay, Applied
    <3>2. CASE h = g
      BY <1>1, <2>2, <2>3, <3>2 DEF flag
    <3>3. CASE h # g
      <4>1. PICK i \in Listed : i > 0 /\ flags[i].group = h
        BY <1>1, <1>3, <2>5, <3>1, <3>3 DEF VisInv, Awaited, Applied
      <4> QED
        BY <1>1, <2>2, <2>3, <4>1
    <3> QED
      BY <3>2, <3>3
  <2> QED
    BY <2>7, <2>8, <2>9, <2>10 DEF VisInv
<1> QED
  BY <1>4, <1>5

LEMMA CountKeeps == ASSUME VisInv, Count PROVE VisInv'
<1>1. /\ pc = "count" /\ pc' = "scan" /\ size' = size + 1 /\ size \in Nat /\ size < Len(flags)
      /\ UNCHANGED <<inRange, resolved, enabled, at, lastCell, scanned, flags, command, index, reading, shown, spent>>
  BY DEF Count, host, VisInv, VisTyped
<1>2. VisTyped' /\ Listed' = Listed /\ (Undisturbed' <=> Undisturbed)
  BY <1>1 DEF VisInv, VisTyped, VisTypeOK, Listed, Undisturbed
<1>3. Undisturbed => command # "dynvis" /\ ~reading
  BY <1>1 DEF VisInv, OneUpdate, Reads
<1> QED
  BY <1>1, <1>2, <1>3 DEF VisInv, FlagsAsEnabled, OneUpdate, Reads, Awaited, OnItsWay, Applied

LEMMA ScanEndsKeeps == ASSUME VisInv, ScanEnds PROVE VisInv'
<1>1. /\ pc = "scan" /\ pc' = (IF size = 0 THEN "query" ELSE "send") /\ lastCell' = at
      /\ UNCHANGED <<inRange, resolved, enabled, at, scanned, flags, size, command, index, reading, shown, spent>>
  BY DEF ScanEnds, host
<1>2. VisTyped' /\ Listed' = Listed /\ Listed = 1..size /\ (Undisturbed' <=> Undisturbed)
  BY <1>1 DEF VisInv, VisTyped, VisTypeOK, Listed, Undisturbed
<1>3. Awaited'
  <2>1. CASE size = 0
    BY <1>1, <1>2, <2>1 DEF VisInv, Awaited
  <2>2. CASE size # 0
    BY <1>1, <1>2, <2>2 DEF VisInv, Awaited, OnItsWay, Applied
  <2> QED
    BY <2>1, <2>2
<1> QED
  BY <1>1, <1>2, <1>3 DEF VisInv, FlagsAsEnabled, OneUpdate, Reads

(* The other steps of a frame.                                             *)
LEMMA GivesUp ==
  ASSUME VisInv, spent' = [spent EXCEPT !.timeouts = @ + 1]
  PROVE  spent' \in Spent /\ ~Undisturbed'
<1> DEFINE t == spent.timeouts + 1
<1>1. spent \in Spent /\ t \in Nat /\ t # 0 /\ spent' = [spent EXCEPT !.timeouts = t]
  BY DEF VisInv, VisTyped, Spent
<1> HIDE DEF t
<1> QED
  BY <1>1 DEF Undisturbed, Spent

LEMMA AsksKeep == ASSUME VisInv, UpdateDynVis \/ VisQuery PROVE VisInv'
<1>1. /\ UNCHANGED <<inRange, resolved, enabled, at, lastCell, scanned, flags, size, reading, shown>>
      /\ pc \in {"send", "query"} /\ pc' \in {"query", "frame"} /\ Listed' = Listed
  BY DEF UpdateDynVis, VisQuery, Listed
<1>2. CASE command = "none"
  <2>1. /\ spent' = spent /\ index' = 0 /\ ~reading
        /\ \/ pc = "send" /\ command' = "dynvis" /\ pc' = "query"
           \/ pc = "query" /\ command' = "visible" /\ pc' = "frame"
    BY <1>2 DEF UpdateDynVis, VisQuery, Waits, Starts, VisInv, Reads
  <2>2. VisTyped' /\ FlagsAsEnabled' /\ Reads' /\ (Undisturbed' <=> Undisturbed)
    BY <1>1, <2>1 DEF VisInv, VisTyped, VisTypeOK, FlagsAsEnabled, Undisturbed, Reads
  <2>3. OneUpdate' /\ Awaited'
    BY <1>1, <1>2, <2>1, <2>2 DEF VisInv, OneUpdate, Awaited, OnItsWay, Applied
  <2> QED
    BY <2>2, <2>3 DEF VisInv
<1>3. CASE command # "none"
  <2>1. spent' = [spent EXCEPT !.timeouts = @ + 1] /\ command' = command /\ index' = index
    BY <1>3 DEF UpdateDynVis, VisQuery, Waits
  <2>2. spent' \in Spent /\ ~Undisturbed'
    BY <2>1, GivesUp
  <2>3. VisTyped' /\ FlagsAsEnabled' /\ Reads'
    BY <1>1, <2>1, <2>2 DEF VisInv, VisTyped, VisTypeOK, FlagsAsEnabled, Reads
  <2> QED
    BY <2>2, <2>3 DEF VisInv, OneUpdate, Awaited
<1> QED
  BY <1>2, <1>3

LEMMA FramesKeep == ASSUME VisInv, SameCell \/ QuietFrame PROVE VisInv'
<1>1. /\ UNCHANGED <<inRange, resolved, enabled, at, lastCell, scanned, flags, size, command, index, reading, shown>>
      /\ pc \in {"frame", "query"} /\ pc' \in {"query", "frame"} /\ Listed' = Listed
  BY DEF SameCell, QuietFrame, host, Listed
<1>2. /\ spent' \in Spent /\ (Undisturbed' => Undisturbed)
      /\ Undisturbed' => pc' = "query" \/ command # "dynvis"
  <2>1. CASE SameCell
    BY <2>1 DEF SameCell, VisInv, VisTyped, Undisturbed
  <2>2. CASE QuietFrame
    BY <2>2 DEF QuietFrame, VisInv, VisTyped, Undisturbed, Spent
  <2> QED
    BY <2>1, <2>2
<1>3. VisTyped' /\ FlagsAsEnabled' /\ Reads'
  BY <1>1, <1>2 DEF VisInv, VisTyped, VisTypeOK, FlagsAsEnabled, Reads
<1>4. OneUpdate' /\ Awaited'
  BY <1>1, <1>2 DEF VisInv, OneUpdate, Awaited, OnItsWay, Applied
<1> QED
  BY <1>3, <1>4 DEF VisInv

---------------------------------------------------------------------------
(* The host: what it applies is what the client remembers.                 *)
LEMMA TestSizeKeeps == ASSUME VisInv, TestSize PROVE VisInv'
<1>1. /\ command = "dynvis" /\ index < size /\ reading' = TRUE
      /\ UNCHANGED <<inRange, resolved, enabled, at, lastCell, pc, scanned, flags, size, command, index, shown, spent>>
  BY DEF TestSize, client
<1>2. index \in Nat /\ size \in Nat /\ size <= Len(flags) /\ Len(flags) \in Nat
  BY DEF VisInv, VisTyped, VisTypeOK
<1>3. VisTyped' /\ Reads' /\ (Undisturbed' <=> Undisturbed) /\ Listed' = Listed
  BY <1>1, <1>2 DEF VisInv, VisTyped, VisTypeOK, Reads, Undisturbed, Listed
<1> QED
  BY <1>1, <1>3 DEF VisInv, FlagsAsEnabled, OneUpdate, Awaited, OnItsWay, Applied

LEMMA AppliesEnabled ==
  ASSUME VisInv, UpdateDynVisOne
  PROVE  /\ command = "dynvis" /\ index \in Nat /\ flags[index + 1] \in Flag
         /\ Undisturbed => /\ pc = "query" /\ index + 1 \in Listed
                           /\ flags[index + 1].enable = enabled[flags[index + 1].group]
<1>1. index \in Nat /\ index < Len(flags) /\ flags \in Seq(Flag) /\ command = "dynvis" /\ size \in Nat
  BY DEF UpdateDynVisOne, VisInv, VisTyped, VisTypeOK, Reads
<1>2. flags[index + 1] \in Flag
  BY <1>1
<1>3. ASSUME Undisturbed
      PROVE  pc = "query" /\ index + 1 \in Listed
  BY <1>1, <1>3 DEF UpdateDynVisOne, VisInv, OneUpdate, Reads, Listed
<1> QED
  BY <1>1, <1>2, <1>3 DEF VisInv, FlagsAsEnabled

LEMMA UpdateDynVisOneKeeps == ASSUME VisInv, UpdateDynVisOne PROVE VisInv'
<1> DEFINE g == flags[index + 1].group
           e == flags[index + 1].enable
<1>1. /\ g \in Groups /\ e \in BOOLEAN /\ index \in Nat /\ command = "dynvis"
      /\ Undisturbed => pc = "query" /\ index + 1 \in Listed /\ e = enabled[g]
  BY AppliesEnabled DEF Flag
<1>2. /\ shown' = [shown EXCEPT ![g] = e] /\ index' = index + 1 /\ reading' = FALSE
      /\ UNCHANGED <<inRange, resolved, enabled, at, lastCell, pc, scanned, flags, size, command, spent>>
  BY DEF UpdateDynVisOne, client
<1> HIDE DEF g, e
<1>3. VisTyped' /\ FlagsAsEnabled' /\ OneUpdate' /\ Reads' /\ (Undisturbed' <=> Undisturbed) /\ Listed' = Listed
  <2>1. shown' \in [Groups -> BOOLEAN]
    BY <1>1, <1>2 DEF VisInv, VisTyped, VisTypeOK
  <2>2. VisTyped'
    <3>1. index' \in Nat
      BY <1>1, <1>2
    <3>2. reading' \in BOOLEAN
      BY <1>2
    <3>3. VisTypeOK'
      BY <1>2, <2>1, <3>1, <3>2 DEF VisInv, VisTyped, VisTypeOK
    <3> QED
      BY <1>2, <3>3 DEF VisInv, VisTyped
  <2>3. Listed' = Listed /\ (Undisturbed' <=> Undisturbed)
    BY <1>2 DEF Listed, Undisturbed
  <2> QED
    BY <1>2, <2>2, <2>3 DEF VisInv, FlagsAsEnabled, OneUpdate, Reads
<1>4. Awaited'
  <2>1. SUFFICES ASSUME Undisturbed, NEW h \in Groups, shown'[h] # enabled[h]
                 PROVE  \E i \in Listed : i > index + 1 /\ flags[i].group = h
    BY <1>1, <1>2, <1>3 DEF Awaited, OnItsWay, Applied
  <2>2. h # g /\ shown[h] # enabled[h]
    BY <1>1, <1>2, <2>1 DEF VisInv, VisTyped, VisTypeOK
  <2>3. PICK i \in Listed : i > index /\ flags[i].group = h
    BY <1>1, <2>1, <2>2 DEF VisInv, Awaited, Applied
  <2>4. i # index + 1 /\ i \in Int
    <3>1. i \in Int
      BY DEF Listed, VisInv, VisTyped
    <3> QED
      BY <2>2, <2>3, <3>1 DEF g
  <2> QED
    BY <1>1, <2>3, <2>4
<1> QED
  BY <1>3, <1>4 DEF VisInv

LEMMA AnswerKeeps == ASSUME VisInv, Answer PROVE VisInv'
<1>1. /\ command # "none" /\ (command = "dynvis" => index >= size) /\ command' = "none" /\ index' = 0 /\ ~reading
      /\ UNCHANGED <<inRange, resolved, enabled, at, lastCell, pc, scanned, flags, size, reading, shown, spent>>
  BY DEF Answer, client
<1>2. VisTyped' /\ FlagsAsEnabled' /\ OneUpdate' /\ Reads' /\ (Undisturbed' <=> Undisturbed) /\ Listed' = Listed
  BY <1>1 DEF VisInv, VisTyped, VisTypeOK, FlagsAsEnabled, OneUpdate, Reads, Undisturbed, Listed
<1>3. Awaited'
  <2>1. CASE command = "dynvis"
    <3>1. Undisturbed => \A i \in Listed : ~(i > Applied)
      BY <1>1, <2>1 DEF VisInv, VisTyped, VisTypeOK, OneUpdate, Applied, Listed
    <3> QED
      BY <1>1, <1>2, <3>1 DEF VisInv, Awaited
  <2>2. CASE command # "dynvis"
    BY <1>1, <1>2, <2>2 DEF VisInv, Awaited, OnItsWay, Applied
  <2> QED
    BY <2>1, <2>2
<1> QED
  BY <1>2, <1>3 DEF VisInv

---------------------------------------------------------------------------
LEMMA VisInitEstablishes == ASSUME DynamicVisAssumption, VisInit PROVE VisInv
<1>1. VisTyped /\ Listed = {}
  <2>1. /\ flags = <<>> /\ <<>> \in Seq(Flag) /\ Len(<<>>) = 0 /\ DOMAIN <<>> = {}
        /\ size = 0 /\ scanned = 0 /\ 0 \in 0..0 /\ 0 \in 0..GroupCount /\ pc = "frame"
    BY DEF VisInit, DynamicVisAssumption
  <2>2. spent \in Spent
    BY DEF VisInit, Spent
  <2>3. /\ inRange \in [Groups -> BOOLEAN] /\ enabled \in [Groups -> BOOLEAN] /\ shown \in [Groups -> BOOLEAN]
        /\ resolved \subseteq Groups /\ at \in Cells /\ lastCell = NoCell
        /\ reading = FALSE /\ index = 0 /\ command = "none"
    BY DEF VisInit
  <2>4. VisTypeOK
    BY <2>1, <2>3 DEF VisTypeOK
  <2>5. Listed = {}
    BY <2>1 DEF Listed
  <2> QED
    BY <2>1, <2>2, <2>4, <2>5 DEF VisTyped
<1> QED
  BY <1>1 DEF VisInit, VisInv, FlagsAsEnabled, OneUpdate, Reads, Awaited

LEMMA VisNextKeeps == ASSUME DynamicVisAssumption, VisInv, [VisNext]_visVars PROVE VisInv'
<1>1. CASE UNCHANGED visVars
  BY <1>1 DEF visVars, client, host, VisInv, VisTyped, VisTypeOK, FlagsAsEnabled, OneUpdate, Reads, Awaited,
              OnItsWay, Applied, Undisturbed, Listed
<1>2. CASE VisNext
  BY <1>2, GameKeeps, ScanKeeps, CompareKeeps, CountKeeps, ScanEndsKeeps, AsksKeep, FramesKeep,
     TestSizeKeeps, UpdateDynVisOneKeeps, AnswerKeeps
  DEF VisNext, Render, Host
<1> QED
  BY <1>1, <1>2

(* Every reachable state satisfies the inductive invariant.                *)
THEOREM VisInvariance == VisSpec => []VisInv
<1>1. DynamicVisAssumption
  BY DynamicVisAssumption
<1>2. VisInit => VisInv
  BY <1>1, VisInitEstablishes
<1>3. VisInv /\ [VisNext]_visVars => VisInv'
  BY <1>1, VisNextKeeps
<1> QED
  BY <1>2, <1>3, PTL DEF VisSpec

(* With nothing to send and nothing in flight the host draws what the      *)
(* client remembers, unless a wait gave up or a quiet frame went on while  *)
(* an update was in flight (scanDynamicVisGroups, updateDynVis); and it    *)
(* never reads memory that was not written.                                *)
THEOREM HostFollowsClient == VisSpec => []SidesFollow
<1>1. ASSUME VisInv
      PROVE  HostFollows
  <2>1. ASSUME Undisturbed, command = "none", pc \in {"frame", "query"}
        PROVE  \A g \in Groups : shown[g] = enabled[g]
    BY <1>1, <2>1 DEF VisInv, Awaited, OnItsWay
  <2>2. shown \in [Groups -> BOOLEAN] /\ enabled \in [Groups -> BOOLEAN]
    BY <1>1 DEF VisInv, VisTyped, VisTypeOK
  <2> QED
    BY <2>1, <2>2 DEF HostFollows
<1>2. VisInv => SidesFollow
  BY <1>1 DEF VisInv, VisTyped, Reads, SidesFollow, ReadsWhatWasWritten
<1> QED
  BY <1>2, VisInvariance, PTL

(* Unless disturbed, the vector is not refilled under the host's walk, and *)
(* the host puts no group into a state that is out of date.                *)
THEOREM UpdatesComeInOrder == VisSpec => UpdatesInOrder
<1>1. ASSUME VisInv, [VisNext]_visVars
      PROVE  Undisturbed /\ <<flags, size>>' # <<flags, size>> => command # "dynvis"
  <2>1. CASE Scan \/ Compare \/ Count
    BY <1>1, <2>1 DEF Scan, Compare, Count, VisInv, OneUpdate
  <2>2. <<flags, size>>' = <<flags, size>> \/ Scan \/ Compare \/ Count
    BY <1>1 DEF VisNext, visVars, client, Game, Render, Host, SetGameData, Walk, LoadSave, ScanEnds, SameCell,
                UpdateDynVis, VisQuery, QuietFrame, TestSize, UpdateDynVisOne, Answer
  <2> QED
    BY <2>1, <2>2
<1>2. ASSUME VisInv, [VisNext]_visVars
      PROVE  Undisturbed => \A g \in Groups : shown'[g] # shown[g] => shown'[g] = enabled[g]
  <2>1. CASE UpdateDynVisOne
    <3>1. /\ shown' = [shown EXCEPT ![flags[index + 1].group] = flags[index + 1].enable]
          /\ shown \in [Groups -> BOOLEAN]
      BY <1>2, <2>1 DEF UpdateDynVisOne, VisInv, VisTyped, VisTypeOK
    <3> QED
      BY <1>2, <2>1, <3>1, AppliesEnabled
  <2>2. shown' = shown \/ UpdateDynVisOne
    BY <1>2 DEF VisNext, visVars, host, Game, Render, Host, SetGameData, Walk, LoadSave, Scan, Compare, Count, ScanEnds,
                SameCell, UpdateDynVis, VisQuery, QuietFrame, TestSize, Answer
  <2> QED
    BY <2>1, <2>2
<1> QED
  BY <1>1, <1>2, VisInvariance, PTL DEF VisSpec, UpdatesInOrder, WalkUndisturbed, NeverStale

-----------------------------------------------------------------------------
(* The horizon table: the gate and the requests to the worker.             *)

Gates ==
  [enabled : BOOLEAN, state : {"inactive", "active", "warming", "suspendedLowBenefit", "suspendedFast"},
   probing : BOOLEAN, frames : 0..(EvalWindow - 1), gain : Nat, lowWindows : 0..(SuspendWindows - 1),
   lastEye : Eyes \cup {NoEye}, fast : Seq(BOOLEAN), moved : 0..(MoveTrigger - 1),
   suspendedFor : Nat, timed : BOOLEAN, backoff : ProbeInterval..BackoffCap,
   warmFrames : 0..(WarmTimeout - 1), warmPosted : BOOLEAN]

Made == [made : {TRUE}, table : Tables, sameEpoch : BOOLEAN, newest : BOOLEAN]

(* The requests under way: each is for the field and the parameters in     *)
(* force unless its generation is old, and only the last one posted can be *)
(* the newest; the mailbox holds a later one than the thread, the thread a *)
(* later one than the result slot.                                         *)
Fits(r) == (r.made /\ r.sameEpoch) => (r.table.field = field /\ r.table.params = params)
InOrder(m, b, r) ==
  /\ {m, b, r} \subseteq Made \cup {NoRequest}
  /\ Fits(m) /\ Fits(b) /\ Fits(r)
  /\ m.made => ~(b.made /\ b.newest)
  /\ m.made \/ b.made => ~(r.made /\ r.newest)
UnderWay(requests) == \E r \in requests : r.made /\ r.newest /\ r.sameEpoch

(* A table in use was made from what is in force and is near enough, a     *)
(* pending build is the newest, and a frame that asked keeps its eye.      *)
IInv ==
  /\ eye \in Eyes /\ field \in 0..(MaxChanges + 1) /\ culling \in BOOLEAN /\ params \in ParamSets
  /\ cached \in Tables \cup {NoTable} /\ pending \in NoFrames..MaxPending
  /\ spawned \in BOOLEAN /\ frameEye \in Eyes \cup {NoEye} /\ frameGain \in 0..MaxGain
  /\ changes \in 0..MaxChanges /\ gate \in Gates
  /\ cached.made => cached.field = field /\ cached.params = params
  /\ InOrder(mailbox, building, result)
  /\ pending # NoFrames => UnderWay({mailbox, building, result})
  /\ frameEye # NoEye => frameEye = eye /\ culling
  /\ UsedTableFits

-----------------------------------------------------------------------------
(* The gate.                                                               *)

LEMMA MinIs ==
  ASSUME NEW a \in Int, NEW b \in Int
  PROVE  Min({a, b}) = IF a <= b THEN a ELSE b
<1>1. \E x \in {a, b} : \A y \in {a, b} : x <= y
  OBVIOUS
<1>2. Min({a, b}) \in {a, b} /\ Min({a, b}) <= a /\ Min({a, b}) <= b
  BY <1>1 DEF Min
<1> QED
  BY <1>2

LEMMA DistanceTyped ==
  ASSUME NEW a \in Int, NEW b \in Int
  PROVE  Distance(a, b) \in Nat /\ Distance(a, a) = 0
  BY DEF Distance

LEMMA GatesAre ==
  /\ EvalWindow \in Nat \ {0} /\ SuspendWindows \in Nat \ {0} /\ ProbeInterval \in Nat \ {0}
  /\ MoveTrigger \in Nat \ {0} /\ WarmTimeout \in Nat \ {0} /\ BackoffCap \in Nat
  /\ GainFloor \in Nat /\ ProbeInterval <= BackoffCap
  /\ 0 \in 0..(EvalWindow - 1) /\ 0 \in 0..(SuspendWindows - 1) /\ 0 \in 0..(MoveTrigger - 1)
  /\ 0 \in 0..(WarmTimeout - 1) /\ ProbeInterval \in ProbeInterval..BackoffCap
  BY GateAssumption

(* The fields of a gate, by themselves: 0..(n - 1) stays closed.           *)
LEMMA Fields ==
  ASSUME NEW g \in Gates
  PROVE  /\ g.frames \in Nat /\ g.lowWindows \in Nat /\ g.moved \in Nat /\ g.warmFrames \in Nat
         /\ g.frames + 1 < EvalWindow => g.frames + 1 \in 0..(EvalWindow - 1)
         /\ g.lowWindows + 1 < SuspendWindows => g.lowWindows + 1 \in 0..(SuspendWindows - 1)
         /\ g.warmFrames + 1 < WarmTimeout => g.warmFrames + 1 \in 0..(WarmTimeout - 1)
         /\ \A d \in Nat : g.moved + d < MoveTrigger => g.moved + d \in 0..(MoveTrigger - 1)
         /\ \A d \in Nat : g.gain + d \in Nat
<1>1. /\ g.frames \in 0..(EvalWindow - 1) /\ g.lowWindows \in 0..(SuspendWindows - 1)
      /\ g.moved \in 0..(MoveTrigger - 1) /\ g.warmFrames \in 0..(WarmTimeout - 1) /\ g.gain \in Nat
  BY DEF Gates
<1> QED
  BY <1>1, GatesAre

LEMMA ResetCountersTyped ==
  ASSUME NEW g \in Gates
  PROVE  /\ ResetEval(g) \in Gates /\ ResetCounters(g) \in Gates
         /\ ResetEval(g).state = g.state /\ ResetCounters(g).state = g.state
         /\ ResetEval(g).enabled = g.enabled /\ ResetCounters(g).enabled = g.enabled
  BY GatesAre DEF Gates, ResetEval, ResetCounters

LEMMA ResetTrackingTyped ==
  ASSUME NEW g \in Gates
  PROVE  ResetTracking(g) \in Gates
<1>1. ResetCounters(g) \in Gates
  BY ResetCountersTyped
<1>2. <<>> \in Seq(BOOLEAN)
  OBVIOUS
<1>3. [ResetCounters(g) EXCEPT !.lastEye = NoEye, !.fast = <<>>, !.backoff = ProbeInterval] \in Gates
  <2> DEFINE r == ResetCounters(g)
             empty == <<>>
  <2>1. r \in Gates /\ empty \in Seq(BOOLEAN) /\ ProbeInterval \in ProbeInterval..BackoffCap
    BY <1>1, <1>2, GatesAre
  <2> HIDE DEF r, empty
  <2>2. [r EXCEPT !.lastEye = NoEye, !.fast = empty, !.backoff = ProbeInterval] \in Gates
    BY <2>1 DEF Gates
  <2> QED
    BY <2>2 DEF r, empty
<1> QED
  BY <1>3 DEF ResetTracking

LEMMA BecomeTyped ==
  ASSUME NEW g \in Gates, NEW probing \in BOOLEAN,
         NEW state \in {"inactive", "active", "warming", "suspendedLowBenefit", "suspendedFast"}
  PROVE  Become(g, state, probing) \in Gates
  BY DEF Gates, Become

LEMMA EnterWarmingTyped ==
  ASSUME NEW g \in Gates
  PROVE  EnterWarming(g) \in Gates
  BY ResetCountersTyped, BecomeTyped DEF EnterWarming

LEMMA SuspendTyped ==
  ASSUME NEW g \in Gates, NEW failed \in BOOLEAN
  PROVE  Suspend(g, failed) \in Gates
<1> DEFINE r == ResetCounters(g)
           b == IF failed THEN Doubled(r.backoff) ELSE r.backoff
<1>1. r \in Gates
  BY ResetCountersTyped
<1>2. r.backoff \in ProbeInterval..BackoffCap
  BY <1>1 DEF Gates
<1>3. Doubled(r.backoff) \in ProbeInterval..BackoffCap
  <2>1. 2 * r.backoff \in Int /\ BackoffCap \in Int
    BY <1>2, GatesAre
  <2>2. Doubled(r.backoff) = IF 2 * r.backoff <= BackoffCap THEN 2 * r.backoff ELSE BackoffCap
    BY <2>1, MinIs DEF Doubled
  <2> QED
    BY <1>2, <2>2, GatesAre
<1>4. b \in ProbeInterval..BackoffCap
  BY <1>2, <1>3
<1>5. [r EXCEPT !.backoff = b, !.timed = TRUE] \in Gates
  <2> HIDE DEF r, b
  <2> QED
    BY <1>1, <1>4 DEF Gates
<1>6. Suspend(g, failed) = Become([r EXCEPT !.backoff = b, !.timed = TRUE], "suspendedLowBenefit", FALSE)
  BY DEF Suspend
<1> QED
  BY <1>5, <1>6, BecomeTyped

(* What the runtime tells the gate keeps it typed.                         *)
LEMMA TellsTyped ==
  ASSUME NEW g \in Gates
  PROVE  /\ \A e \in BOOLEAN : SetEnabled(g, e) \in Gates
         /\ OnConfigChange(g) \in Gates /\ OnContextLost(g) \in Gates
         /\ OnContextAvailable(g) \in Gates /\ OnWarmBuildPosted(g) \in Gates
         /\ OnWarmAdopted(g) \in Gates
<1>1. \A e \in BOOLEAN : SetEnabled(g, e) \in Gates
  <2>1. TAKE e \in BOOLEAN
  <2>2. [g EXCEPT !.enabled = e] \in Gates
    BY DEF Gates
  <2>3. ResetTracking([g EXCEPT !.enabled = e]) \in Gates
    BY <2>2, ResetTrackingTyped
  <2> QED
    BY <2>3, BecomeTyped DEF SetEnabled
<1>2. OnConfigChange(g) \in Gates /\ OnContextAvailable(g) \in Gates
  BY EnterWarmingTyped DEF OnConfigChange, OnContextAvailable
<1>3. OnContextLost(g) \in Gates
  BY BecomeTyped, ResetTrackingTyped DEF OnContextLost
<1>4. OnWarmBuildPosted(g) \in Gates
  BY DEF OnWarmBuildPosted, Gates, IsWarming
<1>5. OnWarmAdopted(g) \in Gates
  <2>1. ResetEval(g) \in Gates
    BY ResetCountersTyped
  <2>2. [ResetEval(g) EXCEPT !.warmPosted = FALSE] \in Gates
    BY <2>1 DEF Gates
  <2> QED
    BY <2>2, BecomeTyped DEF OnWarmAdopted
<1> QED
  BY <1>1, <1>2, <1>3, <1>4, <1>5

(* So does a frame, in every state.                                        *)
LEMMA TickActiveTyped ==
  ASSUME NEW g \in Gates, NEW gain \in Nat
  PROVE  TickActive(g, gain) \in Gates
<1> DEFINE counted == [g EXCEPT !.frames = @ + 1, !.gain = @ + gain]
           zero == [g EXCEPT !.frames = 0, !.gain = 0]
           low == counted.lowWindows + 1
<1>1. /\ counted.frames = g.frames + 1 /\ counted.lowWindows = g.lowWindows /\ counted.backoff = g.backoff
      /\ g.frames \in Nat /\ g.lowWindows \in Nat
  BY DEF Gates
<1>2. zero \in Gates
  BY GatesAre DEF Gates
<1>3. ResetCounters(counted) = ResetCounters(zero)
  BY DEF ResetCounters, ResetEval, Gates
<1>4. \A failed \in BOOLEAN : Suspend(counted, failed) = Suspend(zero, failed)
  BY <1>3 DEF Suspend
<1>5. \A failed \in BOOLEAN : Suspend(counted, failed) \in Gates
  BY <1>2, <1>4, SuspendTyped
<1>6. CASE counted.frames < EvalWindow
  <2>1. counted \in Gates
    BY <1>1, <1>6, Fields DEF Gates
  <2> QED
    BY <1>6, <2>1 DEF TickActive
<1>7. ResetEval([counted EXCEPT !.lowWindows = 0, !.probing = FALSE,
                   !.backoff = IF g.probing THEN ProbeInterval ELSE @]) \in Gates
  BY GatesAre DEF Gates, ResetEval
<1>8. low < SuspendWindows => ResetEval([counted EXCEPT !.lowWindows = low]) \in Gates
  <2>1. ResetEval([counted EXCEPT !.lowWindows = low]) = [zero EXCEPT !.lowWindows = g.lowWindows + 1]
    BY DEF ResetEval, Gates
  <2>2. low = g.lowWindows + 1
    BY <1>1
  <2>3. low < SuspendWindows => low \in 0..(SuspendWindows - 1)
    BY <2>2, Fields
  <2> HIDE DEF zero, counted, low
  <2>4. low \in 0..(SuspendWindows - 1) => [zero EXCEPT !.lowWindows = low] \in Gates
    BY <1>2 DEF Gates
  <2> QED
    BY <2>1, <2>2, <2>3, <2>4
<1>9. low \in Nat /\ g.probing \in BOOLEAN
  BY <1>1 DEF Gates
<1>10. CASE counted.frames >= EvalWindow
  <2>1. TickActive(g, gain) \in
          {ResetEval([counted EXCEPT !.lowWindows = 0, !.probing = FALSE,
                        !.backoff = IF g.probing THEN ProbeInterval ELSE @]),
           Suspend(counted, TRUE), Suspend(counted, FALSE)}
        \/ (low < SuspendWindows /\ TickActive(g, gain) = ResetEval([counted EXCEPT !.lowWindows = low]))
    <3> DEFINE n == counted.frames
               k == counted.lowWindows + 1
    <3>1. n \in Nat /\ k \in Nat /\ n >= EvalWindow /\ EvalWindow \in Nat /\ SuspendWindows \in Nat
      BY <1>1, <1>10, GatesAre
    <3>2. ~(n < EvalWindow) /\ (~(k >= SuspendWindows) => k < SuspendWindows)
      <4> HIDE DEF n, k
      <4> QED
        BY <3>1
    <3> QED
      BY <3>2 DEF TickActive
  <2> QED
    BY <1>5, <1>7, <1>8, <2>1
<1> QED
  BY <1>1, <1>6, <1>10, GatesAre

LEMMA TickSuspendedTyped ==
  ASSUME NEW g \in Gates, NEW displacement \in Nat
  PROVE  TickLowBenefit(g, displacement) \in Gates
<1> DEFINE walked == [g EXCEPT !.moved = @ + displacement]
           again == [g EXCEPT !.backoff = ProbeInterval]
<1>1. walked.moved = g.moved + displacement /\ g.moved \in Nat
  BY DEF Gates
<1>2. walked.moved < MoveTrigger => walked \in Gates
  BY <1>1, Fields DEF Gates
<1>3. EnterWarming([walked EXCEPT !.backoff = ProbeInterval]) \in Gates
  <2>1. again \in Gates
    BY GatesAre DEF Gates
  <2>2. ResetCounters([walked EXCEPT !.backoff = ProbeInterval]) = ResetCounters(again)
    BY DEF ResetCounters, ResetEval, Gates
  <2> QED
    BY <2>1, <2>2, EnterWarmingTyped DEF EnterWarming
<1>4. walked.moved \in Nat
  BY <1>1
<1> QED
  BY <1>2, <1>3, <1>4, EnterWarmingTyped, GatesAre DEF TickLowBenefit

LEMMA TickWarmingTyped ==
  ASSUME NEW g \in Gates
  PROVE  TickWarming(g) \in Gates
<1> DEFINE warm == [g EXCEPT !.warmFrames = @ + 1]
<1>1. warm.warmFrames = g.warmFrames + 1 /\ g.warmFrames \in Nat
  BY DEF Gates
<1>2. warm.warmFrames < WarmTimeout => warm \in Gates
  BY <1>1, Fields DEF Gates
<1>3. Suspend(warm, TRUE) \in Gates
  <2>1. ResetCounters(warm) = ResetCounters(g)
    BY DEF ResetCounters, ResetEval, Gates
  <2> QED
    BY <2>1, SuspendTyped DEF Suspend
<1>4. TickWarming(g) = IF warm.warmFrames >= WarmTimeout THEN Suspend(warm, TRUE) ELSE warm
  BY DEF TickWarming
<1>5. warm.warmFrames \in Nat /\ WarmTimeout \in Nat
  BY <1>1, GatesAre
<1>6. warm.warmFrames < WarmTimeout \/ warm.warmFrames >= WarmTimeout
  BY <1>5
<1>7. CASE warm.warmFrames < WarmTimeout
  <2>1. ~(warm.warmFrames >= WarmTimeout)
    BY <1>5, <1>7
  <2> QED
    BY <1>2, <1>4, <1>7, <2>1
<1>8. CASE warm.warmFrames >= WarmTimeout
  BY <1>3, <1>4, <1>8
<1> QED
  BY <1>6, <1>7, <1>8

LEMMA OnFrameTyped ==
  ASSUME NEW g \in Gates, NEW e \in Eyes, NEW gain \in Nat, NEW far \in Nat
  PROVE  OnFrame(g, e, gain, far) \in Gates
<1> DEFINE displacement == IF g.lastEye = NoEye THEN 0 ELSE Distance(g.lastEye, e)
           seen == [g EXCEPT !.lastEye = e]
           noted == NoteFast(seen, displacement > far)
<1>1. displacement \in Nat
  BY DistanceTyped, RuntimeAssumption DEF Gates
<1>2. seen \in Gates /\ seen.state = g.state
  BY DEF Gates
<1>3. noted \in Gates /\ noted.state = g.state
  <2> DEFINE q == IF Len(seen.fast) < FastWindow THEN Append(seen.fast, displacement > far)
                  ELSE Append(Tail(seen.fast), displacement > far)
  <2>1. seen.fast \in Seq(BOOLEAN) /\ FastWindow \in Nat \ {0}
    BY <1>2, GateAssumption DEF Gates
  <2>2. (displacement > far) \in BOOLEAN
    BY <1>1
  <2>4. q \in Seq(BOOLEAN)
    <3> DEFINE f == seen.fast
               b == displacement > far
    <3>1. f \in Seq(BOOLEAN) /\ b \in BOOLEAN /\ FastWindow \in Nat \ {0}
      BY <2>1, <2>2
    <3>2. q = IF Len(f) < FastWindow THEN Append(f, b) ELSE Append(Tail(f), b)
      OBVIOUS
    <3> HIDE DEF f, b, q
    <3>3. Len(f) >= FastWindow => f # <<>>
      BY <3>1
    <3>4. f # <<>> => Tail(f) \in Seq(BOOLEAN)
      BY <3>1
    <3>5. Append(f, b) \in Seq(BOOLEAN) /\ (Tail(f) \in Seq(BOOLEAN) => Append(Tail(f), b) \in Seq(BOOLEAN))
      BY <3>1
    <3>6. Len(f) \in Nat
      BY <3>1
    <3>7. Len(f) < FastWindow \/ Len(f) >= FastWindow
      BY <3>1, <3>6
    <3>8. q = Append(f, b) \/ (Len(f) >= FastWindow /\ q = Append(Tail(f), b))
      BY <3>2, <3>7
    <3> QED
      BY <3>3, <3>4, <3>5, <3>8
  <2>5. noted = [seen EXCEPT !.fast = q]
    BY DEF NoteFast
  <2> HIDE DEF q, seen, noted
  <2> QED
    BY <1>2, <2>4, <2>5 DEF Gates
<1>4. /\ ResetCounters(Become(noted, "suspendedFast", FALSE)) \in Gates
      /\ TickActive(noted, gain) \in Gates /\ TickLowBenefit(noted, displacement) \in Gates
      /\ TickWarming(noted) \in Gates /\ TickFast(noted) \in Gates
  <2> HIDE DEF noted, displacement
  <2> QED
    BY <1>1, <1>3, BecomeTyped, ResetCountersTyped, TickActiveTyped, TickSuspendedTyped,
       TickWarmingTyped, EnterWarmingTyped DEF TickFast
<1>5. g.state \in {"inactive", "active", "warming", "suspendedLowBenefit", "suspendedFast"}
  BY DEF Gates
<1>6. OnFrame(g, e, gain, far) \in
        {seen, ResetCounters(Become(noted, "suspendedFast", FALSE)), TickActive(noted, gain),
         TickLowBenefit(noted, displacement), TickWarming(noted), TickFast(noted)}
  <2> HIDE DEF seen, noted, displacement
  <2> QED
    BY <1>5 DEF OnFrame, seen, noted, displacement
<1> QED
  BY <1>2, <1>4, <1>6

LEMMA ElapseTyped ==
  ASSUME NEW g \in Gates
  PROVE  Elapse(g) \in Gates /\ Mode(Elapse(g)) = Mode(g)
<1> DEFINE t == IF g.timed THEN Min({g.suspendedFor + 1, BackoffCap}) ELSE g.suspendedFor
<1>1. g.suspendedFor \in Nat /\ BackoffCap \in Nat
  BY GatesAre DEF Gates
<1>2. t \in Nat
  BY <1>1, MinIs
<1>3. Elapse(g) = [g EXCEPT !.suspendedFor = t]
  BY DEF Elapse
<1> HIDE DEF t
<1>4. Elapse(g) \in Gates
  BY <1>2, <1>3 DEF Gates
<1> QED
  BY <1>3, <1>4 DEF Gates, Mode

LEMMA NewGateTyped ==
  ASSUME NEW on \in BOOLEAN
  PROVE  NewGate(on) \in Gates
  BY GatesAre DEF NewGate, Gates

-----------------------------------------------------------------------------
(* A query.                                                                *)

LEMMA Bounds ==
  /\ MaxStale \in Nat /\ EyeThreshold \in Nat /\ MaxPending \in Nat /\ MaxGain \in Nat
  /\ MaxChanges \in Nat /\ EyeThreshold <= MaxStale /\ Inside \subseteq Eyes /\ Eyes \subseteq Int
  /\ Inside \subseteq Int /\ NoFrames = -1 /\ NoEye \notin Eyes
<1>1. NoFrames = -1
  BY DEF NoFrames
<1>2. NoEye \notin Eyes /\ Inside \subseteq Int
  BY RuntimeAssumption, GateAssumption
<1> QED
  BY <1>1, <1>2, RuntimeAssumption

LEMMA RequestIs ==
  ASSUME NEW r \in Made \cup {NoRequest}
  PROVE  /\ r.made \in BOOLEAN /\ (r.made <=> r \in Made) /\ (~r.made => r = NoRequest)
<1>1. NoRequest.made = FALSE
  BY DEF NoRequest
<1>2. \A q \in Made : q.made = TRUE
  BY DEF Made
<1>3. CASE r \in Made
  BY <1>2, <1>3
<1>4. CASE r \notin Made
  BY <1>1, <1>4
<1> QED
  BY <1>3, <1>4

LEMMA AgedIs ==
  ASSUME NEW r \in Made \cup {NoRequest}, NEW newEpoch \in BOOLEAN
  PROVE  /\ Aged(r, newEpoch) \in Made \cup {NoRequest} /\ Aged(r, newEpoch).made = r.made
         /\ r.made => /\ ~Aged(r, newEpoch).newest
                      /\ Aged(r, newEpoch).table = r.table
                      /\ Aged(r, newEpoch).sameEpoch = (r.sameEpoch /\ ~newEpoch)
<1>1. CASE r.made
  BY <1>1, RequestIs DEF Aged, Made
<1>2. CASE ~r.made
  BY <1>2, RequestIs DEF Aged
<1> QED
  BY <1>1, <1>2

LEMMA TableIs ==
  ASSUME NEW table \in Tables \cup {NoTable}
  PROVE  /\ table.made \in BOOLEAN /\ (table.made <=> table \in Tables)
         /\ table.made => table.eye \in Inside /\ table.eye \in Int
<1>1. NoTable.made = FALSE
  BY DEF NoTable
<1>2. \A t \in Tables : t.made = TRUE /\ t.eye \in Inside
  BY DEF Tables
<1>3. CASE table \in Tables
  BY <1>2, <1>3, Bounds
<1>4. CASE table \notin Tables
  BY <1>1, <1>4
<1> QED
  BY <1>3, <1>4

(* Requests stay in order when they age, when the result is taken and when *)
(* a new one is posted.                                                    *)
LEMMA AgingKeepsOrder ==
  ASSUME IInv
  PROVE  /\ InOrder(mailbox, building, NoRequest)
         /\ InOrder(Aged(mailbox, FALSE), Aged(building, FALSE), NoRequest)
         /\ \A t \in Tables : t.field = field /\ t.params = params =>
               InOrder(Request(t), Aged(building, FALSE), NoRequest)
<1>1. InOrder(mailbox, building, result)
  BY DEF IInv
<1>2. NoRequest \in Made \cup {NoRequest} /\ ~NoRequest.made
  BY DEF NoRequest
<1>3. InOrder(mailbox, building, NoRequest)
  BY <1>1, <1>2 DEF InOrder, Fits
<1>4. \A r \in {mailbox, building} : /\ Aged(r, FALSE) \in Made \cup {NoRequest}
                                     /\ Fits(Aged(r, FALSE))
                                     /\ ~(Aged(r, FALSE).made /\ Aged(r, FALSE).newest)
  <2>1. TAKE r \in {mailbox, building}
  <2>2. r \in Made \cup {NoRequest} /\ Fits(r)
    BY <1>1 DEF InOrder
  <2> QED
    BY <2>2, AgedIs DEF Fits
<1>5. InOrder(Aged(mailbox, FALSE), Aged(building, FALSE), NoRequest)
  BY <1>2, <1>4 DEF InOrder, Fits
<1>6. ASSUME NEW t \in Tables, t.field = field, t.params = params
      PROVE  InOrder(Request(t), Aged(building, FALSE), NoRequest)
  <2>1. Request(t) \in Made /\ Fits(Request(t))
    BY <1>6 DEF Request, Made, Fits
  <2> QED
    BY <1>2, <1>4, <2>1 DEF InOrder, Fits
<1> QED
  BY <1>3, <1>5, <1>6

(* What a query makes of the cached table and of the finished one.         *)
Considered(table, waited) ==
  /\ table \in Tables \cup {NoTable}
  /\ table.made => table.field = field /\ table.params = params
  /\ cached.made /\ table.made => Distance(table.eye, eye) <= Distance(cached.eye, eye)
  /\ waited \in NoFrames..MaxPending
  /\ waited # NoFrames => UnderWay({mailbox, building})

(* What it leaves.                                                         *)
Prepared ==
  /\ cached' \in Tables \cup {NoTable}
  /\ cached'.made => /\ cached'.field = field /\ cached'.params = params
                     /\ Distance(cached'.eye, eye) <= MaxStale /\ Mode(gate') = "active"
  /\ cached.made /\ cached'.made => Distance(cached'.eye, eye) <= Distance(cached.eye, eye)
  /\ pending' \in NoFrames..MaxPending /\ spawned' \in BOOLEAN /\ gate' \in Gates
  /\ InOrder(mailbox', building', result')
  /\ pending' # NoFrames => UnderWay({mailbox', building', result'})

LEMMA AdoptionIsNearer ==
  ASSUME IInv, NEW threshold \in Nat, Adopts(result, threshold), NEW waited \in NoFrames..MaxPending,
         waited # NoFrames => UnderWay({mailbox, building})
  PROVE  Considered(result.table, waited)
<1>1. result.made /\ result.sameEpoch /\ ~Matches(cached, eye, params, threshold)
  BY DEF Adopts
<1>2. result \in Made /\ Fits(result)
  BY <1>1, RequestIs DEF IInv, InOrder
<1>3. result.table \in Tables /\ result.table.field = field /\ result.table.params = params
  BY <1>1, <1>2 DEF Made, Fits
<1>4. ASSUME cached.made
      PROVE  Distance(result.table.eye, eye) <= Distance(cached.eye, eye)
  <2>1. /\ eye \in Int /\ cached.eye \in Int /\ result.table.eye \in Int /\ cached.params = params
    BY <1>3, <1>4, TableIs, Bounds DEF IInv
  <2>2. Distance(result.table.eye, eye) \in Nat /\ Distance(cached.eye, eye) \in Nat
    BY <2>1, DistanceTyped
  <2>3. ~(Distance(cached.eye, eye) < threshold)
    BY <1>1, <1>4, <2>1 DEF Matches
  <2>4. CASE Matches(result.table, eye, params, threshold)
    <3>1. Distance(result.table.eye, eye) < threshold
      BY <2>4 DEF Matches
    <3> QED
      BY <2>2, <2>3, <3>1
  <2>5. CASE ~Matches(result.table, eye, params, threshold)
    <3>1. Distance(result.table.eye, eye) < Distance(cached.eye, eye)
      BY <2>5 DEF Adopts
    <3> QED
      BY <2>2, <3>1
  <2> QED
    BY <2>4, <2>5
<1> QED
  BY <1>3, <1>4 DEF Considered

LEMMA ConsideredIs ==
  ASSUME IInv, NEW threshold \in Nat
  PROVE  LET adopted == Adopts(result, threshold)
         IN  Considered(IF adopted THEN result.table ELSE cached, StillPending(Waited, result, adopted))
<1> DEFINE adopted == Adopts(result, threshold)
           waited == StillPending(Waited, result, adopted)
<1>1. pending \in NoFrames..MaxPending /\ NoFrames = -1 /\ MaxPending \in Nat
  BY Bounds DEF IInv
<1>2. Waited \in NoFrames..MaxPending
  <2>1. CASE pending = NoFrames
    BY <1>1, <2>1 DEF Waited
  <2>2. CASE pending # NoFrames
    <3>1. pending \in 0..MaxPending
      BY <1>1, <2>2
    <3>2. Min({pending + 1, MaxPending}) = IF pending + 1 <= MaxPending THEN pending + 1 ELSE MaxPending
      BY <1>1, MinIs
    <3> QED
      BY <1>1, <2>2, <3>1, <3>2 DEF Waited
  <2> QED
    BY <2>1, <2>2
<1>3. waited \in NoFrames..MaxPending
  BY <1>1, <1>2 DEF StillPending
<1>4. ASSUME waited # NoFrames
      PROVE  UnderWay({mailbox, building})
  <2>1. Waited # NoFrames /\ ~(result.made /\ result.newest)
    BY <1>4 DEF StillPending
  <2>2. pending # NoFrames
    BY <2>1 DEF Waited
  <2> QED
    BY <2>1, <2>2 DEF IInv, UnderWay
<1>5. CASE adopted
  BY <1>3, <1>4, <1>5, AdoptionIsNearer
<1>6. CASE ~adopted
  <2>1. cached \in Tables \cup {NoTable} /\ (cached.made => cached.field = field /\ cached.params = params)
    BY DEF IInv
  <2>2. cached.made => Distance(cached.eye, eye) \in Nat
    BY <2>1, TableIs, DistanceTyped, Bounds DEF IInv
  <2>3. cached.made => Distance(cached.eye, eye) <= Distance(cached.eye, eye)
    BY <2>2
  <2>4. Considered(cached, waited)
    BY <1>3, <1>4, <2>1, <2>3 DEF Considered
  <2> QED
    BY <1>6, <2>4
<1> QED
  BY <1>5, <1>6

LEMMA ClearedIs ==
  ASSUME IInv, NEW table, NEW waited, Cleared(table, waited), result' = NoRequest,
         spawned' \in BOOLEAN, gate' \in Gates
  PROVE  Prepared
<1>1. InOrder(mailbox', building', result')
  BY AgingKeepsOrder DEF Cleared
<1>2. cached' = NoTable /\ pending' = NoFrames /\ ~cached'.made
  BY DEF Cleared, NoTable
<1>3. pending' \in NoFrames..MaxPending
  BY <1>2, Bounds
<1> QED
  BY <1>1, <1>2, <1>3 DEF Prepared

LEMMA PostIs ==
  ASSUME IInv, NEW waited \in NoFrames..MaxPending, Post(waited), result' = NoRequest,
         field \in 1..(MaxChanges + 1), eye \in Inside
  PROVE  /\ pending' \in NoFrames..MaxPending
         /\ InOrder(mailbox', building', result') /\ UnderWay({mailbox', building', result'})
<1>1. Table(field, eye, params) \in Tables
  BY DEF Table, Tables, IInv
<1>2. Table(field, eye, params).field = field /\ Table(field, eye, params).params = params
  BY DEF Table
<1>3. InOrder(mailbox', building', result')
  BY <1>1, <1>2, AgingKeepsOrder DEF Post
<1>4. mailbox'.made /\ mailbox'.newest /\ mailbox'.sameEpoch
  BY DEF Post, Request
<1>5. pending' \in NoFrames..MaxPending
  BY Bounds DEF Post
<1> QED
  BY <1>3, <1>4, <1>5 DEF UnderWay

LEMMA SyncBuildIs ==
  ASSUME IInv, SyncBuild, result' = NoRequest, spawned' \in BOOLEAN, gate' \in Gates,
         Mode(gate') = "active", field \in 1..(MaxChanges + 1), eye \in Inside
  PROVE  Prepared
<1>1. cached' = Table(field, eye, params) /\ pending' = NoFrames
  BY DEF SyncBuild
<1>2. cached' \in Tables /\ cached'.field = field /\ cached'.params = params /\ cached'.eye = eye
  BY <1>1 DEF Table, Tables, IInv
<1>3. Distance(cached'.eye, eye) = 0 /\ 0 <= MaxStale
  BY <1>2, DistanceTyped, Bounds
<1>4. cached.made => 0 <= Distance(cached.eye, eye)
  <2>1. cached.made => Distance(cached.eye, eye) \in Nat
    BY TableIs, DistanceTyped, Bounds DEF IInv
  <2> QED
    BY <2>1
<1>5. InOrder(mailbox', building', result')
  BY AgingKeepsOrder DEF SyncBuild
<1>6. pending' \in NoFrames..MaxPending
  BY <1>1, Bounds
<1> QED
  BY <1>1, <1>2, <1>3, <1>4, <1>5, <1>6 DEF Prepared

LEMMA WarmIs ==
  ASSUME IInv, NEW g \in Gates, NEW table, NEW waited, Considered(table, waited), Warm(g, waited),
         result' = NoRequest, field \in 1..(MaxChanges + 1), eye \in Inside
  PROVE  Prepared
<1>1. cached' = NoTable /\ ~cached'.made
  BY DEF Warm, NoTable
<1>2. waited \in NoFrames..MaxPending /\ (waited # NoFrames => UnderWay({mailbox, building}))
  BY DEF Considered
<1>3. CASE UNCHANGED <<mailbox, building>> /\ pending' = waited
  <2>1. InOrder(mailbox', building', result')
    BY <1>3, AgingKeepsOrder
  <2>2. pending' # NoFrames => UnderWay({mailbox', building', result'})
    BY <1>2, <1>3 DEF UnderWay
  <2>3. spawned' \in BOOLEAN /\ gate' \in Gates
    BY TellsTyped DEF Warm, Spawns, IInv
  <2> QED
    BY <1>1, <1>2, <1>3, <2>1, <2>2, <2>3 DEF Prepared
<1>4. CASE Post(waited)
  <2>1. spawned' \in BOOLEAN /\ gate' \in Gates
    BY TellsTyped DEF Warm, Spawns, IInv
  <2> QED
    BY <1>1, <1>2, <1>4, <2>1, PostIs DEF Prepared
<1> QED
  BY <1>3, <1>4 DEF Warm

LEMMA RenewIs ==
  ASSUME IInv, NEW g \in Gates, NEW table, NEW waited, Considered(table, waited), Renew(table, waited),
         gate' = g, Mode(g) = "active",
         result' = NoRequest, field \in 1..(MaxChanges + 1), eye \in Inside
  PROVE  Prepared
<1> DEFINE mustBuild == ~table.made \/ table.params # params \/ Distance(table.eye, eye) > MaxStale
                        \/ waited >= MaxPending
<1>1. spawned' \in BOOLEAN /\ gate' \in Gates /\ Mode(gate') = "active"
  BY DEF Renew, Spawns, IInv
<1>2. /\ table \in Tables \cup {NoTable} /\ waited \in NoFrames..MaxPending
      /\ table.made => table.field = field /\ table.params = params
      /\ cached.made /\ table.made => Distance(table.eye, eye) <= Distance(cached.eye, eye)
      /\ waited # NoFrames => UnderWay({mailbox, building})
  BY DEF Considered
<1>3. table.made => Distance(table.eye, eye) \in Nat
  BY <1>2, TableIs, DistanceTyped, Bounds DEF IInv
<1>4. CASE SyncBuild
  BY <1>1, <1>4, SyncBuildIs
<1>5. CASE cached' = table /\ pending' = waited /\ UNCHANGED <<mailbox, building>>
           /\ Matches(table, eye, params, EyeThreshold)
  <2>1. table.made /\ Distance(table.eye, eye) < EyeThreshold
    BY <1>5 DEF Matches
  <2>2. Distance(table.eye, eye) <= MaxStale
    BY <1>3, <2>1, Bounds
  <2>3. InOrder(mailbox', building', result')
    BY <1>5, AgingKeepsOrder
  <2>4. pending' # NoFrames => UnderWay({mailbox', building', result'})
    BY <1>2, <1>5 DEF UnderWay
  <2> QED
    BY <1>1, <1>2, <1>5, <2>1, <2>2, <2>3, <2>4 DEF Prepared
<1>6. CASE cached' = table /\ Post(waited) /\ ~mustBuild
  <2>1. table.made /\ Distance(table.eye, eye) <= MaxStale
    BY <1>3, <1>6, Bounds
  <2> QED
    BY <1>1, <1>2, <1>6, <2>1, PostIs DEF Prepared
<1> QED
  BY <1>4, <1>5, <1>6 DEF Renew

LEMMA PrepareIs ==
  ASSUME IInv, Prepare
  PROVE  Prepared
<1>1. gate \in Gates /\ field \in 0..(MaxChanges + 1) /\ spawned \in BOOLEAN
  BY DEF IInv
<1>2. CASE ~culling \/ field = 0 \/ eye \notin Inside
  <2>1. NoContext
    BY <1>2 DEF Prepare
  <2>2. gate' \in Gates /\ spawned' \in BOOLEAN
    BY <1>1, <2>1, TellsTyped DEF NoContext
  <2>3. cached' = NoTable /\ pending' = NoFrames /\ ~cached'.made
    BY <2>1 DEF NoContext, Cleared, NoTable
  <2>4. InOrder(mailbox', building', result')
    <3>1. Cleared(cached, pending) /\ result' \in {result, Aged(result, FALSE)}
      BY <2>1 DEF NoContext
    <3>2. InOrder(mailbox, building, result)
      BY DEF IInv
    <3>3. \A r \in {mailbox, building, result} :
            /\ Aged(r, FALSE) \in Made \cup {NoRequest}
            /\ Aged(r, FALSE).made = r.made /\ Fits(Aged(r, FALSE))
            /\ ~(Aged(r, FALSE).made /\ Aged(r, FALSE).newest)
      <4>1. TAKE r \in {mailbox, building, result}
      <4>2. r \in Made \cup {NoRequest} /\ Fits(r)
        BY <3>2 DEF InOrder
      <4> QED
        BY <4>2, AgedIs DEF Fits
    <3>4. InOrder(mailbox, building, Aged(result, FALSE))
      BY <3>2, <3>3 DEF InOrder
    <3>5. /\ InOrder(Aged(mailbox, FALSE), Aged(building, FALSE), result)
          /\ InOrder(Aged(mailbox, FALSE), Aged(building, FALSE), Aged(result, FALSE))
      BY <3>2, <3>3 DEF InOrder
    <3>6. \/ mailbox' = mailbox /\ building' = building
          \/ mailbox' = Aged(mailbox, FALSE) /\ building' = Aged(building, FALSE)
      BY <3>1 DEF Cleared
    <3> QED
      BY <3>1, <3>2, <3>4, <3>5, <3>6
  <2>5. pending' \in NoFrames..MaxPending
    BY <2>3, Bounds
  <2> QED
    BY <2>2, <2>3, <2>4, <2>5 DEF Prepared
<1>3. CASE ~(~culling \/ field = 0 \/ eye \notin Inside)
  <2> DEFINE available == OnContextAvailable(gate)
             threshold == IF IsWarming(available) THEN MaxStale ELSE EyeThreshold
             adopted == Adopts(result, threshold)
             table == IF adopted THEN result.table ELSE cached
             waited == StillPending(Waited, result, adopted)
             g == IF adopted THEN OnWarmAdopted(available) ELSE available
  <2>1. /\ result' = NoRequest
        /\ CASE Mode(g) = "suspended" -> Cleared(table, waited) /\ gate' = g /\ UNCHANGED spawned
             [] Mode(g) = "warming" -> Warm(g, waited)
             [] Mode(g) = "active" -> Renew(table, waited) /\ gate' = g
    BY <1>3 DEF Prepare
  <2>2. g \in Gates
    BY <1>1, TellsTyped
  <2>3. field \in 1..(MaxChanges + 1) /\ eye \in Inside
    BY <1>1, <1>3, Bounds
  <2>4. threshold \in Nat
    BY Bounds
  <2>5. Considered(table, waited)
    <3> HIDE DEF threshold
    <3> QED
      BY <2>4, ConsideredIs
  <2>6. Mode(g) \in {"suspended", "warming", "active"}
    BY DEF Mode
  <2> HIDE DEF g, table, waited
  <2>7. CASE Mode(g) = "suspended"
    BY <1>1, <2>1, <2>2, <2>7, ClearedIs
  <2>8. CASE Mode(g) = "warming"
    <3>1. Warm(g, waited)
      BY <2>1, <2>8
    <3> QED
      BY <2>1, <2>2, <2>3, <2>5, <3>1, WarmIs
  <2>9. CASE Mode(g) = "active"
    <3>1. Renew(table, waited) /\ gate' = g
      BY <2>1, <2>9
    <3> QED
      BY <2>1, <2>2, <2>3, <2>5, <2>9, <3>1, RenewIs
  <2> QED
    BY <2>6, <2>7, <2>8, <2>9
<1> QED
  BY <1>2, <1>3

(* With the rest of the query.                                             *)
LEMMA QueryKeeps ==
  ASSUME IInv, Query
  PROVE  IInv' /\ (cached.made /\ cached'.made => Distance(cached'.eye, eye) <= Distance(cached.eye, eye))
<1>1. Prepared
  BY PrepareIs DEF Query
<1>2. UNCHANGED <<eye, field, culling, params, changes>>
  BY DEF Query
<1>3. frameGain' \in 0..MaxGain
  <2>1. frameGain \in 0..MaxGain /\ MaxGain \in Nat
    BY Bounds DEF IInv
  <2>2. ASSUME NEW gain \in Gains(cached')
        PROVE  Min({frameGain + gain, MaxGain}) \in 0..MaxGain
    <3>1. gain \in 0..MaxGain
      BY <2>1 DEF Gains
    <3>2. Min({frameGain + gain, MaxGain}) = IF frameGain + gain <= MaxGain THEN frameGain + gain ELSE MaxGain
      BY <2>1, <3>1, MinIs
    <3> QED
      BY <2>1, <3>1, <3>2
  <2> QED
    BY <2>1, <2>2 DEF Query
<1>4. frameEye' \in Eyes \cup {NoEye} /\ (frameEye' # NoEye => frameEye' = eye /\ culling)
  BY DEF Query, IInv
<1>5. UsedTableFits'
  BY <1>1, <1>2, <1>4 DEF UsedTableFits, Prepared
<1>6. InOrder(mailbox, building, result)'
  BY <1>1, <1>2 DEF Prepared, InOrder, Fits
<1>7. (pending # NoFrames => UnderWay({mailbox, building, result}))'
  BY <1>1 DEF Prepared, UnderWay, NoFrames
<1> QED
  BY <1>1, <1>2, <1>3, <1>4, <1>5, <1>6, <1>7 DEF IInv, Prepared, NoFrames, Tables

-----------------------------------------------------------------------------
(* The other steps.                                                        *)

LEMMA FrameKeeps ==
  ASSUME IInv, FinishFrame
  PROVE  IInv'
<1>1. frameEye \in Eyes \cup {NoEye} /\ frameGain \in Nat /\ MaxStale \in Nat /\ gate \in Gates
  BY Bounds DEF IInv
<1>2. gate' \in Gates
  BY <1>1, OnFrameTyped DEF FinishFrame
<1>3. frameEye' = NoEye /\ frameGain' \in 0..MaxGain
  BY Bounds DEF FinishFrame
<1>4. UNCHANGED <<eye, field, culling, params, cached, pending, spawned, builderVars, changes>>
  BY DEF FinishFrame
<1>5. InOrder(mailbox, building, result)' /\ (pending # NoFrames => UnderWay({mailbox, building, result}))'
  BY <1>4 DEF IInv, InOrder, Fits, UnderWay, builderVars, NoFrames
<1> QED
  BY <1>2, <1>3, <1>4, <1>5 DEF IInv, UsedTableFits, Tables, NoFrames

LEMMA ElapsedKeeps ==
  ASSUME IInv, Elapsed
  PROVE  IInv'
<1>1. gate' \in Gates /\ Mode(gate') = Mode(gate)
  BY ElapseTyped DEF Elapsed, IInv
<1>2. UNCHANGED <<eye, field, culling, params, cached, pending, spawned, frameEye, frameGain, builderVars, changes>>
  BY DEF Elapsed
<1>3. InOrder(mailbox, building, result)' /\ (pending # NoFrames => UnderWay({mailbox, building, result}))'
  BY <1>2 DEF IInv, InOrder, Fits, UnderWay, builderVars, NoFrames
<1> QED
  BY <1>1, <1>2, <1>3 DEF IInv, UsedTableFits, Tables, NoFrames

(* A new generation: nothing that was under way fits any more.             *)
LEMMA InvalidateKeepsOrder ==
  ASSUME IInv, InvalidateEpoch
  PROVE  InOrder(mailbox, building, result)'
<1>1. InOrder(mailbox, building, result)
  BY DEF IInv
<1>2. mailbox' = Aged(mailbox, TRUE) /\ building' = Aged(building, TRUE) /\ result' = Aged(result, TRUE)
  BY DEF InvalidateEpoch, AgeAll
<1>3. \A r \in {mailbox, building, result} :
        /\ Aged(r, TRUE) \in Made \cup {NoRequest}
        /\ Aged(r, TRUE).made => ~Aged(r, TRUE).newest /\ ~Aged(r, TRUE).sameEpoch
  BY <1>1, AgedIs DEF InOrder
<1> QED
  BY <1>2, <1>3 DEF InOrder, Fits

LEMMA ChangeKeeps ==
  ASSUME IInv, InvalidateEpoch, Changes, frameEye' = NoEye, frameGain' \in 0..MaxGain,
         field' \in {field, 0, changes + 2}, gate' \in Gates, culling' \in BOOLEAN, params' \in ParamSets,
         UNCHANGED <<eye, spawned>>
  PROVE  IInv'
<1>1. InOrder(mailbox, building, result)'
  BY InvalidateKeepsOrder
<1>2. cached' = NoTable /\ ~cached'.made /\ pending' = NoFrames
  BY DEF InvalidateEpoch, NoTable
<1>3. changes' \in 0..MaxChanges /\ field' \in 0..(MaxChanges + 1)
  BY Bounds DEF Changes, IInv
<1>4. pending' \in NoFrames..MaxPending
  BY <1>2, Bounds
<1> QED
  BY <1>1, <1>2, <1>3, <1>4 DEF IInv, UsedTableFits, NoFrames

LEMMA LoadKeeps ==
  ASSUME IInv, NEW usable \in BOOLEAN, LoadLandscape(usable)
  PROVE  IInv'
<1>1. /\ InvalidateEpoch /\ field' \in {0, changes + 2}
      /\ Changes /\ frameEye' = NoEye /\ frameGain' = frameGain
      /\ gate' = OnContextLost(gate) /\ UNCHANGED <<eye, culling, params, spawned>>
  BY DEF LoadLandscape, Rebuild
<1>2. gate' \in Gates
  BY <1>1, TellsTyped DEF IInv
<1> QED
  BY <1>1, <1>2, ChangeKeeps DEF IInv

LEMMA ConfigKeeps ==
  ASSUME IInv, NEW on \in BOOLEAN, NEW adaptive \in BOOLEAN, NEW usable \in BOOLEAN, NEW p \in ParamSets,
         SetHorizonConfig(on, p, adaptive, usable)
  PROVE  IInv'
<1>1. /\ InvalidateEpoch /\ field' \in {field, 0, changes + 2}
      /\ Changes /\ frameEye' = NoEye /\ frameGain' = 0 /\ culling' = on /\ params' = p
      /\ UNCHANGED <<eye, spawned>>
      /\ \/ gate' = OnConfigChange(SetEnabled(gate, adaptive))
         \/ gate' = OnContextLost(SetEnabled(gate, adaptive))
  BY DEF SetHorizonConfig, Rebuild
<1>2. gate' \in Gates
  BY <1>1, TellsTyped DEF IInv
<1>3. frameGain' \in 0..MaxGain
  BY <1>1, Bounds
<1> QED
  BY <1>1, <1>2, <1>3, ChangeKeeps

LEMMA MoveKeeps ==
  ASSUME IInv, NEW e \in Eyes, Move(e)
  PROVE  IInv'
<1>1. frameEye = NoEye /\ eye' = e /\ UNCHANGED <<hostVars, builderVars, changes>>
  BY DEF Move
<1>2. InOrder(mailbox, building, result)' /\ (pending # NoFrames => UnderWay({mailbox, building, result}))'
  BY <1>1 DEF IInv, InOrder, Fits, UnderWay, hostVars, builderVars, NoFrames
<1> QED
  BY <1>1, <1>2 DEF IInv, UsedTableFits, Tables, hostVars, NoFrames

(* The builder passes a request on.                                        *)
LEMMA BuilderKeeps ==
  ASSUME IInv, Take \/ Publish
  PROVE  IInv'
<1>1. UNCHANGED <<eye, hostVars, changes>>
  BY DEF Take, Publish
<1>2. InOrder(mailbox, building, result)
  BY DEF IInv
<1>3. NoRequest \in Made \cup {NoRequest} /\ ~NoRequest.made
  BY DEF NoRequest
<1>4. InOrder(mailbox', building', result')
  <2>1. CASE Take
    BY <1>2, <1>3, <2>1 DEF Take, InOrder, Fits
  <2>2. CASE Publish
    BY <1>2, <1>3, <2>2 DEF Publish, InOrder, Fits
  <2> QED
    BY <2>1, <2>2
<1>5. ASSUME UnderWay({mailbox, building, result})
      PROVE  UnderWay({mailbox', building', result'})
  <2>1. PICK r \in {mailbox, building, result} : r.made /\ r.newest /\ r.sameEpoch
    BY <1>5 DEF UnderWay
  <2>2. r \in {mailbox', building', result'}
    BY <1>2, <2>1 DEF Take, Publish, InOrder
  <2> QED
    BY <2>1, <2>2 DEF UnderWay
<1>6. InOrder(mailbox, building, result)'
  BY <1>1, <1>4 DEF InOrder, Fits, hostVars
<1>7. (pending # NoFrames => UnderWay({mailbox, building, result}))'
  BY <1>1, <1>5 DEF IInv, hostVars, UnderWay, NoFrames
<1> QED
  BY <1>1, <1>6, <1>7 DEF IInv, UsedTableFits, Tables, hostVars, NoFrames

LEMMA InitEstablishes ==
  ASSUME Init
  PROVE  IInv
<1>1. gate \in Gates
  BY NewGateTyped, RuntimeAssumption DEF Init
<1>2. NoRequest \in Made \cup {NoRequest} /\ ~NoRequest.made /\ ~NoTable.made
  BY DEF NoRequest, NoTable
<1>3. InOrder(mailbox, building, result)
  BY <1>2 DEF Init, InOrder, Fits
<1>4. field \in 0..(MaxChanges + 1) /\ pending \in NoFrames..MaxPending /\ eye \in Eyes
      /\ frameGain \in 0..MaxGain /\ changes \in 0..MaxChanges
  BY Bounds DEF Init
<1> QED
  BY <1>1, <1>2, <1>3, <1>4 DEF Init, IInv, UsedTableFits

LEMMA NextKeeps ==
  ASSUME IInv, [Next]_vars
  PROVE  IInv'
<1>1. CASE Query
  BY <1>1, QueryKeeps
<1>2. CASE FinishFrame \/ Elapsed
  BY <1>2, FrameKeeps, ElapsedKeeps
<1>3. CASE \E usable \in BOOLEAN : LoadLandscape(usable)
  BY <1>3, LoadKeeps
<1>4. CASE \E on, adaptive, usable \in BOOLEAN, p \in ParamSets : SetHorizonConfig(on, p, adaptive, usable)
  BY <1>4, ConfigKeeps
<1>5. CASE \E e \in Eyes : Move(e)
  BY <1>5, MoveKeeps
<1>6. CASE Take \/ Publish
  BY <1>6, BuilderKeeps
<1>7. CASE UNCHANGED vars
  <2>1. UNCHANGED <<eye, hostVars, builderVars, changes>>
    BY <1>7 DEF vars
  <2>2. InOrder(mailbox, building, result)' /\ (pending # NoFrames => UnderWay({mailbox, building, result}))'
    BY <2>1 DEF IInv, InOrder, Fits, UnderWay, hostVars, builderVars, NoFrames
  <2> QED
    BY <2>1, <2>2 DEF IInv, UsedTableFits, Tables, hostVars, NoFrames
<1> QED
  BY <1>1, <1>2, <1>3, <1>4, <1>5, <1>6, <1>7 DEF Next

(* Every table and request was made from a field and parameters there      *)
(* were, what is in force is what the cached table was made from, and the  *)
(* newest request is the last one posted.                                  *)
THEOREM Invariance ==
  Spec => []IInv
<1>1. Init => IInv
  BY InitEstablishes
<1>2. IInv /\ [Next]_vars => IInv'
  BY NextKeeps
<1> QED
  BY <1>1, <1>2, PTL DEF Spec

(* A query never culls with a table of another field, of other parameters  *)
(* or from too far away, nor while the gate suspends the culling, and what *)
(* the game waits for is really being built.                               *)
THEOREM TablesStayFit ==
  Spec => []TablesFit
<1>1. IInv => TablesFit
  <2> SUFFICES ASSUME IInv
               PROVE  TablesFit
    OBVIOUS
  <2>1. gate \in Gates /\ {mailbox, building, result} \subseteq Made \cup {NoRequest}
    BY DEF IInv, InOrder
  <2>2. \A r \in Requests : r \in Made
    BY <2>1 DEF Requests
  <2>3. /\ gate.state \in {"inactive", "active", "warming", "suspendedLowBenefit", "suspendedFast"}
        /\ gate.frames < EvalWindow /\ gate.lowWindows < SuspendWindows /\ gate.warmFrames < WarmTimeout
        /\ gate.backoff \in ProbeInterval..BackoffCap /\ gate.moved < MoveTrigger
    BY <2>1, GatesAre DEF Gates
  <2>4. TypeOK
    BY <2>2, <2>3 DEF IInv, TypeOK, Made
  <2>5. PendingIsUnderWay
    <3>1. \A r \in {mailbox, building, result} : r.made => r \in Requests
      BY DEF Requests, NoRequest
    <3> QED
      BY <3>1 DEF PendingIsUnderWay, UnderWay, IInv
  <2> QED
    BY <2>4, <2>5 DEF TablesFit, IInv
<1> QED
  BY <1>1, Invariance, PTL

(* A table that is replaced is replaced by one at least as near.           *)
THEOREM TablesComeNearer ==
  Spec => NeverFarther
<1>1. ASSUME IInv, [Next]_vars
      PROVE  [cached.made /\ cached'.made => Distance(cached'.eye, eye) <= Distance(cached.eye, eye)]_cached
  <2>1. CASE Query
    BY <1>1, <2>1, QueryKeeps
  <2>2. CASE ~Query
    <3>1. cached' = cached \/ cached' = NoTable
      BY <1>1, <2>2 DEF Next, vars, hostVars, FinishFrame, Elapsed, LoadLandscape, Rebuild, InvalidateEpoch,
                        SetHorizonConfig, Move, Take, Publish
    <3>2. ~NoTable.made
      BY DEF NoTable
    <3> QED
      BY <3>1, <3>2
  <2> QED
    BY <2>1, <2>2
<1> QED
  BY <1>1, Invariance, PTL DEF Spec, NeverFarther
=============================================================================
