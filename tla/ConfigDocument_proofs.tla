------------------------- MODULE ConfigDocument_proofs -------------------------
(***************************************************************************)
(* Proofs about the configuration file and the documents held of it, for   *)
(* any processes, keys, values and files made by hand, and for any number  *)
(* of edits and failures.                                                  *)
(*                                                                         *)
(* What a process holds is compared with the content it knows, never with  *)
(* the file: only while a save is under way, and nobody acted in between,  *)
(* is the file known to be that content.                                   *)
(***************************************************************************)
EXTENDS ConfigDocument, TLAPS

Job == [step : {"replace"}, whole : BOOLEAN, saved : Held]

NoBad(document) == \A k \in Keys : document.vals[k] # Bad

(* The types TypeOK leaves open, and that no saved value is a bad one.     *)
Typed ==
  /\ file \in Documents \cup {Missing, Corrupt}
  /\ held \in [Procs -> Held \cup {Closed}]
  /\ job \in [Procs -> Job \cup {Idle}]
  /\ spent \in [edits : Nat, faults : Nat, raced : BOOLEAN]
  /\ \A p \in Procs : held[p].open => NoBad(held[p].document)
  /\ \A p \in Procs : job[p] # Idle => NoBad(job[p].saved.document)

(* Who opened a file that does not parse may not write.                    *)
InvalidDisables ==
  /\ \A p \in Procs : held[p].open /\ held[p].known = Corrupt => held[p].disabled
  /\ \A p \in Procs : job[p] # Idle => job[p].saved.known # Corrupt

(* Unless somebody acted in between, there is one save at a time, and the  *)
(* file is still what it was when its revision was checked.                *)
CheckHolds ==
  Unraced => \A p \in Procs : job[p] # Idle =>
               /\ file = job[p].saved.known
               /\ \A q \in Procs : job[q] # Idle => q = p

(* A document that may be merged again departs from its baseline nowhere:  *)
(* what it does not omit it holds as the baseline.                         *)
OnBaseline(d) == \A k \in Keys : d.document.vals[k] \in {Absent, d.baseline[k]}

(* Where the baseline comes from: a load of f, or the game's own save.     *)
StartsFrom(p, d, f) == d.baseline = Loaded(f) \/ (p # Gui /\ d.baseline = f.vals)

BaselineKept ==
  Orderly => \A p \in Procs : held[p].open =>
               /\ job[p] = Idle => OnBaseline(held[p])
               /\ held[p].known.kind = "toml" => StartsFrom(p, held[p], held[p].known)

(* What a save is about to write are the settings that are saved.          *)
SavedLoads ==
  Orderly => \A p \in Procs : job[p] # Idle => job[p].saved.document.vals = job[p].saved.settings

(* What the GUI holds and saves does not contradict itself.                *)
GuiConsistent ==
  /\ held[Gui].open => Consistent(held[Gui].settings)
  /\ job[Gui] # Idle => Consistent(job[Gui].saved.settings)

(* The tables of others are those of the known content.                    *)
KeepsTables(p, d) ==
  d.known.kind = "toml" =>
    /\ p # Gui => d.document.gen = d.known.gen
    /\ d.known.extra => d.document.extra
Cleared(p, d) == p = Gui /\ d.document.vals = Defaults

TablesKept ==
  /\ \A p \in Procs : held[p].open => KeepsTables(p, held[p])
  /\ \A p \in Procs : job[p] # Idle => KeepsTables(p, job[p].saved) \/ Cleared(p, job[p].saved)

IInv == Typed /\ InvalidDisables /\ CheckHolds /\ BaselineKept /\ SavedLoads /\ GuiConsistent /\ TablesKept

---------------------------------------------------------------------------
(* What a merge writes: for every value of the document it starts from.    *)
LEMMA MergedTyped ==
  ASSUME ConfigAssumption, NEW d \in Held, NoBad(d.document)
  PROVE  /\ Merged(d) \in Documents /\ NoBad(Merged(d))
         /\ Merged(d).gen = d.document.gen /\ Merged(d).extra = d.document.extra
<1>1. d.document \in Documents /\ d.settings \in Settings /\ d.baseline \in Settings
  BY DEF Held
<1> DEFINE v == Forced(Changed(Completed(d.document.vals, d), d), d)
<1>2. v \in [Keys -> Values \cup {Absent, Bad}]
  BY <1>1 DEF Forced, Changed, Completed, Settings, Documents
<1>3. \A k \in Keys : v[k] # Bad
  BY <1>1, ConfigAssumption DEF Forced, Changed, Completed, Settings, Documents, NoBad, ConfigAssumption
<1>4. Merged(d) = [d.document EXCEPT !.vals = v]
  BY <1>1 DEF Merged, Documents
<1> QED
  BY <1>1, <1>2, <1>3, <1>4 DEF Documents, NoBad

(* A merge writes the settings, if the document departs from its baseline  *)
(* nowhere.                                                                *)
LEMMA MergedLoads ==
  ASSUME ConfigAssumption, NEW d \in Held, NoBad(d.document), OnBaseline(d)
  PROVE  Merged(d).vals = d.settings
<1>1. d.document \in Documents /\ d.settings \in Settings /\ d.baseline \in Settings
  BY DEF Held
<1> DEFINE v == Forced(Changed(Completed(d.document.vals, d), d), d)
<1>2. Merged(d).vals = v
  BY <1>1 DEF Merged, Documents
<1>3. \A k \in Keys : v[k] = d.settings[k]
  BY <1>1 DEF Forced, Changed, Completed, Settings, Documents, OnBaseline
<1>4. v = [k \in Keys |-> d.settings[k]]
  <2>1. v = [k \in Keys |-> v[k]]
    BY DEF Forced
  <2> HIDE DEF v
  <2> QED
    BY <1>3, <2>1
<1> QED
  BY <1>1, <1>2, <1>4 DEF Settings

(* Values that are there, and do not contradict each other, load as such;  *)
(* those that do, but for the later of them.                               *)
LEMMA RepairedIs ==
  ASSUME ConfigAssumption, NEW s \in Settings
  PROVE  /\ \A k \in Keys \ {High} : Filled(Repaired(s))[k] = s[k]
         /\ Consistent(s) => Filled(Repaired(s)) = s
<1> DEFINE valid == [k \in Keys |-> IF s[k] = Bad THEN Absent ELSE s[k]]
           dropped == [valid EXCEPT ![High] = Absent]
           v == Repaired(s)
<1>1. s \in [Keys -> Values] /\ \A k \in Keys : s[k] # Bad
  BY DEF Settings, ConfigAssumption
<1>2. valid = s
  BY <1>1
<1>3. v \in {valid, dropped, [valid EXCEPT ![High] = Filled(valid)[Low]]}
        /\ (Consistent(Filled(valid)) => v = valid)
  BY DEF Repaired
<1>4. Filled(valid) = s
  BY <1>1, <1>2 DEF Filled
<1>5. \A k \in Keys \ {High} : v[k] = s[k]
  BY <1>1, <1>2, <1>3
<1> HIDE DEF v, valid, dropped
<1>6. \A k \in Keys \ {High} : Filled(v)[k] = s[k]
  BY <1>1, <1>5 DEF Filled
<1>7. Consistent(s) => v = s
  BY <1>2, <1>3, <1>4
<1> QED
  BY <1>2, <1>4, <1>6, <1>7 DEF v

LEMMA NormalTyped ==
  ASSUME ConfigAssumption, NEW s \in Settings
  PROVE  Normal(s) \in Settings /\ Consistent(Normal(s))
<1>1. /\ {Low, High} \subseteq Keys /\ Low # High /\ Values \subseteq Int
      /\ s \in [Keys -> Values] /\ s[Low] \in Values /\ s[High] \in Values
  BY DEF ConfigAssumption, Settings
<1>2. CASE Consistent(s)
  BY <1>2 DEF Normal
<1>3. CASE ~Consistent(s)
  <2> DEFINE t == [s EXCEPT ![High] = s[Low]]
  <2>1. t \in [Keys -> Values] /\ t[Low] = s[Low] /\ t[High] = s[Low]
    BY <1>1
  <2>2. Normal(s) = t
    BY <1>3 DEF Normal
  <2> HIDE DEF t
  <2> QED
    <3>1. Normal(s) \in Settings
      BY <2>1, <2>2 DEF Settings
    <3>2. t[Low] <= t[High]
      <4>1. s[Low] \in Int
        BY <1>1
      <4> QED
        BY <2>1, <4>1
    <3> QED
      BY <2>2, <3>1, <3>2 DEF Consistent
<1> QED
  BY <1>2, <1>3

(* The document a file parses to, and the settings: whatever the file      *)
(* held, they are complete and do not contradict each other.               *)
LEMMA ParsedTyped ==
  ASSUME ConfigAssumption, NEW f \in Documents
  PROVE  /\ Parsed(f) \in Documents /\ NoBad(Parsed(f)) /\ Loaded(f) \in Settings
         /\ Parsed(f).gen = f.gen /\ Parsed(f).extra = f.extra
         /\ Consistent(Loaded(f))
         /\ \A k \in Keys : Parsed(f).vals[k] \in {Absent, Loaded(f)[k]}
<1> DEFINE valid == [k \in Keys |-> IF f.vals[k] = Bad THEN Absent ELSE f.vals[k]]
           dropped == [valid EXCEPT ![High] = Absent]
           forced == [valid EXCEPT ![High] = Filled(valid)[Low]]
           v == Repaired(f.vals)
<1>1. /\ {Low, High} \subseteq Keys /\ Low # High /\ Values \subseteq Int /\ Default \in Values
      /\ Absent \notin Values /\ Bad \notin Values /\ Absent # Bad
  BY DEF ConfigAssumption
<1>2. valid \in [Keys -> Values \cup {Absent}] /\ dropped \in [Keys -> Values \cup {Absent}]
  BY <1>1 DEF Documents
<1>3. v = IF Consistent(Filled(valid)) THEN valid
          ELSE IF Consistent(Filled(dropped)) THEN dropped ELSE forced
  BY DEF Repaired
<1> HIDE DEF v, valid
<1>4. Filled(valid) \in Settings
  BY <1>1, <1>2 DEF Filled, Settings
<1>5. forced \in [Keys -> Values \cup {Absent}] /\ Consistent(Filled(forced))
  <2> DEFINE w == Filled(valid)[Low]
  <2>1. w \in Values /\ w \in Int
    BY <1>1, <1>4 DEF Settings
  <2>2. (valid[Low] \in Values /\ valid[Low] = w) \/ (valid[Low] \notin Values /\ w = Default)
    <3>1. w = IF valid[Low] \in Values THEN valid[Low] ELSE Default
      BY <1>1 DEF Filled
    <3> HIDE DEF w
    <3> QED
      BY <3>1
  <2>3. forced = [valid EXCEPT ![High] = w]
    BY DEF forced
  <2> HIDE DEF w, forced
  <2>4. forced \in [Keys -> Values \cup {Absent}] /\ forced[High] = w /\ forced[Low] = valid[Low]
    BY <1>1, <1>2, <2>1, <2>3
  <2>5. Filled(forced)[High] = w /\ Filled(forced)[Low] = w
    BY <1>1, <2>1, <2>2, <2>4 DEF Filled
  <2> QED
    BY <2>1, <2>4, <2>5 DEF Consistent
<1>6. v \in [Keys -> Values \cup {Absent}] /\ Consistent(Filled(v))
  BY <1>2, <1>3, <1>5
<1>7. /\ Filled(v) \in Settings
      /\ \A k \in Keys : v[k] # Bad /\ v[k] \in {Absent, Filled(v)[k]}
  BY <1>1, <1>6 DEF Filled, Settings
<1>8. /\ Parsed(f) = [f EXCEPT !.vals = v] /\ Loaded(f) = Filled(v)
  BY DEF Parsed, Loaded, v, Documents
<1>9. /\ Parsed(f) \in Documents /\ Parsed(f).vals = v /\ Parsed(f).gen = f.gen /\ Parsed(f).extra = f.extra
  BY <1>6, <1>8 DEF Documents
<1> QED
  BY <1>6, <1>7, <1>8, <1>9 DEF NoBad

LEMMA TemplateTyped ==
  ASSUME ConfigAssumption, NEW gen \in Jobs
  PROVE  /\ Template(gen) \in Documents /\ NoBad(Template(gen))
         /\ Defaults \in Settings /\ Template(gen).vals = Defaults /\ Consistent(Defaults)
BY DEF ConfigAssumption, Documents, Template, Defaults, NoBad, Settings, Consistent

LEMMA Kinds ==
  /\ Missing.kind # "toml" /\ Corrupt.kind # "toml" /\ Missing # Corrupt
  /\ \A f \in Documents : f.kind = "toml" /\ f # Missing /\ f # Corrupt
  /\ \A j \in Job : j # Idle
  /\ ~Closed.open /\ \A d \in Held : d.open /\ d # Closed
<1>1. Missing.kind # "toml" /\ Corrupt.kind # "toml" /\ Missing.kind # Corrupt.kind
  BY DEF Missing, Corrupt
<1>2. \A f \in Documents : f.kind = "toml"
  BY DEF Documents
<1>3. Idle.step # "replace" /\ \A j \in Job : j.step = "replace"
  BY DEF Idle, Job
<1>4. ~Closed.open /\ \A d \in Held : d.open
  BY DEF Closed, Held
<1> QED
  BY <1>1, <1>2, <1>3, <1>4

LEMMA NoJobTyped == ASSUME ConfigAssumption PROVE NoJob \in Jobs
BY DEF ConfigAssumption, NoJob

(* What Open and Reload hold.                                              *)
LEMMA HoldingTyped ==
  ASSUME ConfigAssumption, NEW f \in Documents
  PROVE  LET d == Holding(Parsed(f), Loaded(f), f, FALSE)
         IN /\ d \in Held /\ NoBad(d.document) /\ OnBaseline(d) /\ \A p \in Procs : KeepsTables(p, d)
            /\ d.known = f /\ d.baseline = Loaded(f) /\ Consistent(d.settings)
BY ParsedTyped DEF Holding, Held, OnBaseline, KeepsTables

---------------------------------------------------------------------------
(* What a step leaves alone: the file, the processes other than p, and the *)
(* flags that are only ever raised.                                        *)
Others(p) ==
  /\ \A q \in Procs \ {p} : held'[q] = held[q] /\ job'[q] = job[q]
  /\ Unraced' => Unraced
  /\ Orderly' => Orderly

(* What may be saved: the held document of p, or a candidate made from it. *)
Candidate(p, d, whole) ==
  /\ d \in Held /\ NoBad(d.document)
  /\ d.known = held[p].known /\ d.disabled = held[p].disabled
  /\ Orderly => OnBaseline(d)
  /\ ~whole => d.baseline = held[p].baseline
  /\ p = Gui => Consistent(d.settings)
  /\ \/ KeepsTables(p, d)
     \/ whole /\ p = Gui /\ OnBaseline(d) /\ d.settings = Defaults

LEMMA BeginKeeps ==
  ASSUME ConfigAssumption, IInv, NEW p \in Procs, NEW whole \in BOOLEAN, NEW d,
         Candidate(p, d, whole), Begin(p, d, whole)
  PROVE  IInv'
<1> DEFINE m == [d EXCEPT !.document = Merged(d)]
           r == [d EXCEPT !.disabled = @ \/ (d.known = Missing /\ ~KnowsFile(d))]
<1>1. d \in Held /\ held[p].open /\ job[p] = Idle /\ file' = file
  BY DEF Candidate, Begin, Ready
<1>2. /\ m \in Held /\ NoBad(m.document) /\ m.document = Merged(d) /\ m.settings = d.settings
      /\ m.baseline = d.baseline /\ m.known = d.known /\ m.disabled = d.disabled
      /\ m.document.gen = d.document.gen /\ m.document.extra = d.document.extra
  BY MergedTyped DEF Candidate, Held
<1>3. /\ r \in Held /\ r.document = d.document /\ r.settings = d.settings
      /\ r.baseline = d.baseline /\ r.known = d.known /\ (d.disabled => r.disabled)
  BY <1>1 DEF Held
<1>4. /\ spent' \in [edits : Nat, faults : Nat, raced : BOOLEAN]
      /\ Unraced' => Unraced /\ \A q \in Procs : job[q] = Idle
      /\ Orderly' => Orderly
  BY DEF Begin, IInv, Typed, Unraced, Orderly
<1>5. CASE d.disabled \/ ~KnowsFile(d)
  <2>1. job' = job /\ held' = [held EXCEPT ![p] = IF whole THEN @ ELSE r]
    BY <1>5 DEF Begin
  <2>2. /\ held' \in [Procs -> Held \cup {Closed}] /\ Others(p)
        /\ held'[p] = held[p] \/ (~whole /\ held'[p] = r)
    BY <2>1, <1>3, <1>4 DEF IInv, Typed, Others
  <2> HIDE DEF r
  <2>3. Typed'
    BY <2>1, <2>2, <1>1, <1>3, <1>4 DEF IInv, Typed, Others, Candidate, NoBad
  <2>4. InvalidDisables'
    BY <2>1, <2>2, <1>1, <1>3 DEF IInv, InvalidDisables, Others, Candidate
  <2>5. CheckHolds'
    BY <2>1, <1>1, <1>4 DEF IInv, CheckHolds
  <2>6. BaselineKept'
    BY <2>1, <2>2, <1>1, <1>3 DEF IInv, BaselineKept, Others, Candidate, OnBaseline, StartsFrom
  <2>7. SavedLoads'
    BY <2>1, <1>4 DEF IInv, SavedLoads
  <2>8. TablesKept'
    BY <2>1, <2>2, <1>1, <1>3 DEF IInv, TablesKept, Others, Candidate, KeepsTables
  <2>9. GuiConsistent'
    BY <2>1, <2>2, <1>1, <1>3 DEF IInv, GuiConsistent, Others, Candidate, ConfigAssumption
  <2> QED
    BY <2>3, <2>4, <2>5, <2>6, <2>7, <2>8, <2>9 DEF IInv
<1>6. CASE ~(d.disabled \/ ~KnowsFile(d))
  <2> DEFINE j == [step |-> "replace", whole |-> whole, saved |-> m]
  <2>1. /\ job' = [job EXCEPT ![p] = j]
        /\ held' = [held EXCEPT ![p] = IF whole THEN @ ELSE m]
    BY <1>6 DEF Begin
  <2>2. j \in Job /\ j.saved = m /\ j # Idle
    BY <1>2, Kinds DEF Job
  <2>3. /\ held' \in [Procs -> Held \cup {Closed}] /\ job' \in [Procs -> Job \cup {Idle}]
        /\ Others(p) /\ job'[p] = j
        /\ held'[p] = held[p] \/ (~whole /\ held'[p] = m)
    BY <2>1, <2>2, <1>2, <1>4 DEF IInv, Typed, Others
  <2>4. ~d.disabled /\ file = d.known
    BY <1>6 DEF KnowsFile
  <2> HIDE DEF j, m
  <2>5. Typed'
    BY <2>2, <2>3, <1>1, <1>2, <1>4 DEF IInv, Typed, Others, NoBad
  <2>6. InvalidDisables'
    BY <2>2, <2>3, <2>4, <1>1, <1>2 DEF IInv, InvalidDisables, Others, Candidate
  <2>7. CheckHolds'
    BY <2>2, <2>3, <2>4, <1>1, <1>2, <1>4 DEF CheckHolds, Others
  <2>8. BaselineKept'
    BY <2>2, <2>3, <1>1, <1>2 DEF IInv, BaselineKept, Others, Candidate, StartsFrom
  <2>9. SavedLoads'
    BY <2>2, <2>3, <1>1, <1>2, MergedLoads DEF IInv, SavedLoads, Others, Candidate
  <2>10. KeepsTables(p, m) \/ Cleared(p, m)
    BY <1>1, <1>2, MergedLoads DEF Candidate, KeepsTables, Cleared
  <2>11. KeepsTables(p, held'[p])
    BY <2>3, <1>1, <1>2 DEF IInv, TablesKept, Candidate, KeepsTables
  <2>12. TablesKept'
    BY <2>2, <2>3, <2>10, <2>11 DEF IInv, TablesKept, Others, KeepsTables, Cleared
  <2>13. GuiConsistent'
    BY <2>2, <2>3, <1>1, <1>2 DEF IInv, GuiConsistent, Others, Candidate, ConfigAssumption
  <2> QED
    BY <2>5, <2>6, <2>7, <2>8, <2>9, <2>12, <2>13 DEF IInv
<1> QED
  BY <1>5, <1>6

---------------------------------------------------------------------------
(* The actions that hold a document anew, or none.                         *)
LEMMA OpenKeeps ==
  ASSUME ConfigAssumption, IInv, NEW p \in Procs, Open(p)
  PROVE  IInv'
<1> DEFINE d == IF file.kind = "toml" THEN Holding(Parsed(file), Loaded(file), file, FALSE)
                ELSE Holding(Template(NoJob), Defaults, file, file = Corrupt)
<1>1. file \in Documents \cup {Missing, Corrupt} /\ held \in [Procs -> Held \cup {Closed}]
  BY DEF IInv, Typed
<1>2. d \in Held /\ NoBad(d.document) /\ OnBaseline(d) /\ d.known = file /\ KeepsTables(p, d)
      /\ (d.known = Corrupt => d.disabled) /\ (d.known.kind = "toml" => d.baseline = Loaded(d.known))
      /\ Consistent(d.settings)
  <2>1. CASE file \in Documents
    BY <2>1, HoldingTyped, Kinds
  <2>2. CASE file \in {Missing, Corrupt}
    BY <2>2, TemplateTyped, NoJobTyped, Kinds DEF Holding, Held, OnBaseline, KeepsTables
  <2> QED
    BY <1>1, <2>1, <2>2
<1>3. /\ held' = [held EXCEPT ![p] = d] /\ held' \in [Procs -> Held \cup {Closed}] /\ held'[p] = d
      /\ file' = file /\ job' = job /\ spent' = spent /\ Others(p)
  BY <1>1, <1>2 DEF Open, Others, Unraced, Orderly
<1> HIDE DEF d
<1>4. Typed'
  BY <1>2, <1>3 DEF IInv, Typed, Others, NoBad
<1>5. InvalidDisables' /\ CheckHolds' /\ SavedLoads' /\ BaselineKept'
  BY <1>2, <1>3
  DEF IInv, InvalidDisables, CheckHolds, SavedLoads, BaselineKept, StartsFrom, OnBaseline, Others, Unraced, Orderly
<1>6. TablesKept'
  BY <1>2, <1>3 DEF IInv, TablesKept, KeepsTables, Cleared, Others
<1>7. GuiConsistent'
  BY <1>2, <1>3 DEF IInv, GuiConsistent, Others, ConfigAssumption
<1> QED
  BY <1>4, <1>5, <1>6, <1>7 DEF IInv

LEMMA ReloadKeeps ==
  ASSUME ConfigAssumption, IInv, NEW p \in Procs, Reload(p)
  PROVE  IInv'
<1> DEFINE d == Holding(Parsed(file), Loaded(file), file, FALSE)
<1>1. file \in Documents /\ held \in [Procs -> Held \cup {Closed}]
  BY Kinds DEF IInv, Typed, Reload
<1>2. d \in Held /\ NoBad(d.document) /\ OnBaseline(d) /\ d.known = file /\ KeepsTables(p, d)
      /\ d.known # Corrupt /\ d.baseline = Loaded(d.known) /\ Consistent(d.settings)
  BY <1>1, HoldingTyped, Kinds
<1>3. /\ held' = [held EXCEPT ![p] = d] /\ held' \in [Procs -> Held \cup {Closed}] /\ held'[p] = d
      /\ file' = file /\ job' = job /\ spent' = spent /\ Others(p)
  BY <1>1, <1>2 DEF Reload, Others, Unraced, Orderly
<1> HIDE DEF d
<1>4. Typed'
  BY <1>2, <1>3 DEF IInv, Typed, Others, NoBad
<1>5. InvalidDisables' /\ CheckHolds' /\ SavedLoads' /\ BaselineKept'
  BY <1>2, <1>3
  DEF IInv, InvalidDisables, CheckHolds, SavedLoads, BaselineKept, StartsFrom, OnBaseline, Others, Unraced, Orderly
<1>6. TablesKept'
  BY <1>2, <1>3 DEF IInv, TablesKept, KeepsTables, Cleared, Others
<1>7. GuiConsistent'
  BY <1>2, <1>3 DEF IInv, GuiConsistent, Others, ConfigAssumption
<1> QED
  BY <1>4, <1>5, <1>6, <1>7 DEF IInv

LEMMA ExitKeeps ==
  ASSUME ConfigAssumption, IInv, NEW p \in Procs, Exit(p)
  PROVE  IInv'
<1>1. /\ held' \in [Procs -> Held \cup {Closed}] /\ job' \in [Procs -> Job \cup {Idle}]
      /\ held'[p] = Closed /\ job'[p] = Idle /\ ~held'[p].open
      /\ file' = file /\ spent' = spent /\ Others(p)
  BY Kinds DEF IInv, Typed, Exit, Others, Unraced, Orderly
<1>2. Typed'
  BY <1>1 DEF IInv, Typed, Others, NoBad
<1>3. InvalidDisables' /\ CheckHolds' /\ SavedLoads' /\ BaselineKept'
  BY <1>1
  DEF IInv, InvalidDisables, CheckHolds, SavedLoads, BaselineKept, StartsFrom, OnBaseline, Others, Unraced, Orderly
<1>4. TablesKept'
  BY <1>1 DEF IInv, TablesKept, KeepsTables, Cleared, Others
<1>5. GuiConsistent'
  BY <1>1 DEF IInv, GuiConsistent, Others, ConfigAssumption
<1> QED
  BY <1>2, <1>3, <1>4, <1>5 DEF IInv

---------------------------------------------------------------------------
(* The saves.                                                              *)
LEMMA HeldCandidate ==
  ASSUME ConfigAssumption, IInv, NEW p \in Procs, Ready(p)
  PROVE  /\ held[p] \in Held /\ NoBad(held[p].document) /\ KeepsTables(p, held[p])
         /\ Orderly => OnBaseline(held[p])
         /\ p = Gui => Consistent(held[p].settings)
BY Kinds DEF IInv, Typed, Ready, TablesKept, BaselineKept, GuiConsistent

(* Other settings make a candidate of the document that is held.           *)
LEMMA SettingsCandidate ==
  ASSUME ConfigAssumption, IInv, NEW p \in Procs, Ready(p), NEW whole \in BOOLEAN,
         NEW settings \in Settings, NEW forced \in SUBSET Keys, p = Gui => Consistent(settings)
  PROVE  Candidate(p, [held[p] EXCEPT !.settings = settings, !.forced = forced], whole)
<1> DEFINE d == [held[p] EXCEPT !.settings = settings, !.forced = forced]
<1>1. held[p] \in Held
  BY HeldCandidate
<1>2. /\ d \in Held /\ d.settings = settings /\ d.document = held[p].document
      /\ d.known = held[p].known /\ d.disabled = held[p].disabled /\ d.baseline = held[p].baseline
  BY <1>1 DEF Held
<1> HIDE DEF d
<1>3. NoBad(d.document) /\ (Orderly => OnBaseline(d)) /\ KeepsTables(p, d)
  BY <1>2, HeldCandidate DEF OnBaseline, KeepsTables
<1>4. Candidate(p, d, whole)
  BY <1>2, <1>3 DEF Candidate
<1> QED
  BY <1>2, <1>4 DEF d

LEMMA SavesKeep ==
  ASSUME ConfigAssumption, IInv, NEW p \in Procs, NEW settings \in Settings,
         Save(p, settings) \/ Create(p)
  PROVE  IInv'
<1>1. Ready(p)
  BY DEF Save, Create, Begin
<1>2. PICK forced \in SUBSET Keys, s \in Settings :
         /\ Begin(p, [held[p] EXCEPT !.settings = s, !.forced = forced], FALSE)
         /\ p = Gui => Consistent(s)
  <2>1. CASE Save(p, settings)
    BY <2>1, NormalTyped DEF Save
  <2>2. CASE Create(p)
    <3>1. /\ held[p] = [held[p] EXCEPT !.settings = held[p].settings, !.forced = held[p].forced]
          /\ held[p].settings \in Settings /\ held[p].forced \in SUBSET Keys
          /\ p = Gui => Consistent(held[p].settings)
      BY <1>1, HeldCandidate DEF Held
    <3>2. Begin(p, held[p], FALSE)
      BY <2>2 DEF Create
    <3>3. Begin(p, [held[p] EXCEPT !.settings = held[p].settings, !.forced = held[p].forced], FALSE)
      BY <3>1, <3>2
    <3> QED
      BY <3>1, <3>3
  <2> QED
    BY <2>1, <2>2
<1> QED
  BY <1>1, <1>2, SettingsCandidate, BeginKeeps

LEMMA SaveGenerationJobKeeps ==
  ASSUME ConfigAssumption, IInv, NEW gen \in Jobs, SaveGenerationJob(gen)
  PROVE  IInv'
<1> DEFINE d == [held[Gui] EXCEPT !.document.gen = gen]
<1>1. Gui \in Procs /\ Ready(Gui) /\ Begin(Gui, d, TRUE)
  BY DEF SaveGenerationJob, Begin, ConfigAssumption
<1>2. held[Gui].document \in Documents /\ held[Gui] \in Held
  BY <1>1, HeldCandidate DEF Held
<1>3. /\ d \in Held /\ d.document = [held[Gui].document EXCEPT !.gen = gen]
      /\ d.known = held[Gui].known /\ d.disabled = held[Gui].disabled /\ d.baseline = held[Gui].baseline
      /\ d.document.vals = held[Gui].document.vals /\ d.document.extra = held[Gui].document.extra
      /\ d.settings = held[Gui].settings
  BY <1>2 DEF Held, Documents
<1>4. Candidate(Gui, d, TRUE)
  BY <1>1, <1>3, HeldCandidate DEF Candidate, OnBaseline, KeepsTables, NoBad
<1> QED
  BY <1>1, <1>4, BeginKeeps

LEMMA ImportKeeps ==
  ASSUME ConfigAssumption, IInv, NEW settings \in Settings, Import(settings)
  PROVE  IInv'
<1>1. /\ Gui \in Procs /\ Ready(Gui)
      /\ Begin(Gui, [held[Gui] EXCEPT !.settings = Normal(settings), !.forced = {}], TRUE)
  BY DEF Import, Begin, ConfigAssumption
<1>2. Normal(settings) \in Settings /\ Consistent(Normal(settings))
  BY NormalTyped
<1> QED
  BY <1>1, <1>2, SettingsCandidate, BeginKeeps

LEMMA ResetKeeps ==
  ASSUME ConfigAssumption, IInv, NEW clear \in BOOLEAN, Reset(clear)
  PROVE  IInv'
<1> DEFINE d == [held[Gui] EXCEPT !.settings = Defaults, !.forced = {}]
           e == [d EXCEPT !.document = Template(d.document.gen), !.baseline = Defaults]
<1>1. Gui \in Procs /\ Ready(Gui) /\ (Begin(Gui, d, TRUE) \/ Begin(Gui, e, TRUE))
  BY DEF Reset, Begin, ConfigAssumption
<1>2. Defaults \in Settings /\ Consistent(Defaults)
  BY TemplateTyped, NoJobTyped
<1>3. Candidate(Gui, d, TRUE)
  BY <1>1, <1>2, SettingsCandidate
<1>4. held[Gui] \in Held
  BY <1>1, HeldCandidate
<1>5. /\ d \in Held /\ d.settings = Defaults
      /\ d.known = held[Gui].known /\ d.disabled = held[Gui].disabled
  BY <1>2, <1>4 DEF Held
<1> HIDE DEF d
<1>6. d.document.gen \in Jobs
  BY <1>5 DEF Held, Documents
<1>7. /\ e \in Held /\ e.document = Template(d.document.gen)
      /\ e.baseline = Defaults /\ e.settings = Defaults
      /\ e.known = held[Gui].known /\ e.disabled = held[Gui].disabled
  BY <1>5, <1>6, TemplateTyped DEF Held
<1> HIDE DEF e
<1>8. Candidate(Gui, e, TRUE)
  BY <1>2, <1>6, <1>7, TemplateTyped DEF Candidate, OnBaseline
<1> QED
  BY <1>1, <1>3, <1>8, BeginKeeps

LEMMA ReplaceKeeps ==
  ASSUME ConfigAssumption, IInv, NEW p \in Procs, Replace(p)
  PROVE  IInv'
<1> DEFINE s == job[p].saved
           d == Settled(s, job[p].whole)
<1>1. s \in Held /\ job[p] # Idle /\ NoBad(s.document)
  BY Kinds DEF IInv, Typed, Replace, Job
<1>2. /\ d \in Held /\ d.document = s.document /\ d.known = s.document
      /\ d.baseline = s.settings /\ s.document \in Documents
  BY <1>1 DEF Settled, Held
<1>3. /\ held' \in [Procs -> Held \cup {Closed}] /\ job' \in [Procs -> Job \cup {Idle}]
      /\ held'[p] = d /\ job'[p] = Idle /\ file' = s.document /\ spent' = spent /\ Others(p)
  BY <1>1, <1>2 DEF IInv, Typed, Replace, Others, Unraced, Orderly
<1>4. Typed'
  BY <1>1, <1>2, <1>3 DEF IInv, Typed, Others, NoBad
<1>5. InvalidDisables'
  BY <1>2, <1>3, Kinds DEF IInv, InvalidDisables, Others
<1>6. CheckHolds'
  BY <1>1, <1>3 DEF IInv, CheckHolds, Others
<1>7. SavedLoads'
  BY <1>3 DEF IInv, SavedLoads, Others
<1>8. BaselineKept'
  <2>1. Orderly => s.document.vals = s.settings
    BY <1>1 DEF IInv, SavedLoads
  <2>2. Orderly => OnBaseline(d)
    BY <1>2, <2>1 DEF OnBaseline
  <2>3. Orderly => StartsFrom(p, d, s.document)
    <3>1. s.settings \in Settings
      BY <1>1 DEF Held
    <3>2. p = Gui => Consistent(s.settings)
      BY <1>1 DEF IInv, GuiConsistent
    <3>3. Orderly /\ p = Gui => Loaded(s.document) = s.settings
      BY <2>1, <3>1, <3>2, RepairedIs DEF Loaded
    <3> QED
      BY <1>2, <2>1, <3>3 DEF StartsFrom
  <2> QED
    BY <1>2, <1>3, <2>2, <2>3 DEF IInv, BaselineKept, Others, StartsFrom
<1>9. TablesKept'
  BY <1>2, <1>3 DEF IInv, TablesKept, KeepsTables, Cleared, Others
<1>10. GuiConsistent'
  <2>1. d.settings = s.settings
    BY <1>1 DEF Settled, Held
  <2> QED
    BY <1>1, <1>3, <2>1 DEF IInv, GuiConsistent, Others, ConfigAssumption
<1> QED
  BY <1>4, <1>5, <1>6, <1>7, <1>8, <1>9, <1>10 DEF IInv

LEMMA ReplaceFailsKeeps ==
  ASSUME ConfigAssumption, IInv, NEW p \in Procs, ReplaceFails(p)
  PROVE  IInv'
<1>1. /\ job' \in [Procs -> Job \cup {Idle}] /\ job'[p] = Idle /\ job[p] # Idle
      /\ file' = file /\ held' = held /\ \A q \in Procs \ {p} : job'[q] = job[q]
  BY DEF IInv, Typed, ReplaceFails
<1>2. /\ spent' \in [edits : Nat, faults : Nat, raced : BOOLEAN]
      /\ (Unraced' => Unraced) /\ (Orderly' => Orderly)
  BY DEF IInv, Typed, ReplaceFails, Unraced, Orderly
<1>3. ~Orderly'
  <2>1. CASE MayReplace(job[p].saved)
    BY <2>1 DEF IInv, Typed, ReplaceFails, Orderly
  <2>2. CASE ~MayReplace(job[p].saved)
    BY <2>2, <1>1 DEF IInv, CheckHolds, ReplaceFails, MayReplace, Orderly, Unraced
  <2> QED
    BY <2>1, <2>2
<1>4. Typed'
  BY <1>1, <1>2 DEF IInv, Typed
<1>5. InvalidDisables' /\ CheckHolds'
  BY <1>1, <1>2 DEF IInv, InvalidDisables, CheckHolds
<1>6. TablesKept' /\ GuiConsistent'
  BY <1>1 DEF IInv, TablesKept, GuiConsistent, ConfigAssumption
<1> QED
  BY <1>3, <1>4, <1>5, <1>6 DEF IInv, BaselineKept, SavedLoads

LEMMA EditKeeps ==
  ASSUME ConfigAssumption, HandMadeAssumption, IInv, NEW f \in HandMade \cup {Missing}, Edit(f)
  PROVE  IInv'
<1>1. held' = held /\ job' = job /\ file' \in Documents \cup {Missing, Corrupt}
  BY DEF Edit, HandMadeAssumption
<1>2. /\ spent' \in [edits : Nat, faults : Nat, raced : BOOLEAN]
      /\ Unraced' => Unraced /\ \A q \in Procs : job[q] = Idle
      /\ Orderly' => Orderly
  <2>1. spent \in [edits : Nat, faults : Nat, raced : BOOLEAN]
    BY DEF IInv, Typed
  <2> DEFINE e == spent.edits + 1
             b == spent.raced \/ \E p \in Procs : job[p] # Idle
  <2>2. e \in Nat /\ b \in BOOLEAN /\ spent' = [spent EXCEPT !.edits = e, !.raced = b]
    BY <2>1 DEF Edit
  <2> HIDE DEF e, b
  <2>3. /\ spent' \in [edits : Nat, faults : Nat, raced : BOOLEAN]
        /\ spent'.faults = spent.faults /\ spent'.raced = b
    BY <2>1, <2>2
  <2> QED
    BY <2>1, <2>3 DEF Unraced, Orderly, b
<1>3. Typed'
  BY <1>1, <1>2 DEF IInv, Typed
<1> QED
  BY <1>1, <1>2, <1>3 DEF IInv, InvalidDisables, CheckHolds, BaselineKept, SavedLoads, GuiConsistent, TablesKept

---------------------------------------------------------------------------
LEMMA InitEstablishes == ASSUME ConfigAssumption, HandMadeAssumption, Init PROVE IInv
<1>1. \A p \in Procs : held[p] = Closed /\ ~held[p].open /\ job[p] = Idle
  BY Kinds DEF Init
<1>2. Typed
  BY <1>1 DEF Init, Typed, HandMadeAssumption
<1> QED
  BY <1>1, <1>2 DEF IInv, InvalidDisables, CheckHolds, BaselineKept, SavedLoads, GuiConsistent, TablesKept

LEMMA NextKeeps == ASSUME ConfigAssumption, HandMadeAssumption, IInv, [Next]_vars PROVE IInv'
<1>1. CASE UNCHANGED vars
  BY <1>1 DEF vars, IInv, Typed, InvalidDisables, CheckHolds, BaselineKept, SavedLoads, GuiConsistent, TablesKept,
              StartsFrom, OnBaseline, KeepsTables, Cleared, NoBad, Unraced, Orderly
<1>2. ASSUME NEW p \in Procs, Open(p) \/ Reload(p) \/ Exit(p) \/ Replace(p) \/ ReplaceFails(p)
      PROVE  IInv'
  BY <1>2, OpenKeeps, ReloadKeeps, ExitKeeps, ReplaceKeeps, ReplaceFailsKeeps
<1>3. ASSUME NEW p \in Procs, Create(p)
      PROVE  IInv'
  BY <1>3, SavesKeep, TemplateTyped, NoJobTyped
<1>4. ASSUME NEW p \in Procs, NEW s \in Settings, Save(p, s)
      PROVE  IInv'
  BY <1>4, SavesKeep
<1>5. ASSUME NEW s \in Settings, Import(s)
      PROVE  IInv'
  BY <1>5, ImportKeeps
<1>6. ASSUME NEW g \in Jobs, SaveGenerationJob(g)
      PROVE  IInv'
  BY <1>6, SaveGenerationJobKeeps
<1>7. ASSUME NEW clear \in BOOLEAN, Reset(clear)
      PROVE  IInv'
  BY <1>7, ResetKeeps
<1>8. ASSUME NEW f \in HandMade \cup {Missing}, Edit(f)
      PROVE  IInv'
  BY <1>8, EditKeeps
<1> QED
  BY <1>1, <1>2, <1>3, <1>4, <1>5, <1>6, <1>7, <1>8 DEF Next

(* Every reachable state satisfies the inductive invariant.                *)
THEOREM Invariance == Spec => []IInv
<1>1. ConfigAssumption /\ HandMadeAssumption
  BY ConfigAssumption, HandMadeAssumption
<1>2. Init => IInv
  BY <1>1, InitEstablishes
<1>3. IInv /\ [Next]_vars => IInv'
  BY <1>1, NextKeeps
<1> QED
  BY <1>2, <1>3, PTL DEF Spec

(* What each process holds is well formed and, in orderly use, its         *)
(* baseline is what the file it is in step with loads as: the next merge   *)
(* starts from what is on disk (ConfigDocument::open, save and reload).    *)
THEOREM HoldsInStep == Spec => []HeldIsInStep
<1>1. IInv => TypeOK
  BY Kinds DEF IInv, Typed, TypeOK, NoBad, Job
<1>2. IInv => BaselineIsOnDisk
  BY DEF IInv, BaselineKept, BaselineIsOnDisk, StartsFrom
<1> QED
  BY <1>1, <1>2, Invariance, PTL DEF HeldIsInStep

---------------------------------------------------------------------------
(* The only step that ends a save of p by writing the file is p's own      *)
(* replacement, with what was merged.                                      *)
LEMMA OnlyReplaces ==
  ASSUME ConfigAssumption, IInv, [Next]_vars, NEW p \in Procs, job[p] # Idle, job'[p] = Idle
  PROVE  \/ Replace(p)
         \/ file' = file
<1>1. CASE \E q \in Procs : Replace(q)
  <2>1. PICK q \in Procs : Replace(q)
    BY <1>1
  <2>2. q = p
    BY <2>1 DEF Replace, IInv, Typed
  <2> QED
    BY <2>1, <2>2
<1>2. CASE \E f \in HandMade \cup {Missing} : Edit(f)
  BY <1>2 DEF Edit
<1> QED
  BY <1>1, <1>2 DEF Next, vars, Open, Reload, Exit, Create, Save, Import, SaveGenerationJob, Reset,
                    Begin, ReplaceFails

(* A save replaces nothing it does not know: no edit and no invalid file,  *)
(* unless somebody acted between its check and its replacement, never a    *)
(* file that appeared since the process found none, and no table but its   *)
(* own.                                                                    *)
THEOREM NothingIsOverwritten == Spec => NothingOverwritten
<1>1. ASSUME IInv, [Next]_vars, NEW p \in Procs, Replaces(p)
      PROVE  /\ Replace(p) /\ job[p] # Idle /\ file' = job[p].saved.document
             /\ Unraced => file = job[p].saved.known /\ file # Corrupt
  BY <1>1, OnlyReplaces, ConfigAssumption DEF Replaces, Replace, IInv, CheckHolds, InvalidDisables
<1>2. ASSUME IInv, [Next]_vars
      PROVE  Unraced => \A p \in Procs : Replaces(p) => file \in {job[p].saved.known, Missing}
  BY <1>1, <1>2
<1>3. ASSUME IInv, [Next]_vars
      PROVE  Unraced => \A p \in Procs : Replaces(p) => file # Corrupt
  BY <1>1, <1>3
<1>4. ASSUME IInv, [Next]_vars
      PROVE  \A p \in Procs : Replaces(p) /\ job[p].saved.known = Missing => file = Missing
  BY <1>1, <1>4 DEF Replace, MayReplace
<1>5. ASSUME IInv, [Next]_vars
      PROVE  Unraced => \A p \in Procs : Replaces(p) /\ file.kind = "toml" =>
               /\ p # Gui => file'.gen = file.gen
               /\ file.extra => file'.extra \/ (p = Gui /\ Loaded(file') = Defaults)
  <2>1. SUFFICES ASSUME Unraced, NEW p \in Procs, Replaces(p), file.kind = "toml"
                 PROVE  /\ p # Gui => file'.gen = file.gen
                        /\ file.extra => file'.extra \/ (p = Gui /\ Loaded(file') = Defaults)
    OBVIOUS
  <2>2. Cleared(p, job[p].saved) => Loaded(job[p].saved.document) = Defaults
    BY ConfigAssumption, NoJobTyped, TemplateTyped, RepairedIs DEF Cleared, Loaded
  <2> QED
    BY <1>1, <1>5, <2>1, <2>2 DEF IInv, TablesKept, KeepsTables, Cleared
<1> QED
  BY <1>2, <1>3, <1>4, <1>5, Invariance, PTL
  DEF Spec, NothingOverwritten, EditsSurvive, InvalidIsKept, CreationKeepsFile, TablesSurvive

(* In orderly use a save writes the settings: merging loses no change and  *)
(* brings back no older one; and they load as such unless the game staged  *)
(* values that contradict each other, then but for the later of these.     *)
THEOREM SavesLoadAsSaved == Spec => SavedIsSettings
<1>1. ASSUME IInv, [Next]_vars, Orderly, NEW p \in Procs, Answered(p)
      PROVE  LET settings == job[p].saved.settings IN
               /\ file'.vals = settings
               /\ \A k \in Keys : Loaded(file')[k] = settings[k] \/ (k = High /\ p # Gui /\ ~Consistent(settings))
  <2> DEFINE settings == job[p].saved.settings
  <2>1. job[p] # Idle /\ settings \in Settings
    BY <1>1 DEF Answered, IInv, Typed, Job, Held
  <2>2. file'.vals = settings /\ (p = Gui => Consistent(settings))
    BY <1>1, <2>1 DEF IInv, SavedLoads, GuiConsistent, Answered
  <2>3. Loaded(file') = Filled(Repaired(settings))
    BY <2>2 DEF Loaded
  <2> HIDE DEF settings
  <2>4. \A k \in Keys \ {High} : Loaded(file')[k] = settings[k]
    BY <2>1, <2>3, RepairedIs, ConfigAssumption
  <2>5. Consistent(settings) => Loaded(file') = settings
    BY <2>1, <2>3, RepairedIs, ConfigAssumption
  <2> QED
    BY <2>2, <2>4, <2>5 DEF settings
<1>2. ASSUME IInv, [Next]_vars
      PROVE  Orderly => \A p \in Procs : Answered(p) =>
               LET settings == job[p].saved.settings IN
                 /\ file'.vals = settings
                 /\ \A k \in Keys : Loaded(file')[k] = settings[k] \/ (k = High /\ p # Gui /\ ~Consistent(settings))
  BY <1>1, <1>2
<1> QED
  BY <1>2, Invariance, PTL DEF Spec, SavedIsSettings
=============================================================================
