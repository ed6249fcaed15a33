---------------------------- MODULE ConfigDocument ----------------------------
(* mgeXE.toml and the processes that hold it open: the GUI and the game each
   keep a parsed document, the settings it loaded as and the revision they know,
   merge their changed settings into the document and replace the file, while a
   user edits it by hand.  A revision is the content it hashes.                *)
EXTENDS Integers

CONSTANTS
  Procs,     \* processes with a document: the GUI and the game
  Gui,       \* the one that saves whole settings and generation jobs
  Keys,      \* keys of the schema
  Low, High, \* two of them that the schema relates: the second is no lower than the first
  Values,    \* their valid values
  Default,   \* the template's value of every key
  Absent,    \* the file has no such key
  Bad,       \* a value that does not decode or is out of range
  Jobs,      \* contents of the generator's root table
  Choices,   \* settings a user may come to save, import or reach in the game
  HandMade,  \* files a user may write
  MaxEdits,  \* bound: changes by hand
  MaxFaults  \* bound: writes or replacements that fail

ASSUME ConfigAssumption ==
  /\ Gui \in Procs /\ {Low, High} \subseteq Keys /\ Low # High
  /\ Values \subseteq Int /\ Default \in Values /\ {Absent, Bad} \cap Values = {} /\ Absent # Bad
  /\ {MaxEdits, MaxFaults} \subseteq Nat
  /\ \E g \in Jobs : \A h \in Jobs : g <= h

VARIABLES
  file, \* the file on disk
  held, \* per process: its ConfigDocument, path and warnings left out
  job,  \* per process: the save under way
  spent  \* edits, faults, and whether someone acted between a check and its replacement

vars == <<file, held, job, spent>>

Settings == [Keys -> Values]
Documents == [kind : {"toml"}, vals : [Keys -> Values \cup {Absent, Bad}], gen : Jobs, extra : BOOLEAN]
Missing == [kind |-> "missing"]
Corrupt == [kind |-> "corrupt"]

ASSUME HandMadeAssumption == HandMade \subseteq Documents \cup {Corrupt} /\ Choices \subseteq Settings

Defaults == [k \in Keys |-> Default]
Template(gen) == [kind |-> "toml", vals |-> Defaults, gen |-> gen, extra |-> FALSE]
NoJob == CHOOSE g \in Jobs : \A h \in Jobs : g <= h

\* normalize_distant_land has eight such relations: a value on the wrong side of
\* another is moved up, or down, to it.
Consistent(s) == s[Low] <= s[High]
\* Mutant: settings are only checked key by key.
NormalNot(s) == s
Normal(s) == IF Consistent(s) THEN s ELSE [s EXCEPT ![High] = s[Low]]

\* deserialize_settings: what a file omits has its default.
Filled(vals) == [k \in Keys |-> IF vals[k] \in Values THEN vals[k] ELSE Default]

\* Mutant: bad values stay in the document.
RepairedBad(vals) == vals
\* parse_bytes drops bad values, then one that contradicts another; if the default
\* contradicts it as well, the normalised value is put in its place.
Repaired(vals) ==
  LET valid == [k \in Keys |-> IF vals[k] = Bad THEN Absent ELSE vals[k]]
      dropped == [valid EXCEPT ![High] = Absent]
  IN IF Consistent(Filled(valid)) THEN valid
     ELSE IF Consistent(Filled(dropped)) THEN dropped
     ELSE [valid EXCEPT ![High] = Filled(valid)[Low]]

Parsed(f) == [f EXCEPT !.vals = Repaired(@)]
Loaded(f) == Filled(Repaired(f.vals))

Idle == [step |-> "idle"]
Closed == [open |-> FALSE]

Init ==
  /\ file \in HandMade \cup {Missing}
  /\ held = [p \in Procs |-> Closed] /\ job = [p \in Procs |-> Idle]
  /\ spent = [edits |-> 0, faults |-> 0, raced |-> FALSE]

---------------------------------------------------------------------------
Holding(document, settings, known, disabled) ==
  [open |-> TRUE, document |-> document, settings |-> settings, baseline |-> settings,
   known |-> known, disabled |-> disabled, forced |-> {}]

\* ConfigDocument::open
Open(p) ==
  /\ ~held[p].open
  /\ held' = [held EXCEPT ![p] =
       IF file.kind = "toml" THEN Holding(Parsed(file), Loaded(file), file, FALSE)
       ELSE Holding(Template(NoJob), Defaults, file, file = Corrupt)]
  /\ UNCHANGED <<file, job, spent>>

Ready(p) == held[p].open /\ job[p] = Idle

\* Mutant: a reload lifts the ban on writes before the file was parsed.
ReloadEnables(p) ==
  /\ Ready(p) /\ file # Missing
  /\ held' = [held EXCEPT ![p] = IF file.kind = "toml" THEN Holding(Parsed(file), Loaded(file), file, FALSE)
                                 ELSE [@ EXCEPT !.disabled = FALSE]]
  /\ UNCHANGED <<file, job, spent>>
\* A missing or invalid file leaves everything as it was.
Reload(p) ==
  /\ Ready(p) /\ file.kind = "toml"
  /\ held' = [held EXCEPT ![p] = Holding(Parsed(file), Loaded(file), file, FALSE)]
  /\ UNCHANGED <<file, job, spent>>

Exit(p) ==
  /\ held[p].open
  /\ held' = [held EXCEPT ![p] = Closed]
  /\ job' = [job EXCEPT ![p] = Idle]
  /\ UNCHANGED <<file, spent>>

---------------------------------------------------------------------------
(* Saving: the revision is checked, the settings are merged into the document,
   and a temporary file replaces the file in a later step.                     *)

\* complete_missing_entries: what the file omits, as the value it loaded as.
Completed(vals, d) == [k \in Keys |-> IF vals[k] = Absent THEN d.baseline[k] ELSE vals[k]]
\* merge_changed_tables: only what differs from the baseline.
Changed(vals, d) == [k \in Keys |-> IF d.baseline[k] # d.settings[k] THEN d.settings[k] ELSE vals[k]]
\* force_value_into_table, for the paths set one by one.
Forced(vals, d) == [k \in Keys |-> IF k \in d.forced THEN d.settings[k] ELSE vals[k]]

\* Mutant: the merge starts from the template and keeps only the generator's table.
MergedAfresh(d) == [Template(d.document.gen) EXCEPT !.vals = d.settings]
Merged(d) == [d.document EXCEPT !.vals = Forced(Changed(Completed(@, d), d), d)]

\* Mutant: the revision of the file is not looked at.
KnowsAlways(d) == TRUE
\* current_revision(path) == self.revision
KnowsFile(d) == file = d.known

(* d is what is saved; whole when it is a candidate of its own, which replaces
   the held document only when the save succeeds.                              *)
Begin(p, d, whole) ==
  /\ Ready(p)
  /\ spent' = [spent EXCEPT !.raced = @ \/ \E q \in Procs : job[q] # Idle]
  /\ IF d.disabled \/ ~KnowsFile(d)
     THEN /\ held' = [held EXCEPT ![p] = IF whole THEN @
                        ELSE [d EXCEPT !.disabled = @ \/ (d.known = Missing /\ ~KnowsFile(d))]]
          /\ UNCHANGED job
     ELSE /\ held' = [held EXCEPT ![p] = IF whole THEN @ ELSE [d EXCEPT !.document = Merged(d)]]
          /\ job' = [job EXCEPT ![p] = [step |-> "replace", whole |-> whole,
                                        saved |-> [d EXCEPT !.document = Merged(d)]]]
  /\ UNCHANGED file

\* SettingsStore::save replaces all settings, which normalises them; the game stages
\* every mapped key by its path, each within its own bounds only.
Save(p, settings) ==
  held[p].open /\ Begin(p, IF p = Gui THEN [held[p] EXCEPT !.settings = Normal(settings), !.forced = {}]
                           ELSE [held[p] EXCEPT !.settings = settings, !.forced = Keys], FALSE)

\* EnsureSettingsFile
Create(p) ==
  /\ p # Gui /\ held[p].open /\ held[p].known = Missing /\ ~held[p].disabled
  /\ Begin(p, held[p], FALSE)

SaveGenerationJob(gen) ==
  held[Gui].open /\ Begin(Gui, [held[Gui] EXCEPT !.document.gen = gen], TRUE)

Import(settings) ==
  held[Gui].open /\ Begin(Gui, [held[Gui] EXCEPT !.settings = Normal(settings), !.forced = {}], TRUE)

\* SettingsStore::reset; clear also drops unknown tables, never the generator's.
Reset(clear) ==
  /\ held[Gui].open
  /\ LET d == [held[Gui] EXCEPT !.settings = Defaults, !.forced = {}]
     IN Begin(Gui, IF clear THEN [d EXCEPT !.document = Template(d.document.gen), !.baseline = Defaults]
                   ELSE d, TRUE)

\* Mutant: a first-run creation may replace a file.
MayReplaceAny(d) == TRUE
\* MoveFileEx without MOVEFILE_REPLACE_EXISTING for a file that was missing.
MayReplace(d) == d.known = Missing => file = Missing

\* Mutant: the baseline stays what was loaded.
SettledStale(d, whole) == [d EXCEPT !.known = d.document, !.forced = {}]
\* The state after a successful save.
Settled(d, whole) == [d EXCEPT !.known = d.document, !.baseline = d.settings, !.forced = {}]

Replace(p) ==
  /\ job[p] # Idle /\ MayReplace(job[p].saved)
  /\ file' = job[p].saved.document
  /\ held' = [held EXCEPT ![p] = Settled(job[p].saved, job[p].whole)]
  /\ job' = [job EXCEPT ![p] = Idle]
  /\ UNCHANGED spent

\* The temporary file or the move fails; a move onto a created file always does.
ReplaceFails(p) ==
  /\ job[p] # Idle
  /\ IF MayReplace(job[p].saved)
     THEN spent.faults < MaxFaults /\ spent' = [spent EXCEPT !.faults = @ + 1]
     ELSE UNCHANGED spent
  /\ job' = [job EXCEPT ![p] = Idle]
  /\ UNCHANGED <<file, held>>

Edit(f) ==
  /\ spent.edits < MaxEdits
  /\ spent' = [spent EXCEPT !.edits = @ + 1, !.raced = @ \/ \E p \in Procs : job[p] # Idle]
  /\ file' = f /\ file' # file
  /\ UNCHANGED <<held, job>>

---------------------------------------------------------------------------
Next ==
  \/ \E p \in Procs : Open(p) \/ Reload(p) \/ Exit(p) \/ Create(p) \/ Replace(p) \/ ReplaceFails(p)
  \/ \E p \in Procs, s \in Choices : Save(p, s)
  \/ \E s \in Choices : Import(s)
  \/ \E g \in Jobs : SaveGenerationJob(g)
  \/ \E clear \in BOOLEAN : Reset(clear)
  \/ \E f \in HandMade \cup {Missing} : Edit(f)

Spec == Init /\ [][Next]_vars

---------------------------------------------------------------------------
Held == [open : {TRUE}, document : Documents, settings : Settings, baseline : Settings,
         known : Documents \cup {Missing, Corrupt}, disabled : BOOLEAN, forced : SUBSET Keys]

TypeOK ==
  /\ file \in Documents \cup {Missing, Corrupt}
  /\ \A p \in Procs : held[p] \in Held \cup {Closed}
  /\ \A p \in Procs : job[p] = Idle \/ job[p].saved \in Held
  /\ \A p \in Procs : held[p].open => \A k \in Keys : held[p].document.vals[k] # Bad

\* Nobody acted between another's check and its replacement, and no write failed.
Unraced == ~spent.raced
Orderly == Unraced /\ spent.faults = 0

Replaces(p) == job[p] # Idle /\ job'[p] = Idle /\ file' # file
Answered(p) == job[p] # Idle /\ job'[p] = Idle /\ file' = job[p].saved.document

(* In orderly use a save writes the settings, so that the merge loses no change and
   brings back no older one; and the file loads as just these, unless the game has
   staged values that contradict each other: then the later of them is another
   (ConfigDocument::save, parse_bytes).                                            *)
SavedIsSettings ==
  [][Orderly => \A p \in Procs : Answered(p) =>
       LET settings == job[p].saved.settings IN
         /\ file'.vals = settings
         /\ \A k \in Keys : Loaded(file')[k] = settings[k] \/ (k = High /\ p # Gui /\ ~Consistent(settings))]_vars

(* In orderly use a document that is in step with the file has for its baseline what
   the file loads as, or what the game itself wrote there, so the next merge starts
   from what is on disk.                                                           *)
BaselineIsOnDisk ==
  Orderly => \A p \in Procs :
    held[p].open /\ job[p] = Idle /\ ~held[p].disabled /\ file.kind = "toml" /\ held[p].known = file =>
      held[p].baseline = Loaded(file) \/ (p # Gui /\ held[p].baseline = file.vals)

(* "configuration changed on disk; reload it before saving" (ConfigError): unless
   checks and replacements overlap, what a save replaces is the file the process
   had loaded or written itself, or nothing.                                   *)
EditsSurvive ==
  [][Unraced => \A p \in Procs : Replaces(p) => file \in {job[p].saved.known, Missing}]_vars

(* An invalid file is left to its user: unless checks and replacements overlap
   no save replaces it, also after a reload that failed.                       *)
InvalidIsKept ==
  [][Unraced => \A p \in Procs : Replaces(p) => file # Corrupt]_vars

(* A first-run creation never overwrites a file that appeared meanwhile, however
   late it appeared.                                                           *)
CreationKeepsFile ==
  [][\A p \in Procs : Replaces(p) /\ job[p].saved.known = Missing => file = Missing]_vars

(* Unless checks and replacements overlap, the generator's table only changes
   with a generation job, and a user's own table only goes when defaults are
   restored with clearing.                                                     *)
TablesSurvive ==
  [][Unraced => \A p \in Procs : Replaces(p) /\ file.kind = "toml" =>
       /\ p # Gui => file'.gen = file.gen
       /\ file.extra => file'.extra \/ (p = Gui /\ Loaded(file') = Defaults)]_vars

(* What each process holds is well formed and in step with the file it knows. *)
HeldIsInStep == TypeOK /\ BaselineIsOnDisk

(* A save replaces nothing it does not know: no edit, no invalid file, no file
   that appeared meanwhile, and no table that is not its own.                  *)
NothingOverwritten == EditsSurvive /\ InvalidIsKept /\ CreationKeepsFile /\ TablesSurvive
=============================================================================
