--------------------------- MODULE VisibleSets_proofs ---------------------------
(* Nothing that was released is ever named: by a set the render thread draws, by
   the host's resident meshes, or by a list of commits the host may still apply;
   for every number of buffers, every capacity, every session, however many waits
   give up and whenever the host is lost.  And while the host lives and no wait has
   given up, every render draws the whole set and no set is cleared under its
   writer.                                                                      *)
EXTENDS VisibleSets, SequenceTheorems, FiniteSetTheorems, TLAPS

(* What a vector may hold: ground, or buffers that exist.                  *)
Existing == {b \in Buffers : res[b] # "out"}
Live(v) == IF v \in {"land", "grass"} THEN {Ground} ELSE Existing

(* What the host keeps between the steps of a command.                     *)
Working ==
  /\ host \notin {"rewrite", "commit"} => put = 0
  /\ host # "rewrite" => plan = << >>
  /\ host = "rewrite" => Len(plan) <= Cap /\ (size[job] <= old \/ size[job] <= put)
  /\ host = "stored" => old < Cap

Typed == TypeOK /\ Working

(* The element is stored before the size counts it, and what is written    *)
(* back is as live as what was read.                                       *)
Contents ==
  /\ \A v \in Vecs : \A i \in 1 .. size[v] : slots[v][i] \in Live(v)
  /\ host = "stored" => \A i \in 1 .. old + 1 : slots[job][i] \in Live(job)
  /\ host = "rewrite" => \A i \in 1 .. Len(plan) : plan[i] \in Live(job)
  /\ shown \subseteq Existing
  /\ drawn[Dangling] = 0

(* The entries the host may apply: those of the list, and those it counted *)
(* before the client began to rewrite it.                                  *)
Applicable(i) == i <= commits.size \/ (host = "commit" /\ i <= old)

Admits ==
  \A i \in 1 .. Len(commits.entries) :
    Applicable(i) /\ commits.entries[i].resident => commits.entries[i].buffer \in Existing

(***************************************************************************)
(* The passes: an eviction is polled and cleared for, and taken up again   *)
(* only from its beginning.                                                *)
(***************************************************************************)
Failing == Calls \cup Waits \cup {"poll", "unlist", "list"}
Evicts == {"unlist", "remove", "release"}

Linked(s) ==
  \A i \in 1 .. Len(s) :
    /\ s[i].do = "unlist" =>
         /\ i >= 2 => s[i - 1].do = "clear" /\ s[i - 1].vec = "extra"
         /\ i >= 3 => s[i - 2].do = "clear" /\ s[i - 2].vec = "distant"
         /\ i >= 4 => s[i - 3].do = "poll"
    /\ s[i].do = "remove" /\ i >= 2 => s[i - 1].do = "unlist"
    /\ s[i].do = "release" =>
         /\ i >= 2 => s[i - 1].do = "commit"
         /\ i >= 3 => s[i - 2].do = "remove"

Jumps(s) ==
  \A i \in 1 .. Len(s) : \A m \in 1 .. Len(s) :
    s[i].do \in Failing /\ m > i + s[i].skip => s[m].do \notin Evicts

(* How far the eviction has come that is next to be done.                  *)
Leads(s, k, do) == Len(s) >= k /\ s[k].do = do

Within(s) ==
  \/ Leads(s, 3, "unlist") \/ Leads(s, 2, "unlist") \/ Leads(s, 1, "unlist")
  \/ Leads(s, 1, "remove") \/ Leads(s, 2, "release") \/ Leads(s, 1, "release")

Scripted == Linked(todo) /\ Jumps(todo)

Empty(v) == size[v] = 0

Removals ==
  \A i \in 1 .. commits.size : ~commits.entries[i].resident /\ commits.entries[i].buffer \in InState("leaving")

Removing ==
  /\ Leads(todo, 3, "unlist") => ~pending
  /\ Leads(todo, 2, "unlist") => ~pending /\ Empty("distant")
  /\ Leads(todo, 1, "unlist") => ~pending /\ Empty("distant") /\ Empty("extra")
  /\ Leads(todo, 1, "remove") => ~pending /\ Empty("distant") /\ Empty("extra") /\ Removals
  /\ Leads(todo, 2, "release") \/ Leads(todo, 1, "release") =>
       Empty("distant") /\ Empty("extra") /\ Removals
  /\ Leads(todo, 2, "release") => ~pending /\ InState("leaving") \subseteq Listed
  /\ Leads(todo, 1, "release") =>
       /\ InState("leaving") \subseteq Listed
       /\ call.do = "commit" /\ host \in {"wait", "commit", "done"}
       /\ start \/ host = "commit" => ~call.reply
       /\ host = "commit" => old = commits.size /\ \A i \in 1 .. put : commits.entries[i].buffer \notin shown
       /\ call.reply => shown \cap InState("leaving") = {}

IInv == Typed /\ Contents /\ Admits /\ Scripted /\ Removing

---------------------------------------------------------------------------
(* Constants, and the parts of the type invariant.                         *)
LEMMA Sizes ==
  /\ Ground \notin Buffers /\ Dangling \notin Buffers /\ Dangling # Ground
  /\ Cap \in Nat \ {0} /\ Window \in Nat \ {0}
  /\ \A s \in Sessions : s.timeouts \in Nat
BY VisibleSetsAssumption DEF VisibleSetsAssumption

VecsTyped ==
  /\ slots \in [Vecs -> [1 .. Cap -> Content]] /\ size \in [Vecs -> 0 .. Cap]
  /\ upd \in [Vecs -> BOOLEAN] /\ cmp \in [Vecs -> BOOLEAN]
  /\ pop \in [Vecs -> [Content -> Nat]]

Entries == Seq([buffer : Buffers, resident : BOOLEAN])

RpcTyped ==
  /\ call \in [do : Calls, vec : Vecs, reply : BOOLEAN] /\ start \in BOOLEAN /\ done \in BOOLEAN
  /\ commits \in [entries : Entries, size : Nat] /\ commits.size <= Len(commits.entries)

HostTyped ==
  /\ alive \in BOOLEAN /\ host \in {"wait", "stream", "stored", "rewrite", "commit", "done"}
  /\ job \in Vecs /\ old \in Nat /\ plan \in Seq(Content) /\ put \in Nat
  /\ shown \in SUBSET (Buffers \cup {Dangling}) /\ space \in BOOLEAN

ClientTyped ==
  /\ session \in Sessions /\ todo \in Seq(Ops) /\ pending \in BOOLEAN
  /\ timeouts \in 0 .. session.timeouts /\ found \in BOOLEAN
  /\ res \in [Buffers -> {"out", "pending", "in", "leaving"}]

DrawTyped ==
  /\ at \in {"idle", "first", "loop", "enter", "more", "check"} /\ reading \in BOOLEAN
  /\ next \in 0 .. Cap /\ seen \in 0 .. Cap /\ drawn \in [Content -> Nat]

Progress ==
  /\ host = "rewrite" => put <= Len(plan)
  /\ host = "commit" => put <= old /\ old <= Len(commits.entries)
  /\ done => pending /\ host = "wait" /\ ~start
  /\ start => pending /\ host = "wait"
  /\ host # "wait" => pending

LEMMA Parts ==
  TypeOK <=> VecsTyped /\ RpcTyped /\ HostTyped /\ ClientTyped /\ DrawTyped /\ Progress
BY DEF TypeOK, VecsTyped, RpcTyped, HostTyped, ClientTyped, DrawTyped, Progress, Entries

All ==
  /\ VecsTyped /\ RpcTyped /\ HostTyped /\ ClientTyped /\ DrawTyped /\ Progress
  /\ Working /\ Contents /\ Admits /\ Scripted /\ Removing

LEMMA AllParts == IInv <=> All
BY Parts DEF IInv, All, Typed

LEMMA CountTyped == ASSUME NEW s \in Seq(Content) PROVE Count(s) \in [Content -> Nat]
<1>1. IsFiniteSet(1 .. Len(s)) /\ DOMAIN s = 1 .. Len(s)
  BY FS_Interval
<1>2. ASSUME NEW c \in Content PROVE Cardinality({i \in DOMAIN s : s[i] = c}) \in Nat
  <2>1. {i \in DOMAIN s : s[i] = c} \subseteq 1 .. Len(s)
    BY <1>1
  <2> QED
    BY <1>1, <2>1, FS_Subset, FS_CardinalityType
<1> QED
  BY <1>2 DEF Count

LEMMA LiveKnown == ASSUME NEW v \in Vecs PROVE Live(v) \subseteq Content /\ Dangling \notin Live(v)
BY Sizes DEF Live, Existing, Content

LEMMA ShownLive == ASSUME Contents, NEW v \in Vecs PROVE Showable(v) \subseteq Live(v)
BY DEF Contents, Showable, Live

---------------------------------------------------------------------------
(* The operations left of a pass.                                          *)
LEMMA OpKnown == ASSUME NEW o \in Ops PROVE o.vec \in Vecs /\ o.skip \in Nat
BY DEF Ops

LEMMA Dropped ==
  ASSUME NEW s \in Seq(Ops), s # << >>
  PROVE  /\ Tail(s) \in Seq(Ops) /\ Len(Tail(s)) = Len(s) - 1 /\ Len(s) \in Nat /\ Len(s) >= 1
         /\ \A i \in 1 .. Len(s) - 1 : Tail(s)[i] = s[i + 1]
         /\ Head(s) = s[1] /\ s[1] \in Ops
OBVIOUS

LEMMA Cut ==
  ASSUME NEW s \in Seq(Ops), NEW k \in Nat, k >= 2
  PROVE  /\ SubSeq(s, k, Len(s)) \in Seq(Ops)
         /\ Len(SubSeq(s, k, Len(s))) = IF k <= Len(s) THEN Len(s) - k + 1 ELSE 0
         /\ \A i \in 1 .. Len(SubSeq(s, k, Len(s))) : SubSeq(s, k, Len(s))[i] = s[i + k - 1]
OBVIOUS

LEMMA TailScripted ==
  ASSUME NEW s \in Seq(Ops), s # << >>, Linked(s), Jumps(s)
  PROVE  Linked(Tail(s)) /\ Jumps(Tail(s))
<1> DEFINE t == Tail(s)
<1>1. /\ Len(t) = Len(s) - 1 /\ Len(s) \in Nat /\ Len(s) >= 1
      /\ \A i \in 1 .. Len(t) : t[i] = s[i + 1]
  BY Dropped
<1> HIDE DEF t
<1>2. Linked(t)
  <2> SUFFICES ASSUME NEW i \in 1 .. Len(t)
               PROVE  /\ t[i].do = "unlist" =>
                           /\ i >= 2 => t[i - 1].do = "clear" /\ t[i - 1].vec = "extra"
                           /\ i >= 3 => t[i - 2].do = "clear" /\ t[i - 2].vec = "distant"
                           /\ i >= 4 => t[i - 3].do = "poll"
                      /\ t[i].do = "remove" /\ i >= 2 => t[i - 1].do = "unlist"
                      /\ t[i].do = "release" =>
                           /\ i >= 2 => t[i - 1].do = "commit"
                           /\ i >= 3 => t[i - 2].do = "remove"
    BY DEF Linked
  <2> DEFINE j == i + 1
  <2>1. j \in 1 .. Len(s) /\ j - 1 = i /\ t[i] = s[j]
    BY <1>1
  <2>2. /\ i >= 2 => t[i - 1] = s[j - 1]
        /\ i >= 3 => t[i - 2] = s[j - 2]
        /\ i >= 4 => t[i - 3] = s[j - 3]
    <3>1. /\ i >= 2 => i - 1 \in 1 .. Len(t) /\ (i - 1) + 1 = j - 1
          /\ i >= 3 => i - 2 \in 1 .. Len(t) /\ (i - 2) + 1 = j - 2
          /\ i >= 4 => i - 3 \in 1 .. Len(t) /\ (i - 3) + 1 = j - 3
      BY <1>1
    <3> HIDE DEF j
    <3> QED
      BY <1>1, <3>1
  <2>3. (i >= 2 => j >= 2) /\ (i >= 3 => j >= 3) /\ (i >= 4 => j >= 4)
    OBVIOUS
  <2> HIDE DEF j
  <2> QED
    BY <2>1, <2>2, <2>3 DEF Linked
<1>3. Jumps(t)
  <2> SUFFICES ASSUME NEW i \in 1 .. Len(t), NEW m \in 1 .. Len(t), t[i].do \in Failing, m > i + t[i].skip
               PROVE  t[m].do \notin Evicts
    BY DEF Jumps
  <2>1. t[i] = s[i + 1] /\ t[m] = s[m + 1]
    BY <1>1
  <2>4. i + 1 \in 1 .. Len(s) /\ m + 1 \in 1 .. Len(s)
    BY <1>1
  <2>2. s[i + 1] \in Ops
    BY <2>4
  <2>5. s[i + 1].skip \in Nat /\ m > i + s[i + 1].skip
    <3>1. s[i + 1].skip \in Nat
      BY <2>2, OpKnown
    <3>2. t[i].skip = s[i + 1].skip
      BY <2>1
    <3> QED
      BY <3>1, <3>2
  <2>3. m + 1 > (i + 1) + s[i + 1].skip
    BY <2>5
  <2> QED
    BY <2>1, <2>3, <2>4 DEF Jumps
<1> QED
  BY <1>2, <1>3 DEF t

(* What is left after a failure holds nothing of an eviction.              *)
LEMMA FailedScripted ==
  ASSUME NEW s \in Seq(Ops), s # << >>, Jumps(s), s[1].do \in Failing
  PROVE  LET t == SubSeq(s, s[1].skip + 2, Len(s))
         IN t \in Seq(Ops) /\ Linked(t) /\ Jumps(t) /\ ~Within(t)
<1> DEFINE k == s[1].skip + 2
           t == SubSeq(s, k, Len(s))
<1>1. s[1] \in Ops /\ Len(s) \in Nat /\ 1 \in 1 .. Len(s)
  BY Dropped
<1>2. k \in Nat /\ k >= 2
  BY <1>1 DEF Ops
<1> HIDE DEF k
<1>3. t \in Seq(Ops) /\ \A i \in 1 .. Len(t) : t[i] = s[i + k - 1] /\ i + k - 1 \in 1 .. Len(s)
  <2>1. /\ t \in Seq(Ops) /\ Len(t) = IF k <= Len(s) THEN Len(s) - k + 1 ELSE 0
        /\ \A i \in 1 .. Len(t) : t[i] = s[i + k - 1]
    BY <1>2, Cut
  <2> HIDE DEF t
  <2>2. \A i \in 1 .. Len(t) : i + k - 1 \in 1 .. Len(s)
    BY <1>1, <1>2, <2>1
  <2> QED
    BY <2>1, <2>2
<1>4. ASSUME NEW i \in 1 .. Len(t) PROVE t[i].do \notin Evicts
  <2>1. i + k - 1 > 1 + s[1].skip
    <3>1. s[1].skip \in Nat
      BY <1>1 DEF Ops
    <3> QED
      BY <3>1 DEF k
  <2> QED
    BY <1>1, <1>3, <2>1 DEF Jumps
<1>5. Len(t) \in Nat
  BY <1>3
<1> HIDE DEF t
<1>6. Linked(t) /\ Jumps(t)
  BY <1>4 DEF Linked, Jumps, Evicts
<1>7. ~Within(t)
  BY <1>4, <1>5 DEF Within, Leads, Evicts
<1> QED
  BY <1>3, <1>6, <1>7 DEF t, k

(* Only a poll, a clear and the steps of an eviction lead further into one. *)
LEMMA TailAway ==
  ASSUME NEW s \in Seq(Ops), s # << >>, Linked(s),
         s[1].do \notin {"poll", "clear", "unlist", "remove"},
         s[1].do = "commit" => ~Leads(s, 2, "release")
  PROVE  ~Within(Tail(s))
<1> DEFINE t == Tail(s)
<1>1. /\ Len(t) = Len(s) - 1 /\ Len(s) \in Nat /\ Len(s) >= 1
      /\ \A i \in 1 .. Len(t) : t[i] = s[i + 1]
  BY Dropped
<1> HIDE DEF t
<1>2. ~Leads(t, 3, "unlist") /\ ~Leads(t, 2, "unlist") /\ ~Leads(t, 1, "unlist")
  BY <1>1 DEF Leads, Linked
<1>3. ~Leads(t, 1, "remove") /\ ~Leads(t, 2, "release") /\ ~Leads(t, 1, "release")
  BY <1>1 DEF Leads, Linked
<1> QED
  BY <1>2, <1>3 DEF Within, t

LEMMA Away == ASSUME ~Within(todo) PROVE Removing
BY DEF Within, Removing

---------------------------------------------------------------------------
(* The host.                                                               *)
LEMMA AwayNext == ASSUME ~Within(todo)' PROVE Removing'
BY DEF Within, Removing

LEMMA ClientFrame ==
  ASSUME All, UNCHANGED << session, client >>
  PROVE  /\ ClientTyped' /\ DrawTyped' /\ Scripted'
         /\ Existing' = Existing /\ \A v \in Vecs : Live(v)' = Live(v)
         /\ UNCHANGED << todo, pending, drawn, res >>
<1>1. /\ UNCHANGED << session, todo, pending, timeouts, found, res, at, reading, next, seen, drawn >>
      /\ ClientTyped /\ DrawTyped /\ Scripted
  BY DEF All, client, draw
<1>2. ClientTyped' /\ DrawTyped' /\ Scripted'
  BY <1>1 DEF ClientTyped, DrawTyped, Scripted
<1>3. Existing' = Existing
  BY <1>1 DEF Existing
<1> QED
  BY <1>1, <1>2, <1>3 DEF Live

LEMMA Bumped ==
  ASSUME NEW R, NEW S, NEW f \in [R -> [S -> Nat]], NEW v \in R, NEW c \in S
  PROVE  [f EXCEPT ![v][c] = @ + 1] \in [R -> [S -> Nat]]
<1>1. f[v] \in [S -> Nat] /\ f[v][c] + 1 \in Nat
  OBVIOUS
<1>2. [f[v] EXCEPT ![c] = @ + 1] \in [S -> Nat]
  BY <1>1
<1>3. [f EXCEPT ![v][c] = @ + 1] = [f EXCEPT ![v] = [f[v] EXCEPT ![c] = @ + 1]]
  OBVIOUS
<1> QED
  BY <1>2, <1>3

LEMMA ElementOf == ASSUME NEW S, NEW s \in Seq(S), NEW i \in 1 .. Len(s) PROVE s[i] \in S
OBVIOUS

(* No eviction is under way while the host works on a vector.              *)
LEMMA Elsewhere ==
  ASSUME All, UNCHANGED todo, host \in {"stream", "stored", "rewrite"} \/ (start /\ call.do # "commit")
  PROVE  Removing'
<1>1. pending
  BY DEF All, Progress
<1>2. ~Within(todo)
  BY <1>1 DEF All, Removing, Within
<1>3. ~Within(todo)'
  BY <1>2 DEF Within, Leads
<1> QED
  BY <1>3, AwayNext

LEMMA TakeQueryKeeps == ASSUME All, TakeQuery, UNCHANGED session PROVE All'
<1>1. /\ VecsTyped /\ RpcTyped /\ HostTyped /\ ClientTyped /\ DrawTyped /\ Progress
      /\ Working /\ Contents /\ Admits /\ Scripted /\ Removing
  BY DEF All
<1>2. /\ UNCHANGED << session, client, slots, size, upd, cmp, done, commits, alive >>
      /\ host = "wait" /\ start /\ start' = FALSE /\ job' = call.vec /\ call.vec \in Vecs
      /\ call.do = "query" /\ host' \in {"stream", "done"} /\ UNCHANGED << pop, call, old, plan, put, shown, space >>
  BY <1>1 DEF TakeQuery, vecs, rpc, server, local, Dispatch, RpcTyped
<1>3. /\ ClientTyped' /\ DrawTyped' /\ Scripted'
      /\ Existing' = Existing /\ \A v \in Vecs : Live(v)' = Live(v)
      /\ UNCHANGED << todo, pending, drawn, res >>
  BY <1>2, ClientFrame
<1>4. VecsTyped'
  BY <1>1, <1>2, <1>3 DEF VecsTyped
<1>5. RpcTyped'
  BY <1>1, <1>2, <1>3 DEF RpcTyped
<1>6. HostTyped'
  BY <1>1, <1>2, <1>3 DEF HostTyped
<1>7. Progress'
  BY <1>1, <1>2, <1>3 DEF Progress
<1>8. Working'
  BY <1>1, <1>2, <1>3 DEF Working
<1>9. Contents'
  BY <1>1, <1>2, <1>3 DEF Contents
<1>10. Admits'
  BY <1>1, <1>2, <1>3 DEF Admits, Applicable
<1>11. Removing'
  BY <1>2, <1>3, Elsewhere
<1> QED
  BY <1>3, <1>4, <1>5, <1>6, <1>7, <1>8, <1>9, <1>10, <1>11 DEF All

LEMMA TakeSpaceKeeps == ASSUME All, TakeSpace, UNCHANGED session PROVE All'
<1>1. /\ VecsTyped /\ RpcTyped /\ HostTyped /\ ClientTyped /\ DrawTyped /\ Progress
      /\ Working /\ Contents /\ Admits /\ Scripted /\ Removing
  BY DEF All
<1>2. /\ UNCHANGED << session, client, slots, size, upd, cmp, done, commits, alive >>
      /\ host = "wait" /\ start /\ start' = FALSE /\ job' = call.vec /\ call.vec \in Vecs
      /\ call.do = "space" /\ host' = "done" /\ UNCHANGED << pop, old, plan, put, shown >>
      /\ space' \in BOOLEAN /\ call' = [call EXCEPT !.reply = space']
  BY <1>1 DEF TakeSpace, vecs, rpc, server, local, Dispatch, RpcTyped
<1>3. /\ ClientTyped' /\ DrawTyped' /\ Scripted'
      /\ Existing' = Existing /\ \A v \in Vecs : Live(v)' = Live(v)
      /\ UNCHANGED << todo, pending, drawn, res >>
  BY <1>2, ClientFrame
<1>4. VecsTyped'
  BY <1>1, <1>2, <1>3 DEF VecsTyped
<1>5. RpcTyped'
  BY <1>1, <1>2, <1>3 DEF RpcTyped
<1>6. HostTyped'
  BY <1>1, <1>2, <1>3 DEF HostTyped
<1>7. Progress'
  BY <1>1, <1>2, <1>3 DEF Progress
<1>8. Working'
  BY <1>1, <1>2, <1>3 DEF Working
<1>9. Contents'
  BY <1>1, <1>2, <1>3 DEF Contents
<1>10. Admits'
  BY <1>1, <1>2, <1>3 DEF Admits, Applicable
<1>11. Removing'
  BY <1>2, <1>3, Elsewhere
<1> QED
  BY <1>3, <1>4, <1>5, <1>6, <1>7, <1>8, <1>9, <1>10, <1>11 DEF All

LEMMA TakeOtherKeeps == ASSUME All, TakeOther, UNCHANGED session PROVE All'
<1>1. /\ VecsTyped /\ RpcTyped /\ HostTyped /\ ClientTyped /\ DrawTyped /\ Progress
      /\ Working /\ Contents /\ Admits /\ Scripted /\ Removing
  BY DEF All
<1>2. /\ UNCHANGED << session, client, slots, size, upd, cmp, done, commits, alive >>
      /\ host = "wait" /\ start /\ start' = FALSE /\ job' = call.vec /\ call.vec \in Vecs
      /\ call.do # "commit" /\ host' = "done" /\ UNCHANGED << pop, call, old, plan, put, shown, space >>
  BY <1>1 DEF TakeOther, vecs, rpc, server, local, Dispatch, RpcTyped
<1>3. /\ ClientTyped' /\ DrawTyped' /\ Scripted'
      /\ Existing' = Existing /\ \A v \in Vecs : Live(v)' = Live(v)
      /\ UNCHANGED << todo, pending, drawn, res >>
  BY <1>2, ClientFrame
<1>4. VecsTyped'
  BY <1>1, <1>2, <1>3 DEF VecsTyped
<1>5. RpcTyped'
  BY <1>1, <1>2, <1>3 DEF RpcTyped
<1>6. HostTyped'
  BY <1>1, <1>2, <1>3 DEF HostTyped
<1>7. Progress'
  BY <1>1, <1>2, <1>3 DEF Progress
<1>8. Working'
  BY <1>1, <1>2, <1>3 DEF Working
<1>9. Contents'
  BY <1>1, <1>2, <1>3 DEF Contents
<1>10. Admits'
  BY <1>1, <1>2, <1>3 DEF Admits, Applicable
<1>11. Removing'
  BY <1>2, <1>3, Elsewhere
<1> QED
  BY <1>3, <1>4, <1>5, <1>6, <1>7, <1>8, <1>9, <1>10, <1>11 DEF All

LEMMA TakeCommitKeeps == ASSUME All, TakeCommit, UNCHANGED session PROVE All'
<1>1. /\ VecsTyped /\ RpcTyped /\ HostTyped /\ ClientTyped /\ DrawTyped /\ Progress
      /\ Working /\ Contents /\ Admits /\ Scripted /\ Removing
  BY DEF All
<1>2. /\ UNCHANGED << session, client, slots, size, upd, cmp, done, commits, alive >>
      /\ host = "wait" /\ start /\ start' = FALSE /\ job' = call.vec /\ call.vec \in Vecs
      /\ call.do = "commit" /\ host' = "commit" /\ old' = commits.size
      /\ UNCHANGED << pop, call, plan, put, shown, space >>
  BY <1>1 DEF TakeCommit, vecs, rpc, server, local, Dispatch, RpcTyped
<1>3. /\ ClientTyped' /\ DrawTyped' /\ Scripted'
      /\ Existing' = Existing /\ \A v \in Vecs : Live(v)' = Live(v)
      /\ UNCHANGED << todo, pending, drawn, res >>
  BY <1>2, ClientFrame
<1>4. VecsTyped'
  BY <1>1, <1>2, <1>3 DEF VecsTyped
<1>5. RpcTyped'
  BY <1>1, <1>2, <1>3 DEF RpcTyped
<1>6. HostTyped'
  BY <1>1, <1>2 DEF HostTyped, RpcTyped
<1>7. Progress'
  <2>1. put = 0 /\ commits.size \in Nat /\ commits.size <= Len(commits.entries) /\ pending /\ ~done
    BY <1>1, <1>2 DEF Working, RpcTyped, Progress
  <2> QED
    BY <1>2, <1>3, <2>1 DEF Progress
<1>8. Working'
  BY <1>1, <1>2, <1>3 DEF Working
<1>9. Contents'
  BY <1>1, <1>2, <1>3 DEF Contents
<1>10. Admits'
  BY <1>1, <1>2, <1>3 DEF Admits, Applicable, RpcTyped
<1>11. Removing'
  <2>1. pending /\ put = 0
    BY <1>1, <1>2 DEF Progress, Working
  <2>2. Leads(todo, 1, "release") => Removing'
    BY <1>1, <1>2, <1>3, <2>1 DEF Removing, Leads, Empty, Removals, InState, Listed
  <2>3. ~Leads(todo, 1, "release") => ~Within(todo)
    BY <1>1, <2>1 DEF Removing, Within
  <2> QED
    BY <1>3, <2>2, <2>3, AwayNext DEF Within, Leads
<1> QED
  BY <1>3, <1>4, <1>5, <1>6, <1>7, <1>8, <1>9, <1>10, <1>11 DEF All

LEMMA StoreKeeps == ASSUME All, Store, UNCHANGED session PROVE All'
<1>1. /\ VecsTyped /\ RpcTyped /\ HostTyped /\ ClientTyped /\ DrawTyped /\ Progress
      /\ Working /\ Contents /\ Admits /\ Scripted /\ Removing
  BY DEF All
<1>2. /\ UNCHANGED << session, client, call, start, done, commits, alive, job, space >>
      /\ UNCHANGED << size, upd, cmp, pop, plan, put, shown >> /\ host = "stream" /\ host' = "stored" /\ old' = size[job]
      /\ \E c \in Showable(job) : slots' = [slots EXCEPT ![job][size[job] + 1] = c]
  BY <1>1 DEF Store, vecs, rpc, local
<1>3. /\ ClientTyped' /\ DrawTyped' /\ Scripted'
      /\ Existing' = Existing /\ \A v \in Vecs : Live(v)' = Live(v)
      /\ UNCHANGED << todo, pending, drawn, res >>
  BY <1>2, ClientFrame
<1>4. VecsTyped'
  <2>1. size[job] + 1 \in 1 .. Cap /\ Showable(job) \subseteq Content
    BY <1>1, ShownLive, LiveKnown, Sizes DEF Store, VecsTyped, HostTyped
  <2> QED
    BY <1>1, <1>2, <2>1 DEF VecsTyped, HostTyped
<1>5. RpcTyped'
  BY <1>1, <1>2, <1>3 DEF RpcTyped
<1>6. HostTyped'
  BY <1>1, <1>2 DEF HostTyped, VecsTyped
<1>7. Progress'
  BY <1>1, <1>2, <1>3 DEF Progress
<1>8. Working'
  BY <1>1, <1>2, Sizes DEF Working, Store, VecsTyped, HostTyped
<1>9. Contents'
  <2>1. PICK c \in Live(job) : slots' = [slots EXCEPT ![job][size[job] + 1] = c]
    BY <1>1, <1>2, ShownLive DEF HostTyped
  <2> DEFINE k == size[job] + 1
  <2>2. k \in 1 .. Cap /\ size[job] \in Nat /\ job \in Vecs
    BY <1>1, Sizes DEF Store, VecsTyped, HostTyped
  <2> HIDE DEF k
  <2>3. /\ slots'[job][k] = c
        /\ \A v \in Vecs : \A i \in 1 .. Cap : v # job \/ i # k => slots'[v][i] = slots[v][i]
    BY <1>1, <2>1, <2>2 DEF VecsTyped, k
  <2>4. \A v \in Vecs : \A i \in 1 .. size[v] : i \in 1 .. Cap /\ (v = job => i # k)
    <3>1. \A v \in Vecs : size[v] \in 0 .. Cap
      BY <1>1 DEF VecsTyped
    <3> QED
      BY <2>2, <3>1, Sizes DEF k
  <2>5. \A i \in 1 .. old' + 1 : i = k \/ i \in 1 .. size[job]
    BY <1>2, <2>2 DEF k
  <2>6. \A v \in Vecs : \A i \in 1 .. size[v] : slots'[v][i] \in Live(v)
    BY <1>1, <2>3, <2>4 DEF Contents
  <2>7. \A i \in 1 .. old' + 1 : slots'[job][i] \in Live(job)
    BY <2>1, <2>2, <2>3, <2>5, <2>6
  <2> QED
    BY <1>1, <1>2, <1>3, <2>2, <2>6, <2>7 DEF Contents
<1>10. Admits'
  BY <1>1, <1>2, <1>3 DEF Admits, Applicable
<1>11. Removing'
  BY <1>2, <1>3, Elsewhere
<1> QED
  BY <1>3, <1>4, <1>5, <1>6, <1>7, <1>8, <1>9, <1>10, <1>11 DEF All

LEMMA PublishKeeps == ASSUME All, Publish, UNCHANGED session PROVE All'
<1>1. /\ VecsTyped /\ RpcTyped /\ HostTyped /\ ClientTyped /\ DrawTyped /\ Progress
      /\ Working /\ Contents /\ Admits /\ Scripted /\ Removing
  BY DEF All
<1>2. /\ UNCHANGED << session, client, call, start, done, commits, alive, job, space >>
      /\ UNCHANGED << slots, cmp, plan, put, shown >> /\ host = "stored" /\ host' = "stream" /\ old' = 0
      /\ size' = [size EXCEPT ![job] = old + 1] /\ old + 1 \in 1 .. Cap /\ job \in Vecs
      /\ upd' = [upd EXCEPT ![job] = @ \/ old % Window = 0]
      /\ pop' = [pop EXCEPT ![job][slots[job][old + 1]] = @ + 1]
  <2>1. /\ UNCHANGED << session, client, call, start, done, commits, alive, job, space >>
        /\ UNCHANGED << slots, cmp, plan, put, shown >> /\ host = "stored" /\ host' = "stream" /\ old' = 0
    BY DEF Publish, rpc
  <2>2. /\ size' = [size EXCEPT ![job] = old + 1] /\ upd' = [upd EXCEPT ![job] = @ \/ old % Window = 0]
        /\ pop' = [pop EXCEPT ![job][slots[job][old + 1]] = @ + 1]
    BY DEF Publish
  <2>3. old + 1 \in 1 .. Cap /\ job \in Vecs
    BY <1>1, <2>1, Sizes DEF Working, HostTyped
  <2> QED
    BY <2>1, <2>2, <2>3
<1>3. /\ ClientTyped' /\ DrawTyped' /\ Scripted'
      /\ Existing' = Existing /\ \A v \in Vecs : Live(v)' = Live(v)
      /\ UNCHANGED << todo, pending, drawn, res >>
  BY <1>2, ClientFrame
<1>4. VecsTyped'
  <2>1. slots[job][old + 1] \in Content
    <3>1. slots \in [Vecs -> [1 .. Cap -> Content]] /\ old + 1 \in 1 .. Cap /\ job \in Vecs
      BY <1>1, <1>2 DEF VecsTyped
    <3> QED
      BY <3>1
  <2>2. size' \in [Vecs -> 0 .. Cap]
    BY <1>1, <1>2 DEF VecsTyped
  <2>3. pop' \in [Vecs -> [Content -> Nat]]
    BY <1>1, <1>2, <2>1, Bumped DEF VecsTyped
  <2>4. upd' \in [Vecs -> BOOLEAN]
    BY <1>1, <1>2 DEF VecsTyped
  <2> QED
    BY <1>1, <1>2, <2>2, <2>3, <2>4 DEF VecsTyped
<1>5. RpcTyped'
  BY <1>1, <1>2, <1>3 DEF RpcTyped
<1>6. HostTyped'
  BY <1>1, <1>2, <1>3 DEF HostTyped
<1>7. Progress'
  BY <1>1, <1>2, <1>3 DEF Progress
<1>8. Working'
  BY <1>1, <1>2, <1>3 DEF Working
<1>9. Contents'
  <2>1. \A v \in Vecs : size'[v] = IF v = job THEN old + 1 ELSE size[v]
    BY <1>1, <1>2 DEF VecsTyped
  <2>2. \A v \in Vecs : \A i \in 1 .. size'[v] : slots[v][i] \in Live(v)
    BY <1>1, <1>2, <2>1 DEF Contents
  <2> QED
    BY <1>1, <1>2, <1>3, <2>2 DEF Contents
<1>10. Admits'
  BY <1>1, <1>2, <1>3 DEF Admits, Applicable
<1>11. Removing'
  BY <1>2, <1>3, Elsewhere
<1> QED
  BY <1>3, <1>4, <1>5, <1>6, <1>7, <1>8, <1>9, <1>10, <1>11 DEF All

LEMMA EndWriteKeeps == ASSUME All, EndWrite, UNCHANGED session PROVE All'
<1>1. /\ VecsTyped /\ RpcTyped /\ HostTyped /\ ClientTyped /\ DrawTyped /\ Progress
      /\ Working /\ Contents /\ Admits /\ Scripted /\ Removing
  BY DEF All
<1>2. /\ UNCHANGED << session, client, call, start, done, commits, alive, job, space >>
      /\ UNCHANGED << slots, size, upd, pop, old, plan, put, shown >> /\ host = "stream" /\ host' = "done"
      /\ cmp' = [cmp EXCEPT ![job] = TRUE] /\ job \in Vecs
  BY <1>1 DEF EndWrite, vecs, rpc, local, HostTyped
<1>3. /\ ClientTyped' /\ DrawTyped' /\ Scripted'
      /\ Existing' = Existing /\ \A v \in Vecs : Live(v)' = Live(v)
      /\ UNCHANGED << todo, pending, drawn, res >>
  BY <1>2, ClientFrame
<1>4. VecsTyped'
  BY <1>1, <1>2, <1>3 DEF VecsTyped
<1>5. RpcTyped'
  BY <1>1, <1>2, <1>3 DEF RpcTyped
<1>6. HostTyped'
  BY <1>1, <1>2, <1>3 DEF HostTyped
<1>7. Progress'
  BY <1>1, <1>2, <1>3 DEF Progress
<1>8. Working'
  BY <1>1, <1>2, <1>3 DEF Working
<1>9. Contents'
  BY <1>1, <1>2, <1>3 DEF Contents
<1>10. Admits'
  BY <1>1, <1>2, <1>3 DEF Admits, Applicable
<1>11. Removing'
  BY <1>2, <1>3, Elsewhere
<1> QED
  BY <1>3, <1>4, <1>5, <1>6, <1>7, <1>8, <1>9, <1>10, <1>11 DEF All

LEMMA WrittenBackKeeps == ASSUME All, WrittenBack, UNCHANGED session PROVE All'
<1>1. /\ VecsTyped /\ RpcTyped /\ HostTyped /\ ClientTyped /\ DrawTyped /\ Progress
      /\ Working /\ Contents /\ Admits /\ Scripted /\ Removing
  BY DEF All
<1>2. /\ UNCHANGED << session, client, call, start, done, commits, alive, job, space >>
      /\ UNCHANGED << slots, size, upd, cmp, pop, shown >> /\ host = "rewrite" /\ host' = "done"
      /\ plan' = << >> /\ put' = 0 /\ old' = 0
  BY <1>1 DEF WrittenBack, vecs, rpc, local
<1>3. /\ ClientTyped' /\ DrawTyped' /\ Scripted'
      /\ Existing' = Existing /\ \A v \in Vecs : Live(v)' = Live(v)
      /\ UNCHANGED << todo, pending, drawn, res >>
  BY <1>2, ClientFrame
<1>4. VecsTyped'
  BY <1>1, <1>2, <1>3 DEF VecsTyped
<1>5. RpcTyped'
  BY <1>1, <1>2, <1>3 DEF RpcTyped
<1>6. HostTyped'
  BY <1>1, <1>2 DEF HostTyped
<1>7. Progress'
  BY <1>1, <1>2, <1>3 DEF Progress
<1>8. Working'
  BY <1>1, <1>2, <1>3 DEF Working
<1>9. Contents'
  BY <1>1, <1>2, <1>3 DEF Contents
<1>10. Admits'
  BY <1>1, <1>2, <1>3 DEF Admits, Applicable
<1>11. Removing'
  BY <1>2, <1>3, Elsewhere
<1> QED
  BY <1>3, <1>4, <1>5, <1>6, <1>7, <1>8, <1>9, <1>10, <1>11 DEF All

LEMMA ApplyCommitKeeps == ASSUME All, ApplyCommit, UNCHANGED session PROVE All'
<1>1. /\ VecsTyped /\ RpcTyped /\ HostTyped /\ ClientTyped /\ DrawTyped /\ Progress
      /\ Working /\ Contents /\ Admits /\ Scripted /\ Removing
  BY DEF All
<1>2. /\ UNCHANGED << session, client, slots, size, upd, cmp, pop, start, done, commits, alive, job, plan, space >>
      /\ UNCHANGED << call, host, old >> /\ host = "commit" /\ put < old /\ put' = put + 1
      /\ put + 1 \in 1 .. Len(commits.entries) /\ Entry \in [buffer : Buffers, resident : BOOLEAN]
      /\ shown' = IF Entry.resident THEN shown \cup {Entry.buffer} ELSE shown \ {Entry.buffer}
  <2>1. /\ UNCHANGED << session, client, slots, size, upd, cmp, pop, start, done, commits, alive, job, plan, space >> /\ UNCHANGED << call, host, old >>
        /\ host = "commit" /\ put < old /\ put' = put + 1
    BY DEF ApplyCommit, Apply, vecs, rpc
  <2>2. put + 1 \in 1 .. Len(commits.entries)
    BY <1>1, <2>1 DEF Progress, HostTyped, RpcTyped
  <2>3. commits.entries \in Seq([buffer : Buffers, resident : BOOLEAN])
    BY <1>1 DEF RpcTyped, Entries
  <2>4. Entry \in [buffer : Buffers, resident : BOOLEAN]
    BY <2>2, <2>3, ElementOf DEF Entry
  <2>5. shown' = IF Entry.resident THEN shown \cup {Entry.buffer} ELSE shown \ {Entry.buffer}
    BY DEF ApplyCommit, Apply
  <2> QED
    BY <2>1, <2>2, <2>3, <2>4, <2>5
<1>3. /\ ClientTyped' /\ DrawTyped' /\ Scripted'
      /\ Existing' = Existing /\ \A v \in Vecs : Live(v)' = Live(v)
      /\ UNCHANGED << todo, pending, drawn, res >>
  BY <1>2, ClientFrame
<1>4. VecsTyped'
  BY <1>1, <1>2, <1>3 DEF VecsTyped
<1>5. RpcTyped'
  BY <1>1, <1>2, <1>3 DEF RpcTyped
<1>6. HostTyped'
  BY <1>1, <1>2, <1>3 DEF HostTyped
<1>7. Progress'
  BY <1>1, <1>2, <1>3 DEF Progress, HostTyped, RpcTyped
<1>8. Working'
  BY <1>1, <1>2, <1>3 DEF Working
<1>9. Contents'
  <2>1. Applicable(put + 1)
    BY <1>1, <1>2 DEF Applicable, HostTyped
  <2>2. Entry.resident => Entry.buffer \in Existing
    BY <1>1, <1>2, <2>1 DEF Admits, Entry
  <2> QED
    BY <1>1, <1>2, <1>3, <2>2 DEF Contents
<1>10. Admits'
  BY <1>1, <1>2, <1>3 DEF Admits, Applicable
<1>11. Removing'
  <2>1. CASE Leads(todo, 1, "release")
    <3>1. /\ Empty("distant") /\ Empty("extra") /\ Removals /\ InState("leaving") \subseteq Listed /\ call.do = "commit"
          /\ ~call.reply /\ old = commits.size /\ (\A i \in 1 .. put : commits.entries[i].buffer \notin shown)
      BY <1>1, <1>2, <2>1 DEF Removing
    <3>2. /\ (Empty("distant") /\ Empty("extra") /\ Removals)' /\ (InState("leaving") \subseteq Listed)' /\ pending'
      <4>1. pending
        BY <1>1, <1>2 DEF Progress
      <4> QED
        BY <1>2, <1>3, <3>1, <4>1 DEF Empty, Removals, InState, Listed
    <3>3. ~Leads(todo, 3, "unlist")' /\ ~Leads(todo, 2, "unlist")' /\ ~Leads(todo, 1, "unlist")'
          /\ ~Leads(todo, 1, "remove")' /\ ~Leads(todo, 2, "release")'
      <4>1. pending
        BY <1>1, <1>2 DEF Progress
      <4> QED
        BY <1>1, <1>3, <2>1, <4>1 DEF Leads, Removing
    <3>4. shown' = shown \ {Entry.buffer}
      <4>1. ~Entry.resident
        BY <1>1, <1>2, <3>1 DEF Removals, Entry, HostTyped, RpcTyped
      <4> QED
        BY <1>2, <4>1
    <3>5. \A i \in 1 .. put' : commits'.entries[i].buffer \notin shown'
      <4>1. \A i \in 1 .. put' : i \in 1 .. put \/ i = put + 1
        BY <1>1, <1>2 DEF HostTyped
      <4> QED
        BY <1>2, <3>1, <3>4, <4>1 DEF Entry
    <3> QED
      BY <1>2, <1>3, <3>1, <3>2, <3>3, <3>5 DEF Removing
  <2>2. CASE ~Leads(todo, 1, "release")
    <3>1. ~Within(todo)
      BY <1>1, <1>2, <2>2 DEF Removing, Within, Progress
    <3> QED
      BY <1>3, <3>1, AwayNext DEF Within, Leads
  <2> QED
    BY <2>1, <2>2
<1> QED
  BY <1>3, <1>4, <1>5, <1>6, <1>7, <1>8, <1>9, <1>10, <1>11 DEF All

LEMMA CommitsAppliedKeeps == ASSUME All, CommitsApplied, UNCHANGED session PROVE All'
<1>1. /\ VecsTyped /\ RpcTyped /\ HostTyped /\ ClientTyped /\ DrawTyped /\ Progress
      /\ Working /\ Contents /\ Admits /\ Scripted /\ Removing
  BY DEF All
<1>2. /\ UNCHANGED << session, client, slots, size, upd, cmp, pop, start, done, commits, alive, job, plan, space >>
      /\ UNCHANGED shown /\ host = "commit" /\ put = old /\ host' = "done" /\ put' = 0 /\ old' = 0
      /\ call' = [call EXCEPT !.reply = TRUE]
  BY <1>1 DEF CommitsApplied, vecs
<1>3. /\ ClientTyped' /\ DrawTyped' /\ Scripted'
      /\ Existing' = Existing /\ \A v \in Vecs : Live(v)' = Live(v)
      /\ UNCHANGED << todo, pending, drawn, res >>
  BY <1>2, ClientFrame
<1>4. VecsTyped'
  BY <1>1, <1>2, <1>3 DEF VecsTyped
<1>5. RpcTyped'
  BY <1>1, <1>2, <1>3 DEF RpcTyped
<1>6. HostTyped'
  BY <1>1, <1>2, <1>3 DEF HostTyped
<1>7. Progress'
  BY <1>1, <1>2, <1>3 DEF Progress
<1>8. Working'
  BY <1>1, <1>2, <1>3 DEF Working
<1>9. Contents'
  BY <1>1, <1>2, <1>3 DEF Contents
<1>10. Admits'
  BY <1>1, <1>2, <1>3 DEF Admits, Applicable
<1>11. Removing'
  <2>1. CASE Leads(todo, 1, "release")
    <3>1. /\ Empty("distant") /\ Empty("extra") /\ Removals /\ InState("leaving") \subseteq Listed /\ call.do = "commit"
          /\ ~call.reply /\ old = commits.size /\ (\A i \in 1 .. put : commits.entries[i].buffer \notin shown)
      BY <1>1, <1>2, <2>1 DEF Removing
    <3>2. /\ (Empty("distant") /\ Empty("extra") /\ Removals)' /\ (InState("leaving") \subseteq Listed)' /\ pending'
      <4>1. pending
        BY <1>1, <1>2 DEF Progress
      <4> QED
        BY <1>2, <1>3, <3>1, <4>1 DEF Empty, Removals, InState, Listed
    <3>3. ~Leads(todo, 3, "unlist")' /\ ~Leads(todo, 2, "unlist")' /\ ~Leads(todo, 1, "unlist")'
          /\ ~Leads(todo, 1, "remove")' /\ ~Leads(todo, 2, "release")'
      <4>1. pending
        BY <1>1, <1>2 DEF Progress
      <4> QED
        BY <1>1, <1>3, <2>1, <4>1 DEF Leads, Removing
    <3>4. shown \cap InState("leaving") = {}
      BY <1>2, <3>1 DEF Listed
    <3>5. call'.do = "commit" /\ (shown \cap InState("leaving") = {})' /\ ~start'
      BY <1>1, <1>2, <1>3, <3>1, <3>4 DEF RpcTyped, InState, Progress
    <3> QED
      BY <1>2, <1>3, <3>2, <3>3, <3>5 DEF Removing
  <2>2. CASE ~Leads(todo, 1, "release")
    <3>1. ~Within(todo)
      BY <1>1, <1>2, <2>2 DEF Removing, Within, Progress
    <3> QED
      BY <1>3, <3>1, AwayNext DEF Within, Leads
  <2> QED
    BY <2>1, <2>2
<1> QED
  BY <1>3, <1>4, <1>5, <1>6, <1>7, <1>8, <1>9, <1>10, <1>11 DEF All

LEMMA CompleteKeeps == ASSUME All, Complete, UNCHANGED session PROVE All'
<1>1. /\ VecsTyped /\ RpcTyped /\ HostTyped /\ ClientTyped /\ DrawTyped /\ Progress
      /\ Working /\ Contents /\ Admits /\ Scripted /\ Removing
  BY DEF All
<1>2. /\ UNCHANGED << session, client, slots, size, upd, cmp, pop, call, start, commits, job, old, plan, put, shown, space >>
      /\ UNCHANGED alive /\ host = "done" /\ host' = "wait" /\ done' = TRUE
  BY <1>1 DEF Complete, vecs, local
<1>3. /\ ClientTyped' /\ DrawTyped' /\ Scripted'
      /\ Existing' = Existing /\ \A v \in Vecs : Live(v)' = Live(v)
      /\ UNCHANGED << todo, pending, drawn, res >>
  BY <1>2, ClientFrame
<1>4. VecsTyped'
  BY <1>1, <1>2, <1>3 DEF VecsTyped
<1>5. RpcTyped'
  BY <1>1, <1>2, <1>3 DEF RpcTyped
<1>6. HostTyped'
  BY <1>1, <1>2, <1>3 DEF HostTyped
<1>7. Progress'
  BY <1>1, <1>2, <1>3 DEF Progress
<1>8. Working'
  BY <1>1, <1>2, <1>3 DEF Working
<1>9. Contents'
  BY <1>1, <1>2, <1>3 DEF Contents
<1>10. Admits'
  BY <1>1, <1>2, <1>3 DEF Admits, Applicable
<1>11. Removing'
  <2>1. /\ (Empty("distant") <=> Empty("distant")') /\ (Empty("extra") <=> Empty("extra")') /\ (Removals <=> Removals')
        /\ InState("leaving")' = InState("leaving") /\ Listed' = Listed
        /\ \A k \in 1 .. 3 : \A do : Leads(todo, k, do) <=> Leads(todo, k, do)'
    BY <1>2, <1>3 DEF Empty, Removals, InState, Listed, Leads
  <2> QED
    BY <1>1, <1>2, <1>3, <2>1 DEF Removing
<1> QED
  BY <1>3, <1>4, <1>5, <1>6, <1>7, <1>8, <1>9, <1>10, <1>11 DEF All

LEMMA HostDiesKeeps == ASSUME All, HostDies, UNCHANGED session PROVE All'
<1>1. /\ VecsTyped /\ RpcTyped /\ HostTyped /\ ClientTyped /\ DrawTyped /\ Progress
      /\ Working /\ Contents /\ Admits /\ Scripted /\ Removing
  BY DEF All
<1>2. /\ UNCHANGED << session, client, slots, size, upd, cmp, pop, call, start, commits, job, old, plan, put, shown, space >>
      /\ UNCHANGED << host, done >> /\ alive' = FALSE
  BY <1>1 DEF HostDies, vecs, rpc, local
<1>3. /\ ClientTyped' /\ DrawTyped' /\ Scripted'
      /\ Existing' = Existing /\ \A v \in Vecs : Live(v)' = Live(v)
      /\ UNCHANGED << todo, pending, drawn, res >>
  BY <1>2, ClientFrame
<1>4. VecsTyped'
  BY <1>1, <1>2, <1>3 DEF VecsTyped
<1>5. RpcTyped'
  BY <1>1, <1>2, <1>3 DEF RpcTyped
<1>6. HostTyped'
  BY <1>1, <1>2, <1>3 DEF HostTyped
<1>7. Progress'
  BY <1>1, <1>2, <1>3 DEF Progress
<1>8. Working'
  BY <1>1, <1>2, <1>3 DEF Working
<1>9. Contents'
  BY <1>1, <1>2, <1>3 DEF Contents, HostTyped
<1>10. Admits'
  BY <1>1, <1>2, <1>3 DEF Admits, Applicable
<1>11. Removing'
  <2>1. /\ (Empty("distant") <=> Empty("distant")') /\ (Empty("extra") <=> Empty("extra")') /\ (Removals <=> Removals')
        /\ InState("leaving")' = InState("leaving") /\ Listed' = Listed
        /\ \A k \in 1 .. 3 : \A do : Leads(todo, k, do) <=> Leads(todo, k, do)'
    BY <1>2, <1>3 DEF Empty, Removals, InState, Listed, Leads
  <2> QED
    BY <1>1, <1>2, <1>3, <2>1 DEF Removing
<1> QED
  BY <1>3, <1>4, <1>5, <1>6, <1>7, <1>8, <1>9, <1>10, <1>11 DEF All

LEMMA SortedLive ==
  ASSUME All, NEW v \in Vecs, NEW p \in Sorted(v)
  PROVE  p \in Seq(Content) /\ Len(p) \in Nat /\ \A i \in 1 .. Len(p) : p[i] \in Live(v)
<1>1. Contents /\ VecsTyped
  BY DEF All
<1>2. PICK n \in size[v] .. Cap + 1 : p \in [1 .. n -> Showable(v) \cup {Held(v)[i] : i \in 1 .. size[v]}]
  BY DEF Sorted
<1>3. n \in Nat
  BY <1>1, Sizes DEF VecsTyped
<1>4. Showable(v) \cup {Held(v)[i] : i \in 1 .. size[v]} \subseteq Live(v)
  BY <1>1, ShownLive DEF Contents, Held
<1>5. p \in [1 .. n -> Live(v)]
  BY <1>2, <1>4
<1>6. Live(v) \subseteq Content
  BY LiveKnown
<1> HIDE DEF Live, Sorted
<1>7. p \in Seq(Live(v)) /\ Len(p) = n
  BY <1>3, <1>5
<1> QED
  BY <1>3, <1>5, <1>6, <1>7

LEMMA RewritingKeeps ==
  ASSUME All, UNCHANGED session, Dispatch(call.do), call.do \in {"sorted", "sort"},
         NEW p \in Sorted(call.vec), Len(p) <= Cap, Rewriting(p), UNCHANGED << call, shown, space >>
  PROVE  All'
<1>1. /\ VecsTyped /\ RpcTyped /\ HostTyped /\ ClientTyped /\ DrawTyped /\ Progress
      /\ Working /\ Contents /\ Admits /\ Scripted /\ Removing
  BY DEF All
<1>2. /\ UNCHANGED << session, client, slots, size, upd, cmp, call, done, commits, alive, shown, space >>
      /\ host = "wait" /\ start /\ start' = FALSE /\ job' = call.vec /\ call.vec \in Vecs
      /\ host' = "rewrite" /\ plan' = p /\ put' = 0 /\ old' = size[call.vec]
      /\ pop' = [pop EXCEPT ![call.vec] = Count(p)]
  BY <1>1 DEF Dispatch, Rewriting, RpcTyped
<1>3. /\ ClientTyped' /\ DrawTyped' /\ Scripted'
      /\ Existing' = Existing /\ \A v \in Vecs : Live(v)' = Live(v)
      /\ UNCHANGED << todo, pending, drawn, res >>
  BY <1>2, ClientFrame
<1>4. p \in Seq(Content) /\ Len(p) \in Nat /\ (\A i \in 1 .. Len(p) : p[i] \in Live(call.vec)) /\ Count(p) \in [Content -> Nat]
  BY <1>2, SortedLive, CountTyped
<1>5. VecsTyped' /\ RpcTyped'
  BY <1>1, <1>2, <1>4 DEF VecsTyped, RpcTyped
<1>6. HostTyped' /\ Progress'
  BY <1>1, <1>2, <1>3, <1>4 DEF VecsTyped, HostTyped, Progress
<1>7. Working'
  BY <1>1, <1>2, <1>4 DEF Working, VecsTyped
<1>8. Contents'
  BY <1>1, <1>2, <1>3, <1>4 DEF Contents
<1>9. Admits'
  BY <1>1, <1>2, <1>3 DEF Admits, Applicable
<1>10. Removing'
  BY <1>2, <1>3, Elsewhere
<1> QED
  BY <1>3, <1>5, <1>6, <1>7, <1>8, <1>9, <1>10 DEF All

LEMMA TakeSortKeeps == ASSUME All, TakeSort, UNCHANGED session PROVE All'
<1>1. call.vec \in Vecs /\ size[call.vec] <= Cap
  BY Sizes DEF All, RpcTyped, VecsTyped
<1>2. PICK p \in Sorted(call.vec) : Len(p) = size[call.vec] /\ Rewriting(p)
  BY DEF TakeSort
<1>3. Dispatch(call.do) /\ call.do = "sort" /\ UNCHANGED << call, shown, space >>
  BY DEF TakeSort, Dispatch
<1> QED
  BY <1>1, <1>2, <1>3, RewritingKeeps

LEMMA TakeSortedKeeps == ASSUME All, TakeSorted, UNCHANGED session PROVE All'
<1>1. Dispatch(call.do) /\ call.do = "sorted" /\ UNCHANGED << call, shown, space >>
  BY DEF TakeSorted, Dispatch
<1>2. CASE \E p \in Sorted(call.vec) : Len(p) <= Cap /\ Rewriting(p)
  BY <1>1, <1>2, RewritingKeeps
<1>3. CASE host' = "done" /\ UNCHANGED << pop, local >>
  <2>1. /\ VecsTyped /\ RpcTyped /\ HostTyped /\ Progress /\ Working /\ Contents /\ Admits
    BY DEF All
  <2>2. /\ UNCHANGED << session, client, slots, size, upd, cmp, pop, call, done, commits, alive, old, plan, put, shown, space >>
        /\ host = "wait" /\ start /\ start' = FALSE /\ job' = call.vec /\ call.vec \in Vecs /\ host' = "done"
    BY <1>1, <1>3, <2>1 DEF Dispatch, RpcTyped, local
  <2>3. /\ ClientTyped' /\ DrawTyped' /\ Scripted'
        /\ Existing' = Existing /\ \A v \in Vecs : Live(v)' = Live(v)
        /\ UNCHANGED << todo, pending, drawn, res >>
    BY <2>2, ClientFrame
  <2>4. VecsTyped' /\ RpcTyped' /\ HostTyped' /\ Progress' /\ Working'
    BY <2>1, <2>2, <2>3 DEF VecsTyped, RpcTyped, HostTyped, Progress, Working
  <2>5. Contents' /\ Admits'
    BY <2>1, <2>2, <2>3 DEF Contents, Admits, Applicable
  <2>6. Removing'
    BY <1>1, <2>2, <2>3, Elsewhere
  <2> QED
    BY <2>3, <2>4, <2>5, <2>6 DEF All
<1> QED
  BY <1>2, <1>3 DEF TakeSorted

LEMMA WriteBackKeeps == ASSUME All, WriteBack, UNCHANGED session PROVE All'
<1> DEFINE n == put + 1
           k == IF n <= old THEN n ELSE size[job] + 1
<1>1. /\ VecsTyped /\ RpcTyped /\ HostTyped /\ ClientTyped /\ DrawTyped /\ Progress
      /\ Working /\ Contents /\ Admits /\ Scripted /\ Removing
  BY DEF All
<1>2. /\ UNCHANGED << session, client, upd, cmp, pop, call, start, done, commits, alive, host, job, old, plan, shown, space >>
      /\ host = "rewrite" /\ put' = n
  BY DEF WriteBack, rpc
<1>3. /\ ClientTyped' /\ DrawTyped' /\ Scripted'
      /\ Existing' = Existing /\ \A v \in Vecs : Live(v)' = Live(v)
      /\ UNCHANGED << todo, pending, drawn, res >>
  BY <1>2, ClientFrame
<1>4. /\ job \in Vecs /\ n \in 1 .. Len(plan) /\ n \in Nat /\ k \in 1 .. Cap /\ size[job] \in Nat /\ old \in Nat
      /\ n > old => size[job] + 1 <= n
  <2>1. job \in Vecs /\ put \in Nat /\ old \in Nat /\ Len(plan) \in Nat /\ put < Len(plan) /\ Len(plan) <= Cap
    BY <1>1, <1>2 DEF WriteBack, HostTyped, Working
  <2>2. size[job] \in Nat /\ (size[job] <= old \/ size[job] <= put) /\ Cap \in Nat
    BY <1>1, <1>2, <2>1, Sizes DEF Working, VecsTyped
  <2> QED
    BY <2>1, <2>2
<1>5. slots' = [slots EXCEPT ![job][k] = plan[n]]
  BY <1>2 DEF WriteBack
<1>6. size' = IF n <= old THEN size ELSE [size EXCEPT ![job] = size[job] + 1]
  BY <1>2 DEF WriteBack
<1>7. plan[n] \in Live(job) /\ plan[n] \in Content
  BY <1>1, <1>2, <1>4, LiveKnown DEF Contents
<1>8. \A v \in Vecs : size'[v] = size[v] \/ (v = job /\ size'[v] = k /\ k = size[v] + 1 /\ n > old)
  BY <1>1, <1>4, <1>6 DEF VecsTyped
<1>9. \A v \in Vecs : size[v] \in Nat /\ size[v] <= Cap
  BY <1>1, Sizes DEF VecsTyped
<1>10. size' \in [Vecs -> 0 .. Cap]
  BY <1>1, <1>4, <1>6 DEF VecsTyped
<1> HIDE DEF k
<1>11. VecsTyped'
  <2>1. slots' \in [Vecs -> [1 .. Cap -> Content]]
    BY <1>1, <1>4, <1>5, <1>7 DEF VecsTyped
  <2> QED
    BY <1>1, <1>2, <1>10, <2>1 DEF VecsTyped
<1>12. RpcTyped' /\ HostTyped' /\ Progress'
  BY <1>1, <1>2, <1>3, <1>4 DEF RpcTyped, HostTyped, Progress
<1>13. Working'
  <2>1. size'[job] <= old \/ size'[job] <= n
    <3>1. size[job] <= old \/ size[job] <= put
      BY <1>1, <1>2 DEF Working
    <3>2. put \in Nat
      BY <1>1 DEF HostTyped
    <3> QED
      BY <1>4, <1>8, <3>1, <3>2
  <2> QED
    BY <1>1, <1>2, <2>1 DEF Working
<1>14. Contents'
  <2>1. /\ slots'[job][k] = plan[n]
        /\ \A v \in Vecs : \A i \in 1 .. Cap : v # job \/ i # k => slots'[v][i] = slots[v][i]
    BY <1>1, <1>4, <1>5 DEF VecsTyped
  <2>2. ASSUME NEW v \in Vecs, NEW i \in 1 .. size'[v] PROVE slots'[v][i] \in Live(v)
    <3>1. i \in 1 .. Cap
      <4>1. size'[v] \in 0 .. Cap
        BY <1>10
      <4> QED
        BY <4>1, Sizes
    <3>2. CASE v = job /\ i = k
      BY <1>7, <2>1, <3>2
    <3>3. CASE v # job \/ i # k
      <4>1. i \in 1 .. size[v]
        BY <1>8, <1>9, <3>3
      <4> QED
        BY <1>1, <2>1, <3>1, <3>3, <4>1 DEF Contents
    <3> QED
      BY <3>2, <3>3
  <2> QED
    BY <1>1, <1>2, <1>3, <1>4, <2>2 DEF Contents
<1>15. Admits'
  BY <1>1, <1>2, <1>3 DEF Admits, Applicable
<1>16. Removing'
  BY <1>2, <1>3, Elsewhere
<1> QED
  BY <1>3, <1>11, <1>12, <1>13, <1>14, <1>15, <1>16 DEF All

LEMMA HostStepKeeps == ASSUME All, HostStep \/ HostDies, UNCHANGED session PROVE All'
BY TakeQueryKeeps, TakeSortedKeeps, TakeSortKeeps, TakeSpaceKeeps, TakeCommitKeeps, TakeOtherKeeps,
   ApplyCommitKeeps, CommitsAppliedKeeps, StoreKeeps, PublishKeeps, EndWriteKeeps, WriteBackKeeps,
   WrittenBackKeeps, CompleteKeeps, HostDiesKeeps DEF HostStep
---------------------------------------------------------------------------
(* The render thread.                                                      *)
LEMMA Leading ==
  ASSUME NEW s \in Seq(Ops), s # << >>, Linked(s)
  PROVE  LET t == Tail(s)
         IN /\ Leads(t, 3, "unlist") => s[1].do = "poll"
            /\ Leads(t, 2, "unlist") => s[1].do = "clear" /\ s[1].vec = "distant" /\ Leads(s, 3, "unlist")
            /\ Leads(t, 1, "unlist") => s[1].do = "clear" /\ s[1].vec = "extra" /\ Leads(s, 2, "unlist")
            /\ Leads(t, 1, "remove") => s[1].do = "unlist"
            /\ Leads(t, 2, "release") => s[1].do = "remove"
            /\ Leads(t, 1, "release") => s[1].do = "commit" /\ Leads(s, 2, "release")
<1> DEFINE t == Tail(s)
<1>1. /\ Len(t) = Len(s) - 1 /\ Len(s) \in Nat /\ Len(s) >= 1
      /\ \A i \in 1 .. Len(t) : t[i] = s[i + 1]
  BY Dropped
<1> HIDE DEF t
<1>2. \A k \in 1 .. 3 : \A do : Leads(t, k, do) <=> Leads(s, k + 1, do)
  BY <1>1 DEF Leads
<1>3. /\ Leads(s, 4, "unlist") => s[1].do = "poll"
      /\ Leads(s, 3, "unlist") => s[1].do = "clear" /\ s[1].vec = "distant"
      /\ Leads(s, 2, "unlist") => s[1].do = "clear" /\ s[1].vec = "extra"
      /\ Leads(s, 2, "remove") => s[1].do = "unlist"
      /\ Leads(s, 3, "release") => s[1].do = "remove"
      /\ Leads(s, 2, "release") => s[1].do = "commit"
  BY <1>1 DEF Leads, Linked
<1> QED
  BY <1>2, <1>3 DEF t

(* Of what is next to be done, the first operation tells which.            *)
LEMMA OneLead ==
  ASSUME NEW s \in Seq(Ops), s # << >>, Linked(s)
  PROVE  /\ Leads(s, 3, "unlist") => s[1].do = "clear" /\ s[1].vec = "distant"
         /\ Leads(s, 2, "unlist") => s[1].do = "clear" /\ s[1].vec = "extra"
         /\ Leads(s, 2, "release") => s[1].do = "commit"
         /\ \A do : Leads(s, 1, do) <=> s[1].do = do
<1>1. Len(s) \in Nat /\ Len(s) >= 1
  BY Dropped
<1> QED
  BY <1>1 DEF Leads, Linked

LEMMA HeadKnown ==
  ASSUME All, todo # << >>
  PROVE  /\ Head(todo) = todo[1] /\ todo[1] \in Ops /\ Vec \in Vecs /\ todo \in Seq(Ops)
         /\ Tail(todo) \in Seq(Ops) /\ Linked(todo) /\ Jumps(todo)
BY Dropped, OpKnown DEF All, ClientTyped, Scripted, Vec

LEMMA Goes ==
  ASSUME All, todo # << >>, todo' = Tail(todo)
  PROVE  todo' \in Seq(Ops) /\ Scripted'
BY HeadKnown, TailScripted DEF Scripted

LEMMA GoesAway ==
  ASSUME All, todo # << >>, todo' = Tail(todo), todo[1].do \notin {"poll", "clear", "unlist", "remove"},
         todo[1].do = "commit" => ~Leads(todo, 2, "release")
  PROVE  Removing'
<1>1. ~Within(Tail(todo))
  BY HeadKnown, TailAway
<1>2. ~Within(todo)'
  BY <1>1 DEF Within, Leads
<1> QED
  BY <1>2, AwayNext

LEMMA GivesUp ==
  ASSUME All, todo # << >>, todo' = Failed, todo[1].do \in Failing
  PROVE  todo' \in Seq(Ops) /\ Scripted' /\ Removing'
<1>1. todo' \in Seq(Ops) /\ Linked(todo') /\ Jumps(todo') /\ ~Within(todo')
  BY HeadKnown, FailedScripted DEF Failed
<1>2. ~Within(todo)'
  BY <1>1 DEF Within, Leads
<1> QED
  BY <1>1, <1>2, AwayNext DEF Scripted, Linked, Jumps

(* An operation that leaves the vectors, the commits, the host and the     *)
(* resources alone.                                                        *)
LEMMA PassFrame ==
  ASSUME All, UNCHANGED << session, vecs, commits, server, res, drawn >>
  PROVE  VecsTyped' /\ HostTyped' /\ Working' /\ Contents' /\ Admits' /\ UNCHANGED host
<1>1. /\ UNCHANGED << session, slots, size, upd, cmp, pop, commits, res, drawn >>
      /\ UNCHANGED << alive, host, job, old, plan, put, shown, space >>
      /\ VecsTyped /\ HostTyped /\ Working /\ Contents /\ Admits
  BY DEF All, vecs, server, local
<1>2. Existing' = Existing /\ \A v \in Vecs : Live(v)' = Live(v)
  BY <1>1 DEF Live, Existing
<1>3. VecsTyped' /\ HostTyped' /\ Working'
  BY <1>1 DEF VecsTyped, HostTyped, Working
<1>4. Contents' /\ Admits'
  BY <1>1, <1>2 DEF Contents, Admits, Applicable, HostTyped
<1> QED
  BY <1>1, <1>3, <1>4

LEMMA Waiting == ASSUME All PROVE (~pending => ~done) /\ (~pending \/ done => host = "wait" /\ ~start)
BY DEF All, Progress

LEMMA CallOp ==
  ASSUME \E c \in Calls : At(c)
  PROVE  todo # << >> /\ todo[1].do \in Calls /\ todo[1].do \in Failing
         /\ todo[1].do \notin {"poll", "clear", "unlist", "remove"}
<1>1. PICK c \in Calls : todo # << >> /\ Head(todo).do = c
  BY DEF At
<1>2. Head(todo) = todo[1]
  OBVIOUS
<1> QED
  BY <1>1, <1>2 DEF Calls, Failing

LEMMA WaitOp ==
  ASSUME \E w \in Waits : At(w)
  PROVE  todo # << >> /\ todo[1].do \in Waits /\ todo[1].do \in Failing
         /\ todo[1].do \notin {"poll", "clear", "unlist", "remove", "commit"}
<1>1. PICK w \in Waits : todo # << >> /\ Head(todo).do = w
  BY DEF At
<1>2. Head(todo) = todo[1]
  OBVIOUS
<1> QED
  BY <1>1, <1>2 DEF Waits, Failing

LEMMA GaveUp == ASSUME All, Unanswered, UNCHANGED session PROVE timeouts' \in 0 .. session.timeouts
<1>1. timeouts \in 0 .. session.timeouts /\ session.timeouts \in Nat
  BY Sizes DEF All, ClientTyped
<1> QED
  BY <1>1 DEF Unanswered

LEMMA AwaitProgress == ASSUME All, AwaitAnswer, UNCHANGED << start, host >> PROVE pending' = FALSE /\ done' = FALSE /\ Progress'
BY Waiting DEF AwaitAnswer, Answered, Progress, All

LEMMA BeginKeeps == ASSUME All, Begin, UNCHANGED session PROVE All'
<1>1. RpcTyped /\ ClientTyped /\ DrawTyped /\ Progress /\ Removing
  BY DEF All
<1>2. /\ UNCHANGED << session, vecs, commits, server, timeouts, found, res, at, reading, next, seen, drawn >> /\ todo # << >> /\ todo[1].do \in Calls /\ Vec \in Vecs
      /\ done' = FALSE /\ start' = TRUE /\ pending' = TRUE /\ todo' = Tail(todo)
      /\ call' = [do |-> todo[1].do, vec |-> Vec, reply |-> FALSE]
      /\ host = "wait" /\ todo[1].do \notin {"poll", "clear", "unlist", "remove"}
  <2>1. todo # << >> /\ Vec \in Vecs /\ Head(todo) = todo[1]
    BY HeadKnown, CallOp DEF Begin
  <2> QED
    BY <2>1, CallOp, Waiting DEF Begin, draw, Free, Answered
<1>3. VecsTyped' /\ HostTyped' /\ Working' /\ Contents' /\ Admits' /\ UNCHANGED host
  BY <1>2, PassFrame DEF draw
<1>4. todo' \in Seq(Ops) /\ Scripted'
  BY <1>2, Goes
<1>5. RpcTyped'
  BY <1>1, <1>2 DEF RpcTyped
<1>6. ClientTyped' /\ DrawTyped'
  BY <1>1, <1>2, <1>4 DEF ClientTyped, DrawTyped
<1>7. Progress'
  BY <1>2, <1>3 DEF Progress
<1>8. Removing'
  <2>1. CASE ~(todo[1].do = "commit" /\ Leads(todo, 2, "release"))
    BY <1>2, <2>1, GoesAway
  <2>2. CASE todo[1].do = "commit" /\ Leads(todo, 2, "release")
    <3>1. Empty("distant") /\ Empty("extra") /\ Removals /\ InState("leaving") \subseteq Listed
      BY <1>1, <2>2 DEF Removing
    <3>2. (Empty("distant") /\ Empty("extra") /\ Removals)' /\ (InState("leaving") \subseteq Listed)'
      BY <1>2, <3>1 DEF Empty, Removals, InState, Listed, vecs
    <3>3. /\ ~Leads(todo', 3, "unlist") /\ ~Leads(todo', 2, "unlist") /\ ~Leads(todo', 1, "unlist")
          /\ ~Leads(todo', 1, "remove") /\ ~Leads(todo', 2, "release")
      BY <1>2, <2>2, HeadKnown, Leading
    <3>4. pending' /\ start' /\ call'.do = "commit" /\ ~call'.reply /\ host' = "wait"
      BY <1>2, <1>3, <2>2
    <3>5. \A k \in 1 .. 3 : \A do : Leads(todo', k, do) <=> Leads(todo, k, do)'
      BY DEF Leads
    <3> QED
      BY <3>2, <3>3, <3>4, <3>5 DEF Removing
  <2> QED
    BY <2>1, <2>2
<1> QED
  BY <1>3, <1>4, <1>5, <1>6, <1>7, <1>8 DEF All

LEMMA RefusedKeeps == ASSUME All, Refused, UNCHANGED session PROVE All'
<1>1. RpcTyped /\ ClientTyped /\ DrawTyped /\ Progress /\ Removing
  BY DEF All
<1>2. /\ UNCHANGED << session, vecs, commits, server, call, start, done, pending, res, at, reading, next, seen, drawn >>
      /\ todo # << >> /\ todo[1].do \in Failing /\ todo' = Failed /\ found' \in BOOLEAN
      /\ timeouts' \in 0 .. session.timeouts
  BY <1>1, CallOp, GaveUp DEF Refused, rpc, draw, ClientTyped
<1>3. VecsTyped' /\ HostTyped' /\ Working' /\ Contents' /\ Admits' /\ UNCHANGED host
  BY <1>2, PassFrame DEF draw
<1>4. todo' \in Seq(Ops) /\ Scripted'
  BY <1>2, GivesUp
<1>5. RpcTyped'
  BY <1>1, <1>2 DEF RpcTyped
<1>6. ClientTyped' /\ DrawTyped'
  BY <1>1, <1>2, <1>4 DEF ClientTyped, DrawTyped
<1>7. Progress'
  BY <1>1, <1>2, <1>3 DEF Progress, server, local
<1>8. Removing'
  BY <1>2, GivesUp
<1> QED
  BY <1>3, <1>4, <1>5, <1>6, <1>7, <1>8 DEF All

LEMMA WaitFailsKeeps == ASSUME All, WaitFails, UNCHANGED session PROVE All'
<1>1. RpcTyped /\ ClientTyped /\ DrawTyped /\ Progress /\ Removing
  BY DEF All
<1>2. /\ UNCHANGED << session, vecs, commits, server, call, start, done, pending, res, at, reading, next, seen, drawn >>
      /\ todo # << >> /\ todo[1].do \in Failing /\ todo' = Failed /\ found' \in BOOLEAN
      /\ timeouts' \in 0 .. session.timeouts
  BY <1>1, WaitOp, GaveUp DEF WaitFails, rpc, draw, ClientTyped
<1>3. VecsTyped' /\ HostTyped' /\ Working' /\ Contents' /\ Admits' /\ UNCHANGED host
  BY <1>2, PassFrame DEF draw
<1>4. todo' \in Seq(Ops) /\ Scripted'
  BY <1>2, GivesUp
<1>5. RpcTyped'
  BY <1>1, <1>2 DEF RpcTyped
<1>6. ClientTyped' /\ DrawTyped'
  BY <1>1, <1>2, <1>4 DEF ClientTyped, DrawTyped
<1>7. Progress'
  BY <1>1, <1>2, <1>3 DEF Progress, server, local
<1>8. Removing'
  BY <1>2, GivesUp
<1> QED
  BY <1>3, <1>4, <1>5, <1>6, <1>7, <1>8 DEF All

LEMMA WaitKeeps == ASSUME All, Wait, UNCHANGED session PROVE All'
<1>1. RpcTyped /\ ClientTyped /\ DrawTyped /\ Progress /\ Removing
  BY DEF All
<1>2. /\ UNCHANGED << session, vecs, call, start, commits, server, timeouts, res, at, reading, next, seen, drawn >>
      /\ AwaitAnswer /\ todo # << >> /\ todo[1].do \in Waits /\ found' \in BOOLEAN
      /\ todo[1].do \notin {"poll", "clear", "unlist", "remove", "commit"}
  <2>1. \E w \in Waits : At(w)
    BY DEF Wait, Waits
  <2> QED
    BY <1>1, <2>1, WaitOp DEF Wait, draw, ClientTyped, RpcTyped
<1>3. VecsTyped' /\ HostTyped' /\ Working' /\ Contents' /\ Admits' /\ UNCHANGED host
  BY <1>2, PassFrame DEF draw
<1>4. todo' \in Seq(Ops) /\ Scripted'
  BY <1>2, Goes DEF AwaitAnswer
<1>5. RpcTyped'
  BY <1>1, <1>2 DEF RpcTyped, AwaitAnswer
<1>6. ClientTyped' /\ DrawTyped'
  BY <1>1, <1>2, <1>4 DEF ClientTyped, DrawTyped, AwaitAnswer
<1>7. Progress'
  BY <1>2, <1>3, AwaitProgress
<1>8. Removing'
  BY <1>2, GoesAway DEF AwaitAnswer
<1> QED
  BY <1>3, <1>4, <1>5, <1>6, <1>7, <1>8 DEF All

LEMMA FoundKeeps == ASSUME All, Found, UNCHANGED session PROVE All'
<1>1. RpcTyped /\ ClientTyped /\ DrawTyped /\ Progress /\ Removing
  BY DEF All
<1>2. /\ UNCHANGED << session, vecs, call, start, commits, server, timeouts, res, at, reading, next, seen, drawn >>
      /\ AwaitAnswer /\ todo # << >> /\ todo[1].do \in Waits /\ found' \in BOOLEAN
      /\ todo[1].do \notin {"poll", "clear", "unlist", "remove", "commit"}
  <2>1. \E w \in Waits : At(w)
    BY DEF Found, Waits
  <2> QED
    BY <1>1, <2>1, WaitOp DEF Found, draw, ClientTyped, RpcTyped
<1>3. VecsTyped' /\ HostTyped' /\ Working' /\ Contents' /\ Admits' /\ UNCHANGED host
  BY <1>2, PassFrame DEF draw
<1>4. todo' \in Seq(Ops) /\ Scripted'
  BY <1>2, Goes DEF AwaitAnswer
<1>5. RpcTyped'
  BY <1>1, <1>2 DEF RpcTyped, AwaitAnswer
<1>6. ClientTyped' /\ DrawTyped'
  BY <1>1, <1>2, <1>4 DEF ClientTyped, DrawTyped, AwaitAnswer
<1>7. Progress'
  BY <1>2, <1>3, AwaitProgress
<1>8. Removing'
  BY <1>2, GoesAway DEF AwaitAnswer
<1> QED
  BY <1>3, <1>4, <1>5, <1>6, <1>7, <1>8 DEF All

LEMMA TailLeads ==
  ASSUME All, todo # << >>, todo' = Tail(todo)
  PROVE  /\ Leads(todo, 3, "unlist")' => todo[1].do = "poll"
         /\ Leads(todo, 2, "unlist")' => todo[1].do = "clear" /\ Vec = "distant" /\ Leads(todo, 3, "unlist")
         /\ Leads(todo, 1, "unlist")' => todo[1].do = "clear" /\ Vec = "extra" /\ Leads(todo, 2, "unlist")
         /\ Leads(todo, 1, "remove")' => todo[1].do = "unlist"
         /\ Leads(todo, 2, "release")' => todo[1].do = "remove"
         /\ Leads(todo, 1, "release")' => todo[1].do = "commit" /\ Leads(todo, 2, "release")
<1>1. \A k \in 1 .. 3 : \A do : Leads(todo, k, do)' <=> Leads(Tail(todo), k, do)
  BY DEF Leads
<1>2. Vec = todo[1].vec
  BY HeadKnown DEF Vec
<1> QED
  BY <1>1, <1>2, HeadKnown, Leading

LEMMA AtHead == ASSUME All, NEW do, At(do) PROVE todo # << >> /\ todo[1].do = do /\ Vec \in Vecs /\ Vec = todo[1].vec
BY HeadKnown DEF At, Vec

LEMMA PollKeeps == ASSUME All, Poll, UNCHANGED session PROVE All'
<1>1. RpcTyped /\ ClientTyped /\ DrawTyped /\ Progress
  BY DEF All
<1>2. /\ UNCHANGED << session, vecs, call, start, commits, server, timeouts, found, res, at, reading, next, seen, drawn >>
      /\ todo # << >> /\ todo[1].do = "poll"
      /\ \/ pending' = FALSE /\ done' = FALSE /\ todo' = Tail(todo) /\ (~pending \/ done)
         \/ UNCHANGED << pending, done >> /\ todo' = Failed
  BY AtHead DEF Poll, draw, Free, Answered
<1>3. VecsTyped' /\ HostTyped' /\ Working' /\ Contents' /\ Admits' /\ UNCHANGED host
  BY <1>2, PassFrame
<1>4. RpcTyped'
  BY <1>1, <1>2 DEF RpcTyped
<1>5. todo' \in Seq(Ops) /\ Scripted'
  BY <1>2, Goes, GivesUp DEF Failing
<1>6. ClientTyped' /\ DrawTyped'
  BY <1>1, <1>2, <1>5 DEF ClientTyped, DrawTyped
<1>7. CASE pending' = FALSE /\ done' = FALSE /\ todo' = Tail(todo) /\ (~pending \/ done)
  <2>1. Progress'
    BY <1>2, <1>3, <1>7, Waiting DEF Progress
  <2>2. Removing'
    BY <1>2, <1>7, TailLeads DEF Removing
  <2> QED
    BY <1>3, <1>4, <1>5, <1>6, <2>1, <2>2 DEF All
<1>8. CASE UNCHANGED << pending, done >> /\ todo' = Failed
  <2>1. Progress'
    BY <1>1, <1>2, <1>3, <1>8 DEF Progress, server, local
  <2>2. Removing'
    BY <1>2, <1>8, GivesUp DEF Failing
  <2> QED
    BY <1>3, <1>4, <1>5, <1>6, <2>1, <2>2 DEF All
<1> QED
  BY <1>2, <1>7, <1>8

LEMMA ClearKeeps == ASSUME All, Clear, UNCHANGED session PROVE All'
<1>1. /\ VecsTyped /\ RpcTyped /\ HostTyped /\ ClientTyped /\ DrawTyped /\ Progress
      /\ Working /\ Contents /\ Admits /\ Removing
  BY DEF All
<1>2. /\ UNCHANGED << session, slots, upd, cmp, call, start, done, commits >>
      /\ UNCHANGED << alive, host, job, old, plan, put, shown, space >>
      /\ UNCHANGED << pending, timeouts, found, res, at, reading, next, seen, drawn >>
      /\ size' = [size EXCEPT ![Vec] = 0] /\ pop' = [pop EXCEPT ![Vec] = Nothing]
      /\ todo # << >> /\ todo[1].do = "clear" /\ todo' = Tail(todo) /\ Vec \in Vecs
  BY AtHead DEF Clear, draw, rpc, server, local
<1>3. todo' \in Seq(Ops) /\ Scripted'
  BY <1>2, Goes
<1>4. \A v \in Vecs : size'[v] = IF v = Vec THEN 0 ELSE size[v]
  BY <1>1, <1>2 DEF VecsTyped
<1>5. Existing' = Existing /\ \A v \in Vecs : Live(v)' = Live(v)
  BY <1>2 DEF Live, Existing
<1>6. VecsTyped'
  <2>1. Nothing \in [Content -> Nat] /\ 0 \in 0 .. Cap
    BY Sizes DEF Nothing
  <2> QED
    BY <1>1, <1>2, <2>1 DEF VecsTyped
<1>7. RpcTyped' /\ HostTyped' /\ ClientTyped' /\ DrawTyped' /\ Progress'
  BY <1>1, <1>2, <1>3 DEF RpcTyped, HostTyped, ClientTyped, DrawTyped, Progress
<1>8. Working'
  BY <1>1, <1>2, <1>4 DEF Working, HostTyped
<1>9. Contents'
  BY <1>1, <1>2, <1>4, <1>5 DEF Contents, HostTyped
<1>10. Admits'
  BY <1>1, <1>2, <1>5 DEF Admits, Applicable
<1>11. Removing'
  <2>1. Leads(todo, 2, "unlist")' => ~pending' /\ Empty("distant")'
    BY <1>1, <1>2, <1>4, TailLeads DEF Removing, Empty
  <2>2. Leads(todo, 1, "unlist")' => ~pending' /\ Empty("distant")' /\ Empty("extra")'
    <3>1. "distant" \in Vecs /\ "extra" \in Vecs /\ "distant" # "extra"
      BY DEF Vecs
    <3> QED
      BY <1>1, <1>2, <1>4, <3>1, TailLeads DEF Removing, Empty
  <2>3. /\ ~Leads(todo, 3, "unlist")' /\ ~Leads(todo, 1, "remove")'
        /\ ~Leads(todo, 2, "release")' /\ ~Leads(todo, 1, "release")'
    BY <1>2, TailLeads
  <2> QED
    BY <2>1, <2>2, <2>3 DEF Removing
<1> QED
  BY <1>3, <1>6, <1>7, <1>8, <1>9, <1>10, <1>11 DEF All

---------------------------------------------------------------------------
(* Residency.                                                              *)
LEMMA ResFrame ==
  ASSUME All, UNCHANGED << session, vecs, server, drawn >>, Existing \subseteq Existing',
         commits'.entries = commits.entries, commits'.size <= commits.size, commits'.size \in Nat
  PROVE  VecsTyped' /\ HostTyped' /\ Working' /\ Contents' /\ Admits'
<1>1. /\ UNCHANGED << slots, size, upd, cmp, pop, drawn >>
      /\ UNCHANGED << alive, host, job, old, plan, put, shown, space >>
      /\ VecsTyped /\ RpcTyped /\ HostTyped /\ Working /\ Contents /\ Admits
  BY DEF All, vecs, server, local
<1>2. \A v \in Vecs : Live(v) \subseteq Live(v)'
  BY DEF Live
<1>3. VecsTyped' /\ HostTyped' /\ Working'
  BY <1>1 DEF VecsTyped, HostTyped, Working
<1>4. Contents'
  BY <1>1, <1>2 DEF Contents, HostTyped
<1>5. Admits'
  <2>1. commits.size \in Nat
    BY <1>1 DEF RpcTyped
  <2>2. \A i \in 1 .. Len(commits.entries) : Applicable(i)' => Applicable(i)
    BY <1>1, <2>1 DEF Applicable
  <2> QED
    BY <1>1, <2>2 DEF Admits
<1> QED
  BY <1>3, <1>4, <1>5

LEMMA Emptying ==
  ASSUME All, Emptied \/ UNCHANGED commits
  PROVE  /\ commits'.entries = commits.entries /\ commits'.size <= commits.size /\ commits'.size \in Nat
         /\ commits' \in [entries : Entries, size : Nat] /\ commits'.size <= Len(commits'.entries)
         /\ Emptied => commits'.size = 0
<1>1. commits \in [entries : Entries, size : Nat] /\ commits.size <= Len(commits.entries)
  BY DEF All, RpcTyped
<1>2. Len(commits.entries) \in Nat
  BY <1>1 DEF Entries
<1> QED
  BY <1>1, <1>2 DEF Emptied

LEMMA MovedTyped ==
  ASSUME All, NEW set, NEW s \in {"pending", "in", "leaving"}, res' = Moved(set, s)
  PROVE  /\ res' \in [Buffers -> {"out", "pending", "in", "leaving"}] /\ Existing \subseteq Existing'
         /\ set \cap Buffers \subseteq Existing => Existing' = Existing
BY DEF All, ClientTyped, Moved, Existing

LEMMA UnlistKeeps == ASSUME All, Unlist, UNCHANGED session PROVE All'
<1>1. RpcTyped /\ ClientTyped /\ DrawTyped /\ Progress /\ Removing
  BY DEF All
<1>2. /\ UNCHANGED << session, vecs, call, start, done, server, pending, timeouts, found, at, reading, next, seen, drawn >>
      /\ todo # << >> /\ todo[1].do = "unlist" /\ (Emptied \/ UNCHANGED commits)
  BY AtHead DEF Unlist, draw
<1>3. /\ res' \in [Buffers -> {"out", "pending", "in", "leaving"}] /\ Existing' = Existing
      /\ (todo' = Tail(todo) /\ Emptied) \/ todo' = Failed
  <2>1. CASE \E batch \in SUBSET InState("in") \ {{}} : res' = Moved(batch, "leaving") /\ Emptied /\ todo' = Tail(todo)
    <3>1. PICK batch \in SUBSET InState("in") : res' = Moved(batch, "leaving")
      BY <2>1
    <3>2. batch \subseteq Existing
      BY <3>1 DEF InState, Existing
    <3> QED
      BY <2>1, <3>1, <3>2, MovedTyped
  <2>2. CASE \E back \in SUBSET InState("leaving") :
               res' = Moved(back, "pending") /\ (todo' = Failed \/ (todo' = Tail(todo) /\ Emptied))
    <3>1. PICK back \in SUBSET InState("leaving") : res' = Moved(back, "pending")
      BY <2>2
    <3>2. back \subseteq Existing
      BY <3>1 DEF InState, Existing
    <3> QED
      BY <2>2, <3>1, <3>2, MovedTyped
  <2> QED
    BY <2>1, <2>2 DEF Unlist
<1>4. /\ commits'.entries = commits.entries /\ commits'.size <= commits.size /\ commits'.size \in Nat
      /\ commits' \in [entries : Entries, size : Nat] /\ commits'.size <= Len(commits'.entries)
      /\ Emptied => commits'.size = 0
  BY <1>2, Emptying
<1>5. VecsTyped' /\ HostTyped' /\ Working' /\ Contents' /\ Admits'
  BY <1>2, <1>3, <1>4, ResFrame
<1>6. RpcTyped'
  BY <1>1, <1>2, <1>4 DEF RpcTyped
<1>7. todo' \in Seq(Ops) /\ Scripted'
  BY <1>2, <1>3, Goes, GivesUp DEF Failing
<1>8. ClientTyped' /\ DrawTyped'
  BY <1>1, <1>2, <1>3, <1>7 DEF ClientTyped, DrawTyped
<1>9. Progress'
  BY <1>1, <1>2, <1>4 DEF Progress, server, local
<1>10. Removing'
  <2>1. CASE todo' = Failed
    BY <1>2, <2>1, GivesUp DEF Failing
  <2>2. CASE todo' = Tail(todo) /\ Emptied
    <3>1. ~pending /\ Empty("distant") /\ Empty("extra")
      BY <1>1, <1>2, HeadKnown, OneLead DEF Removing
    <3>2. (~pending /\ Empty("distant") /\ Empty("extra"))' /\ Removals'
      BY <1>2, <1>4, <2>2, <3>1 DEF Empty, vecs, Removals
    <3>3. /\ ~Leads(todo, 3, "unlist")' /\ ~Leads(todo, 2, "unlist")' /\ ~Leads(todo, 1, "unlist")'
          /\ ~Leads(todo, 2, "release")' /\ ~Leads(todo, 1, "release")'
      BY <1>2, <2>2, TailLeads
    <3> QED
      BY <3>2, <3>3 DEF Removing
  <2> QED
    BY <1>3, <2>1, <2>2
<1> QED
  BY <1>5, <1>6, <1>7, <1>8, <1>9, <1>10 DEF All

LEMMA ListKeeps == ASSUME All, List, UNCHANGED session PROVE All'
<1>1. RpcTyped /\ ClientTyped /\ DrawTyped /\ Progress
  BY DEF All
<1>2. /\ UNCHANGED << session, vecs, call, start, done, server, pending, timeouts, found, at, reading, next, seen, drawn >>
      /\ todo # << >> /\ todo[1].do = "list" /\ (Emptied \/ UNCHANGED commits)
      /\ (todo' = Tail(todo) \/ todo' = Failed)
  BY AtHead DEF List, draw
<1>3. res' \in [Buffers -> {"out", "pending", "in", "leaving"}] /\ Existing \subseteq Existing'
  <2>1. CASE UNCHANGED res
    BY <1>1, <2>1 DEF ClientTyped, Existing
  <2>2. CASE \E b \in InState("out") : res' = Moved({b}, "pending")
    BY <2>2, MovedTyped
  <2> QED
    BY <2>1, <2>2 DEF List
<1>4. /\ commits'.entries = commits.entries /\ commits'.size <= commits.size /\ commits'.size \in Nat
      /\ commits' \in [entries : Entries, size : Nat] /\ commits'.size <= Len(commits'.entries)
  BY <1>2, Emptying
<1>5. VecsTyped' /\ HostTyped' /\ Working' /\ Contents' /\ Admits'
  BY <1>2, <1>3, <1>4, ResFrame
<1>6. RpcTyped'
  BY <1>1, <1>2, <1>4 DEF RpcTyped
<1>7. todo' \in Seq(Ops) /\ Scripted' /\ Removing'
  BY <1>2, Goes, GoesAway, GivesUp DEF Failing
<1>8. ClientTyped' /\ DrawTyped'
  BY <1>1, <1>2, <1>3, <1>7 DEF ClientTyped, DrawTyped
<1>9. Progress'
  BY <1>1, <1>2, <1>4 DEF Progress, server, local
<1> QED
  BY <1>5, <1>6, <1>7, <1>8, <1>9 DEF All

LEMMA ConfirmKeeps == ASSUME All, Confirm, UNCHANGED session PROVE All'
<1>1. RpcTyped /\ ClientTyped /\ DrawTyped
  BY DEF All
<1>2. /\ UNCHANGED << session, vecs, call, start, commits, server, timeouts, found, at, reading, next, seen, drawn >>
      /\ todo # << >> /\ todo[1].do = "confirm" /\ AwaitAnswer /\ todo' = Tail(todo)
      /\ res' = IF call.reply THEN Moved(Listed, "in") ELSE res
  BY AtHead DEF Confirm, draw, AwaitAnswer
<1>3. res' \in [Buffers -> {"out", "pending", "in", "leaving"}] /\ Existing \subseteq Existing'
  <2>1. CASE UNCHANGED res
    BY <1>1, <2>1 DEF ClientTyped, Existing
  <2>2. CASE res' = Moved(Listed, "in")
    BY <2>2, MovedTyped
  <2> QED
    BY <1>2, <2>1, <2>2
<1>4. VecsTyped' /\ HostTyped' /\ Working' /\ Contents' /\ Admits'
  BY <1>1, <1>2, <1>3, ResFrame DEF RpcTyped
<1>5. Progress' /\ pending' = FALSE /\ done' = FALSE
  BY <1>2, AwaitProgress DEF server
<1>6. RpcTyped'
  BY <1>1, <1>2, <1>5 DEF RpcTyped
<1>7. todo' \in Seq(Ops) /\ Scripted' /\ Removing'
  BY <1>2, Goes, GoesAway
<1>8. ClientTyped' /\ DrawTyped'
  BY <1>1, <1>2, <1>3, <1>5, <1>7 DEF ClientTyped, DrawTyped
<1> QED
  BY <1>4, <1>5, <1>6, <1>7, <1>8 DEF All

LEMMA Pushed ==
  ASSUME All, NEW b \in Buffers, NEW resident \in BOOLEAN, PushBack(b, resident)
  PROVE  /\ commits' \in [entries : Entries, size : Nat] /\ commits'.size = commits.size + 1
         /\ commits'.size <= Len(commits'.entries) /\ Len(commits.entries) <= Len(commits'.entries)
         /\ commits'.entries[commits'.size] = [buffer |-> b, resident |-> resident]
         /\ \A i \in 1 .. Len(commits'.entries) :
              i = commits'.size \/ (i \in 1 .. Len(commits.entries) /\ commits'.entries[i] = commits.entries[i])
<1> DEFINE n == commits.size + 1
           s == commits.entries
           entry == [buffer |-> b, resident |-> resident]
           t == IF n > Len(s) THEN Append(s, entry) ELSE [s EXCEPT ![n] = entry]
<1>1. s \in Entries /\ commits.size \in Nat /\ n \in Nat /\ n >= 1 /\ n <= Len(s) + 1
  BY DEF All, RpcTyped, Entries
<1>2. commits' = [entries |-> t, size |-> n]
  BY DEF PushBack
<1>3. entry \in [buffer : Buffers, resident : BOOLEAN]
  OBVIOUS
<1> HIDE DEF n, s, entry
<1>4. /\ t \in Entries /\ n <= Len(t) /\ Len(s) <= Len(t) /\ t[n] = entry
      /\ \A i \in 1 .. Len(t) : i = n \/ (i \in 1 .. Len(s) /\ t[i] = s[i])
  <2>1. CASE n > Len(s)
    BY <1>1, <1>3, <2>1 DEF Entries
  <2>2. CASE ~(n > Len(s))
    BY <1>1, <1>3, <2>2 DEF Entries
  <2> QED
    BY <2>1, <2>2
<1> QED
  BY <1>1, <1>2, <1>4 DEF n, s, entry

LEMMA PushFrame ==
  ASSUME All, UNCHANGED << session, vecs, call, start, done, server, pending, timeouts, found, res, draw >>,
         todo' \in Seq(Ops), Scripted', Removing', NEW b \in Buffers, NEW resident \in BOOLEAN,
         PushBack(b, resident), resident => b \in Existing
  PROVE  All'
<1>1. /\ VecsTyped /\ RpcTyped /\ HostTyped /\ ClientTyped /\ DrawTyped /\ Progress /\ Working /\ Contents /\ Admits
  BY DEF All
<1>2. /\ UNCHANGED << session, slots, size, upd, cmp, pop, call, start, done, alive, host, job, old, plan, put >>
      /\ UNCHANGED << shown, space, pending, timeouts, found, res, at, reading, next, seen, drawn >>
  BY DEF vecs, server, local, draw
<1>3. /\ commits' \in [entries : Entries, size : Nat] /\ commits'.size = commits.size + 1
      /\ commits'.size <= Len(commits'.entries) /\ Len(commits.entries) <= Len(commits'.entries)
      /\ commits'.entries[commits'.size] = [buffer |-> b, resident |-> resident]
      /\ \A i \in 1 .. Len(commits'.entries) :
           i = commits'.size \/ (i \in 1 .. Len(commits.entries) /\ commits'.entries[i] = commits.entries[i])
  BY Pushed
<1>4. Existing' = Existing /\ \A v \in Vecs : Live(v)' = Live(v)
  BY <1>2 DEF Live, Existing
<1>5. VecsTyped' /\ RpcTyped' /\ HostTyped' /\ ClientTyped' /\ DrawTyped' /\ Working'
  <2>1. VecsTyped' /\ HostTyped' /\ Working'
    BY <1>1, <1>2 DEF VecsTyped, HostTyped, Working
  <2>2. RpcTyped' /\ ClientTyped' /\ DrawTyped'
    BY <1>1, <1>2, <1>3 DEF RpcTyped, ClientTyped, DrawTyped
  <2> QED
    BY <2>1, <2>2
<1>6. Progress'
  <2>1. Len(commits.entries) \in Nat /\ Len(commits'.entries) \in Nat
    BY <1>1, <1>3 DEF RpcTyped, Entries
  <2> QED
    BY <1>1, <1>2, <1>3, <2>1 DEF Progress, HostTyped
<1>7. Contents'
  BY <1>1, <1>2, <1>4 DEF Contents, HostTyped
<1>8. Admits'
  <2>1. ASSUME NEW i \in 1 .. Len(commits'.entries), Applicable(i)', commits'.entries[i].resident
        PROVE  commits'.entries[i].buffer \in Existing
    <3>1. CASE i = commits'.size
      BY <1>3, <2>1, <3>1
    <3>2. CASE i # commits'.size
      <4>1. i \in 1 .. Len(commits.entries) /\ commits'.entries[i] = commits.entries[i]
        BY <1>3, <3>2
      <4>2. Applicable(i)
        <5>1. commits.size \in Nat
          BY <1>1 DEF RpcTyped
        <5> QED
          BY <1>2, <1>3, <2>1, <3>2, <5>1 DEF Applicable
      <4> QED
        BY <1>1, <2>1, <4>1, <4>2 DEF Admits
    <3> QED
      BY <3>1, <3>2
  <2> QED
    BY <1>4, <2>1 DEF Admits
<1> QED
  BY <1>5, <1>6, <1>7, <1>8 DEF All

LEMMA PushCommitKeeps == ASSUME All, PushCommit, UNCHANGED session PROVE All'
<1>1. UNCHANGED << session, vecs, call, start, done, server, pending, timeouts, found, res, draw >>
  BY DEF PushCommit
<1>2. CASE At("admit") /\ (\E b \in InState("pending") : PushBack(b, TRUE)) /\ todo' = Tail(todo)
  <2>1. PICK b \in InState("pending") : PushBack(b, TRUE)
    BY <1>2
  <2>2. b \in Buffers /\ b \in Existing
    BY DEF InState, Existing
  <2>3. todo' \in Seq(Ops) /\ Scripted' /\ Removing'
    BY <1>2, AtHead, Goes, GoesAway
  <2> QED
    BY <1>1, <2>1, <2>2, <2>3, PushFrame
<1>3. ASSUME At("remove"), NEW b \in InState("leaving") \ Listed, PushBack(b, FALSE),
             todo' = IF InState("leaving") = Listed \cup {b} THEN Tail(todo) ELSE todo
      PROVE  All'
  <2>1. b \in Buffers /\ todo # << >> /\ todo[1].do = "remove"
    BY <1>3, AtHead DEF InState
  <2>2. /\ commits' \in [entries : Entries, size : Nat] /\ commits'.size = commits.size + 1
        /\ commits'.size <= Len(commits'.entries)
        /\ commits'.entries[commits'.size] = [buffer |-> b, resident |-> FALSE]
        /\ \A i \in 1 .. Len(commits'.entries) :
             i = commits'.size \/ (i \in 1 .. Len(commits.entries) /\ commits'.entries[i] = commits.entries[i])
    BY <1>3, <2>1, Pushed
  <2>3. ~pending /\ Empty("distant") /\ Empty("extra") /\ Removals
    BY <2>1, HeadKnown, OneLead DEF All, Removing
  <2>4. commits.size \in Nat /\ Len(commits'.entries) \in Nat
    BY <2>2 DEF All, RpcTyped, Entries
  <2>5. \A i \in 1 .. commits'.size : i \in 1 .. commits.size \/ i = commits'.size
    BY <2>2, <2>4
  <2>6. \A i \in 1 .. commits.size : i \in 1 .. commits'.size /\ commits'.entries[i] = commits.entries[i]
    BY <2>2, <2>4
  <2>7. (~pending /\ Empty("distant") /\ Empty("extra") /\ Removals)' /\ InState("leaving")' = InState("leaving")
    BY <1>1, <2>2, <2>3, <2>5, <2>6 DEF Empty, vecs, Removals, InState
  <2>8. CASE todo' = todo
    <3>1. todo' \in Seq(Ops) /\ Scripted'
      BY <2>1, <2>8, HeadKnown DEF Scripted, All, Linked, Jumps
    <3>2. /\ ~Leads(todo, 3, "unlist")' /\ ~Leads(todo, 2, "unlist")' /\ ~Leads(todo, 1, "unlist")'
          /\ ~Leads(todo, 2, "release")' /\ ~Leads(todo, 1, "release")'
      <4>1. \A k \in 1 .. 3 : \A do : Leads(todo, k, do)' <=> Leads(todo, k, do)
        BY <2>8 DEF Leads
      <4> QED
        BY <2>1, <4>1, HeadKnown, OneLead
    <3>3. Removing'
      BY <2>7, <3>2 DEF Removing
    <3> QED
      BY <1>1, <1>3, <2>1, <3>1, <3>3, PushFrame
  <2>9. CASE InState("leaving") = Listed \cup {b} /\ todo' = Tail(todo)
    <3>1. todo' \in Seq(Ops) /\ Scripted'
      BY <2>1, <2>9, Goes
    <3>2. /\ ~Leads(todo, 3, "unlist")' /\ ~Leads(todo, 2, "unlist")' /\ ~Leads(todo, 1, "unlist")'
          /\ ~Leads(todo, 1, "remove")' /\ ~Leads(todo, 1, "release")'
      BY <2>1, <2>9, TailLeads
    <3>3. InState("leaving")' \subseteq Listed'
      <4>1. Listed \subseteq Listed'
        BY <2>6 DEF Listed
      <4>2. b \in Listed'
        <5>1. commits'.size \in 1 .. commits'.size
          BY <2>2, <2>4
        <5> QED
          BY <2>2, <5>1 DEF Listed
      <4> QED
        BY <2>7, <2>9, <4>1, <4>2
    <3>4. Removing'
      BY <2>7, <3>2, <3>3 DEF Removing
    <3> QED
      BY <1>1, <1>3, <2>1, <3>1, <3>4, PushFrame
  <2> QED
    BY <1>3, <2>8, <2>9
<1> QED
  BY <1>2, <1>3 DEF PushCommit

LEMMA ReleaseKeeps == ASSUME All, Release, UNCHANGED session PROVE All'
<1> DEFINE gone == InState("leaving")
<1>1. /\ VecsTyped /\ RpcTyped /\ HostTyped /\ ClientTyped /\ DrawTyped /\ Progress /\ Working /\ Contents /\ Admits
      /\ Removing
  BY DEF All
<1>2. /\ UNCHANGED << session, size, upd, cmp, pop, call, start, commits, alive, host, job, old, put, space >>
      /\ UNCHANGED << timeouts, found, at, reading, next, seen, drawn >>
      /\ AwaitAnswer /\ todo # << >> /\ todo[1].do = "release" /\ todo' = Tail(todo) /\ done
  BY AtHead DEF Release, draw, AwaitAnswer, Answered
<1>3. todo' \in Seq(Ops) /\ Scripted' /\ Removing'
  BY <1>2, Goes, GoesAway
<1>4. Progress' /\ pending' = FALSE /\ done' = FALSE
  <2>1. UNCHANGED << start, host >>
    BY <1>2
  <2> QED
    BY <1>2, <2>1, AwaitProgress
<1>5. CASE ~call.reply
  <2>1. UNCHANGED << res, slots, plan, shown >>
    BY <1>5 DEF Release
  <2>2. VecsTyped' /\ HostTyped' /\ Working' /\ Contents' /\ Admits'
    BY <1>2, <2>1, PassFrame DEF vecs, server, local
  <2>3. RpcTyped' /\ ClientTyped' /\ DrawTyped'
    BY <1>1, <1>2, <1>3, <1>4, <2>1 DEF RpcTyped, ClientTyped, DrawTyped
  <2> QED
    BY <1>3, <1>4, <2>2, <2>3 DEF All
<1>6. CASE call.reply
  <2>1. /\ res' = Moved(gone, "out") /\ slots' = [v \in Vecs |-> [i \in 1 .. Cap |-> Gone(gone, slots[v][i])]]
        /\ plan' = [i \in DOMAIN plan |-> Gone(gone, plan[i])] /\ shown' = {Gone(gone, c) : c \in shown}
    BY <1>6 DEF Release
  <2>2. host = "wait" /\ put = 0 /\ plan = << >>
    BY <1>1, <1>2, Waiting DEF Working
  <2>3. Empty("distant") /\ Empty("extra") /\ Removals /\ shown \cap gone = {}
    BY <1>1, <1>2, <1>6, HeadKnown, OneLead DEF Removing
  <2>4. gone \subseteq Buffers /\ \A b \in gone : res[b] = "leaving"
    BY DEF InState
  <2> HIDE DEF gone
  <2>5. res' \in [Buffers -> {"out", "pending", "in", "leaving"}] /\ Existing' = Existing \ gone
    BY <1>1, <2>1, <2>4 DEF Moved, ClientTyped, Existing
  <2>6. \A c \in Content : Gone(gone, c) \in Content
    BY DEF Gone, Content
  <2>7. VecsTyped'
    BY <1>1, <1>2, <2>1, <2>6 DEF VecsTyped
  <2>8. plan' = << >>
    BY <2>1, <2>2
  <2>9. shown' = shown
    BY <2>1, <2>3 DEF Gone
  <2>10. HostTyped' /\ Working'
    BY <1>1, <1>2, <2>2, <2>8, <2>9 DEF HostTyped, Working
  <2>11. RpcTyped' /\ ClientTyped' /\ DrawTyped'
    BY <1>1, <1>2, <1>3, <1>4, <2>5 DEF RpcTyped, ClientTyped, DrawTyped
  <2>12. ASSUME NEW v \in Vecs, NEW i \in 1 .. size[v] PROVE slots'[v][i] \in Live(v)'
    <3>1. size[v] \in 0 .. Cap
      BY <1>1 DEF VecsTyped
    <3>2. size[v] # 0 /\ i \in 1 .. Cap
      BY <3>1, Sizes
    <3>3. v \in {"land", "grass"}
      BY <2>3, <3>2 DEF Empty, Vecs
    <3>4. slots[v][i] = Ground
      BY <1>1, <3>3 DEF Contents, Live
    <3>5. slots'[v][i] = Ground
      BY <2>1, <2>4, <3>2, <3>4, Sizes DEF Gone
    <3> QED
      BY <3>3, <3>5 DEF Live
  <2>13. Contents'
    <3>1. shown' \subseteq Existing'
      BY <1>1, <2>3, <2>5, <2>9 DEF Contents
    <3> QED
      BY <1>1, <1>2, <2>2, <2>12, <3>1 DEF Contents
  <2>14. Admits'
    BY <1>2, <2>2, <2>3 DEF Admits, Applicable, Removals
  <2> QED
    BY <1>3, <1>4, <2>7, <2>10, <2>11, <2>13, <2>14 DEF All
<1> QED
  BY <1>1, <1>5, <1>6 DEF RpcTyped

---------------------------------------------------------------------------
(* VisibleSet::Render.                                                     *)
LEMMA DrawOp ==
  ASSUME All, Drawing
  PROVE  /\ todo # << >> /\ todo[1].do \in {"draw", "stream"} /\ Vec \in Vecs /\ size[Vec] \in 0 .. Cap
         /\ VecsTyped /\ DrawTyped /\ Cap \in Nat
<1>1. VecsTyped /\ DrawTyped
  BY DEF All
<1>2. todo # << >> /\ todo[1].do \in {"draw", "stream"} /\ Vec \in Vecs
  BY AtHead DEF Drawing
<1> QED
  BY <1>1, <1>2, Sizes DEF VecsTyped

LEMMA DrawFrame ==
  ASSUME All, UNCHANGED << session, slots, size, pop, rpc, server, todo, pending, timeouts, found, res >>,
         upd' \in [Vecs -> BOOLEAN], cmp' \in [Vecs -> BOOLEAN], DrawTyped', drawn'[Dangling] = 0
  PROVE  All'
<1>1. /\ UNCHANGED << session, slots, size, pop, call, start, done, commits >>
      /\ UNCHANGED << alive, host, job, old, plan, put, shown, space >>
      /\ UNCHANGED << todo, pending, timeouts, found, res >>
      /\ VecsTyped /\ RpcTyped /\ HostTyped /\ ClientTyped /\ Progress
      /\ Working /\ Contents /\ Admits /\ Scripted /\ Removing
  BY DEF All, rpc, server, local
<1>2. VecsTyped' /\ RpcTyped' /\ HostTyped' /\ ClientTyped' /\ Progress' /\ Working'
  BY <1>1 DEF VecsTyped, RpcTyped, HostTyped, ClientTyped, Progress, Working
<1>3. Contents' /\ Admits'
  <2>1. Existing' = Existing /\ \A v \in Vecs : Live(v)' = Live(v)
    BY <1>1 DEF Live, Existing
  <2> QED
    BY <1>1, <2>1 DEF Contents, Admits, Applicable, HostTyped
<1>4. Scripted'
  BY <1>1 DEF Scripted
<1>5. Removing'
  <2>1. /\ (Empty("distant") <=> Empty("distant")') /\ (Empty("extra") <=> Empty("extra")') /\ (Removals <=> Removals')
        /\ InState("leaving")' = InState("leaving") /\ Listed' = Listed
        /\ \A k \in 1 .. 3 : \A do : Leads(todo, k, do) <=> Leads(todo, k, do)'
    BY <1>1 DEF Empty, Removals, InState, Listed, Leads
  <2> QED
    BY <1>1, <2>1 DEF Removing
<1> QED
  BY <1>2, <1>3, <1>4, <1>5 DEF All

LEMMA NoneDangling == ASSUME All PROVE drawn[Dangling] = 0 /\ upd \in [Vecs -> BOOLEAN] /\ cmp \in [Vecs -> BOOLEAN]
BY DEF All, Contents, VecsTyped

LEMMA DrawBeginKeeps == ASSUME All, DrawBegin, UNCHANGED session PROVE All'
<1>1. Drawing /\ UNCHANGED << vecs, rpc, server, todo, pending, timeouts, found, res, next, drawn >>
  BY DEF DrawBegin
<1>2. DrawTyped'
  BY <1>1, DrawOp DEF DrawBegin, DrawTyped
<1> QED
  BY <1>1, <1>2, DrawFrame, NoneDangling DEF vecs

LEMMA TakeUpdateKeeps == ASSUME All, TakeUpdate, UNCHANGED session PROVE All'
<1>1. UNCHANGED << slots, size, cmp, pop, rpc, server, client >> /\ upd' = [upd EXCEPT ![Vec] = FALSE]
  BY DEF TakeUpdate
<1>2. UNCHANGED << todo, pending, timeouts, found, res >> /\ UNCHANGED << at, reading, next, seen, drawn >>
  BY <1>1 DEF client, draw
<1>3. DrawTyped' /\ upd' \in [Vecs -> BOOLEAN]
  BY <1>1, <1>2, NoneDangling DEF DrawTyped, All
<1> QED
  BY <1>1, <1>2, <1>3, DrawFrame, NoneDangling

LEMMA TakeCompleteKeeps == ASSUME All, TakeComplete, UNCHANGED session PROVE All'
<1>1. /\ UNCHANGED << slots, size, upd, pop, rpc, server, todo, pending, timeouts, found, res, next, seen, drawn >>
      /\ cmp' = [cmp EXCEPT ![Vec] = FALSE] /\ reading' = FALSE /\ at' \in {"loop", "check"}
  BY DEF TakeComplete, AfterRead
<1>2. DrawTyped' /\ cmp' \in [Vecs -> BOOLEAN]
  BY <1>1, NoneDangling DEF DrawTyped, All
<1> QED
  BY <1>1, <1>2, DrawFrame, NoneDangling

LEMMA ReadOnKeeps == ASSUME All, ReadOn, UNCHANGED session PROVE All'
<1>1. /\ UNCHANGED << vecs, rpc, server, todo, pending, timeouts, found, res, reading, next, seen, drawn >>
      /\ at' \in {"loop", "check"}
  BY DEF ReadOn, AfterRead
<1>2. DrawTyped'
  BY <1>1 DEF DrawTyped, All
<1> QED
  BY <1>1, <1>2, DrawFrame, NoneDangling DEF vecs

(* What is drawn is an element the size counts.                            *)
LEMMA DrawMeshKeeps == ASSUME All, DrawMesh, UNCHANGED session PROVE All'
<1> DEFINE n == next + 1
           c == slots[Vec][n]
<1>1. /\ UNCHANGED << vecs, rpc, server, todo, pending, timeouts, found, res, reading, seen >>
      /\ Drawing /\ ~(next >= size[Vec])
      /\ next' = n /\ drawn' = [drawn EXCEPT ![c] = @ + 1] /\ at' = "loop"
  BY DEF DrawMesh, AtEnd
<1>2. n \in 1 .. size[Vec] /\ n \in 0 .. Cap /\ Vec \in Vecs
  <2>1. next \in Nat /\ size[Vec] \in 0 .. Cap /\ Cap \in Nat
    BY <1>1, DrawOp DEF DrawTyped
  <2>2. ~(next >= size[Vec]) /\ Vec \in Vecs
    BY <1>1, DrawOp
  <2> QED
    BY <2>1, <2>2
<1>3. c \in Live(Vec)
  BY <1>2 DEF All, Contents
<1>4. c \in Content /\ c # Dangling
  BY <1>2, <1>3, LiveKnown
<1> HIDE DEF n, c
<1>5. drawn \in [Content -> Nat] /\ drawn[Dangling] = 0 /\ drawn[c] + 1 \in Nat
  BY <1>4, NoneDangling DEF All, DrawTyped
<1>6. drawn' \in [Content -> Nat] /\ drawn'[Dangling] = 0
  BY <1>1, <1>4, <1>5 DEF Content
<1>7. DrawTyped'
  BY <1>1, <1>2, <1>6 DEF DrawTyped, All
<1> QED
  BY <1>1, <1>6, <1>7, DrawFrame, NoneDangling DEF vecs

LEMMA WaitReadKeeps == ASSUME All, WaitRead, UNCHANGED session PROVE All'
<1>1. /\ UNCHANGED << vecs, rpc, server, todo, pending, timeouts, found, res, reading, next, drawn >>
      /\ Drawing /\ seen' = size[Vec] /\ at' = "more"
  BY DEF WaitRead
<1>2. DrawTyped'
  BY <1>1, DrawOp DEF DrawTyped
<1> QED
  BY <1>1, <1>2, DrawFrame, NoneDangling DEF vecs

LEMMA DrawEndKeeps == ASSUME All, DrawEnd, UNCHANGED session PROVE All'
<1>1. RpcTyped /\ ClientTyped /\ Progress /\ VecsTyped /\ HostTyped /\ Working /\ Contents /\ Admits
  BY DEF All
<1>2. /\ UNCHANGED << session, slots, size, upd, cmp, pop, call, start, done, commits >>
      /\ UNCHANGED << alive, host, job, old, plan, put, shown, space, pending, timeouts, found, res >>
      /\ at' = "idle" /\ reading' = FALSE /\ next' = 0 /\ seen' = 0 /\ drawn' = Nothing
      /\ todo # << >> /\ todo[1].do \in {"draw", "stream"} /\ todo' = Tail(todo)
  BY DrawOp DEF DrawEnd, vecs, rpc, server, local
<1>3. todo' \in Seq(Ops) /\ Scripted' /\ Removing'
  BY <1>2, Goes, GoesAway
<1>4. Nothing \in [Content -> Nat] /\ Nothing[Dangling] = 0
  BY DEF Nothing, Content
<1>5. DrawTyped'
  <2>1. 0 \in 0 .. Cap
    BY Sizes
  <2> QED
    BY <1>2, <1>4, <2>1 DEF DrawTyped
<1>6. VecsTyped' /\ RpcTyped' /\ HostTyped' /\ ClientTyped' /\ Progress' /\ Working'
  BY <1>1, <1>2, <1>3 DEF VecsTyped, RpcTyped, HostTyped, ClientTyped, Progress, Working
<1>7. Contents' /\ Admits'
  <2>1. Existing' = Existing /\ \A v \in Vecs : Live(v)' = Live(v)
    BY <1>2 DEF Live, Existing
  <2> QED
    BY <1>1, <1>2, <1>4, <2>1 DEF Contents, Admits, Applicable, HostTyped
<1> QED
  BY <1>3, <1>5, <1>6, <1>7 DEF All

---------------------------------------------------------------------------
(* The passes that begin.                                                  *)
PlainOps == {o \in Ops : o.do \notin Evicts}

LEMMA OpOf ==
  ASSUME NEW do \in Calls \cup Waits \cup {"clear", "poll", "list", "admit", "draw", "stream"},
         NEW v \in Vecs, NEW skip \in 0 .. 12, do # "release"
  PROVE  Op(do, v, skip) \in PlainOps
BY DEF Op, PlainOps, Ops, Evicts, Calls, Waits

LEMMA PlainScripted == ASSUME NEW s \in Seq(PlainOps) PROVE s \in Seq(Ops) /\ Linked(s) /\ Jumps(s) /\ ~Within(s)
<1>1. Len(s) \in Nat /\ \A i \in 1 .. Len(s) : s[i] \in PlainOps
  OBVIOUS
<1>2. s \in Seq(Ops)
  BY DEF PlainOps
<1>3. \A i \in 1 .. Len(s) : s[i].do \notin Evicts
  BY <1>1 DEF PlainOps
<1>4. Linked(s) /\ Jumps(s)
  BY <1>3 DEF Linked, Jumps, Evicts
<1>5. ~Within(s)
  BY <1>1, <1>3 DEF Within, Leads, Evicts
<1> QED
  BY <1>2, <1>4, <1>5

LEMMA AskPlain ==
  ASSUME NEW do \in Calls \cup Waits \cup {"clear", "poll", "list", "admit", "draw", "stream"},
         NEW v \in Vecs, do # "release"
  PROVE  Ask(do, v) \in Seq(PlainOps) /\ Len(Ask(do, v)) = 1
<1>1. 0 \in 0 .. 12
  OBVIOUS
<1>2. Op(do, v, 0) \in PlainOps
  BY <1>1, OpOf
<1> QED
  BY <1>2 DEF Ask

LEMMA Both ==
  ASSUME NEW s \in Seq(PlainOps), NEW t \in Seq(PlainOps)
  PROVE  s \o t \in Seq(PlainOps) /\ Len(s \o t) = Len(s) + Len(t)
OBVIOUS

LEMMA Joined ==
  ASSUME NEW s \in Seq(Ops), NEW t \in Seq(Ops)
  PROVE  /\ s \o t \in Seq(Ops) /\ Len(s \o t) = Len(s) + Len(t)
         /\ \A i \in 1 .. Len(s) + Len(t) : (s \o t)[i] = IF i <= Len(s) THEN s[i] ELSE t[i - Len(s)]
OBVIOUS

LEMMA Regrouped ==
  ASSUME NEW s \in Seq(Ops), NEW t \in Seq(Ops), NEW u \in Seq(Ops)
  PROVE  s \o (t \o u) = (s \o t) \o u
BY ConcatAssociative, SMTT(20)

LEMMA LandPlain == Land \in Seq(PlainOps) /\ Len(Land) = 3
<1> DEFINE a == Ask("clear", "land")
           b == Ask("query", "land")
           c == Ask("stream", "land")
<1>1. /\ a \in Seq(PlainOps) /\ Len(a) = 1 /\ b \in Seq(PlainOps) /\ Len(b) = 1
      /\ c \in Seq(PlainOps) /\ Len(c) = 1
  BY AskPlain DEF Calls, Vecs
<1>2. Land = a \o b \o c
  BY DEF Land
<1> HIDE DEF a, b, c
<1>3. a \o b \in Seq(PlainOps) /\ Len(a \o b) = 2
  BY <1>1, Both
<1> QED
  BY <1>1, <1>2, <1>3, Both

LEMMA OptionalPlain == \A l \in OptionalLand : l \in Seq(PlainOps) /\ Len(l) \in 0 .. 3
<1>1. << >> \in Seq(PlainOps) /\ Len(<< >>) = 0
  OBVIOUS
<1>2. \A l \in OptionalLand : l = << >> \/ l = Land
  BY DEF OptionalLand
<1>3. ASSUME NEW l \in OptionalLand PROVE l \in Seq(PlainOps) /\ Len(l) \in 0 .. 3
  <2>1. CASE l = << >>
    BY <1>1, <2>1
  <2>2. CASE l = Land
    BY <2>2, LandPlain
  <2> QED
    BY <1>2, <2>1, <2>2
<1> QED
  BY <1>3

LEMMA PolledPlain == ASSUME NEW s \in Seq(PlainOps), Len(s) <= 12 PROVE Polled(s) \in Seq(PlainOps)
<1>1. Op("poll", "extra", Len(s)) \in PlainOps
  <2>1. Len(s) \in 0 .. 12 /\ "extra" \in Vecs
    <3> DEFINE n == Len(s)
    <3>1. n \in Nat /\ n <= 12
      OBVIOUS
    <3> HIDE DEF n
    <3>2. n \in 0 .. 12
      BY <3>1
    <3> QED
      BY <3>2 DEF Vecs, n
  <2> QED
    BY <2>1, OpOf
<1>2. << Op("poll", "extra", Len(s)) >> \in Seq(PlainOps)
  BY <1>1
<1> QED
  BY <1>2, Both DEF Polled

LEMMA ReflectedPlain == Reflected \in Seq(PlainOps) /\ Len(Reflected) = 4
<1>1. /\ Op("clear", "extra", 0) \in PlainOps /\ Op("sorted", "extra", 2) \in PlainOps
      /\ Op("wait", "extra", 1) \in PlainOps /\ Op("draw", "extra", 0) \in PlainOps
  BY OpOf DEF Calls, Waits, Vecs
<1> QED
  BY <1>1 DEF Reflected

LEMMA AdmissionPlain == Admission \in Seq(PlainOps) /\ Len(Admission) = 4
<1>1. /\ Op("list", "extra", 3) \in PlainOps /\ Op("admit", "extra", 0) \in PlainOps
      /\ Op("commit", "extra", 1) \in PlainOps /\ Op("confirm", "extra", 0) \in PlainOps
  BY OpOf DEF Calls, Waits, Vecs
<1> QED
  BY <1>1 DEF Admission

LEMMA PlanningPlain == Planning \in Seq(PlainOps) /\ Len(Planning) = 2
<1>1. Op("plan", "extra", 1) \in PlainOps /\ Op("wait", "extra", 0) \in PlainOps
  BY OpOf DEF Calls, Waits, Vecs
<1> QED
  BY <1>1 DEF Planning

(* An eviction, and what follows it, is left at its beginning or past its end. *)
LEMMA EvictionScripted ==
  ASSUME NEW s \in Seq(PlainOps), Len(s) <= 6
  PROVE  LET t == Polled(Eviction \o s) IN t \in Seq(Ops) /\ Linked(t) /\ Jumps(t) /\ ~Within(t)
<1> DEFINE e == Eviction \o s
           t == Polled(e)
<1>1. Len(s) \in Nat /\ (\A i \in 1 .. Len(s) : s[i] \in PlainOps) /\ s \in Seq(Ops)
  BY DEF PlainOps
<1>2. /\ Eviction \in Seq(Ops) /\ Len(Eviction) = 6
      /\ Eviction[1] = Op("clear", "distant", 0) /\ Eviction[2] = Op("clear", "extra", 0)
      /\ Eviction[3] = Op("unlist", "extra", 3) /\ Eviction[4] = Op("remove", "extra", 0)
      /\ Eviction[5] = Op("commit", "extra", 1) /\ Eviction[6] = Op("release", "extra", 0)
  <2>1. /\ Op("clear", "distant", 0) \in Ops /\ Op("clear", "extra", 0) \in Ops
        /\ Op("unlist", "extra", 3) \in Ops /\ Op("remove", "extra", 0) \in Ops
        /\ Op("commit", "extra", 1) \in Ops /\ Op("release", "extra", 0) \in Ops
    BY DEF Op, Ops, Calls, Waits, Vecs
  <2> QED
    BY <2>1 DEF Eviction
<1>3. /\ e \in Seq(Ops) /\ Len(e) = 6 + Len(s) /\ Len(e) \in 6 .. 12
      /\ \A i \in 1 .. 6 : e[i] = Eviction[i]
      /\ \A i \in 1 .. Len(e) : i > 6 => e[i] = s[i - 6] /\ i - 6 \in 1 .. Len(s)
  <2>1. /\ e \in Seq(Ops) /\ Len(e) = 6 + Len(s)
        /\ \A i \in 1 .. 6 + Len(s) : e[i] = IF i <= 6 THEN Eviction[i] ELSE s[i - 6]
    <3>1. /\ Eviction \o s \in Seq(Ops) /\ Len(Eviction \o s) = Len(Eviction) + Len(s)
          /\ \A i \in 1 .. Len(Eviction) + Len(s) :
               (Eviction \o s)[i] = IF i <= Len(Eviction) THEN Eviction[i] ELSE s[i - Len(Eviction)]
      BY <1>1, <1>2, Joined
    <3>2. Len(Eviction) = 6
      BY <1>2
    <3> QED
      BY <3>1, <3>2
  <2> HIDE DEF e
  <2>2. \A i \in 1 .. 6 : i \in 1 .. 6 + Len(s)
    BY <1>1
  <2>3. \A i \in 1 .. 6 + Len(s) : i > 6 => ~(i <= 6) /\ i - 6 \in 1 .. Len(s)
    BY <1>1
  <2>4. 6 + Len(s) \in 6 .. 12
    BY <1>1
  <2> QED
    BY <2>1, <2>2, <2>3, <2>4
<1> HIDE DEF e
<1> DEFINE p == Op("poll", "extra", Len(e))
<1>4. p \in Ops /\ p.do = "poll" /\ p.skip = Len(e)
  BY <1>3 DEF Op, Ops, Vecs
<1>5. t = << p >> \o e
  BY DEF Polled
<1> HIDE DEF p, t
<1>6. /\ t \in Seq(Ops) /\ Len(t) = 1 + Len(e) /\ t[1] = p
      /\ \A i \in 1 .. Len(t) : i >= 2 => t[i] = e[i - 1] /\ i - 1 \in 1 .. Len(e)
  <2>1. << p >> \in Seq(Ops) /\ Len(<< p >>) = 1 /\ << p >>[1] = p
    BY <1>4
  <2>2. /\ t \in Seq(Ops) /\ Len(t) = 1 + Len(e)
        /\ \A i \in 1 .. 1 + Len(e) : t[i] = IF i <= 1 THEN << p >>[i] ELSE e[i - 1]
    BY <1>3, <1>5, <2>1, Joined
  <2>3. 1 \in 1 .. 1 + Len(e) /\ \A i \in 1 .. 1 + Len(e) : i >= 2 => ~(i <= 1) /\ i - 1 \in 1 .. Len(e)
    BY <1>3
  <2> QED
    BY <2>1, <2>2, <2>3
<1>7. /\ t[2] = Op("clear", "distant", 0) /\ t[3] = Op("clear", "extra", 0)
      /\ t[4] = Op("unlist", "extra", 3) /\ t[5] = Op("remove", "extra", 0)
      /\ t[6] = Op("commit", "extra", 1) /\ t[7] = Op("release", "extra", 0)
  <2>1. Len(t) \in 7 .. 13
    BY <1>3, <1>6
  <2>3. ASSUME NEW i \in 1 .. 6 PROVE t[i + 1] = Eviction[i]
    <3> DEFINE j == i + 1
    <3>1. j \in 1 .. Len(t) /\ j >= 2 /\ j - 1 = i
      <4> DEFINE n == Len(t)
      <4>1. n \in 7 .. 13
        BY <2>1
      <4> HIDE DEF n
      <4>2. j \in 1 .. n /\ j >= 2 /\ j - 1 = i
        BY <4>1
      <4> QED
        BY <4>2 DEF n
    <3> HIDE DEF j
    <3>2. t[j] = e[i]
      BY <1>6, <3>1
    <3> QED
      BY <1>3, <3>2 DEF j
  <2>4. /\ t[1 + 1] = Eviction[1] /\ t[2 + 1] = Eviction[2] /\ t[3 + 1] = Eviction[3]
        /\ t[4 + 1] = Eviction[4] /\ t[5 + 1] = Eviction[5] /\ t[6 + 1] = Eviction[6]
    BY <2>3
  <2> QED
    BY <1>2, <2>4
<1>8. ASSUME NEW i \in 1 .. Len(t), i > 7 PROVE t[i].do \notin Evicts
  <2>1. t[i] = e[i - 1] /\ i - 1 \in 1 .. Len(e) /\ i - 1 > 6
    BY <1>3, <1>6, <1>8
  <2>2. e[i - 1] \in PlainOps
    BY <1>1, <1>3, <2>1
  <2> QED
    BY <2>1, <2>2 DEF PlainOps
<1>9. ASSUME NEW i \in 1 .. Len(t) PROVE i \in {1, 2, 3, 4, 5, 6, 7} \/ i > 7
  BY <1>3, <1>6
<1>10. /\ t[2].do = "clear" /\ t[2].vec = "distant" /\ t[3].do = "clear" /\ t[3].vec = "extra"
       /\ t[4].do = "unlist" /\ t[4].skip = 3 /\ t[5].do = "remove" /\ t[6].do = "commit" /\ t[6].skip = 1
       /\ t[7].do = "release" /\ t[7].skip = 0 /\ t[1].do = "poll" /\ t[1].skip = Len(e)
  BY <1>4, <1>6, <1>7 DEF Op
<1>11. Linked(t)
  <2> SUFFICES ASSUME NEW i \in 1 .. Len(t)
               PROVE  /\ t[i].do = "unlist" => i = 4
                      /\ t[i].do = "remove" => i = 5
                      /\ t[i].do = "release" => i = 7
    BY <1>10 DEF Linked
  <2> QED
    BY <1>8, <1>9, <1>10 DEF Evicts
<1>12. Jumps(t)
  <2> SUFFICES ASSUME NEW i \in 1 .. Len(t), NEW m \in 1 .. Len(t), t[i].do \in Failing, m > i + t[i].skip
               PROVE  m > 7
    BY <1>8 DEF Jumps
  <2>1. Len(e) \in Nat /\ Len(e) >= 6
    BY <1>3
  <2>2. CASE i \in {1, 2, 3, 4, 5, 6, 7}
    <3>1. i # 2 /\ i # 3 /\ i # 5
      BY <1>10 DEF Failing, Calls, Waits
    <3>2. i # 1
      BY <1>6, <1>10, <2>1
    <3>3. CASE i = 4
      BY <1>10, <3>3
    <3>4. CASE i = 6
      BY <1>10, <3>4
    <3>5. CASE i = 7
      BY <1>10, <3>5
    <3> QED
      BY <2>2, <3>1, <3>2, <3>3, <3>4, <3>5
  <2>3. CASE i > 7
    <3>1. t[i].skip \in Nat
      BY <1>6, OpKnown
    <3> QED
      BY <2>3, <3>1
  <2> QED
    BY <1>9, <2>2, <2>3
<1>13. ~Within(t)
  BY <1>10 DEF Within, Leads
<1> QED
  BY <1>6, <1>11, <1>12, <1>13 DEF t, e

Fine(s) == s \in Seq(Ops) /\ Linked(s) /\ Jumps(s) /\ ~Within(s)

LEMMA PlainFine == ASSUME NEW s \in Seq(PlainOps) PROVE Fine(s)
BY PlainScripted DEF Fine

LEMMA ScriptsFine == ASSUME NEW pass \in PassNames, NEW s \in Scripts(pass) PROVE Fine(s)
<1>1. /\ Ask("clear", "extra") \in Seq(PlainOps) /\ Ask("query", "extra") \in Seq(PlainOps)
      /\ Ask("stream", "extra") \in Seq(PlainOps)
  BY AskPlain DEF Calls, Vecs
<1>2. /\ Ask("clear", "distant") \in Seq(PlainOps) /\ Ask("sort", "distant") \in Seq(PlainOps)
      /\ Ask("wait", "distant") \in Seq(PlainOps) /\ Ask("draw", "distant") \in Seq(PlainOps)
  BY AskPlain DEF Calls, Waits, Vecs
<1>3. /\ Ask("clear", "grass") \in Seq(PlainOps) /\ Ask("sorted", "grass") \in Seq(PlainOps)
      /\ Ask("wait", "grass") \in Seq(PlainOps) /\ Ask("draw", "grass") \in Seq(PlainOps)
  BY AskPlain DEF Calls, Waits, Vecs
<1>4. Ask("finish", "extra") \in Seq(PlainOps) /\ Ask("draw", "land") \in Seq(PlainOps)
  BY AskPlain DEF Calls, Vecs
<1>5. CASE pass = "cell"
  <2>1. Op("space", "extra", 1) \in PlainOps /\ Op("found", "extra", 0) \in PlainOps
    BY OpOf DEF Calls, Waits, Vecs
  <2>2. s = << Op("space", "extra", 1), Op("found", "extra", 0) >>
    BY <1>5 DEF Scripts
  <2>3. s \in Seq(PlainOps)
    BY <2>1, <2>2
  <2> QED
    BY <2>3, PlainFine
<1>6. CASE pass = "shadow"
  <2>1. PICK l \in OptionalLand :
          \/ s = Ask("clear", "extra") \o l
          \/ s = Ask("clear", "extra") \o Ask("query", "extra") \o l \o Ask("stream", "extra")
    <3>1. Scripts("shadow") =
            {Ask("clear", "extra") \o l : l \in OptionalLand} \cup
            {Ask("clear", "extra") \o Ask("query", "extra") \o l \o Ask("stream", "extra") : l \in OptionalLand}
      BY DEF Scripts
    <3> QED
      BY <1>6, <3>1, Zenon
  <2>2. l \in Seq(PlainOps)
    BY OptionalPlain
  <2>3. Ask("clear", "extra") \o l \in Seq(PlainOps)
    BY <1>1, <2>2, Both
  <2>4. Ask("clear", "extra") \o Ask("query", "extra") \in Seq(PlainOps)
    BY <1>1, Both
  <2>5. Ask("clear", "extra") \o Ask("query", "extra") \o l \in Seq(PlainOps)
    BY <2>2, <2>4, Both
  <2>6. Ask("clear", "extra") \o Ask("query", "extra") \o l \o Ask("stream", "extra") \in Seq(PlainOps)
    BY <1>1, <2>5, Both
  <2> QED
    BY <2>1, <2>3, <2>6, PlainFine
<1>7. CASE pass = "land"
  <2>1. s = Land
    BY <1>7 DEF Scripts
  <2> QED
    BY <2>1, LandPlain, PlainFine
<1>8. CASE pass = "statics"
  <2>1. CASE s = Ask("clear", "distant")
    BY <1>2, <2>1, PlainFine
  <2>2. ASSUME NEW k \in 0 .. 3,
               s = Ask("clear", "distant") \o [i \in 1 .. k |-> Op("query", "distant", 0)] \o
                     Ask("sort", "distant") \o Ask("wait", "distant") \o Ask("draw", "distant")
        PROVE  Fine(s)
    <3>1. Op("query", "distant", 0) \in PlainOps
      BY OpOf DEF Calls, Vecs
    <3> DEFINE q == [i \in 1 .. k |-> Op("query", "distant", 0)]
    <3>2. q \in Seq(PlainOps)
      BY <3>1
    <3> HIDE DEF q
    <3>3. s = Ask("clear", "distant") \o q \o Ask("sort", "distant") \o Ask("wait", "distant") \o Ask("draw", "distant")
      BY <2>2 DEF q
    <3> QED
      BY <1>2, <3>2, <3>3, Both, PlainFine
  <2>3. \/ s = Ask("clear", "distant")
        \/ \E k \in 0 .. 3 :
             s = Ask("clear", "distant") \o [i \in 1 .. k |-> Op("query", "distant", 0)] \o
                   Ask("sort", "distant") \o Ask("wait", "distant") \o Ask("draw", "distant")
    <3>1. Scripts("statics") =
            {Ask("clear", "distant")} \cup
            {Ask("clear", "distant") \o [i \in 1 .. k |-> Op("query", "distant", 0)] \o
               Ask("sort", "distant") \o Ask("wait", "distant") \o Ask("draw", "distant") : k \in 0 .. 3}
      BY DEF Scripts
    <3> QED
      BY <1>8, <3>1, Zenon
  <2> QED
    BY <2>1, <2>2, <2>3
<1>9. CASE pass = "grass"
  <2>1. s = Ask("clear", "grass") \o Ask("sorted", "grass") \o Ask("wait", "grass") \o Ask("draw", "grass")
    BY <1>9 DEF Scripts
  <2> QED
    BY <1>3, <2>1, Both, PlainFine
<1>10. CASE pass = "reflection"
  <2>1. PICK l \in OptionalLand : s = Polled(l \o Reflected)
    BY <1>10 DEF Scripts
  <2>2. l \o Reflected \in Seq(PlainOps) /\ Len(l \o Reflected) <= 12
    <3>1. l \in Seq(PlainOps) /\ Len(l) \in 0 .. 3
      BY OptionalPlain
    <3>2. l \o Reflected \in Seq(PlainOps) /\ Len(l \o Reflected) = Len(l) + Len(Reflected)
      BY <3>1, ReflectedPlain, Both
    <3> QED
      BY <3>1, <3>2, ReflectedPlain
  <2> QED
    BY <2>1, <2>2, PolledPlain, PlainFine
<1>11. CASE pass \in {"finish", "land_depth", "statics_depth"}
  <2>1. s \in {Ask("finish", "extra"), Ask("draw", "land"), Ask("draw", "distant")}
    BY <1>11 DEF Scripts
  <2> QED
    BY <1>2, <1>4, <2>1, PlainFine
<1>12. CASE pass = "evict"
  <2>1. s = Polled(Eviction)
    BY <1>12 DEF Scripts
  <2>2. << >> \in Seq(PlainOps) /\ Len(<< >>) <= 6 /\ Eviction \o << >> = Eviction
    BY DEF Eviction, Op
  <2> QED
    BY <2>1, <2>2, EvictionScripted DEF Fine
<1>13. CASE pass = "tick"
  <2>1. PICK f \in {<< >>} \cup (IF MayEvict THEN {Eviction} ELSE {}), p \in {<< >>, Planning} :
          s = Polled(f \o p \o Admission)
    BY <1>13 DEF Scripts
  <2>2. p \in Seq(PlainOps) /\ Len(p) \in 0 .. 2
    <3>1. << >> \in Seq(PlainOps) /\ Len(<< >>) = 0
      OBVIOUS
    <3>2. p = << >> \/ p = Planning
      OBVIOUS
    <3>3. CASE p = << >>
      BY <3>1, <3>3
    <3>4. CASE p = Planning
      BY <3>4, PlanningPlain
    <3> QED
      BY <3>2, <3>3, <3>4
  <2>3. p \o Admission \in Seq(PlainOps) /\ Len(p \o Admission) <= 6
    <3>1. p \o Admission \in Seq(PlainOps) /\ Len(p \o Admission) = Len(p) + Len(Admission)
      BY <2>2, AdmissionPlain, Both
    <3>2. Len(Admission) = 4 /\ Len(p) \in 0 .. 2
      BY <2>2, AdmissionPlain
    <3>3. Len(p) + Len(Admission) <= 6
      <4> DEFINE n == Len(p)
      <4>1. n \in 0 .. 2
        BY <3>2
      <4> HIDE DEF n
      <4>2. n + 4 <= 6
        BY <4>1
      <4> QED
        BY <3>2, <4>2 DEF n
    <3> QED
      BY <3>1, <3>3
  <2>4. CASE f = << >>
    <3>1. f \o p = p
      BY <2>2, <2>4
    <3>2. s = Polled(p \o Admission)
      BY <2>1, <3>1
    <3>3. Len(p \o Admission) <= 12
      BY <2>3
    <3>4. s \in Seq(PlainOps)
      BY <2>3, <3>2, <3>3, PolledPlain
    <3> QED
      BY <3>4, PlainFine
  <2>5. CASE f = Eviction
    <3>1. Eviction \in Seq(Ops) /\ p \in Seq(Ops) /\ Admission \in Seq(Ops)
      BY <2>2, AdmissionPlain, PlainScripted DEF Eviction, Op, Ops, Calls, Waits, Vecs
    <3>2. Eviction \o (p \o Admission) = (Eviction \o p) \o Admission
      BY <3>1, Regrouped
    <3>3. s = Polled(Eviction \o (p \o Admission))
      BY <2>1, <2>5, <3>2
    <3> QED
      BY <2>3, <3>3, EvictionScripted DEF Fine
  <2> QED
    BY <2>1, <2>4, <2>5
<1> QED
  BY <1>5, <1>6, <1>7, <1>8, <1>9, <1>10, <1>11, <1>12, <1>13 DEF PassNames

LEMMA StartKeeps == ASSUME All, Start, UNCHANGED session PROVE All'
<1>1. RpcTyped /\ ClientTyped /\ DrawTyped /\ Progress
  BY DEF All
<1>2. UNCHANGED << session, vecs, call, start, done, commits, server, pending, timeouts, found, res, at, reading, next, seen, drawn >>
  BY DEF Start, rpc, draw
<1>3. PICK pass \in session.passes : todo' \in Scripts(pass)
  BY DEF Start
<1>4. Fine(todo')
  <2>1. session.passes \subseteq PassNames
    BY <1>1, VisibleSetsAssumption DEF ClientTyped, VisibleSetsAssumption
  <2> QED
    BY <1>3, <2>1, ScriptsFine
<1>5. todo' \in Seq(Ops) /\ Scripted'
  BY <1>4 DEF Fine, Scripted, Linked, Jumps
<1>6. Removing'
  <2>1. ~Within(todo)'
    BY <1>4 DEF Fine, Within, Leads
  <2> QED
    BY <2>1, AwayNext
<1>7. VecsTyped' /\ HostTyped' /\ Working' /\ Contents' /\ Admits'
  BY <1>2, PassFrame
<1>8. RpcTyped' /\ ClientTyped' /\ DrawTyped'
  BY <1>1, <1>2, <1>5 DEF RpcTyped, ClientTyped, DrawTyped
<1>9. Progress'
  BY <1>1, <1>2 DEF Progress, server, local
<1> QED
  BY <1>5, <1>6, <1>7, <1>8, <1>9 DEF All

---------------------------------------------------------------------------
(* The invariant, and what follows from it.                                *)
LEMMA InitHolds == Init => IInv
<1> SUFFICES ASSUME Init PROVE All
  BY AllParts
<1>1. Nothing \in [Content -> Nat] /\ Nothing[Dangling] = 0 /\ Dangling \in Content
  BY DEF Nothing, Content
<1>2. VecsTyped
  BY <1>1, Sizes DEF Init, VecsTyped
<1>3. RpcTyped
  <2>1. /\ call = [do |-> "finish", vec |-> "land", reply |-> FALSE] /\ start = FALSE /\ done = FALSE
        /\ commits = [entries |-> << >>, size |-> 0]
    BY DEF Init
  <2>2. << >> \in Entries /\ Len(<< >>) = 0
    BY DEF Entries
  <2>3. call \in [do : Calls, vec : Vecs, reply : BOOLEAN]
    BY <2>1 DEF Calls, Vecs
  <2>4. commits \in [entries : Entries, size : Nat] /\ commits.size <= Len(commits.entries)
    BY <2>1, <2>2
  <2> QED
    BY <2>1, <2>3, <2>4 DEF RpcTyped
<1>4. HostTyped /\ Working
  <2>1. /\ alive = TRUE /\ host = "wait" /\ job = "land" /\ old = 0 /\ plan = << >> /\ put = 0
        /\ shown = {} /\ space = FALSE
    BY DEF Init
  <2>2. << >> \in Seq(Content)
    OBVIOUS
  <2> QED
    BY <2>1, <2>2 DEF HostTyped, Working, Vecs
<1>5. ClientTyped
  <2>1. /\ session \in Sessions /\ todo = << >> /\ pending = FALSE /\ timeouts = 0 /\ found = FALSE
        /\ res = [b \in Buffers |-> "out"]
    BY DEF Init
  <2>2. 0 \in 0 .. session.timeouts /\ << >> \in Seq(Ops)
    BY <2>1, Sizes
  <2> QED
    BY <2>1, <2>2 DEF ClientTyped
<1>6. DrawTyped
  <2>1. at = "idle" /\ reading = FALSE /\ next = 0 /\ seen = 0 /\ drawn = Nothing
    BY DEF Init
  <2>2. 0 \in 0 .. Cap
    BY Sizes
  <2> QED
    BY <1>1, <2>1, <2>2 DEF DrawTyped
<1>7. Progress
  BY DEF Init, Progress
<1>8. Contents /\ Admits
  BY <1>1 DEF Init, Contents, Admits
<1>9. Scripted /\ Removing
  <2>1. Len(todo) = 0
    BY DEF Init
  <2> QED
    BY <2>1 DEF Scripted, Linked, Jumps, Removing, Leads
<1> QED
  BY <1>2, <1>3, <1>4, <1>5, <1>6, <1>7, <1>8, <1>9 DEF All

LEMMA StutterKeeps == ASSUME All, UNCHANGED vars PROVE All'
<1>1. UNCHANGED << slots, size, pop, rpc, server, todo, pending, timeouts, found, res >> /\ UNCHANGED session
  BY DEF vars, steps, vecs, client
<1>2. UNCHANGED << upd, cmp, at, reading, next, seen, drawn >>
  BY DEF vars, steps, vecs, client, draw
<1>3. DrawTyped'
  BY <1>2 DEF All, DrawTyped
<1> QED
  BY <1>1, <1>2, <1>3, DrawFrame, NoneDangling

LEMMA AllPartsNext == IInv' <=> All'
BY Parts DEF IInv, All, Typed, TypeOK, VecsTyped, RpcTyped, HostTyped, ClientTyped, DrawTyped, Progress, Entries

LEMMA InvarianceStep == ASSUME IInv, [Next]_vars PROVE IInv'
<1>1. All
  BY AllParts
<1>2. ASSUME UNCHANGED vars PROVE All'
  BY <1>1, <1>2, StutterKeeps
<1>3. ASSUME PassStep, UNCHANGED session PROVE All'
  BY <1>1, <1>3, BeginKeeps, RefusedKeeps, WaitKeeps, FoundKeeps, WaitFailsKeeps, PollKeeps, ClearKeeps,
     UnlistKeeps, ListKeeps, PushCommitKeeps, ReleaseKeeps, ConfirmKeeps, DrawBeginKeeps, TakeUpdateKeeps,
     TakeCompleteKeeps, ReadOnKeeps, DrawMeshKeeps, WaitReadKeeps, DrawEndKeeps DEF PassStep
<1>4. All'
  BY <1>1, <1>2, <1>3, HostStepKeeps, StartKeeps DEF Next
<1>5. IInv'
  BY <1>4, AllPartsNext
<1> QED
  BY <1>5

(* In every reachable state the vectors hold only what exists up to their   *)
(* sizes, the commits that may still be applied admit only what exists, and *)
(* a release is reached only along a poll, two clears and an acknowledged   *)
(* list of removals.                                                        *)
THEOREM Invariance == Spec => []IInv
<1>1. Init => IInv
  BY InitHolds
<1>2. IInv /\ [Next]_vars => IInv'
  BY InvarianceStep
<1> QED
  BY <1>1, <1>2, PTL DEF Spec

(* Nothing that was released is drawn, and the host's meshes name none of   *)
(* it: IpcClientVector::at_end, the clears before an eviction and the       *)
(* acknowledged removal are enough, whatever times out and whenever the     *)
(* host is lost.                                                            *)
THEOREM ReleasedIsNeverNamed == Spec => []NothingReleasedIsNamed
<1>1. IInv => NothingReleasedIsNamed
  <2> SUFFICES ASSUME IInv PROVE NothingReleasedIsNamed
    OBVIOUS
  <2>1. TypeOK /\ drawn[Dangling] = 0 /\ shown \subseteq Existing
    BY DEF IInv, Typed, Contents
  <2> QED
    BY <2>1 DEF NothingReleasedIsNamed, NothingDangling, AcknowledgedPointers, Existing
<1> QED
  BY <1>1, Invariance, PTL

(* Buffers are given up only while neither persistent visible vector holds  *)
(* anything and the host is at the top of its loop with nothing to take up. *)
THEOREM EvictionsAreQuiet == Spec => EvictionIsQuiet
<1> DEFINE A == (\E b \in Buffers : res[b] = "leaving" /\ res'[b] = "out") =>
                  /\ size["distant"] = 0 /\ size["extra"] = 0
                  /\ host = "wait" /\ ~start
<1>1. ASSUME IInv, [Next]_vars PROVE A
  <2> SUFFICES ASSUME NEW b \in Buffers, res[b] = "leaving", res'[b] = "out"
               PROVE  size["distant"] = 0 /\ size["extra"] = 0 /\ host = "wait" /\ ~start
    OBVIOUS
  <2>1. All
    BY <1>1, AllParts
  <2>2. res \in [Buffers -> {"out", "pending", "in", "leaving"}]
    BY <2>1 DEF All, ClientTyped
  <2>3. res' # res
    OBVIOUS
  <2>4. Unlist \/ List \/ Release \/ Confirm
    BY <1>1, <2>3 DEF Next, vars, steps, client, HostStep, PassStep, TakeQuery, TakeSorted, TakeSort, TakeSpace,
       TakeCommit, TakeOther, Dispatch, ApplyCommit, Apply, CommitsApplied, Store, Publish, EndWrite, WriteBack,
       WrittenBack, Complete, HostDies, Start, Begin, Refused, Wait, Found, WaitFails, Poll, Clear, PushCommit,
       DrawBegin, TakeUpdate, TakeComplete, ReadOn, DrawMesh, WaitRead, DrawEnd
  <2>5. ~Unlist /\ ~List /\ ~Confirm
    BY <2>2 DEF Unlist, List, Confirm, Moved
  <2>6. AwaitAnswer /\ todo # << >> /\ todo[1].do = "release"
    BY <2>1, <2>4, <2>5, AtHead DEF Release
  <2>7. Empty("distant") /\ Empty("extra")
    BY <2>1, <2>6, HeadKnown, OneLead DEF All, Removing
  <2> QED
    BY <2>1, <2>6, <2>7, Waiting DEF Empty, AwaitAnswer, Answered
<1> QED
  BY <1>1, Invariance, PTL DEF Spec, EvictionIsQuiet

---------------------------------------------------------------------------

(***************************************************************************)
(* The second invariant: what a patient session does in order, one in      *)
(* which no wait has given up and the host lives.                          *)
(***************************************************************************)
Calm == alive /\ timeouts = 0

(* From here on the next thing done with v is to read it in parallel.      *)
Streams(s, from, v) ==
  \E k \in from .. Len(s) :
    /\ s[k].do = "stream" /\ s[k].vec = v
    /\ \A j \in from .. k - 1 : s[j].vec # v /\ s[j].do \in {"clear", "query", "stream"}

(* What a query or a sort is followed by.                                  *)
Follows(s, i) ==
  /\ s[i].do \in {"sorted", "sort"} => Leads(s, i + 1, "wait")
  /\ s[i].do = "query" /\ s[i].vec = "distant" => Leads(s, i + 1, "query") \/ Leads(s, i + 1, "sort")
  /\ s[i].do = "query" /\ s[i].vec # "distant" => Streams(s, i + 1, s[i].vec)
  /\ s[i].do = "stream" => s[i].vec # "distant"

Ordered(s) == \A i \in 1 .. Len(s) : Follows(s, i)

(* The host fills the vector of the last command.                          *)
JobIsCall ==
  /\ host \in {"stream", "stored"} => call.do = "query" /\ job = call.vec
  /\ host = "rewrite" => call.do \in {"sorted", "sort"} /\ job = call.vec

(* The parallel read of v is ahead, or has not seen the completion yet.    *)
ReadsHead(v) == todo[1].do = "stream" /\ todo[1].vec = v
Awaits(v) == Streams(todo, 1, v) /\ (ReadsHead(v) => at = "idle" \/ reading)

WorksFor(v) == call.vec = v /\ (start \/ host \in {"stream", "stored", "rewrite"})

Attends ==
  \A v \in Vecs : WorksFor(v) =>
    /\ call.do \in {"sorted", "sort"} => Leads(todo, 1, "wait")
    /\ call.do = "query" /\ v = "distant" => Leads(todo, 1, "query") \/ Leads(todo, 1, "sort")
    /\ call.do = "query" /\ v # "distant" => Awaits(v) /\ ~cmp[v]

Completions == \A v \in Vecs \ {"distant"} : cmp[v] => Awaits(v)

(* The render thread has drawn the elements up to its cursor.              *)
Prefix(v, n) == [i \in 1 .. n |-> slots[v][i]]
Cursor ==
  /\ at # "idle" =>
       /\ Drawing /\ next <= size[Vec]
       /\ drawn = Count(Prefix(Vec, next))
  /\ at = "idle" => next = 0 /\ drawn = Nothing /\ ~reading
  /\ reading => At("stream")
  /\ at = "more" => seen = next
  /\ at = "check" /\ reading => next < size[Vec]

(* The tally is that of the vector, or of what is being written back.      *)
Rewrites(v) == host = "rewrite" /\ job = v
Tallied ==
  /\ \A v \in Vecs : ~Rewrites(v) => pop[v] = Count(Prefix(v, size[v]))
  /\ host = "stored" => old = size[job]
  /\ host = "rewrite" =>
       /\ pop[job] = Count(plan) /\ old <= Len(plan)
       /\ size[job] = IF put <= old THEN old ELSE put
       /\ \A i \in 1 .. put : slots[job][i] = plan[i]

InOrder == Attends /\ Completions /\ Cursor /\ Tallied
SInv == JobIsCall /\ Ordered(todo) /\ (Calm => InOrder)

---------------------------------------------------------------------------
(* The order of a pass survives whatever is left out of its beginning.     *)
Rest(t, s, n) == n \in Nat /\ Len(t) + n = Len(s) /\ \A i \in 1 .. Len(t) : t[i] = s[i + n]

LEMMA RestStreams ==
  ASSUME NEW s \in Seq(Ops), NEW t \in Seq(Ops), NEW n, Rest(t, s, n), NEW from \in Nat \ {0}, NEW v
  PROVE  Streams(s, from + n, v) => Streams(t, from, v)
<1>1. Len(t) \in Nat /\ n \in Nat /\ Len(t) + n = Len(s) /\ \A i \in 1 .. Len(t) : t[i] = s[i + n]
  BY DEF Rest
<1> SUFFICES ASSUME NEW k \in from + n .. Len(s), s[k].do = "stream" /\ s[k].vec = v,
                    \A j \in from + n .. k - 1 : s[j].vec # v /\ s[j].do \in {"clear", "query", "stream"}
             PROVE  Streams(t, from, v)
  BY DEF Streams
<1> DEFINE m == k - n
<1>2. m \in from .. Len(t) /\ m \in 1 .. Len(t) /\ m + n = k
  BY <1>1
<1>3. t[m] = s[k]
  <2> HIDE DEF m
  <2> QED
    BY <1>1, <1>2
<1>4. ASSUME NEW j \in from .. m - 1 PROVE t[j].vec # v /\ t[j].do \in {"clear", "query", "stream"}
  <2>1. j \in 1 .. Len(t) /\ j + n \in from + n .. k - 1
    BY <1>1, <1>2
  <2> QED
    BY <1>1, <2>1
<1> HIDE DEF m
<1> QED
  BY <1>2, <1>3, <1>4 DEF Streams

LEMMA RestLeads ==
  ASSUME NEW s \in Seq(Ops), NEW t \in Seq(Ops), NEW n, Rest(t, s, n), NEW i \in Nat \ {0}, NEW do
  PROVE  Leads(s, i + n, do) => Leads(t, i, do)
<1>1. Len(t) \in Nat /\ n \in Nat /\ Len(t) + n = Len(s) /\ \A j \in 1 .. Len(t) : t[j] = s[j + n]
  BY DEF Rest
<1> QED
  BY <1>1 DEF Leads

LEMMA RestOrdered ==
  ASSUME NEW s \in Seq(Ops), NEW t \in Seq(Ops), NEW n, Rest(t, s, n), Ordered(s)
  PROVE  Ordered(t)
<1> SUFFICES ASSUME NEW i \in 1 .. Len(t) PROVE Follows(t, i)
  BY DEF Ordered
<1>1. Len(t) \in Nat /\ n \in Nat /\ Len(t) + n = Len(s) /\ t[i] = s[i + n]
  BY DEF Rest
<1>2. i + n \in 1 .. Len(s)
  BY <1>1
<1>3. Follows(s, i + n)
  BY <1>2 DEF Ordered
<1>4. i + 1 \in Nat \ {0} /\ (i + n) + 1 = (i + 1) + n
  BY <1>1
<1>5. /\ \A do : Leads(s, (i + n) + 1, do) => Leads(t, i + 1, do)
      /\ \A v : Streams(s, (i + n) + 1, v) => Streams(t, i + 1, v)
  BY <1>4, RestLeads, RestStreams
<1> QED
  BY <1>1, <1>3, <1>5 DEF Follows

LEMMA TailRest == ASSUME NEW s \in Seq(Ops), s # << >> PROVE Tail(s) \in Seq(Ops) /\ Rest(Tail(s), s, 1)
<1> DEFINE t == Tail(s)
<1>1. /\ t \in Seq(Ops) /\ Len(t) = Len(s) - 1 /\ Len(s) \in Nat
      /\ \A i \in 1 .. Len(s) - 1 : t[i] = s[i + 1]
  BY Dropped
<1> HIDE DEF t
<1>2. Rest(t, s, 1)
  BY <1>1 DEF Rest
<1> QED
  BY <1>1, <1>2 DEF t

LEMMA EmptyOrdered == ASSUME NEW s, Len(s) = 0 PROVE Ordered(s)
BY DEF Ordered

LEMMA CutOrdered ==
  ASSUME NEW s \in Seq(Ops), NEW k \in Nat, k >= 2, Ordered(s)
  PROVE  Ordered(SubSeq(s, k, Len(s)))
<1> DEFINE t == SubSeq(s, k, Len(s))
<1>1. /\ t \in Seq(Ops) /\ Len(t) = IF k <= Len(s) THEN Len(s) - k + 1 ELSE 0
      /\ \A i \in 1 .. Len(t) : t[i] = s[i + k - 1]
  BY Cut
<1> HIDE DEF t
<1>2. CASE k <= Len(s)
  <2>1. k - 1 \in Nat /\ Len(t) + (k - 1) = Len(s) /\ Len(s) \in Nat
    BY <1>1, <1>2
  <2>2. \A i \in 1 .. Len(t) : i + k - 1 = i + (k - 1)
    OBVIOUS
  <2>3. Rest(t, s, k - 1)
    BY <1>1, <2>1, <2>2 DEF Rest
  <2> QED
    BY <1>1, <2>3, RestOrdered DEF t
<1>3. CASE ~(k <= Len(s))
  BY <1>1, <1>3, EmptyOrdered DEF t
<1> QED
  BY <1>2, <1>3

(* What is true of the two parts of a pass is true of the whole.           *)
LEMMA JoinedOrdered ==
  ASSUME NEW s \in Seq(Ops), NEW t \in Seq(Ops), Ordered(s), Ordered(t)
  PROVE  s \o t \in Seq(Ops) /\ Ordered(s \o t)
<1> DEFINE u == s \o t
           n == Len(s)
           m == Len(t)
<1>1. /\ u \in Seq(Ops) /\ Len(u) = n + m /\ n \in Nat /\ m \in Nat
      /\ \A i \in 1 .. n + m : u[i] = IF i <= n THEN s[i] ELSE t[i - n]
  BY Joined
<1> HIDE DEF u
<1>2. ASSUME NEW i \in 1 .. n PROVE Follows(u, i)
  <2>1. Follows(s, i) /\ u[i] = s[i]
    BY <1>1 DEF Ordered
  <2>2. ASSUME NEW do, Leads(s, i + 1, do) PROVE Leads(u, i + 1, do)
    <3>1. i + 1 \in 1 .. n /\ s[i + 1].do = do
      BY <1>1, <2>2 DEF Leads
    <3>2. i + 1 \in 1 .. n + m /\ i + 1 <= n
      BY <1>1, <3>1
    <3> QED
      BY <1>1, <3>1, <3>2 DEF Leads
  <2>3. ASSUME NEW v, Streams(s, i + 1, v) PROVE Streams(u, i + 1, v)
    <3>1. PICK k \in i + 1 .. n :
            /\ s[k].do = "stream" /\ s[k].vec = v
            /\ \A j \in i + 1 .. k - 1 : s[j].vec # v /\ s[j].do \in {"clear", "query", "stream"}
      BY <2>3 DEF Streams
    <3>2. \A j \in i + 1 .. k : j \in 1 .. n + m /\ j <= n
      BY <1>1
    <3>3. \A j \in i + 1 .. k : u[j] = s[j]
      BY <1>1, <3>2
    <3>4. k \in i + 1 .. n + m /\ k \in i + 1 .. k /\ \A j \in i + 1 .. k - 1 : j \in i + 1 .. k
      BY <1>1
    <3> QED
      BY <1>1, <3>1, <3>3, <3>4 DEF Streams
  <2> QED
    BY <2>1, <2>2, <2>3 DEF Follows
<1>3. ASSUME NEW i \in n + 1 .. n + m PROVE Follows(u, i)
  <2> DEFINE j == i - n
  <2>1. j \in 1 .. m /\ j + n = i /\ i \in 1 .. n + m /\ ~(i <= n)
    BY <1>1
  <2>2. Follows(t, j) /\ u[i] = t[j]
    BY <1>1, <2>1 DEF Ordered
  <2>5. j + 1 \in Nat /\ j + 1 >= 1 /\ i + 1 = (j + 1) + n
    BY <1>1, <2>1
  <2> HIDE DEF j
  <2>6. \A l \in 1 .. m : l + n \in 1 .. n + m /\ ~(l + n <= n) /\ (l + n) - n = l
    BY <1>1
  <2>7. \A l \in 1 .. m : u[l + n] = t[l]
    BY <1>1, <2>6
  <2>3. ASSUME NEW do, Leads(t, j + 1, do) PROVE Leads(u, i + 1, do)
    <3>1. j + 1 \in 1 .. m /\ t[j + 1].do = do
      BY <1>1, <2>1, <2>3 DEF Leads
    <3>2. u[i + 1] = t[j + 1] /\ i + 1 <= n + m
      BY <1>1, <2>5, <2>7, <3>1
    <3> QED
      BY <1>1, <3>1, <3>2 DEF Leads
  <2>4. ASSUME NEW v, Streams(t, j + 1, v) PROVE Streams(u, i + 1, v)
    <3>1. PICK k \in j + 1 .. m :
            /\ t[k].do = "stream" /\ t[k].vec = v
            /\ \A l \in j + 1 .. k - 1 : t[l].vec # v /\ t[l].do \in {"clear", "query", "stream"}
      BY <2>4 DEF Streams
    <3>2. k \in 1 .. m /\ k + n \in i + 1 .. n + m
      BY <1>1, <2>1, <2>5
    <3>3. ASSUME NEW l \in i + 1 .. (k + n) - 1
          PROVE  u[l].vec # v /\ u[l].do \in {"clear", "query", "stream"}
      <4>1. l - n \in j + 1 .. k - 1 /\ l - n \in 1 .. m /\ (l - n) + n = l
        BY <1>1, <2>1, <2>5, <3>2
      <4>2. u[l] = t[l - n]
        BY <2>7, <4>1
      <4> QED
        BY <3>1, <4>1, <4>2
    <3>4. u[k + n] = t[k]
      BY <2>7, <3>2
    <3> QED
      BY <1>1, <3>1, <3>2, <3>3, <3>4 DEF Streams
  <2> QED
    BY <2>2, <2>3, <2>4 DEF Follows
<1>4. \A i \in 1 .. Len(u) : i \in 1 .. n \/ i \in n + 1 .. n + m
  BY <1>1
<1> HIDE DEF n, m
<1>5. Ordered(u)
  BY <1>2, <1>3, <1>4 DEF Ordered
<1> QED
  BY <1>1, <1>5 DEF u

(* The parts passes are made of.                                           *)
InTurn(s) == s \in Seq(Ops) /\ Ordered(s)
Kinds == Calls \cup Waits \cup {"clear", "poll", "unlist", "remove", "list", "admit", "draw", "stream"}
TameOps == {o \in Ops : o.do \notin {"query", "sorted", "sort", "stream"}}

LEMMA TameInTurn == ASSUME NEW s \in Seq(TameOps) PROVE InTurn(s)
<1>1. s \in Seq(Ops) /\ \A i \in 1 .. Len(s) : s[i] \in TameOps
  BY DEF TameOps
<1> QED
  BY <1>1 DEF InTurn, Ordered, Follows, TameOps

LEMMA TwoTame ==
  ASSUME NEW s \in Seq(TameOps), NEW t \in Seq(TameOps)
  PROVE  s \o t \in Seq(TameOps) /\ Len(s \o t) = Len(s) + Len(t)
OBVIOUS

LEMMA TameOp ==
  ASSUME NEW do \in Kinds, NEW v \in Vecs, NEW skip \in 0 .. 12, do \notin {"query", "sorted", "sort", "stream"}
  PROVE  Op(do, v, skip) \in TameOps
BY DEF Kinds, Op, Ops, TameOps

LEMMA JoinedInTurn == ASSUME NEW s, NEW t, InTurn(s), InTurn(t) PROVE InTurn(s \o t)
BY JoinedOrdered DEF InTurn

LEMMA EachKind ==
  /\ "query" \in Kinds /\ "sorted" \in Kinds /\ "sort" \in Kinds /\ "wait" \in Kinds
  /\ "clear" \in Kinds /\ "draw" \in Kinds /\ "stream" \in Kinds
  /\ "land" \in Vecs /\ "distant" \in Vecs /\ "extra" \in Vecs /\ "grass" \in Vecs
  /\ 0 \in 0 .. 12 /\ 1 \in 0 .. 12 /\ 2 \in 0 .. 12
BY DEF Kinds, Calls, Waits, Vecs

LEMMA OpIs ==
  ASSUME NEW do \in Kinds, NEW v \in Vecs, NEW skip \in 0 .. 12
  PROVE  Op(do, v, skip) \in Ops /\ Op(do, v, skip).do = do /\ Op(do, v, skip).vec = v
BY DEF Op, Ops, Kinds

(* One more operation in front of a list of them.                          *)
LEMMA TwoOps == ASSUME NEW a \in Ops, NEW b \in Ops PROVE << a >> \o << b >> = << a, b >>
<1> DEFINE u == << a >> \o << b >>
           w == << a, b >>
<1>1. << a >> \in Seq(Ops) /\ << b >> \in Seq(Ops) /\ Len(<< a >>) = 1 /\ Len(<< b >>) = 1
  OBVIOUS
<1>2. u \in Seq(Ops) /\ Len(u) = 2 /\ u[1] = a /\ u[2] = b
  BY <1>1, Joined
<1>3. w \in Seq(Ops) /\ Len(w) = 2 /\ w[1] = a /\ w[2] = b
  OBVIOUS
<1> HIDE DEF u, w
<1>4. \A i \in 1 .. Len(u) : u[i] = w[i]
  <2>1. \A i \in 1 .. Len(u) : i = 1 \/ i = 2
    BY <1>2
  <2> QED
    BY <1>2, <1>3, <2>1
<1>5. u = w
  BY <1>2, <1>3, <1>4, SeqEqual
<1> QED
  BY <1>5 DEF u, w

LEMMA ThreeOps ==
  ASSUME NEW a \in Ops, NEW b \in Ops, NEW c \in Ops
  PROVE  << a >> \o << b, c >> = << a, b, c >>
<1> DEFINE v == << b, c >>
           u == << a >> \o v
           w == << a, b, c >>
<1>1. /\ << a >> \in Seq(Ops) /\ Len(<< a >>) = 1
      /\ v \in Seq(Ops) /\ Len(v) = 2 /\ v[1] = b /\ v[2] = c
  OBVIOUS
<1>2. w \in Seq(Ops) /\ Len(w) = 3 /\ w[1] = a /\ w[2] = b /\ w[3] = c
  OBVIOUS
<1> HIDE DEF v, w
<1>3. /\ u \in Seq(Ops) /\ Len(u) = 3
      /\ \A i \in 1 .. 3 : u[i] = IF i <= 1 THEN << a >>[i] ELSE v[i - 1]
  <2> DEFINE f == << a >>
  <2> HIDE DEF f
  <2>1. /\ f \o v \in Seq(Ops) /\ Len(f \o v) = Len(f) + Len(v)
        /\ \A i \in 1 .. Len(f) + Len(v) : (f \o v)[i] = IF i <= Len(f) THEN f[i] ELSE v[i - Len(f)]
    BY <1>1, Joined DEF f
  <2>2. Len(f) = 1 /\ Len(v) = 2
    BY <1>1 DEF f
  <2> QED
    BY <2>1, <2>2 DEF f
<1> HIDE DEF u
<1>4. u[1] = a /\ u[2] = b /\ u[3] = c
  BY <1>1, <1>3
<1>5. \A i \in 1 .. Len(u) : u[i] = w[i]
  <2>1. \A i \in 1 .. Len(u) : i = 1 \/ i = 2 \/ i = 3
    BY <1>3
  <2> QED
    BY <1>2, <1>4, <2>1
<1>6. u = w
  BY <1>2, <1>3, <1>5, SeqEqual
<1> QED
  BY <1>6 DEF u, v, w

LEMMA FiveOps ==
  ASSUME NEW a \in Ops, NEW b \in Ops, NEW c \in Ops, NEW d \in Ops, NEW e \in Ops
  PROVE  (<< a >> \o << b, c, d >>) \o << e >> = << a, b, c, d, e >>
<1> DEFINE v == << b, c, d >>
           x == << a >> \o v
           u == x \o << e >>
           w == << a, b, c, d, e >>
<1>1. /\ << a >> \in Seq(Ops) /\ Len(<< a >>) = 1 /\ << e >> \in Seq(Ops) /\ Len(<< e >>) = 1
      /\ v \in Seq(Ops) /\ Len(v) = 3 /\ v[1] = b /\ v[2] = c /\ v[3] = d
  OBVIOUS
<1>2. w \in Seq(Ops) /\ Len(w) = 5 /\ w[1] = a /\ w[2] = b /\ w[3] = c /\ w[4] = d /\ w[5] = e
  OBVIOUS
<1> HIDE DEF v, w
<1>3. /\ x \in Seq(Ops) /\ Len(x) = 4
      /\ \A i \in 1 .. 4 : x[i] = IF i <= 1 THEN << a >>[i] ELSE v[i - 1]
  <2> DEFINE f == << a >>
  <2> HIDE DEF f
  <2>1. /\ f \o v \in Seq(Ops) /\ Len(f \o v) = Len(f) + Len(v)
        /\ \A i \in 1 .. Len(f) + Len(v) : (f \o v)[i] = IF i <= Len(f) THEN f[i] ELSE v[i - Len(f)]
    BY <1>1, Joined DEF f
  <2>2. Len(f) = 1 /\ Len(v) = 3
    BY <1>1 DEF f
  <2> QED
    BY <2>1, <2>2 DEF f
<1> HIDE DEF x
<1>4. x[1] = a /\ x[2] = b /\ x[3] = c /\ x[4] = d
  BY <1>1, <1>3
<1>5. /\ u \in Seq(Ops) /\ Len(u) = 5
      /\ \A i \in 1 .. 5 : u[i] = IF i <= 4 THEN x[i] ELSE << e >>[i - 4]
  <2> DEFINE f == << e >>
  <2> HIDE DEF f
  <2>1. /\ x \o f \in Seq(Ops) /\ Len(x \o f) = Len(x) + Len(f)
        /\ \A i \in 1 .. Len(x) + Len(f) : (x \o f)[i] = IF i <= Len(x) THEN x[i] ELSE f[i - Len(x)]
    BY <1>1, <1>3, Joined DEF f
  <2>2. Len(f) = 1 /\ Len(x) = 4
    BY <1>1, <1>3 DEF f
  <2> QED
    BY <2>1, <2>2 DEF f
<1> HIDE DEF u
<1>6. u[1] = a /\ u[2] = b /\ u[3] = c /\ u[4] = d /\ u[5] = e
  BY <1>1, <1>4, <1>5
<1>7. \A i \in 1 .. Len(u) : u[i] = w[i]
  <2>1. \A i \in 1 .. Len(u) : i = 1 \/ i = 2 \/ i = 3 \/ i = 4 \/ i = 5
    BY <1>5
  <2> QED
    BY <1>2, <1>6, <2>1
<1>8. u = w
  BY <1>2, <1>5, <1>7, SeqEqual
<1> QED
  BY <1>8 DEF u, v, w, x

(* A query that is read in parallel, with or without something in between. *)
LEMMA StreamedOrdered ==
  ASSUME NEW v \in {"land", "extra"}
  PROVE  LET s == << Op("query", v, 0), Op("stream", v, 0) >> IN InTurn(s)
<1> DEFINE q == Op("query", v, 0)
           r == Op("stream", v, 0)
           s == << q, r >>
<1>1. /\ q \in Ops /\ q.do = "query" /\ q.vec = v /\ r \in Ops /\ r.do = "stream" /\ r.vec = v
      /\ v # "distant"
  <2>1. v \in Vecs /\ v # "distant" /\ "query" \in Kinds /\ "stream" \in Kinds /\ 0 \in 0 .. 12
    BY EachKind
  <2>2. Op("query", v, 0) \in Ops /\ Op("query", v, 0).do = "query" /\ Op("query", v, 0).vec = v
    BY <2>1, OpIs
  <2>3. Op("stream", v, 0) \in Ops /\ Op("stream", v, 0).do = "stream" /\ Op("stream", v, 0).vec = v
    BY <2>1, OpIs
  <2> QED
    BY <2>1, <2>2, <2>3
<1> HIDE DEF q, r
<1>2. s \in Seq(Ops) /\ Len(s) = 2 /\ s[1] = q /\ s[2] = r
  BY <1>1
<1> HIDE DEF s
<1>3. Streams(s, 2, v)
  <2>1. 2 \in 2 .. Len(s) /\ \A j \in 2 .. 2 - 1 : FALSE
    BY <1>2
  <2> QED
    BY <1>1, <1>2, <2>1 DEF Streams
<1>4. ASSUME NEW i \in 1 .. Len(s) PROVE Follows(s, i)
  <2>1. i = 1 \/ i = 2
    BY <1>2
  <2>2. Follows(s, 1)
    BY <1>1, <1>2, <1>3 DEF Follows
  <2>3. Follows(s, 2)
    BY <1>1, <1>2 DEF Follows
  <2> QED
    BY <2>1, <2>2, <2>3
<1> QED
  BY <1>2, <1>4 DEF InTurn, Ordered, s, q, r

LEMMA WrappedOrdered ==
  LET s == << Op("query", "extra", 0), Op("clear", "land", 0), Op("query", "land", 0), Op("stream", "land", 0),
              Op("stream", "extra", 0) >>
  IN InTurn(s)
<1> DEFINE a == Op("query", "extra", 0)
           b == Op("clear", "land", 0)
           c == Op("query", "land", 0)
           d == Op("stream", "land", 0)
           e == Op("stream", "extra", 0)
           s == << a, b, c, d, e >>
<1>1. /\ a \in Ops /\ a.do = "query" /\ a.vec = "extra" /\ b \in Ops /\ b.do = "clear" /\ b.vec = "land"
      /\ c \in Ops /\ c.do = "query" /\ c.vec = "land" /\ d \in Ops /\ d.do = "stream" /\ d.vec = "land"
      /\ e \in Ops /\ e.do = "stream" /\ e.vec = "extra"
  BY EachKind, OpIs
<1> HIDE DEF a, b, c, d, e
<1>2. s \in Seq(Ops) /\ Len(s) = 5 /\ s[1] = a /\ s[2] = b /\ s[3] = c /\ s[4] = d /\ s[5] = e
  BY <1>1
<1> HIDE DEF s
<1>3. Streams(s, 2, "extra")
  <2>1. 5 \in 2 .. Len(s) /\ \A j \in 2 .. 5 - 1 : j = 2 \/ j = 3 \/ j = 4
    BY <1>2
  <2> QED
    BY <1>1, <1>2, <2>1 DEF Streams
<1>4. Streams(s, 4, "land")
  <2>1. 4 \in 4 .. Len(s) /\ \A j \in 4 .. 4 - 1 : FALSE
    BY <1>2
  <2> QED
    BY <1>1, <1>2, <2>1 DEF Streams
<1>5. ASSUME NEW i \in 1 .. Len(s) PROVE Follows(s, i)
  <2>1. i = 1 \/ i = 2 \/ i = 3 \/ i = 4 \/ i = 5
    BY <1>2
  <2>2. Follows(s, 1)
    BY <1>1, <1>2, <1>3 DEF Follows
  <2>3. Follows(s, 3)
    BY <1>1, <1>2, <1>4 DEF Follows
  <2>4. Follows(s, 2) /\ Follows(s, 4) /\ Follows(s, 5)
    BY <1>1, <1>2 DEF Follows
  <2> QED
    BY <2>1, <2>2, <2>3, <2>4
<1> QED
  BY <1>2, <1>5 DEF InTurn, Ordered, s, a, b, c, d, e

LEMMA WaitedOrdered ==
  ASSUME NEW do \in {"sorted", "sort"}, NEW v \in Vecs, NEW k \in 0 .. 12, NEW m \in 0 .. 12
  PROVE  LET s == << Op(do, v, k), Op("wait", v, m) >> IN InTurn(s)
<1> DEFINE q == Op(do, v, k)
           r == Op("wait", v, m)
           s == << q, r >>
<1>1. q \in Ops /\ q.do = do /\ r \in Ops /\ r.do = "wait"
  BY OpIs DEF Calls, Waits, Kinds
<1> HIDE DEF q, r
<1>2. s \in Seq(Ops) /\ Len(s) = 2 /\ s[1] = q /\ s[2] = r
  BY <1>1
<1> HIDE DEF s
<1>3. Leads(s, 2, "wait")
  BY <1>1, <1>2 DEF Leads
<1>4. ASSUME NEW i \in 1 .. Len(s) PROVE Follows(s, i)
  <2>1. i = 1 \/ i = 2
    BY <1>2
  <2>2. Follows(s, 1)
    BY <1>1, <1>2, <1>3 DEF Follows
  <2>3. Follows(s, 2)
    BY <1>1, <1>2 DEF Follows
  <2> QED
    BY <2>1, <2>2, <2>3
<1> QED
  BY <1>2, <1>4 DEF InTurn, Ordered, s, q, r

(* The queries of the statics, and their sort.                             *)
LEMMA SortedOrdered ==
  ASSUME NEW k \in 0 .. 3
  PROVE  LET s == [i \in 1 .. k |-> Op("query", "distant", 0)] \o << Op("sort", "distant", 0), Op("wait", "distant", 0) >>
         IN InTurn(s)
<1> DEFINE o == Op("query", "distant", 0)
           q == [i \in 1 .. k |-> o]
           w == << Op("sort", "distant", 0), Op("wait", "distant", 0) >>
           s == q \o w
<1>1. o \in Ops /\ o.do = "query" /\ o.vec = "distant"
  BY EachKind, OpIs
<1>2. w \in Seq(Ops) /\ Ordered(w)
  <2>1. "distant" \in Vecs /\ 0 \in 0 .. 12 /\ "sort" \in {"sorted", "sort"}
    BY DEF Vecs
  <2> QED
    BY <2>1, WaitedOrdered DEF InTurn
<1>3. Len(w) = 2 /\ w[1].do = "sort" /\ w[2].do = "wait"
  BY DEF Op
<1> HIDE DEF o, w
<1>4. q \in Seq(Ops) /\ Len(q) = k /\ (\A i \in 1 .. k : q[i] = o) /\ k \in Nat
  BY <1>1
<1> HIDE DEF q
<1>5. /\ s \in Seq(Ops) /\ Len(s) = k + 2
      /\ \A i \in 1 .. k + 2 : s[i] = IF i <= k THEN q[i] ELSE w[i - k]
  <2>1. q \in Seq(Ops) /\ w \in Seq(Ops)
    BY <1>2, <1>4
  <2>2. /\ s \in Seq(Ops) /\ Len(s) = Len(q) + Len(w)
        /\ \A i \in 1 .. Len(q) + Len(w) : s[i] = IF i <= Len(q) THEN q[i] ELSE w[i - Len(q)]
    BY <2>1, Joined
  <2>3. Len(q) = k /\ Len(w) = 2
    BY <1>3, <1>4
  <2> HIDE DEF s
  <2> QED
    BY <2>2, <2>3
<1> HIDE DEF s
<1>6. /\ \A i \in 1 .. k : s[i] = o
      /\ s[k + 1].do = "sort" /\ s[k + 2].do = "wait"
  <2>1. k + 1 \in 1 .. k + 2 /\ ~(k + 1 <= k) /\ (k + 1) - k = 1 /\ k + 2 \in 1 .. k + 2 /\ ~(k + 2 <= k) /\ (k + 2) - k = 2
    BY <1>4
  <2>2. \A i \in 1 .. k : i \in 1 .. k + 2 /\ i <= k
    BY <1>4
  <2>3. s[k + 1] = w[1] /\ s[k + 2] = w[2]
    BY <1>5, <2>1
  <2> QED
    BY <1>3, <1>4, <1>5, <2>2, <2>3
<1>7. ASSUME NEW i \in 1 .. Len(s) PROVE Follows(s, i)
  <2>1. i \in 1 .. k \/ i = k + 1 \/ i = k + 2
    BY <1>4, <1>5
  <2>2. CASE i \in 1 .. k
    <3>1. i + 1 \in 1 .. k \/ i + 1 = k + 1
      BY <1>4, <2>2
    <3>2. Leads(s, i + 1, "query") \/ Leads(s, i + 1, "sort")
      <4>1. i + 1 <= Len(s)
        BY <1>4, <1>5, <2>2
      <4> QED
        BY <1>1, <1>6, <3>1, <4>1 DEF Leads
    <3> QED
      BY <1>1, <1>6, <2>2, <3>2 DEF Follows
  <2>3. CASE i = k + 1
    <3>1. Leads(s, i + 1, "wait")
      <4>1. i + 1 = k + 2
        BY <1>4, <2>3
      <4> QED
        BY <1>5, <1>6, <4>1 DEF Leads
    <3> QED
      BY <1>6, <2>3, <3>1 DEF Follows
  <2>4. CASE i = k + 2
    BY <1>6, <2>4 DEF Follows
  <2> QED
    BY <2>1, <2>2, <2>3, <2>4
<1> QED
  BY <1>5, <1>7 DEF InTurn, Ordered, s, q, w, o

(* Every pass is in order.                                                 *)
LEMMA LandOps ==
  /\ Land = << Op("clear", "land", 0), Op("query", "land", 0), Op("stream", "land", 0) >>
  /\ InTurn(Land)
<1> DEFINE a == Op("clear", "land", 0)
           q == Op("query", "land", 0)
           r == Op("stream", "land", 0)
<1>1. a \in TameOps /\ a \in Ops /\ q \in Ops /\ r \in Ops
  BY EachKind, TameOp, OpIs
<1>2. Land = (<< a >> \o << q >>) \o << r >>
  BY DEF Land, Ask
<1>3. InTurn(<< q, r >>)
  BY StreamedOrdered
<1> HIDE DEF a, q, r
<1>4. Land = << a, q, r >> /\ Land = << a >> \o << q, r >>
  <2>1. << a >> \in Seq(Ops) /\ << q >> \in Seq(Ops) /\ << r >> \in Seq(Ops)
    BY <1>1
  <2>2. Land = << a >> \o (<< q >> \o << r >>)
    BY <1>2, <2>1, Regrouped
  <2>3. << q >> \o << r >> = << q, r >>
    BY <1>1, TwoOps
  <2>4. << a >> \o << q, r >> = << a, q, r >>
    BY <1>1, ThreeOps
  <2> QED
    BY <2>2, <2>3, <2>4
<1>5. << a >> \in Seq(TameOps)
  BY <1>1
<1>6. InTurn(<< a >>)
  BY <1>5, TameInTurn
<1> QED
  BY <1>3, <1>4, <1>6, JoinedInTurn DEF a, q, r

LEMMA OptionalInTurn == ASSUME NEW l \in OptionalLand PROVE InTurn(l) /\ l \in {<< >>, Land}
<1>1. << >> \in Seq(TameOps)
  OBVIOUS
<1> QED
  BY <1>1, TameInTurn, LandOps DEF OptionalLand

LEMMA ClearInTurn == ASSUME NEW v \in Vecs PROVE Ask("clear", v) \in Seq(TameOps) /\ InTurn(Ask("clear", v))
<1>1. Op("clear", v, 0) \in TameOps
  BY TameOp DEF Kinds
<1>2. Ask("clear", v) \in Seq(TameOps)
  BY <1>1 DEF Ask
<1> QED
  BY <1>2, TameInTurn

LEMMA DrawInTurn == ASSUME NEW v \in Vecs PROVE InTurn(Ask("draw", v))
<1>1. Op("draw", v, 0) \in TameOps
  BY TameOp DEF Kinds
<1>2. Ask("draw", v) \in Seq(TameOps)
  BY <1>1 DEF Ask
<1> QED
  BY <1>2, TameInTurn

LEMMA AskIs == ASSUME NEW do \in Kinds, NEW v \in Vecs PROVE Ask(do, v) \in Seq(Ops)
<1>1. Op(do, v, 0) \in Ops
  BY OpIs
<1> QED
  BY <1>1 DEF Ask

LEMMA ShadowInTurn ==
  ASSUME NEW l \in OptionalLand
  PROVE  InTurn(Ask("clear", "extra") \o Ask("query", "extra") \o l \o Ask("stream", "extra"))
<1> DEFINE c == Ask("clear", "extra")
           q == Ask("query", "extra")
           r == Ask("stream", "extra")
<1>1. InTurn(c) /\ c \in Seq(Ops) /\ q \in Seq(Ops) /\ r \in Seq(Ops)
  BY ClearInTurn, AskIs DEF Calls, Vecs, Kinds, InTurn
<1>2. l \in Seq(Ops) /\ (l = << >> \/ l = Land)
  BY OptionalInTurn DEF InTurn
<1>3. InTurn((q \o l) \o r)
  <2> DEFINE a == Op("query", "extra", 0)
             e == Op("stream", "extra", 0)
  <2>1. q = << a >> /\ r = << e >>
    BY DEF Ask
  <2>2. a \in Ops /\ e \in Ops
    BY EachKind, OpIs
  <2>3. CASE l = << >>
    <3>1. InTurn(<< a, e >>)
      BY StreamedOrdered
    <3> HIDE DEF a, e
    <3>2. (<< a >> \o << >>) \o << e >> = << a, e >>
      <4>1. << a >> \in Seq(Ops)
        BY <2>2
      <4> QED
        BY <2>2, <4>1, ConcatEmptySeq, TwoOps
    <3> QED
      BY <2>1, <2>3, <3>1, <3>2
  <2>4. CASE l = Land
    <3> DEFINE x == Op("clear", "land", 0)
               y == Op("query", "land", 0)
               z == Op("stream", "land", 0)
    <3>1. x \in Ops /\ y \in Ops /\ z \in Ops /\ Land = << x, y, z >>
      BY EachKind, OpIs, LandOps
    <3>2. InTurn(<< a, x, y, z, e >>)
      BY WrappedOrdered
    <3> HIDE DEF a, e, x, y, z
    <3>3. (<< a >> \o << x, y, z >>) \o << e >> = << a, x, y, z, e >>
      BY <2>2, <3>1, FiveOps
    <3> QED
      BY <2>1, <2>4, <3>1, <3>2, <3>3
  <2> QED
    BY <1>2, <2>3, <2>4
<1> HIDE DEF c, q, r
<1>4. q \o l \in Seq(Ops)
  BY <1>1, <1>2
<1>5. ((c \o q) \o l) \o r = c \o ((q \o l) \o r)
  <2>1. (c \o q) \o l = c \o (q \o l)
    <3>1. c \in Seq(Ops) /\ q \in Seq(Ops) /\ l \in Seq(Ops)
      BY <1>1, <1>2
    <3> QED
      BY <3>1, Regrouped
  <2>2. (c \o (q \o l)) \o r = c \o ((q \o l) \o r)
    <3> DEFINE x == q \o l
    <3>1. c \in Seq(Ops) /\ x \in Seq(Ops) /\ r \in Seq(Ops)
      BY <1>1, <1>4
    <3> HIDE DEF x
    <3>2. c \o (x \o r) = (c \o x) \o r
      BY <3>1, Regrouped
    <3> QED
      BY <3>2 DEF x
  <2> QED
    BY <2>1, <2>2
<1>6. InTurn(c \o ((q \o l) \o r))
  BY <1>1, <1>3, JoinedInTurn
<1> QED
  BY <1>5, <1>6 DEF c, q, r

LEMMA StaticsInTurn ==
  ASSUME NEW k \in 0 .. 3
  PROVE  InTurn(Ask("clear", "distant") \o [i \in 1 .. k |-> Op("query", "distant", 0)] \o
                  Ask("sort", "distant") \o Ask("wait", "distant") \o Ask("draw", "distant"))
<1> DEFINE c == Ask("clear", "distant")
           q == [i \in 1 .. k |-> Op("query", "distant", 0)]
           s == Ask("sort", "distant")
           w == Ask("wait", "distant")
           d == Ask("draw", "distant")
<1>1. /\ InTurn(c) /\ c \in Seq(Ops) /\ s \in Seq(Ops) /\ w \in Seq(Ops) /\ d \in Seq(Ops) /\ InTurn(d)
      /\ Op("query", "distant", 0) \in Ops
  BY EachKind, ClearInTurn, DrawInTurn, AskIs, OpIs DEF InTurn
<1>2. q \in Seq(Ops)
  BY <1>1
<1>3. InTurn(q \o (s \o w))
  <2> DEFINE a == Op("sort", "distant", 0)
             b == Op("wait", "distant", 0)
  <2>1. s = << a >> /\ w = << b >>
    BY DEF Ask
  <2>2. InTurn(q \o << a, b >>)
    BY SortedOrdered
  <2>4. a \in Ops /\ b \in Ops
    BY EachKind, OpIs
  <2> HIDE DEF a, b
  <2>3. << a >> \o << b >> = << a, b >>
    BY <2>4, TwoOps
  <2> QED
    BY <2>1, <2>2, <2>3
<1> HIDE DEF c, q, s, w, d
<1>4. s \o w \in Seq(Ops) /\ q \o s \in Seq(Ops) /\ c \o q \in Seq(Ops)
  BY <1>1, <1>2
<1>5. ((c \o q) \o s) \o w = c \o (q \o (s \o w))
  <2> DEFINE x == c \o q
             y == s \o w
  <2>3. x \in Seq(Ops) /\ y \in Seq(Ops)
    BY <1>4
  <2>2. x \o y = c \o (q \o y)
    <3>1. c \in Seq(Ops) /\ q \in Seq(Ops) /\ y \in Seq(Ops)
      BY <1>1, <1>2, <2>3
    <3> HIDE DEF y
    <3> QED
      BY <3>1, Regrouped
  <2>1. (x \o s) \o w = x \o y
    <3>1. x \in Seq(Ops) /\ s \in Seq(Ops) /\ w \in Seq(Ops)
      BY <1>1, <2>3
    <3> HIDE DEF x, y
    <3>2. x \o (s \o w) = (x \o s) \o w
      BY <3>1, Regrouped
    <3> QED
      BY <3>2 DEF y
  <2> QED
    BY <2>1, <2>2
<1>6. InTurn((c \o (q \o (s \o w))) \o d)
  BY <1>1, <1>3, JoinedInTurn
<1> QED
  BY <1>5, <1>6 DEF c, q, s, w, d

LEMMA GrassInTurn ==
  InTurn(Ask("clear", "grass") \o Ask("sorted", "grass") \o Ask("wait", "grass") \o Ask("draw", "grass"))
<1> DEFINE c == Ask("clear", "grass")
           s == Ask("sorted", "grass")
           w == Ask("wait", "grass")
           d == Ask("draw", "grass")
<1>1. InTurn(c) /\ c \in Seq(Ops) /\ s \in Seq(Ops) /\ w \in Seq(Ops) /\ d \in Seq(Ops) /\ InTurn(d)
  BY EachKind, ClearInTurn, DrawInTurn, AskIs DEF InTurn
<1>2. InTurn(s \o w)
  <2> DEFINE a == Op("sorted", "grass", 0)
             b == Op("wait", "grass", 0)
  <2>1. s = << a >> /\ w = << b >>
    BY DEF Ask
  <2>2. "grass" \in Vecs /\ 0 \in 0 .. 12 /\ "sorted" \in {"sorted", "sort"}
    BY DEF Vecs
  <2>3. InTurn(<< a, b >>)
    BY <2>2, WaitedOrdered
  <2>5. a \in Ops /\ b \in Ops
    BY EachKind, OpIs
  <2> HIDE DEF a, b
  <2>4. << a >> \o << b >> = << a, b >>
    BY <2>5, TwoOps
  <2> QED
    BY <2>1, <2>3, <2>4
<1> HIDE DEF c, s, w, d
<1>3. (c \o s) \o w = c \o (s \o w)
  <2>1. c \in Seq(Ops) /\ s \in Seq(Ops) /\ w \in Seq(Ops)
    BY <1>1
  <2> QED
    BY <2>1, Regrouped
<1>4. InTurn((c \o (s \o w)) \o d)
  BY <1>1, <1>2, JoinedInTurn
<1> QED
  BY <1>3, <1>4 DEF c, s, w, d

LEMMA ReflectedInTurn == InTurn(Reflected)
<1> DEFINE c == Op("clear", "extra", 0)
           s == Op("sorted", "extra", 2)
           w == Op("wait", "extra", 1)
           d == Op("draw", "extra", 0)
<1>1. c \in TameOps /\ d \in TameOps /\ s \in Ops /\ w \in Ops
  BY EachKind, TameOp, OpIs
<1>2. "extra" \in Vecs /\ 2 \in 0 .. 12 /\ 1 \in 0 .. 12 /\ "sorted" \in {"sorted", "sort"}
  BY DEF Vecs
<1>3. InTurn(<< s, w >>)
  BY <1>2, WaitedOrdered
<1>4. Reflected = << c, s, w, d >>
  BY DEF Reflected
<1> HIDE DEF c, s, w, d
<1>5. c \in Ops /\ d \in Ops
  BY <1>1 DEF TameOps
<1>6. << c, s, w, d >> = (<< c >> \o << s, w >>) \o << d >>
  BY <1>1, <1>5, ThreeOps
<1>7. << c >> \in Seq(TameOps) /\ << d >> \in Seq(TameOps)
  BY <1>1
<1>8. InTurn(<< c >>) /\ InTurn(<< d >>)
  BY <1>7, TameInTurn
<1>9. InTurn((<< c >> \o << s, w >>) \o << d >>)
  BY <1>3, <1>8, JoinedInTurn
<1> QED
  BY <1>4, <1>6, <1>9

LEMMA PolledTame == ASSUME NEW n \in 0 .. 12 PROVE << Op("poll", "extra", n) >> \in Seq(TameOps)
<1>1. Op("poll", "extra", n) \in TameOps
  BY TameOp DEF Vecs, Kinds
<1> QED
  BY <1>1

LEMMA PolledInTurn == ASSUME NEW s, InTurn(s), Len(s) \in 0 .. 12 PROVE InTurn(Polled(s))
<1>1. InTurn(<< Op("poll", "extra", Len(s)) >>)
  BY PolledTame, TameInTurn
<1> QED
  BY <1>1, JoinedInTurn DEF Polled

LEMMA EvictionTame == Eviction \in Seq(TameOps) /\ Len(Eviction) = 6
<1>1. /\ Op("clear", "distant", 0) \in TameOps /\ Op("clear", "extra", 0) \in TameOps
      /\ Op("unlist", "extra", 3) \in TameOps /\ Op("remove", "extra", 0) \in TameOps
      /\ Op("commit", "extra", 1) \in TameOps /\ Op("release", "extra", 0) \in TameOps
  BY TameOp DEF Calls, Waits, Vecs, Kinds
<1> QED
  BY <1>1 DEF Eviction

LEMMA PlanningTame == Planning \in Seq(TameOps) /\ Len(Planning) = 2
<1>1. Op("plan", "extra", 1) \in TameOps /\ Op("wait", "extra", 0) \in TameOps
  BY TameOp DEF Calls, Waits, Vecs, Kinds
<1> QED
  BY <1>1 DEF Planning

LEMMA AdmissionTame == Admission \in Seq(TameOps) /\ Len(Admission) = 4
<1>1. /\ Op("list", "extra", 3) \in TameOps /\ Op("admit", "extra", 0) \in TameOps
      /\ Op("commit", "extra", 1) \in TameOps /\ Op("confirm", "extra", 0) \in TameOps
  BY TameOp DEF Calls, Waits, Vecs, Kinds
<1> QED
  BY <1>1 DEF Admission

LEMMA ScriptsInTurn == ASSUME NEW pass \in PassNames, NEW s \in Scripts(pass) PROVE InTurn(s)
<1>1. CASE pass = "cell"
  <2>1. Op("space", "extra", 1) \in TameOps /\ Op("found", "extra", 0) \in TameOps
    BY TameOp DEF Calls, Waits, Vecs, Kinds
  <2>2. s = << Op("space", "extra", 1), Op("found", "extra", 0) >>
    BY <1>1 DEF Scripts
  <2>3. s \in Seq(TameOps)
    BY <2>1, <2>2
  <2> QED
    BY <2>3, TameInTurn
<1>2. CASE pass = "shadow"
  <2>1. PICK l \in OptionalLand :
          \/ s = Ask("clear", "extra") \o l
          \/ s = Ask("clear", "extra") \o Ask("query", "extra") \o l \o Ask("stream", "extra")
    <3>1. Scripts("shadow") =
            {Ask("clear", "extra") \o l : l \in OptionalLand} \cup
            {Ask("clear", "extra") \o Ask("query", "extra") \o l \o Ask("stream", "extra") : l \in OptionalLand}
      BY DEF Scripts
    <3> QED
      BY <1>2, <3>1, Zenon
  <2>2. InTurn(Ask("clear", "extra") \o l)
    BY OptionalInTurn, ClearInTurn, JoinedInTurn DEF Vecs
  <2> QED
    BY <2>1, <2>2, ShadowInTurn
<1>3. CASE pass = "land"
  BY <1>3, LandOps DEF Scripts
<1>4. CASE pass = "statics"
  <2>1. \/ s = Ask("clear", "distant")
        \/ \E k \in 0 .. 3 :
             s = Ask("clear", "distant") \o [i \in 1 .. k |-> Op("query", "distant", 0)] \o
                   Ask("sort", "distant") \o Ask("wait", "distant") \o Ask("draw", "distant")
    <3>1. Scripts("statics") =
            {Ask("clear", "distant")} \cup
            {Ask("clear", "distant") \o [i \in 1 .. k |-> Op("query", "distant", 0)] \o
               Ask("sort", "distant") \o Ask("wait", "distant") \o Ask("draw", "distant") : k \in 0 .. 3}
      BY DEF Scripts
    <3> QED
      BY <1>4, <3>1, Zenon
  <2>2. InTurn(Ask("clear", "distant"))
    BY ClearInTurn DEF Vecs
  <2> QED
    BY <2>1, <2>2, StaticsInTurn
<1>5. CASE pass = "grass"
  <2>1. s = Ask("clear", "grass") \o Ask("sorted", "grass") \o Ask("wait", "grass") \o Ask("draw", "grass")
    BY <1>5 DEF Scripts
  <2> QED
    BY <2>1, GrassInTurn
<1>6. CASE pass = "reflection"
  <2>1. PICK l \in OptionalLand : s = Polled(l \o Reflected)
    BY <1>6 DEF Scripts
  <2>2. Len(l \o Reflected) \in 0 .. 12
    <3>1. l \in Seq(PlainOps) /\ Len(l) \in 0 .. 3
      BY OptionalPlain
    <3>2. Len(l \o Reflected) = Len(l) + Len(Reflected) /\ Len(Reflected) = 4
      BY <3>1, ReflectedPlain, Both
    <3> DEFINE n == Len(l)
    <3>3. n \in 0 .. 3
      BY <3>1
    <3> HIDE DEF n
    <3>4. n + 4 \in 0 .. 12
      BY <3>3
    <3> QED
      BY <3>2, <3>4 DEF n
  <2>3. InTurn(l \o Reflected)
    BY OptionalInTurn, ReflectedInTurn, JoinedInTurn
  <2> QED
    BY <2>1, <2>2, <2>3, PolledInTurn
<1>7. CASE pass \in {"finish", "land_depth", "statics_depth"}
  <2>1. s \in {Ask("finish", "extra"), Ask("draw", "land"), Ask("draw", "distant")}
    BY <1>7 DEF Scripts
  <2>2. Op("finish", "extra", 0) \in TameOps
    BY TameOp DEF Calls, Vecs, Kinds
  <2>3. Ask("finish", "extra") \in Seq(TameOps)
    BY <2>2 DEF Ask
  <2> QED
    BY <2>1, <2>3, TameInTurn, DrawInTurn DEF Vecs
<1>8. CASE pass = "evict"
  <2>1. s = Polled(Eviction)
    BY <1>8 DEF Scripts
  <2>2. InTurn(Eviction) /\ Len(Eviction) \in 0 .. 12
    BY EvictionTame, TameInTurn
  <2> QED
    BY <2>1, <2>2, PolledInTurn
<1>9. CASE pass = "tick"
  <2>1. PICK f \in {<< >>} \cup (IF MayEvict THEN {Eviction} ELSE {}), p \in {<< >>, Planning} :
          s = Polled(f \o p \o Admission)
    BY <1>9 DEF Scripts
  <2>2. << >> \in Seq(TameOps) /\ Len(<< >>) = 0
    OBVIOUS
  <2>3. f \in {<< >>, Eviction} /\ p \in {<< >>, Planning}
    BY Zenon
  <2>4. f \in Seq(TameOps) /\ Len(f) \in {0, 6} /\ p \in Seq(TameOps) /\ Len(p) \in {0, 2}
    BY <2>2, <2>3, EvictionTame, PlanningTame
  <2>5. f \o p \in Seq(TameOps) /\ Len(f \o p) = Len(f) + Len(p)
    BY <2>4, TwoTame
  <2>6. (f \o p) \o Admission \in Seq(TameOps) /\ Len((f \o p) \o Admission) = Len(f \o p) + 4
    BY <2>5, AdmissionTame, TwoTame
  <2>7. Len((f \o p) \o Admission) \in 0 .. 12
    <3> DEFINE n == Len(f)
               m == Len(p)
    <3>1. n \in {0, 6} /\ m \in {0, 2}
      BY <2>4
    <3> HIDE DEF n, m
    <3>2. n + m + 4 \in 0 .. 12
      BY <3>1
    <3> QED
      BY <2>5, <2>6, <3>2 DEF n, m
  <2>8. InTurn((f \o p) \o Admission)
    BY <2>6, TameInTurn
  <2> QED
    BY <2>1, <2>7, <2>8, PolledInTurn
<1> QED
  BY <1>1, <1>2, <1>3, <1>4, <1>5, <1>6, <1>7, <1>8, <1>9 DEF PassNames

---------------------------------------------------------------------------
(* What the head of a pass says of the commands before it.                 *)
Filling == {"stream", "stored", "rewrite"}

LEMMA AtLeads == ASSUME All, NEW do PROVE At(do) <=> Leads(todo, 1, do)
<1>1. todo \in Seq(Ops)
  BY DEF All, ClientTyped
<1>2. todo # << >> <=> Len(todo) >= 1
  BY <1>1
<1>3. todo # << >> => Head(todo) = todo[1]
  BY <1>1
<1> QED
  BY <1>2, <1>3 DEF At, Leads

LEMMA StreamsHead ==
  ASSUME NEW s \in Seq(Ops), NEW v, Streams(s, 1, v)
  PROVE  /\ Len(s) >= 1 /\ s[1].do \in {"clear", "query", "stream"}
         /\ s[1].vec = v => s[1].do = "stream"
<1>1. PICK k \in 1 .. Len(s) : /\ s[k].do = "stream" /\ s[k].vec = v
                               /\ \A j \in 1 .. k - 1 : s[j].vec # v /\ s[j].do \in {"clear", "query", "stream"}
  BY DEF Streams
<1>2. Len(s) \in Nat
  OBVIOUS
<1>3. CASE k = 1
  BY <1>1, <1>2, <1>3
<1>4. CASE k # 1
  <2>1. 1 \in 1 .. k - 1 /\ Len(s) >= 1
    BY <1>2, <1>4
  <2> QED
    BY <1>1, <2>1
<1> QED
  BY <1>3, <1>4

LEMMA StreamsTail ==
  ASSUME NEW s \in Seq(Ops), NEW v, Streams(s, 1, v), ~(s[1].do = "stream" /\ s[1].vec = v)
  PROVE  Streams(Tail(s), 1, v)
<1>1. PICK k \in 1 .. Len(s) : /\ s[k].do = "stream" /\ s[k].vec = v
                               /\ \A j \in 1 .. k - 1 : s[j].vec # v /\ s[j].do \in {"clear", "query", "stream"}
  BY DEF Streams
<1>2. k \in 1 + 1 .. Len(s) /\ \A j \in 1 + 1 .. k - 1 : j \in 1 .. k - 1
  BY <1>1
<1>3. Streams(s, 1 + 1, v)
  BY <1>1, <1>2 DEF Streams
<1>4. s # << >>
  BY StreamsHead
<1>5. Tail(s) \in Seq(Ops) /\ Rest(Tail(s), s, 1) /\ 1 \in Nat \ {0}
  BY <1>4, TailRest
<1> QED
  BY <1>3, <1>5, RestStreams

LEMMA AwaitsGoes ==
  ASSUME All, NEW v, Awaits(v), ~ReadsHead(v), todo' = Tail(todo), at' = "idle"
  PROVE  Awaits(v)'
<1>1. todo \in Seq(Ops)
  BY DEF All, ClientTyped
<1>2. Streams(Tail(todo), 1, v)
  BY <1>1, StreamsTail DEF Awaits, ReadsHead
<1>3. Streams(todo, 1, v)'
  BY <1>2
<1> QED
  BY <1>3 DEF Awaits

LEMMA AwaitsHead ==
  ASSUME All, NEW v, Awaits(v)
  PROVE  \/ Leads(todo, 1, "clear") \/ Leads(todo, 1, "query") \/ Leads(todo, 1, "stream")
<1>1. todo \in Seq(Ops)
  BY DEF All, ClientTyped
<1>2. Len(todo) >= 1 /\ todo[1].do \in {"clear", "query", "stream"}
  BY <1>1, StreamsHead DEF Awaits
<1> QED
  BY <1>2 DEF Leads

LEMMA RestsIdle ==
  ASSUME All, Cursor, ~Leads(todo, 1, "draw"), ~Leads(todo, 1, "stream")
  PROVE  at = "idle"
BY AtLeads DEF Cursor, Drawing

(* Away from the places that wait for a command none is under way.         *)
LEMMA NoWork ==
  ASSUME All, Attends, Completions, Leads(todo, 1, "wait") => host = "wait" /\ ~start,
         \A do \in {"query", "sort", "clear", "stream"} : ~Leads(todo, 1, do)
  PROVE  /\ \A v \in Vecs : WorksFor(v) => call.do \notin {"query", "sorted", "sort"}
         /\ \A v \in Vecs \ {"distant"} : ~cmp[v]
<1>1. \A v : ~Awaits(v)
  BY AwaitsHead
<1>2. \A v \in Vecs \ {"distant"} : ~cmp[v]
  BY <1>1 DEF Completions
<1>3. ASSUME NEW v \in Vecs, WorksFor(v) PROVE call.do \notin {"query", "sorted", "sort"}
  <2>1. ~(host = "wait" /\ ~start)
    BY <1>3 DEF WorksFor
  <2> QED
    BY <1>1, <1>3, <2>1 DEF Attends
<1> QED
  BY <1>2, <1>3

---------------------------------------------------------------------------
(* Frames.                                                                 *)
LEMMA TallyHeld ==
  ASSUME Tallied, UNCHANGED << slots, size, pop, host, job, old, plan, put >>
  PROVE  Tallied'
BY DEF Tallied, Prefix, Rewrites

LEMMA TallyPlain ==
  ASSUME Tallied, UNCHANGED << slots, size, pop >>,
         host \notin {"stored", "rewrite"}, host' \notin {"stored", "rewrite"}
  PROVE  Tallied'
BY DEF Tallied, Prefix, Rewrites

LEMMA AttendsHeld ==
  ASSUME Attends, Completions, UNCHANGED << todo, at, reading, cmp >>, call'.do = call.do, call'.vec = call.vec,
         \A v \in Vecs : WorksFor(v)' => WorksFor(v)
  PROVE  Attends' /\ Completions'
<1>1. \A v : Awaits(v) => Awaits(v)'
  BY DEF Awaits, Streams, ReadsHead
<1>2. \A n, do : Leads(todo, n, do) => Leads(todo, n, do)'
  BY DEF Leads
<1> QED
  BY <1>1, <1>2 DEF Attends, Completions

LEMMA CursorHeld ==
  ASSUME All, Cursor, UNCHANGED << todo, draw >>,
         at # "idle" => /\ size'[Vec] \in Nat /\ size'[Vec] >= size[Vec]
                        /\ \A i \in 1 .. next : slots'[Vec][i] = slots[Vec][i]
  PROVE  Cursor'
<1>1. UNCHANGED << at, reading, next, seen, drawn >> /\ Vec' = Vec /\ (Drawing' <=> Drawing)
      /\ (At("stream")' <=> At("stream"))
  BY DEF draw, Vec, Drawing, At
<1>2. next \in Nat
  BY DEF All, DrawTyped
<1>3. CASE at = "idle"
  BY <1>1, <1>3 DEF Cursor
<1>4. CASE at # "idle"
  <2>1. todo # << >> /\ Vec \in Vecs /\ size[Vec] \in Nat
    <3>1. todo # << >> /\ Vec \in Vecs
      BY <1>4, AtHead DEF Cursor, Drawing
    <3> QED
      BY <3>1 DEF All, VecsTyped
  <2>2. Prefix(Vec, next)' = Prefix(Vec, next)
    BY <1>1, <1>4 DEF Prefix
  <2> HIDE DEF Vec
  <2>3. next <= size[Vec] => next <= size'[Vec]
    BY <1>2, <1>4, <2>1
  <2>4. next < size[Vec] => next < size'[Vec]
    BY <1>2, <1>4, <2>1
  <2>5. Count(Prefix(Vec, next))' = Count(Prefix(Vec, next))
    BY <2>2 DEF Count
  <2> QED
    BY <1>1, <1>4, <2>3, <2>4, <2>5 DEF Cursor
<1> QED
  BY <1>3, <1>4

LEMMA CursorStays ==
  ASSUME All, Cursor, UNCHANGED << todo, draw, slots, size >>
  PROVE  Cursor'
<1>1. at # "idle" => size[Vec] \in Nat
  BY AtHead DEF Cursor, Drawing, All, VecsTyped
<1>2. at # "idle" => size[Vec] >= size[Vec]
  BY <1>1
<1> QED
  BY <1>1, <1>2, CursorHeld

LEMMA CursorIdle ==
  ASSUME Cursor, at = "idle", UNCHANGED draw
  PROVE  Cursor'
BY DEF Cursor, draw

(* A step of the render thread at a place where nothing is under way.      *)
LEMMA ClientAside ==
  ASSUME All, SInv, UNCHANGED << call, start, host, job, cmp, draw, alive >>, timeouts' = timeouts,
         Ordered(todo'), Tallied => Tallied',
         Leads(todo, 1, "wait") => host = "wait" /\ ~start,
         \A do \in {"query", "sort", "clear", "stream", "draw"} : ~Leads(todo, 1, do)
  PROVE  SInv'
<1>1. JobIsCall' /\ Ordered(todo)'
  BY DEF SInv, JobIsCall
<1>2. ASSUME Calm' PROVE InOrder'
  <2>1. InOrder
    BY <1>2 DEF SInv, Calm
  <2>2. /\ \A v \in Vecs : WorksFor(v) => call.do \notin {"query", "sorted", "sort"}
        /\ \A v \in Vecs \ {"distant"} : ~cmp[v]
    BY <2>1, NoWork DEF InOrder
  <2>3. Attends'
    BY <2>2 DEF Attends, WorksFor
  <2>4. Completions'
    BY <2>2 DEF Completions
  <2>5. Cursor'
    BY <2>1, RestsIdle, CursorIdle DEF InOrder
  <2> QED
    BY <2>1, <2>3, <2>4, <2>5 DEF InOrder
<1> QED
  BY <1>1, <1>2 DEF SInv

(* A step of Render that takes nothing off the vectors' events.            *)
LEMMA DrawsOn ==
  ASSUME All, SInv, UNCHANGED << slots, size, pop, cmp, call, start, server, todo, timeouts >>,
         At("stream") => (at = "idle" \/ reading => at' = "idle" \/ reading'),
         Cursor => Cursor'
  PROVE  SInv'
<1>1. UNCHANGED << alive, host, job, old, plan, put >>
  BY DEF server, local
<1>2. JobIsCall' /\ Ordered(todo)'
  BY <1>1 DEF SInv, JobIsCall, Ordered, Follows, Leads, Streams
<1>3. ASSUME Calm' PROVE InOrder'
  <2>1. InOrder
    BY <1>1, <1>3 DEF SInv, Calm
  <2>2. ASSUME NEW v, Awaits(v) PROVE Awaits(v)'
    <3>1. ReadsHead(v) => At("stream")
      <4>1. todo # << >>
        BY <2>2, AwaitsHead DEF Leads
      <4> QED
        BY <4>1, AtLeads, AwaitsHead, <2>2 DEF ReadsHead, Leads
    <3> QED
      BY <2>2, <3>1 DEF Awaits, Streams, ReadsHead
  <2>3. \A n, do : Leads(todo, n, do) => Leads(todo, n, do)'
    BY DEF Leads
  <2>4. \A v \in Vecs : WorksFor(v)' => WorksFor(v)
    BY <1>1 DEF WorksFor
  <2>5. Attends' /\ Completions'
    BY <2>1, <2>2, <2>3, <2>4 DEF InOrder, Attends, Completions
  <2>6. Tallied'
    BY <1>1, <2>1, TallyHeld DEF InOrder
  <2> QED
    BY <2>1, <2>5, <2>6 DEF InOrder
<1> QED
  BY <1>2, <1>3 DEF SInv

(* A wait that gives up, or a host that is lost, ends the patience.        *)
LEMMA Impatient ==
  ASSUME SInv, UNCHANGED << call, host, job >>, Ordered(todo'), ~Calm'
  PROVE  SInv'
BY DEF SInv, JobIsCall

---------------------------------------------------------------------------
(* How often each mesh is in a vector.                                     *)
LEMMA CountNothing == ASSUME NEW s, DOMAIN s = {} PROVE Count(s) = Nothing
<1>1. \A c \in Content : {i \in DOMAIN s : s[i] = c} = {}
  OBVIOUS
<1> QED
  BY <1>1, FS_EmptySet DEF Count, Nothing

LEMMA CountMore ==
  ASSUME NEW n \in Nat, NEW f, NEW g, DOMAIN f = 1 .. n, DOMAIN g = 1 .. n + 1,
         \A i \in 1 .. n : g[i] = f[i], g[n + 1] \in Content
  PROVE  Count(g) = [Count(f) EXCEPT ![g[n + 1]] = @ + 1]
<1> DEFINE At1(c) == {i \in DOMAIN f : f[i] = c}
           At2(c) == {i \in DOMAIN g : g[i] = c}
<1>1. ASSUME NEW c \in Content
      PROVE  Cardinality(At2(c)) = IF g[n + 1] = c THEN Cardinality(At1(c)) + 1 ELSE Cardinality(At1(c))
  <2>1. IsFiniteSet(1 .. n) /\ At1(c) \subseteq 1 .. n
    BY FS_Interval
  <2>2. IsFiniteSet(At1(c))
    BY <2>1, FS_Subset
  <2>3. n + 1 \notin At1(c)
    BY <2>1
  <2>4. \A i \in 1 .. n + 1 : i \in 1 .. n \/ i = n + 1
    OBVIOUS
  <2>5. n + 1 \in 1 .. n + 1 /\ 1 .. n \subseteq 1 .. n + 1
    OBVIOUS
  <2>6. At2(c) = IF g[n + 1] = c THEN At1(c) \cup {n + 1} ELSE At1(c)
    BY <2>4, <2>5
  <2> QED
    BY <2>2, <2>3, <2>6, FS_AddElement
<1> HIDE DEF At1, At2
<1>2. Count(f) = [c \in Content |-> Cardinality(At1(c))] /\ Count(g) = [c \in Content |-> Cardinality(At2(c))]
  BY DEF Count, At1, At2
<1> QED
  BY <1>1, <1>2

---------------------------------------------------------------------------
(* The host, in order.                                                     *)
LEMMA HostGoesOn ==
  ASSUME SInv, UNCHANGED << todo, timeouts, at, reading, cmp, alive >>,
         call'.do = call.do, call'.vec = call.vec, JobIsCall',
         \A v \in Vecs : WorksFor(v)' => WorksFor(v), InOrder => Cursor' /\ Tallied'
  PROVE  SInv'
<1>1. Ordered(todo)'
  BY DEF SInv, Ordered, Follows, Leads, Streams
<1>2. ASSUME Calm' PROVE InOrder'
  <2>1. InOrder
    BY <1>2 DEF SInv, Calm
  <2> QED
    BY <2>1, AttendsHeld DEF InOrder
<1> QED
  BY <1>1, <1>2 DEF SInv

(* It takes a command up, or goes on with one, and leaves the vectors alone. *)
LEMMA HostAside ==
  ASSUME All, SInv, UNCHANGED << client, slots, size, cmp, pop, alive >>,
         call'.do = call.do, call'.vec = call.vec, JobIsCall',
         \A v \in Vecs : WorksFor(v)' => WorksFor(v),
         host \notin {"stored", "rewrite"}, host' \notin {"stored", "rewrite"}
  PROVE  SInv'
<1>1. UNCHANGED << todo, timeouts, at, reading >> /\ UNCHANGED draw
  BY DEF client, draw
<1>2. ASSUME InOrder PROVE Cursor' /\ Tallied'
  <2>1. Cursor'
    BY <1>1, <1>2, CursorStays DEF InOrder
  <2> QED
    BY <1>2, <2>1, TallyPlain DEF InOrder
<1> QED
  BY <1>1, <1>2, HostGoesOn

LEMMA TakeQueryInOrder == ASSUME All, SInv, TakeQuery PROVE SInv'
<1>1. UNCHANGED << client, slots, size, cmp, pop, alive, call >> /\ host = "wait" /\ start /\ start' = FALSE
      /\ host' \in {"stream", "done"} /\ call.do = "query" /\ job' = call.vec
  BY DEF TakeQuery, Dispatch
<1>2. JobIsCall' /\ \A v \in Vecs : WorksFor(v)' => WorksFor(v)
  BY <1>1 DEF JobIsCall, WorksFor
<1> QED
  BY <1>1, <1>2, HostAside

LEMMA TakeSpaceInOrder == ASSUME All, SInv, TakeSpace PROVE SInv'
<1>1. UNCHANGED << client, slots, size, cmp, pop, alive >> /\ host = "wait" /\ start' = FALSE /\ host' = "done"
      /\ call'.do = call.do /\ call'.vec = call.vec
  BY DEF TakeSpace, Dispatch, All, RpcTyped
<1>2. JobIsCall' /\ \A v \in Vecs : WorksFor(v)' => WorksFor(v)
  BY <1>1 DEF JobIsCall, WorksFor
<1> QED
  BY <1>1, <1>2, HostAside

LEMMA TakeCommitInOrder == ASSUME All, SInv, TakeCommit PROVE SInv'
<1>1. UNCHANGED << client, slots, size, cmp, pop, alive, call >> /\ host = "wait" /\ start' = FALSE /\ host' = "commit"
  BY DEF TakeCommit, Dispatch
<1>2. JobIsCall' /\ \A v \in Vecs : WorksFor(v)' => WorksFor(v)
  BY <1>1 DEF JobIsCall, WorksFor
<1> QED
  BY <1>1, <1>2, HostAside

LEMMA TakeOtherInOrder == ASSUME All, SInv, TakeOther PROVE SInv'
<1>1. UNCHANGED << client, slots, size, cmp, pop, alive, call >> /\ host = "wait" /\ start' = FALSE /\ host' = "done"
  BY DEF TakeOther, Dispatch
<1>2. JobIsCall' /\ \A v \in Vecs : WorksFor(v)' => WorksFor(v)
  BY <1>1 DEF JobIsCall, WorksFor
<1> QED
  BY <1>1, <1>2, HostAside

LEMMA ApplyCommitInOrder == ASSUME All, SInv, ApplyCommit PROVE SInv'
<1>1. UNCHANGED << client, slots, size, cmp, pop, alive, call, start, host >> /\ host = "commit"
  BY DEF ApplyCommit, Apply, vecs, rpc
<1>2. JobIsCall' /\ \A v \in Vecs : WorksFor(v)' => WorksFor(v)
  BY <1>1 DEF JobIsCall, WorksFor
<1> QED
  BY <1>1, <1>2, HostAside

LEMMA CommitsAppliedInOrder == ASSUME All, SInv, CommitsApplied PROVE SInv'
<1>1. UNCHANGED << client, slots, size, cmp, pop, alive, start >> /\ host = "commit" /\ host' = "done"
      /\ call'.do = call.do /\ call'.vec = call.vec
  BY DEF CommitsApplied, vecs, All, RpcTyped
<1>2. JobIsCall' /\ \A v \in Vecs : WorksFor(v)' => WorksFor(v)
  BY <1>1 DEF JobIsCall, WorksFor
<1> QED
  BY <1>1, <1>2, HostAside

LEMMA CompleteInOrder == ASSUME All, SInv, Complete PROVE SInv'
<1>1. UNCHANGED << client, slots, size, cmp, pop, alive, call, start >> /\ host = "done" /\ host' = "wait"
  BY DEF Complete, vecs
<1>2. JobIsCall' /\ \A v \in Vecs : WorksFor(v)' => WorksFor(v)
  BY <1>1 DEF JobIsCall, WorksFor
<1> QED
  BY <1>1, <1>2, HostAside

LEMMA HostDiesInOrder == ASSUME All, SInv, HostDies PROVE SInv'
<1>1. UNCHANGED << call, host, job, todo >> /\ alive' = FALSE
  BY DEF HostDies, rpc, client
<1>2. Ordered(todo')
  BY <1>1 DEF SInv
<1> QED
  BY <1>1, <1>2, Impatient DEF Calm

---------------------------------------------------------------------------
(* The host writes.                                                        *)
LEMMA Sized == ASSUME All PROVE \A v \in Vecs : size[v] \in Nat /\ size[v] <= Cap /\ 0 <= size[v]
BY Sizes DEF All, VecsTyped

LEMMA StoreInOrder == ASSUME All, SInv, Store PROVE SInv'
<1> DEFINE k == size[job] + 1
<1>1. /\ UNCHANGED << client, size, cmp, pop, alive, call, start, job >> /\ host = "stream" /\ host' = "stored"
      /\ old' = size[job] /\ job \in Vecs
      /\ \E c : slots' = [slots EXCEPT ![job][k] = c]
  BY DEF Store, rpc, All, HostTyped
<1>2. \A v \in Vecs : \A i \in 1 .. Cap : v # job \/ i # k => slots'[v][i] = slots[v][i]
  <2>1. slots \in [Vecs -> [1 .. Cap -> Content]]
    BY DEF All, VecsTyped
  <2> HIDE DEF k
  <2> QED
    BY <1>1, <2>1
<1>3. \A v \in Vecs : \A i \in 1 .. size[v] : i \in 1 .. Cap /\ (v = job => i # k)
  BY <1>1, Sized, Sizes
<1> HIDE DEF k
<1>4. \A v \in Vecs : \A i \in 1 .. size[v] : slots'[v][i] = slots[v][i]
  BY <1>2, <1>3
<1>5. JobIsCall' /\ \A v \in Vecs : WorksFor(v)' => WorksFor(v)
  BY <1>1 DEF JobIsCall, WorksFor, SInv
<1>6. UNCHANGED << todo, timeouts, at, reading, draw >>
  BY <1>1 DEF client, draw
<1>7. ASSUME InOrder PROVE Cursor' /\ Tallied'
  <2>1. Cursor'
    <3>1. at # "idle" => Vec \in Vecs /\ next <= size[Vec] /\ next \in Nat
      BY <1>7, AtHead DEF InOrder, Cursor, Drawing, All, DrawTyped
    <3>2. at # "idle" => \A i \in 1 .. next : i \in 1 .. size[Vec]
      BY <3>1, Sized
    <3>3. at # "idle" => size'[Vec] \in Nat /\ size'[Vec] >= size[Vec]
      BY <1>1, <3>1, Sized
    <3>4. at # "idle" => \A i \in 1 .. next : slots'[Vec][i] = slots[Vec][i]
      BY <1>4, <3>1, <3>2
    <3> QED
      BY <1>6, <1>7, <3>3, <3>4, CursorHeld DEF InOrder
  <2>2. \A v \in Vecs : Prefix(v, size[v])' = Prefix(v, size[v])
    BY <1>1, <1>4 DEF Prefix
  <2>3. \A v \in Vecs : Count(Prefix(v, size[v]))' = Count(Prefix(v, size[v]))
    BY <2>2 DEF Count
  <2>4. Tallied'
    BY <1>1, <1>7, <2>3 DEF InOrder, Tallied, Rewrites
  <2> QED
    BY <2>1, <2>4
<1> QED
  BY <1>1, <1>5, <1>6, <1>7, HostGoesOn

LEMMA PublishInOrder == ASSUME All, SInv, Publish PROVE SInv'
<1>1. /\ UNCHANGED << client, slots, cmp, alive, call, start, job >> /\ host = "stored" /\ host' = "stream"
      /\ size' = [size EXCEPT ![job] = old + 1] /\ job \in Vecs /\ old \in Nat /\ old + 1 \in 1 .. Cap
      /\ pop' = [pop EXCEPT ![job][slots[job][old + 1]] = @ + 1]
  <2>1. old + 1 \in 1 .. Cap /\ job \in Vecs /\ old \in Nat
    BY Sizes DEF Publish, All, Working, HostTyped
  <2> QED
    BY <2>1 DEF Publish, rpc
<1>2. \A v \in Vecs : size'[v] = IF v = job THEN old + 1 ELSE size[v]
  BY <1>1 DEF All, VecsTyped
<1>3. JobIsCall' /\ \A v \in Vecs : WorksFor(v)' => WorksFor(v)
  BY <1>1 DEF JobIsCall, WorksFor, SInv
<1>4. UNCHANGED << todo, timeouts, at, reading, draw >>
  BY <1>1 DEF client, draw
<1>5. ASSUME InOrder PROVE Cursor' /\ Tallied'
  <2>1. old = size[job]
    BY <1>1, <1>5 DEF InOrder, Tallied
  <2>2. \A v \in Vecs : size'[v] \in Nat /\ size'[v] >= size[v]
    BY <1>1, <1>2, <2>1, Sized
  <2>3. Cursor'
    <3>1. at # "idle" => Vec \in Vecs
      BY <1>5, AtHead DEF InOrder, Cursor, Drawing
    <3> QED
      BY <1>1, <1>4, <1>5, <2>2, <3>1, CursorHeld DEF InOrder
  <2>4. \A v \in Vecs : pop[v] = Count(Prefix(v, size[v])) /\ (v # job => pop'[v] = pop[v])
    BY <1>1, <1>5 DEF InOrder, Tallied, Rewrites, All, VecsTyped
  <2>5. \A v \in Vecs : v # job => pop'[v] = Count(Prefix(v, size[v]))'
    <3>1. \A v \in Vecs : v # job => Prefix(v, size[v])' = Prefix(v, size[v])
      BY <1>1, <1>2 DEF Prefix
    <3>2. \A v \in Vecs : v # job => Count(Prefix(v, size[v]))' = Count(Prefix(v, size[v]))
      BY <3>1 DEF Count
    <3> QED
      BY <2>4, <3>2
  <2>6. pop'[job] = Count(Prefix(job, size[job]))'
    <3> DEFINE f == Prefix(job, old)
               g == Prefix(job, old + 1)
    <3>1. /\ DOMAIN f = 1 .. old /\ DOMAIN g = 1 .. old + 1 /\ \A i \in 1 .. old : g[i] = f[i]
          /\ g[old + 1] = slots[job][old + 1]
      BY <1>1 DEF Prefix
    <3>2. slots[job][old + 1] \in Content
      <4>1. slots \in [Vecs -> [1 .. Cap -> Content]]
        BY DEF All, VecsTyped
      <4> QED
        BY <1>1, <4>1
    <3>3. Prefix(job, size[job])' = g
      BY <1>1, <1>2 DEF Prefix
    <3>4. Count(Prefix(job, size[job]))' = Count(g)
      BY <3>3 DEF Count
    <3>5. pop[job] = Count(f)
      BY <1>1, <2>1, <2>4
    <3> HIDE DEF f, g
    <3>6. Count(g) = [Count(f) EXCEPT ![slots[job][old + 1]] = @ + 1]
      BY <1>1, <3>1, <3>2, CountMore
    <3>7. pop'[job] = [pop[job] EXCEPT ![slots[job][old + 1]] = @ + 1]
      BY <1>1 DEF All, VecsTyped
    <3> QED
      BY <3>4, <3>5, <3>6, <3>7
  <2>7. Tallied'
    BY <1>1, <2>5, <2>6 DEF Tallied, Rewrites
  <2> QED
    BY <2>3, <2>7
<1> QED
  BY <1>1, <1>3, <1>4, <1>5, HostGoesOn

LEMMA EndWriteInOrder == ASSUME All, SInv, EndWrite PROVE SInv'
<1>1. /\ UNCHANGED << client, slots, size, pop, alive, call, start, job, old, plan, put >>
      /\ host = "stream" /\ host' = "done" /\ ~start /\ job \in Vecs
      /\ cmp' = [cmp EXCEPT ![job] = TRUE] /\ cmp \in [Vecs -> BOOLEAN]
  BY DEF EndWrite, rpc, local, All, HostTyped, VecsTyped, Progress
<1>2. JobIsCall' /\ \A v \in Vecs : ~WorksFor(v)'
  BY <1>1 DEF JobIsCall, WorksFor
<1>3. UNCHANGED << todo, timeouts, at, reading, draw >>
  BY <1>1 DEF client, draw
<1>4. Ordered(todo)'
  BY <1>3 DEF SInv, Ordered, Follows, Leads, Streams
<1>5. ASSUME Calm' PROVE InOrder'
  <2>1. InOrder
    BY <1>1, <1>3, <1>5 DEF SInv, Calm
  <2>2. \A v : Awaits(v) => Awaits(v)'
    BY <1>3 DEF Awaits, Streams, ReadsHead
  <2>3. job # "distant" => Awaits(job)
    BY <1>1, <2>1 DEF SInv, JobIsCall, InOrder, Attends, WorksFor
  <2>4. Completions'
    BY <1>1, <2>1, <2>2, <2>3 DEF InOrder, Completions
  <2>5. Attends'
    BY <1>2 DEF Attends
  <2>6. Cursor'
    BY <1>1, <1>3, <2>1, CursorStays DEF InOrder
  <2>7. Tallied'
    BY <1>1, <2>1, TallyPlain DEF InOrder
  <2> QED
    BY <2>4, <2>5, <2>6, <2>7 DEF InOrder
<1> QED
  BY <1>2, <1>4, <1>5 DEF SInv

LEMMA SortedSize == ASSUME All, NEW v \in Vecs, NEW p \in Sorted(v) PROVE size[v] <= Len(p)
<1>1. PICK n \in size[v] .. Cap + 1 : p \in [1 .. n -> Showable(v) \cup {Held(v)[i] : i \in 1 .. size[v]}]
  BY DEF Sorted
<1>2. n \in Nat /\ size[v] <= n /\ DOMAIN p = 1 .. n
  BY <1>1, Sized, Sizes
<1>3. p \in Seq(Content)
  BY SortedLive
<1> QED
  BY <1>2, <1>3

LEMMA RewritingInOrder ==
  ASSUME All, SInv, Dispatch(call.do), call.do \in {"sorted", "sort"},
         NEW p \in Sorted(call.vec), Rewriting(p), UNCHANGED call
  PROVE  SInv'
<1>1. /\ UNCHANGED << client, slots, size, cmp, call, alive >>
      /\ host = "wait" /\ start /\ start' = FALSE /\ job' = call.vec /\ call.vec \in Vecs
      /\ host' = "rewrite" /\ plan' = p /\ put' = 0 /\ old' = size[call.vec]
      /\ pop' = [pop EXCEPT ![call.vec] = Count(p)]
  BY DEF Dispatch, Rewriting, All, RpcTyped
<1>2. JobIsCall' /\ \A v \in Vecs : WorksFor(v)' => WorksFor(v)
  BY <1>1 DEF JobIsCall, WorksFor
<1>3. UNCHANGED << todo, timeouts, at, reading, draw >>
  BY <1>1 DEF client, draw
<1>4. ASSUME InOrder PROVE Cursor' /\ Tallied'
  <2>1. Cursor'
    BY <1>1, <1>3, <1>4, CursorStays DEF InOrder
  <2>2. \A v \in Vecs : Count(Prefix(v, size[v]))' = Count(Prefix(v, size[v]))
    BY <1>1 DEF Prefix, Count
  <2>3. \A v \in Vecs : v # job' => pop'[v] = Count(Prefix(v, size[v]))'
    BY <1>1, <1>4, <2>2 DEF InOrder, Tallied, Rewrites, All, VecsTyped
  <2>4. pop'[job'] = Count(plan') /\ Count(plan)' = Count(plan')
    BY <1>1 DEF All, VecsTyped, Count
  <2>5. old' <= Len(plan') /\ size'[job'] = old' /\ put' <= old'
    BY <1>1, SortedSize, Sized
  <2>6. \A i \in 1 .. put' : slots'[job'][i] = plan'[i]
    BY <1>1
  <2> QED
    BY <1>1, <2>1, <2>3, <2>4, <2>5, <2>6 DEF Tallied, Rewrites
<1> QED
  BY <1>1, <1>2, <1>3, <1>4, HostGoesOn

LEMMA TakeSortInOrder == ASSUME All, SInv, TakeSort PROVE SInv'
<1>1. PICK p \in Sorted(call.vec) : Len(p) = size[call.vec] /\ Rewriting(p)
  BY DEF TakeSort
<1>2. Dispatch(call.do) /\ call.do = "sort" /\ UNCHANGED call
  BY DEF TakeSort, Dispatch
<1> QED
  BY <1>1, <1>2, RewritingInOrder

LEMMA TakeSortedInOrder == ASSUME All, SInv, TakeSorted PROVE SInv'
<1>1. Dispatch(call.do) /\ call.do = "sorted" /\ UNCHANGED call
  BY DEF TakeSorted, Dispatch
<1>2. CASE \E p \in Sorted(call.vec) : Len(p) <= Cap /\ Rewriting(p)
  BY <1>1, <1>2, RewritingInOrder
<1>3. CASE host' = "done" /\ UNCHANGED << pop, local >>
  <2>1. UNCHANGED << client, slots, size, cmp, pop, alive, call >> /\ host = "wait" /\ start' = FALSE /\ host' = "done"
    BY <1>1, <1>3 DEF Dispatch
  <2>2. JobIsCall' /\ \A v \in Vecs : WorksFor(v)' => WorksFor(v)
    BY <2>1 DEF JobIsCall, WorksFor
  <2> QED
    BY <2>1, <2>2, HostAside
<1> QED
  BY <1>2, <1>3 DEF TakeSorted

(* A sorted result is written back while the render thread waits.          *)
LEMMA WriteBackInOrder == ASSUME All, SInv, WriteBack PROVE SInv'
<1> DEFINE n == put + 1
           k == IF n <= old THEN n ELSE size[job] + 1
<1>1. /\ UNCHANGED << client, cmp, pop, call, start, alive, host, job, old, plan >>
      /\ host = "rewrite" /\ put' = n /\ put \in Nat /\ put < Len(plan) /\ job \in Vecs /\ old \in Nat
      /\ Len(plan) \in Nat /\ Len(plan) <= Cap /\ Cap \in Nat
  BY Sizes DEF WriteBack, rpc, All, HostTyped, Working
<1>2. slots' = [slots EXCEPT ![job][k] = plan[n]]
  BY <1>1 DEF WriteBack
<1>3. size' = IF n <= old THEN size ELSE [size EXCEPT ![job] = size[job] + 1]
  BY <1>1 DEF WriteBack
<1>4. JobIsCall' /\ \A v \in Vecs : WorksFor(v)' => WorksFor(v)
  BY <1>1 DEF JobIsCall, WorksFor, SInv
<1>5. UNCHANGED << todo, timeouts, at, reading, draw >>
  BY <1>1 DEF client, draw
<1>6. ASSUME InOrder PROVE Cursor' /\ Tallied'
  <2>1. WorksFor(job) /\ call.do \in {"sorted", "sort"}
    BY <1>1 DEF SInv, JobIsCall, WorksFor
  <2>2. Leads(todo, 1, "wait")
    BY <1>1, <1>6, <2>1 DEF InOrder, Attends
  <2>3. at = "idle"
    BY <1>6, <2>2, RestsIdle DEF InOrder, Leads
  <2>4. Cursor'
    BY <1>5, <1>6, <2>3, CursorIdle DEF InOrder
  <2>5. /\ pop[job] = Count(plan) /\ old <= Len(plan) /\ size[job] = IF put <= old THEN old ELSE put
        /\ \A i \in 1 .. put : slots[job][i] = plan[i]
    BY <1>1, <1>6 DEF InOrder, Tallied
  <2>6. k = n /\ n \in 1 .. Cap /\ (n > old => size[job] + 1 = n) /\ (n <= old => size[job] = old)
    BY <1>1, <2>5
  <2>7. size'[job] = (IF n <= old THEN old ELSE n)
        /\ \A v \in Vecs : v # job => size'[v] = size[v]
    BY <1>1, <1>3, <2>6 DEF All, VecsTyped
  <2>8. /\ slots'[job][n] = plan[n]
        /\ \A v \in Vecs : \A i \in 1 .. Cap : v # job \/ i # n => slots'[v][i] = slots[v][i]
    <3>1. slots' = [slots EXCEPT ![job][n] = plan[n]] /\ n \in 1 .. Cap
      BY <1>2, <2>6
    <3> HIDE DEF n
    <3> QED
      BY <1>1, <3>1 DEF All, VecsTyped
  <2>9. \A i \in 1 .. n : slots'[job][i] = plan[i]
    <3>1. \A i \in 1 .. n : i = n \/ (i \in 1 .. put /\ i # n /\ i \in 1 .. Cap)
      BY <1>1, <2>6
    <3> HIDE DEF n
    <3> QED
      BY <1>1, <2>5, <2>8, <3>1
  <2>10. \A v \in Vecs : v # job => pop'[v] = Count(Prefix(v, size[v]))'
    <3>1. \A v \in Vecs : \A i \in 1 .. size[v] : i \in 1 .. Cap
      BY Sized, Sizes
    <3>2. \A v \in Vecs : v # job => Prefix(v, size[v])' = Prefix(v, size[v])
      BY <2>7, <2>8, <3>1 DEF Prefix
    <3>3. \A v \in Vecs : v # job => Count(Prefix(v, size[v]))' = Count(Prefix(v, size[v]))
      BY <3>2 DEF Count
    <3> QED
      BY <1>1, <1>6, <3>3 DEF InOrder, Tallied, Rewrites
  <2>11. Count(plan)' = Count(plan)
    BY <1>1 DEF Count
  <2> HIDE DEF n
  <2>12. Tallied'
    BY <1>1, <2>5, <2>7, <2>9, <2>10, <2>11 DEF Tallied, Rewrites
  <2> QED
    BY <2>4, <2>12
<1> QED
  BY <1>1, <1>4, <1>5, <1>6, HostGoesOn

LEMMA WrittenBackInOrder == ASSUME All, SInv, WrittenBack PROVE SInv'
<1>1. /\ UNCHANGED << client, slots, size, cmp, pop, call, start, alive, job >>
      /\ host = "rewrite" /\ host' = "done" /\ put = Len(plan) /\ plan \in Seq(Content) /\ old \in Nat /\ job \in Vecs
  BY DEF WrittenBack, vecs, rpc, All, HostTyped
<1>2. JobIsCall' /\ \A v \in Vecs : WorksFor(v)' => WorksFor(v)
  BY <1>1 DEF JobIsCall, WorksFor
<1>3. UNCHANGED << todo, timeouts, at, reading, draw >>
  BY <1>1 DEF client, draw
<1>4. ASSUME InOrder PROVE Cursor' /\ Tallied'
  <2>1. Cursor'
    BY <1>1, <1>3, <1>4, CursorStays DEF InOrder
  <2>2. /\ pop[job] = Count(plan) /\ old <= Len(plan) /\ size[job] = IF put <= old THEN old ELSE put
        /\ \A i \in 1 .. put : slots[job][i] = plan[i]
    BY <1>1, <1>4 DEF InOrder, Tallied
  <2>3. size[job] = Len(plan)
    BY <1>1, <2>2
  <2>4. Prefix(job, size[job]) = plan
    BY <1>1, <2>2, <2>3 DEF Prefix
  <2>5. \A v \in Vecs : pop[v] = Count(Prefix(v, size[v]))
    BY <1>4, <2>2, <2>4 DEF InOrder, Tallied, Rewrites
  <2>6. \A v \in Vecs : Count(Prefix(v, size[v]))' = Count(Prefix(v, size[v]))
    BY <1>1 DEF Prefix, Count
  <2>7. Tallied'
    BY <1>1, <2>5, <2>6 DEF Tallied, Rewrites
  <2> QED
    BY <2>1, <2>7
<1> QED
  BY <1>1, <1>2, <1>3, <1>4, HostGoesOn

---------------------------------------------------------------------------
(* The render thread, in order.                                            *)
LEMMA OnlyHead == ASSUME All, NEW do, At(do) PROVE \A other : Leads(todo, 1, other) => other = do
BY AtHead DEF Leads

LEMMA GoesOrdered == ASSUME All, SInv, todo # << >>, todo' = Tail(todo) PROVE Ordered(todo')
BY HeadKnown, TailRest, RestOrdered DEF SInv

LEMMA FailsOrdered == ASSUME All, SInv, todo # << >>, todo' = Failed PROVE Ordered(todo')
<1> DEFINE k == todo[1].skip + 2
<1>1. todo \in Seq(Ops) /\ k \in Nat /\ k >= 2 /\ Head(todo) = todo[1]
  BY HeadKnown, OpKnown
<1>2. todo' = SubSeq(todo, k, Len(todo))
  BY <1>1 DEF Failed
<1> HIDE DEF k
<1> QED
  BY <1>1, <1>2, CutOrdered DEF SInv

LEMMA Steady == ASSUME UNCHANGED << vecs, server >> PROVE Tallied => Tallied'
BY TallyHeld DEF vecs, server, local

LEMMA GivenUp ==
  ASSUME All, SInv, todo # << >>, todo' = Failed, Unanswered, UNCHANGED << call, host, job, alive >>
  PROVE  SInv'
<1>1. timeouts \in Nat
  BY Sizes DEF All, ClientTyped
<1>2. ~Calm'
  BY <1>1 DEF Unanswered, Calm
<1> QED
  BY <1>2, FailsOrdered, Impatient

LEMMA RefusedInOrder == ASSUME All, SInv, Refused PROVE SInv'
<1>1. todo # << >> /\ todo' = Failed /\ Unanswered /\ UNCHANGED << call, host, job, alive >>
  BY CallOp DEF Refused, rpc, server
<1> QED
  BY <1>1, GivenUp

LEMMA WaitFailsInOrder == ASSUME All, SInv, WaitFails PROVE SInv'
<1>1. todo # << >> /\ todo' = Failed /\ Unanswered /\ UNCHANGED << call, host, job, alive >>
  BY WaitOp DEF WaitFails, rpc, server
<1> QED
  BY <1>1, GivenUp

LEMMA StartInOrder == ASSUME All, SInv, Start, UNCHANGED session PROVE SInv'
<1>1. /\ UNCHANGED << vecs, server, call, start, host, job, cmp, draw, alive >> /\ timeouts' = timeouts /\ todo = << >>
  BY DEF Start, vecs, rpc, server
<1>2. Ordered(todo')
  <2>1. PICK pass \in session.passes : todo' \in Scripts(pass)
    BY DEF Start
  <2>2. session.passes \subseteq PassNames
    BY VisibleSetsAssumption DEF All, ClientTyped, VisibleSetsAssumption
  <2> QED
    BY <2>1, <2>2, ScriptsInTurn DEF InTurn
<1>3. \A do : ~Leads(todo, 1, do)
  BY <1>1 DEF Leads
<1> QED
  BY <1>1, <1>2, <1>3, ClientAside, Steady

LEMMA WaitInOrder == ASSUME All, SInv, Wait PROVE SInv'
<1>1. /\ UNCHANGED << vecs, server, call, start, host, job, cmp, draw, alive >> /\ timeouts' = timeouts
      /\ At("wait") /\ AwaitAnswer
  BY DEF Wait, vecs, server
<1>2. Ordered(todo')
  BY <1>1, AtHead, GoesOrdered DEF AwaitAnswer
<1> QED
  BY <1>1, <1>2, ClientAside, OnlyHead, Steady, Waiting DEF AwaitAnswer, Answered

LEMMA FoundInOrder == ASSUME All, SInv, Found PROVE SInv'
<1>1. /\ UNCHANGED << vecs, server, call, start, host, job, cmp, draw, alive >> /\ timeouts' = timeouts
      /\ At("found") /\ AwaitAnswer
  BY DEF Found, vecs, server
<1>2. Ordered(todo')
  BY <1>1, AtHead, GoesOrdered DEF AwaitAnswer
<1> QED
  BY <1>1, <1>2, ClientAside, OnlyHead, Steady

LEMMA ConfirmInOrder == ASSUME All, SInv, Confirm PROVE SInv'
<1>1. /\ UNCHANGED << vecs, server, call, start, host, job, cmp, draw, alive >> /\ timeouts' = timeouts
      /\ At("confirm") /\ AwaitAnswer
  BY DEF Confirm, vecs, server
<1>2. Ordered(todo')
  BY <1>1, AtHead, GoesOrdered DEF AwaitAnswer
<1> QED
  BY <1>1, <1>2, ClientAside, OnlyHead, Steady

LEMMA PollInOrder == ASSUME All, SInv, Poll PROVE SInv'
<1>1. /\ UNCHANGED << vecs, server, call, start, host, job, cmp, draw, alive >> /\ timeouts' = timeouts
      /\ At("poll") /\ (todo' = Tail(todo) \/ todo' = Failed)
  BY DEF Poll, vecs, server
<1>2. Ordered(todo')
  BY <1>1, AtHead, GoesOrdered, FailsOrdered
<1> QED
  BY <1>1, <1>2, ClientAside, OnlyHead, Steady

LEMMA UnlistInOrder == ASSUME All, SInv, Unlist PROVE SInv'
<1>1. /\ UNCHANGED << vecs, server, call, start, host, job, cmp, draw, alive >> /\ timeouts' = timeouts
      /\ At("unlist") /\ (todo' = Tail(todo) \/ todo' = Failed)
  BY DEF Unlist, vecs, server
<1>2. Ordered(todo')
  BY <1>1, AtHead, GoesOrdered, FailsOrdered
<1> QED
  BY <1>1, <1>2, ClientAside, OnlyHead, Steady

LEMMA ListInOrder == ASSUME All, SInv, List PROVE SInv'
<1>1. /\ UNCHANGED << vecs, server, call, start, host, job, cmp, draw, alive >> /\ timeouts' = timeouts
      /\ At("list") /\ (todo' = Tail(todo) \/ todo' = Failed)
  BY DEF List, vecs, server
<1>2. Ordered(todo')
  BY <1>1, AtHead, GoesOrdered, FailsOrdered
<1> QED
  BY <1>1, <1>2, ClientAside, OnlyHead, Steady

LEMMA PushCommitInOrder == ASSUME All, SInv, PushCommit PROVE SInv'
<1>1. UNCHANGED << vecs, server, call, start, host, job, cmp, draw, alive >> /\ timeouts' = timeouts
  BY DEF PushCommit, vecs, server
<1>2. PICK do \in {"remove", "admit"} : At(do)
  BY DEF PushCommit
<1>3. todo' = Tail(todo) \/ todo' = todo
  BY DEF PushCommit
<1>4. Ordered(todo')
  BY <1>2, <1>3, AtHead, GoesOrdered DEF SInv
<1> QED
  BY <1>1, <1>2, <1>4, ClientAside, OnlyHead, Steady

LEMMA ReleaseInOrder == ASSUME All, SInv, Release PROVE SInv'
<1>1. /\ UNCHANGED << size, pop, call, start, host, job, old, put, cmp, draw, alive >> /\ timeouts' = timeouts
      /\ At("release") /\ AwaitAnswer /\ host = "wait"
  BY Waiting DEF Release, AwaitAnswer, Answered
<1>2. Ordered(todo')
  BY <1>1, AtHead, GoesOrdered DEF AwaitAnswer
<1>3. Empty("distant") /\ Empty("extra")
  BY <1>1, AtLeads DEF All, Removing
<1>4. \A v \in Vecs : \A i \in 1 .. size[v] : i \in 1 .. Cap /\ slots[v][i] = Ground
  <2>1. ASSUME NEW v \in Vecs, NEW i \in 1 .. size[v] PROVE i \in 1 .. Cap /\ slots[v][i] = Ground
    <3>1. size[v] # 0 /\ i \in 1 .. Cap
      BY Sized, Sizes
    <3>2. v \in {"land", "grass"}
      BY <1>3, <3>1 DEF Empty, Vecs
    <3> QED
      BY <3>1, <3>2 DEF All, Contents, Live
  <2> QED
    BY <2>1
<1>5. \A v \in Vecs : \A i \in 1 .. size[v] : slots'[v][i] = slots[v][i]
  <2>1. CASE ~call.reply
    BY <2>1 DEF Release
  <2>2. CASE call.reply
    <3>1. slots' = [v \in Vecs |-> [i \in 1 .. Cap |-> Gone(InState("leaving"), slots[v][i])]]
      BY <2>2 DEF Release
    <3>2. Gone(InState("leaving"), Ground) = Ground
      BY Sizes DEF Gone, InState
    <3> QED
      BY <1>4, <3>1, <3>2
  <2> QED
    BY <2>1, <2>2
<1>6. ASSUME Tallied PROVE Tallied'
  <2>1. \A v \in Vecs : Prefix(v, size[v])' = Prefix(v, size[v])
    BY <1>1, <1>5 DEF Prefix
  <2>2. \A v \in Vecs : Count(Prefix(v, size[v]))' = Count(Prefix(v, size[v]))
    BY <2>1 DEF Count
  <2> QED
    BY <1>1, <1>6, <2>2 DEF Tallied, Rewrites
<1> QED
  BY <1>1, <1>2, <1>6, ClientAside, OnlyHead

(* "Never clear a shared vector the host may be writing."                  *)
LEMMA NotWritten ==
  ASSUME All, JobIsCall, Attends, At("clear")
  PROVE  /\ host # "rewrite"
         /\ host \in {"stream", "stored"} => job # Vec
         /\ \A v \in Vecs : WorksFor(v) /\ call.do \in {"query", "sorted", "sort"} =>
              call.do = "query" /\ v # "distant" /\ Awaits(v) /\ v # Vec
<1>1. \A do : Leads(todo, 1, do) => do = "clear"
  BY OnlyHead
<1>2. todo[1].do = "clear" /\ todo[1].vec = Vec /\ todo \in Seq(Ops)
  BY AtHead DEF All, ClientTyped
<1>3. \A v : Awaits(v) => v # Vec
  BY <1>2, StreamsHead DEF Awaits
<1>4. \A v \in Vecs : WorksFor(v) /\ call.do \in {"query", "sorted", "sort"} =>
        call.do = "query" /\ v # "distant" /\ Awaits(v) /\ v # Vec
  BY <1>1, <1>3 DEF Attends
<1>5. job \in Vecs
  BY DEF All, HostTyped
<1> QED
  BY <1>4, <1>5 DEF JobIsCall, WorksFor

LEMMA ClearInOrder == ASSUME All, SInv, Clear PROVE SInv'
<1>1. /\ UNCHANGED << slots, cmp, call, start, alive, host, job, old, plan, put, timeouts, draw, at, reading >>
      /\ size' = [size EXCEPT ![Vec] = 0] /\ pop' = [pop EXCEPT ![Vec] = Nothing]
      /\ At("clear") /\ todo' = Tail(todo) /\ todo # << >> /\ Vec \in Vecs
  BY AtHead DEF Clear, draw, rpc, server, local
<1>2. JobIsCall' /\ Ordered(todo)'
  <2>1. Ordered(todo')
    BY <1>1, GoesOrdered
  <2> QED
    BY <1>1, <2>1 DEF SInv, JobIsCall
<1>3. ASSUME Calm' PROVE InOrder'
  <2>1. InOrder /\ JobIsCall
    BY <1>1, <1>3 DEF SInv, Calm
  <2>2. \A do : Leads(todo, 1, do) => do = "clear"
    BY <1>1, OnlyHead
  <2>3. at = "idle"
    BY <2>1, <2>2, RestsIdle DEF InOrder
  <2>4. \A v : Awaits(v) => Awaits(v)'
    <3>1. \A v : ~ReadsHead(v)
      BY <1>1, AtHead DEF ReadsHead
    <3> QED
      BY <1>1, <2>3, <3>1, AwaitsGoes
  <2>5. Attends'
    <3>1. ASSUME NEW v \in Vecs, WorksFor(v)', call'.do \in {"query", "sorted", "sort"}
          PROVE  call'.do = "query" /\ v # "distant" /\ Awaits(v)' /\ ~cmp'[v]
      <4>1. WorksFor(v) /\ call.do \in {"query", "sorted", "sort"}
        BY <1>1, <3>1 DEF WorksFor
      <4>2. call.do = "query" /\ v # "distant" /\ Awaits(v)
        BY <1>1, <2>1, <4>1, NotWritten DEF InOrder
      <4>3. ~cmp[v]
        BY <2>1, <4>1, <4>2 DEF InOrder, Attends
      <4> QED
        BY <1>1, <2>4, <4>2, <4>3
    <3> QED
      BY <3>1 DEF Attends
  <2>6. Completions'
    BY <1>1, <2>1, <2>4 DEF InOrder, Completions
  <2>7. Cursor'
    BY <1>1, <2>1, <2>3, CursorIdle DEF InOrder
  <2>8. Tallied'
    <3>1. host # "rewrite" /\ (host \in {"stream", "stored"} => job # Vec)
      BY <1>1, <2>1, NotWritten DEF InOrder
    <3>2. \A v \in Vecs : /\ v # Vec => size'[v] = size[v] /\ pop'[v] = pop[v]
                          /\ size'[Vec] = 0 /\ pop'[Vec] = Nothing
      BY <1>1 DEF All, VecsTyped
    <3>3. Count(Prefix(Vec, 0)) = Nothing
      <4>1. DOMAIN Prefix(Vec, 0) = {}
        BY DEF Prefix
      <4> HIDE DEF Prefix
      <4> QED
        BY <4>1, CountNothing
    <3>4. ASSUME NEW v \in Vecs PROVE pop'[v] = Count(Prefix(v, size[v]))'
      <4>1. CASE v = Vec
        <5>1. Prefix(v, size[v])' = Prefix(Vec, 0)
          BY <1>1, <3>2, <4>1 DEF Prefix
        <5>2. Count(Prefix(v, size[v]))' = Count(Prefix(Vec, 0))
          BY <5>1 DEF Count
        <5> QED
          BY <3>2, <3>3, <4>1, <5>2
      <4>2. CASE v # Vec
        <5>1. Prefix(v, size[v])' = Prefix(v, size[v])
          BY <1>1, <3>2, <4>2 DEF Prefix
        <5>2. Count(Prefix(v, size[v]))' = Count(Prefix(v, size[v]))
          BY <5>1 DEF Count
        <5>3. pop[v] = Count(Prefix(v, size[v]))
          BY <2>1, <3>1 DEF InOrder, Tallied, Rewrites
        <5> QED
          BY <3>2, <4>2, <5>2, <5>3
      <4> QED
        BY <4>1, <4>2
    <3>5. job \in Vecs
      BY DEF All, HostTyped
    <3>6. host = "stored" => old' = size'[job']
      BY <1>1, <2>1, <3>1, <3>2, <3>5 DEF InOrder, Tallied
    <3> QED
      BY <1>1, <3>1, <3>4, <3>6 DEF Tallied
  <2> QED
    BY <2>5, <2>6, <2>7, <2>8 DEF InOrder
<1> QED
  BY <1>2, <1>3 DEF SInv

LEMMA BeginInOrder == ASSUME All, SInv, Begin PROVE SInv'
<1>1. /\ UNCHANGED << slots, size, pop, cmp, alive, host, job, old, plan, put, timeouts, draw, at, reading >>
      /\ todo # << >> /\ todo[1].do \in Calls /\ Vec \in Vecs /\ Vec = todo[1].vec /\ todo' = Tail(todo)
      /\ call' = [do |-> todo[1].do, vec |-> Vec, reply |-> FALSE] /\ host = "wait"
  <2>1. PICK c \in Calls : At(c)
    BY DEF Begin
  <2>2. todo # << >> /\ todo[1].do \in Calls /\ Vec \in Vecs /\ Vec = todo[1].vec /\ Head(todo) = todo[1]
    BY <2>1, AtHead, HeadKnown
  <2> QED
    BY <2>2, Waiting DEF Begin, vecs, server, local, draw, Free, Answered
<1>2. call'.do = todo[1].do /\ call'.vec = Vec
  BY <1>1
<1>3. JobIsCall' /\ Ordered(todo)'
  <2>1. Ordered(todo')
    BY <1>1, GoesOrdered
  <2> QED
    BY <1>1, <2>1 DEF JobIsCall
<1>4. ASSUME Calm' PROVE InOrder'
  <2>1. InOrder /\ Ordered(todo)
    BY <1>1, <1>4 DEF SInv, Calm
  <2>2. todo \in Seq(Ops) /\ Tail(todo) \in Seq(Ops) /\ Rest(Tail(todo), todo, 1)
    BY <1>1, HeadKnown, TailRest
  <2>3. 1 \in 1 .. Len(todo)
    BY <1>1, <2>2, Dropped
  <2>4. Follows(todo, 1)
    BY <2>1, <2>3 DEF Ordered
  <2>5. todo[1].do \notin {"draw", "stream", "clear", "wait"}
    BY <1>1 DEF Calls
  <2>6. at = "idle"
    BY <2>1, <2>5, RestsIdle DEF InOrder, Leads
  <2>7. \A v : Awaits(v) => Awaits(v)' /\ (v = Vec => FALSE)
    <3>1. ASSUME NEW v, Awaits(v) PROVE Awaits(v)' /\ v # Vec
      <4>1. ~ReadsHead(v)
        BY <2>5 DEF ReadsHead
      <4>2. v # Vec
        BY <1>1, <2>2, <2>5, <3>1, StreamsHead DEF Awaits
      <4> QED
        BY <1>1, <2>6, <3>1, <4>1, <4>2, AwaitsGoes
    <3> QED
      BY <3>1
  <2>8. Completions'
    BY <1>1, <2>1, <2>7 DEF InOrder, Completions
  <2>9. /\ \A do : Leads(todo, 1 + 1, do) => Leads(Tail(todo), 1, do)
        /\ \A v : Streams(todo, 1 + 1, v) => Streams(Tail(todo), 1, v)
    <3>1. 1 \in Nat \ {0}
      OBVIOUS
    <3> QED
      BY <2>2, <3>1, RestLeads, RestStreams
  <2>10. /\ todo[1].do \in {"sorted", "sort"} => Leads(Tail(todo), 1, "wait")
         /\ todo[1].do = "query" /\ Vec = "distant" => Leads(Tail(todo), 1, "query") \/ Leads(Tail(todo), 1, "sort")
         /\ todo[1].do = "query" /\ Vec # "distant" => Streams(Tail(todo), 1, Vec)
    BY <1>1, <2>4, <2>9 DEF Follows
  <2>11. \A v : Streams(Tail(todo), 1, v) => Awaits(v)'
    BY <1>1, <2>6 DEF Awaits
  <2>12. \A do : Leads(Tail(todo), 1, do) => Leads(todo, 1, do)'
    BY <1>1 DEF Leads
  <2>13. Attends'
    <3>1. ASSUME NEW v \in Vecs, WorksFor(v)' PROVE v = Vec
      BY <1>2, <3>1 DEF WorksFor
    <3>2. Vec # "distant" => ~cmp'[Vec]
      BY <1>1, <2>1, <2>7 DEF InOrder, Completions
    <3> HIDE DEF Vec
    <3> QED
      BY <1>2, <2>10, <2>11, <2>12, <3>1, <3>2 DEF Attends
  <2>14. Cursor'
    BY <1>1, <2>1, <2>6, CursorIdle DEF InOrder
  <2>15. Tallied'
    BY <1>1, <2>1, TallyHeld DEF InOrder
  <2> QED
    BY <2>8, <2>13, <2>14, <2>15 DEF InOrder
<1> QED
  BY <1>3, <1>4 DEF SInv

---------------------------------------------------------------------------
(* VisibleSet::Render, in order.                                           *)
LEMMA DrawBeginInOrder == ASSUME All, SInv, DrawBegin PROVE SInv'
<1>1. /\ UNCHANGED << slots, size, pop, cmp, call, start, server, todo, timeouts, next, drawn >> /\ Drawing /\ at = "idle"
      /\ \/ At("stream") /\ at' = "first" /\ reading' = TRUE
         \/ ~At("stream") /\ at' = "loop" /\ reading' = reading
  BY DEF DrawBegin, vecs, rpc
<1>2. Vec \in Vecs /\ size[Vec] \in Nat /\ Vec' = Vec /\ (Drawing' <=> Drawing) /\ (At("stream")' <=> At("stream"))
  BY <1>1, DrawOp, Sized DEF Vec, Drawing, At
<1>3. ASSUME Cursor PROVE Cursor'
  <2>1. next = 0 /\ drawn = Nothing /\ ~reading
    BY <1>1, <1>3 DEF Cursor
  <2>2. Count(Prefix(Vec, 0)) = Nothing
    <3>1. DOMAIN Prefix(Vec, 0) = {}
      BY DEF Prefix
    <3> HIDE DEF Prefix
    <3> QED
      BY <3>1, CountNothing
  <2>3. Prefix(Vec, next)' = Prefix(Vec, 0)
    BY <1>1, <1>2, <2>1 DEF Prefix
  <2>4. Count(Prefix(Vec, next))' = Nothing
    BY <2>2, <2>3 DEF Count
  <2>5. next' <= size'[Vec]
    BY <1>1, <1>2, <2>1
  <2> HIDE DEF Vec, Drawing
  <2> QED
    BY <1>1, <1>2, <2>1, <2>4, <2>5 DEF Cursor
<1> QED
  BY <1>1, <1>3, DrawsOn

LEMMA TakeUpdateInOrder == ASSUME All, SInv, TakeUpdate PROVE SInv'
<1>1. UNCHANGED << slots, size, pop, cmp, call, start, server, todo, timeouts, draw, at, reading >>
  BY DEF TakeUpdate, rpc, client, draw
<1> QED
  BY <1>1, CursorStays, DrawsOn

(* A wait that ends on an element finds one beyond the cursor.             *)
LEMMA ReadOnInOrder == ASSUME All, SInv, ReadOn PROVE SInv'
<1>1. /\ UNCHANGED << slots, size, pop, cmp, call, start, server, todo, timeouts, reading, next, seen, drawn >>
      /\ at \in {"first", "more"} /\ (reading => size[Vec] # seen) /\ at' = IF at = "first" THEN "loop" ELSE "check"
  BY DEF ReadOn, Reading, NothingNew, AfterRead, vecs, rpc
<1>2. /\ Vec' = Vec /\ (Drawing' <=> Drawing) /\ (At("stream")' <=> At("stream"))
      /\ Count(Prefix(Vec, next))' = Count(Prefix(Vec, next))
  BY <1>1 DEF Vec, Drawing, At, Prefix, Count
<1>3. ASSUME Cursor PROVE Cursor'
  <2>1. Vec \in Vecs /\ size[Vec] \in Nat /\ next \in Nat
    BY <1>1, <1>3, DrawOp, Sized DEF Cursor, DrawTyped
  <2>2. Drawing /\ next <= size[Vec] /\ drawn = Count(Prefix(Vec, next)) /\ (reading => At("stream"))
        /\ (at = "more" => seen = next)
    BY <1>1, <1>3 DEF Cursor
  <2>3. at' = "check" /\ reading => next < size[Vec]
    BY <1>1, <2>1, <2>2
  <2> HIDE DEF Vec, Drawing
  <2> QED
    BY <1>1, <1>2, <2>2, <2>3 DEF Cursor
<1> QED
  BY <1>1, <1>3, DrawsOn

LEMMA DrawMeshInOrder == ASSUME All, SInv, DrawMesh PROVE SInv'
<1> DEFINE n == next + 1
<1>1. /\ UNCHANGED << slots, size, pop, cmp, call, start, server, todo, timeouts, reading >> /\ Drawing
      /\ at # "idle" /\ at' = "loop" /\ ~(next >= size[Vec]) /\ next' = n
      /\ drawn' = [drawn EXCEPT ![slots[Vec][n]] = @ + 1]
  BY DEF DrawMesh, AtEnd, vecs, rpc
<1>2. Vec \in Vecs /\ size[Vec] \in Nat /\ next \in Nat /\ n \in 1 .. size[Vec] /\ n \in 1 .. Cap
  <2>1. Vec \in Vecs /\ size[Vec] \in Nat /\ next \in Nat /\ size[Vec] <= Cap /\ Cap \in Nat
    BY <1>1, DrawOp, Sized DEF DrawTyped
  <2> QED
    BY <1>1, <2>1
<1>3. Vec' = Vec /\ (Drawing' <=> Drawing) /\ (At("stream")' <=> At("stream"))
  BY <1>1 DEF Vec, Drawing, At
<1>4. ASSUME Cursor PROVE Cursor'
  <2> DEFINE f == Prefix(Vec, next)
             g == Prefix(Vec, n)
  <2>1. drawn = Count(f) /\ (reading => At("stream"))
    BY <1>1, <1>4 DEF Cursor
  <2>2. /\ DOMAIN f = 1 .. next /\ DOMAIN g = 1 .. next + 1 /\ \A i \in 1 .. next : g[i] = f[i]
        /\ g[next + 1] = slots[Vec][n]
    BY <1>2 DEF Prefix
  <2>3. slots[Vec][n] \in Content
    <3>1. slots \in [Vecs -> [1 .. Cap -> Content]]
      BY DEF All, VecsTyped
    <3> HIDE DEF n
    <3> QED
      BY <1>2, <3>1
  <2>4. Prefix(Vec, next)' = g
    BY <1>1, <1>3 DEF Prefix
  <2>5. Count(Prefix(Vec, next))' = Count(g)
    BY <2>4 DEF Count
  <2> HIDE DEF f, g
  <2>6. Count(g) = [Count(f) EXCEPT ![slots[Vec][n]] = @ + 1]
    BY <1>2, <2>2, <2>3, CountMore
  <2>7. drawn' = Count(Prefix(Vec, next))'
    BY <1>1, <2>1, <2>5, <2>6
  <2>8. next' <= size'[Vec]
    BY <1>1, <1>2
  <2> HIDE DEF Vec, Drawing
  <2> QED
    BY <1>1, <1>3, <2>1, <2>7, <2>8 DEF Cursor
<1> QED
  BY <1>1, <1>4, DrawsOn

LEMMA WaitReadInOrder == ASSUME All, SInv, WaitRead PROVE SInv'
<1>1. /\ UNCHANGED << slots, size, pop, cmp, call, start, server, todo, timeouts, reading, next, drawn >> /\ Drawing
      /\ at = "loop" /\ at' = "more" /\ next >= size[Vec] /\ seen' = size[Vec]
  BY DEF WaitRead, AtEnd, vecs, rpc
<1>2. /\ Vec' = Vec /\ (Drawing' <=> Drawing) /\ (At("stream")' <=> At("stream"))
      /\ Count(Prefix(Vec, next))' = Count(Prefix(Vec, next))
  BY <1>1 DEF Vec, Drawing, At, Prefix, Count
<1>3. ASSUME Cursor PROVE Cursor'
  <2>1. Vec \in Vecs /\ size[Vec] \in Nat /\ next \in Nat
    BY <1>1, DrawOp, Sized DEF DrawTyped
  <2>2. next <= size[Vec] /\ drawn = Count(Prefix(Vec, next)) /\ (reading => At("stream"))
    BY <1>1, <1>3 DEF Cursor
  <2>3. seen' = next
    BY <1>1, <2>1, <2>2
  <2> HIDE DEF Vec, Drawing
  <2> QED
    BY <1>1, <1>2, <2>2, <2>3 DEF Cursor
<1> QED
  BY <1>1, <1>3, DrawsOn

(* The completion that ends a read is that of the read's own query.        *)
LEMMA TakeCompleteInOrder == ASSUME All, SInv, TakeComplete PROVE SInv'
<1>1. /\ UNCHANGED << slots, size, pop, call, start, alive, host, job, old, plan, put, todo, timeouts, next, seen, drawn >>
      /\ at \in {"first", "more"} /\ reading /\ cmp[Vec] /\ cmp' = [cmp EXCEPT ![Vec] = FALSE] /\ ~reading'
      /\ at' \in {"loop", "check"}
  BY DEF TakeComplete, Reading, NothingNew, AfterRead, rpc, server, local
<1>2. JobIsCall' /\ Ordered(todo)'
  BY <1>1 DEF SInv, JobIsCall, Ordered, Follows, Leads, Streams
<1>3. ASSUME Calm' PROVE InOrder'
  <2>1. InOrder
    BY <1>1, <1>3 DEF SInv, Calm
  <2>2. At("stream")
    BY <1>1, <2>1 DEF InOrder, Cursor
  <2>3. \A do : Leads(todo, 1, do) => do = "stream"
    BY <2>2, OnlyHead
  <2>4. todo[1].vec = Vec /\ Vec \in Vecs /\ cmp \in [Vecs -> BOOLEAN]
    BY <2>2, AtHead DEF All, VecsTyped
  <2>5. \A v \in Vecs : cmp'[v] = (v # Vec /\ cmp[v])
    BY <1>1, <2>4
  <2>6. ASSUME NEW v \in Vecs, v # Vec, Awaits(v) PROVE Awaits(v)'
    BY <1>1, <2>4, <2>6 DEF Awaits, Streams, ReadsHead
  <2>7. Completions'
    BY <2>1, <2>5, <2>6 DEF InOrder, Completions
  <2>8. Attends'
    <3>1. ASSUME NEW v \in Vecs, WorksFor(v)', call'.do \in {"query", "sorted", "sort"}
          PROVE  call'.do = "query" /\ v # "distant" /\ Awaits(v)' /\ ~cmp'[v]
      <4>1. WorksFor(v)
        BY <1>1, <3>1 DEF WorksFor
      <4>2. call.do = "query" /\ v # "distant" /\ Awaits(v) /\ ~cmp[v]
        BY <1>1, <2>1, <2>3, <3>1, <4>1 DEF InOrder, Attends
      <4> QED
        BY <1>1, <2>5, <2>6, <4>2
    <3> QED
      BY <3>1 DEF Attends
  <2>9. Cursor'
    <3>1. /\ Vec' = Vec /\ (Drawing' <=> Drawing)
          /\ Count(Prefix(Vec, next))' = Count(Prefix(Vec, next))
      BY <1>1 DEF Vec, Drawing, At, Prefix, Count
    <3> HIDE DEF Vec, Drawing
    <3> QED
      BY <1>1, <2>1, <3>1 DEF InOrder, Cursor
  <2>10. Tallied'
    BY <1>1, <2>1, TallyHeld DEF InOrder
  <2> QED
    BY <2>7, <2>8, <2>9, <2>10 DEF InOrder
<1> QED
  BY <1>2, <1>3 DEF SInv

LEMMA Served ==
  ASSUME All, JobIsCall, NEW v \in Vecs, Serving(v)
  PROVE  WorksFor(v) /\ call.do \in {"query", "sorted", "sort"}
BY DEF Serving, JobIsCall, WorksFor

(* A render that ends has seen the completion of what it reads.            *)
LEMMA ReadToTheEnd ==
  ASSUME All, InOrder, Drawing, at = "check", AtEnd(Vec)
  PROVE  /\ ~reading /\ next = size[Vec] /\ \A v : Awaits(v) => ~ReadsHead(v)
         /\ \A v \in Vecs : WorksFor(v) /\ call.do \in {"query", "sorted", "sort"} =>
              call.do = "query" /\ v # "distant" /\ Awaits(v) /\ ~ReadsHead(v)
<1>1. Vec \in Vecs /\ size[Vec] \in Nat /\ next \in Nat /\ next >= size[Vec]
  BY DrawOp, Sized DEF DrawTyped, AtEnd
<1>2. next <= size[Vec] /\ (reading => next < size[Vec])
  BY DEF InOrder, Cursor
<1>3. ~reading /\ next = size[Vec]
  BY <1>1, <1>2
<1>4. \A v : Awaits(v) => ~ReadsHead(v)
  BY <1>3 DEF Awaits
<1>5. PICK do \in {"draw", "stream"} : At(do)
  BY DEF Drawing
<1>6. \A other : Leads(todo, 1, other) => other \in {"draw", "stream"}
  BY <1>5, OnlyHead
<1> QED
  BY <1>3, <1>4, <1>6 DEF InOrder, Attends

LEMMA DrawEndInOrder == ASSUME All, SInv, DrawEnd PROVE SInv'
<1>1. /\ UNCHANGED << slots, size, pop, cmp, call, start, alive, host, job, old, plan, put, timeouts >>
      /\ Drawing /\ at = "check" /\ AtEnd(Vec) /\ todo' = Tail(todo) /\ todo # << >>
      /\ at' = "idle" /\ ~reading' /\ next' = 0 /\ drawn' = Nothing
  BY DrawOp DEF DrawEnd, vecs, rpc, server, local
<1>2. JobIsCall' /\ Ordered(todo)'
  <2>1. Ordered(todo')
    BY <1>1, GoesOrdered
  <2> QED
    BY <1>1, <2>1 DEF SInv, JobIsCall
<1>3. ASSUME Calm' PROVE InOrder'
  <2>1. InOrder
    BY <1>1, <1>3 DEF SInv, Calm
  <2>2. /\ \A v : Awaits(v) => ~ReadsHead(v)
        /\ \A v \in Vecs : WorksFor(v) /\ call.do \in {"query", "sorted", "sort"} =>
             call.do = "query" /\ v # "distant" /\ Awaits(v)
    BY <1>1, <2>1, ReadToTheEnd
  <2>3. \A v : Awaits(v) => Awaits(v)'
    BY <1>1, <2>2, AwaitsGoes
  <2>4. Completions'
    BY <1>1, <2>1, <2>3 DEF InOrder, Completions
  <2>5. Attends'
    <3>1. ASSUME NEW v \in Vecs, WorksFor(v)', call'.do \in {"query", "sorted", "sort"}
          PROVE  call'.do = "query" /\ v # "distant" /\ Awaits(v)' /\ ~cmp'[v]
      <4>1. WorksFor(v)
        BY <1>1, <3>1 DEF WorksFor
      <4>2. call.do = "query" /\ v # "distant" /\ Awaits(v)
        BY <1>1, <2>2, <3>1, <4>1
      <4>3. ~cmp[v]
        BY <2>1, <4>1, <4>2 DEF InOrder, Attends
      <4> QED
        BY <1>1, <2>3, <4>2, <4>3
    <3> QED
      BY <3>1 DEF Attends
  <2>6. Cursor'
    BY <1>1 DEF Cursor
  <2>7. Tallied'
    BY <1>1, <2>1, TallyHeld DEF InOrder
  <2> QED
    BY <2>4, <2>5, <2>6, <2>7 DEF InOrder
<1> QED
  BY <1>2, <1>3 DEF SInv

---------------------------------------------------------------------------
(* The invariant of a patient session, and what follows from it.           *)
LEMMA InitInOrder == Init => SInv
<1> SUFFICES ASSUME Init PROVE SInv
  OBVIOUS
<1>1. Len(todo) = 0 /\ host = "wait" /\ ~start
  BY DEF Init
<1>2. JobIsCall /\ Ordered(todo)
  BY <1>1, EmptyOrdered DEF JobIsCall
<1>3. Attends /\ Completions
  BY <1>1 DEF Init, Attends, Completions, WorksFor
<1>4. Cursor
  BY DEF Init, Cursor
<1>5. Tallied
  <2>1. ASSUME NEW v \in Vecs PROVE pop[v] = Count(Prefix(v, size[v]))
    <3>1. size[v] = 0 /\ pop[v] = Nothing
      BY DEF Init
    <3>2. DOMAIN Prefix(v, size[v]) = {}
      BY <3>1 DEF Prefix
    <3> HIDE DEF Prefix
    <3> QED
      BY <3>1, <3>2, CountNothing
  <2> QED
    BY <1>1, <2>1 DEF Tallied
<1> QED
  BY <1>2, <1>3, <1>4, <1>5 DEF SInv, InOrder

LEMMA StutterInOrder == ASSUME All, SInv, UNCHANGED vars PROVE SInv'
<1>1. UNCHANGED << slots, size, pop, cmp, call, start, server, todo, timeouts, draw, at, reading >>
  BY DEF vars, steps, vecs, rpc, client, draw
<1> QED
  BY <1>1, CursorStays, DrawsOn

LEMMA InOrderStep == ASSUME IInv, SInv, [Next]_vars PROVE SInv'
<1>1. All
  BY AllParts
<1>2. ASSUME UNCHANGED vars PROVE SInv'
  BY <1>1, <1>2, StutterInOrder
<1>3. ASSUME HostStep PROVE SInv'
  BY <1>1, <1>3, TakeQueryInOrder, TakeSortedInOrder, TakeSortInOrder, TakeSpaceInOrder, TakeCommitInOrder,
     TakeOtherInOrder, ApplyCommitInOrder, CommitsAppliedInOrder, StoreInOrder, PublishInOrder, EndWriteInOrder,
     WriteBackInOrder, WrittenBackInOrder, CompleteInOrder DEF HostStep
<1>4. ASSUME PassStep PROVE SInv'
  BY <1>1, <1>4, BeginInOrder, RefusedInOrder, WaitInOrder, FoundInOrder, WaitFailsInOrder, PollInOrder,
     ClearInOrder, UnlistInOrder, ListInOrder, PushCommitInOrder, ReleaseInOrder, ConfirmInOrder,
     DrawBeginInOrder, TakeUpdateInOrder, TakeCompleteInOrder, ReadOnInOrder, DrawMeshInOrder,
     WaitReadInOrder, DrawEndInOrder DEF PassStep
<1> QED
  BY <1>1, <1>2, <1>3, <1>4, HostDiesInOrder, StartInOrder DEF Next

(* While no wait has given up and the host lives, the command under way has *)
(* its place in what is left of the pass, a completion its reader, and the  *)
(* tally and the drawing count the elements of the vectors.                 *)
THEOREM PatientInvariance == Spec => []SInv
<1>1. Init => SInv
  BY InitInOrder
<1>2. IInv /\ SInv /\ [Next]_vars => SInv'
  BY InOrderStep
<1> QED
  BY <1>1, <1>2, Invariance, PTL DEF Spec

(* A render draws the whole set: when it ends the host has finished with    *)
(* the vector, and each mesh it put there since the clear has been drawn as *)
(* often as it was put, however the host's pushes and the reader's waits    *)
(* interleave and whatever passes come before.                              *)
THEOREM DrawsAreWhole == Spec => []DrawsWholeSet
<1>1. IInv /\ SInv => DrawsWholeSet
  <2> SUFFICES ASSUME IInv, SInv, alive, timeouts = 0, Drawing, at = "check", AtEnd(Vec)
               PROVE  ~Serving(Vec) /\ drawn = pop[Vec]
    BY DEF DrawsWholeSet
  <2>1. All /\ JobIsCall /\ InOrder
    BY AllParts DEF SInv, Calm
  <2>2. Vec \in Vecs /\ todo # << >> /\ todo[1].do \in {"draw", "stream"} /\ Vec = todo[1].vec
    BY <2>1, DrawOp, AtHead DEF Drawing
  <2>3. next = size[Vec] /\ drawn = Count(Prefix(Vec, next))
    BY <2>1, ReadToTheEnd DEF InOrder, Cursor
  <2>4. ~Awaits(Vec)
    <3>1. SUFFICES ASSUME Awaits(Vec) PROVE FALSE
      OBVIOUS
    <3>2. ~ReadsHead(Vec)
      BY <2>1, <3>1, ReadToTheEnd
    <3>3. todo[1].do = "stream"
      BY <2>1, <2>2, <3>1, AwaitsHead DEF Leads
    <3> QED
      BY <2>2, <3>2, <3>3 DEF ReadsHead
  <2>5. ~Serving(Vec)
    BY <2>1, <2>2, <2>4, Served, ReadToTheEnd
  <2>6. pop[Vec] = Count(Prefix(Vec, size[Vec]))
    BY <2>1, <2>2, <2>5 DEF InOrder, Tallied, Rewrites, Serving
  <2> QED
    BY <2>3, <2>5, <2>6
<1> QED
  BY <1>1, Invariance, PatientInvariance, PTL

(* "Never clear a shared vector the host may be writing": while no wait has *)
(* given up no pass does, and what is released is released quietly.         *)
THEOREM ClearsStayQuiet == Spec => ClearsAreQuiet
<1> DEFINE A == \A v \in Vecs : timeouts = 0 /\ Serving(v) => size'[v] >= size[v]
<1>1. ASSUME IInv, SInv, [Next]_vars PROVE A
  <2> SUFFICES ASSUME NEW v \in Vecs, timeouts = 0, Serving(v) PROVE size'[v] >= size[v]
    OBVIOUS
  <2>1. All /\ JobIsCall /\ InOrder
    BY <1>1, AllParts DEF SInv, Calm, Serving
  <2>2. size[v] \in Nat /\ size \in [Vecs -> 0 .. Cap] /\ job \in Vecs
    BY <2>1, Sized DEF All, VecsTyped, HostTyped
  <2>3. UNCHANGED size \/ Publish \/ WriteBack \/ Clear
    BY <1>1 DEF Next, vars, steps, vecs, HostStep, PassStep, TakeQuery, TakeSorted, TakeSort, TakeSpace,
       TakeCommit, TakeOther, Dispatch, ApplyCommit, Apply, CommitsApplied, Store, EndWrite,
       WrittenBack, Complete, HostDies, Start, Begin, Refused, Wait, Found, WaitFails, Poll, Unlist, List, PushCommit,
       Release, Confirm, DrawBegin, TakeUpdate, TakeComplete, ReadOn, DrawMesh, WaitRead, DrawEnd
  <2>4. CASE UNCHANGED size
    BY <2>2, <2>4
  <2>5. CASE Publish
    <3>1. old = size[job] /\ size' = [size EXCEPT ![job] = old + 1]
      BY <2>1, <2>5 DEF Publish, InOrder, Tallied
    <3> QED
      BY <2>2, <3>1
  <2>6. CASE WriteBack
    <3>1. size' = size \/ size' = [size EXCEPT ![job] = @ + 1]
      BY <2>6 DEF WriteBack
    <3> QED
      BY <2>2, <3>1
  <2>7. CASE Clear
    <3>1. At("clear") /\ size' = [size EXCEPT ![Vec] = 0]
      BY <2>7 DEF Clear
    <3>2. v # Vec
      BY <2>1, <3>1, Served, NotWritten DEF InOrder
    <3> QED
      BY <2>2, <3>1, <3>2
  <2> QED
    BY <2>3, <2>4, <2>5, <2>6, <2>7
<1>2. Spec => QuietClear
  BY <1>1, Invariance, PatientInvariance, PTL DEF Spec, QuietClear
<1> QED
  BY <1>2, EvictionsAreQuiet DEF ClearsAreQuiet
===============================================================================
