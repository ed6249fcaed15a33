------------------------- MODULE SharedVectors_proofs -------------------------
(***************************************************************************)
(* Proofs about shared vectors: who owns them (VecTable), for any number   *)
(* of vectors, views, waits that give up and steps that fail; and what is  *)
(* stored in one (VecWindow), for every window size, reservation, batch    *)
(* and interleaving of its two sides.                                      *)
(*                                                                         *)
(* Ownership: the client's knowledge is tied to the host's table through   *)
(* the one command in flight: what an answer names is in the table and     *)
(* unused, and what a request to free names is in the table and given      *)
(* back.  Storage: a shared vector is a plain sequence; and where one side *)
(* commits memory at a time, neither touches a window that is not there.   *)
(*                                                                         *)
(* Layout: a reservation is whole windows and a window whole elements, so  *)
(* that an element's offset has the quotient of its index.                 *)
(***************************************************************************)
EXTENDS VecTable, VecLayout, SequenceTheorems, TLAPS

-----------------------------------------------------------------------------
(* The table of vectors.                                                   *)

(* Every entry of the table was made, no vector has two, and the queue     *)
(* names entries of the table.                                             *)
TableSound ==
  /\ Len(vecs) <= created
  /\ \A i \in DOMAIN vecs : vecs[i] <= created
  /\ \A i, j \in DOMAIN vecs : vecs[i] = vecs[j] /\ vecs[i] # None => i = j
  /\ ToSet(freeVecs) \subseteq DOMAIN vecs

(* Nobody has anything to do with a vector that was not made.              *)
MadeFirst ==
  /\ \A v \in Vec : v > created => views[v] = 0
  /\ \A k \in known : k[2] <= created

(* The count in the header is that of the views, and one more while the    *)
(* view of a failed initialisation waits to be destroyed.                  *)
Counted ==
  /\ \A v \in Vec : v \in mapped <=> views[v] > 0
  /\ \A v \in Vec : users32[v] >= views[v]
  /\ ~broken => \A v \in Vec : users32[v] = views[v] + (IF unwind = v THEN 1 ELSE 0)

UnwindSound ==
  /\ unwind # None => /\ views[unwind] = 0
                      /\ rpc.command = "FreeVec" /\ rpc.state \in {"asked", "answered"} /\ rpc.waiting
  /\ unwind # None \/ broken => Failed("init")

(* A vector can be made while one is asked for, and what an answer names   *)
(* is new to the client and in the table.                                  *)
AnswerSound ==
  /\ rpc.state = "answered" => rpc.waiting
  /\ rpc.state = "asked" /\ rpc.command = "AllocVec" => created < Instances
  /\ rpc.state = "answered" /\ rpc.command = "AllocVec" /\ rpc.id # Invalid =>
       /\ rpc.vec \in Vec /\ views[rpc.vec] = 0 /\ rpc.vec <= created
       /\ \A k \in known : k[2] # rpc.vec
       /\ handle32[rpc.vec] = "open" => rpc.id \in DOMAIN vecs /\ vecs[rpc.id] = rpc.vec
       /\ ~Failed("reserve") => handle32[rpc.vec] = "open"

(* A vector that the client uses, or has not asked to free, has its entry; *)
(* what it asks to free is in the table and asked for once.                *)
KnownSound ==
  ~Failed("reserve") =>
    /\ \A k \in known : views[k[2]] > 0 \/ k[2] \notin returned => k[1] \in DOMAIN vecs /\ vecs[k[1]] = k[2]
    /\ rpc.state = "asked" /\ rpc.command = "FreeVec" =>
         /\ rpc.id \in DOMAIN vecs /\ vecs[rpc.id] # None
         /\ \A k \in known : k[2] = vecs[rpc.id] => k[2] \in returned

(* The steps that may fail.                                                *)
Failable == {"create", "reserve", "header", "init"}

TableTyped == TableTypeOK /\ spent \in [timeouts : Nat, failed : Seq(Failable)]

HostSound == TableSound /\ FreeListSound /\ NoIdLost /\ HandlesFollowTable

TableInv ==
  /\ TableTyped /\ HostSound
  /\ MadeFirst /\ Counted /\ UnwindSound /\ AnswerSound /\ KnownSound

---------------------------------------------------------------------------
(* Queues of ids: what an end taken off or put on changes.                 *)
LEMMA AppendFacts ==
  ASSUME NEW S, NEW s \in Seq(S), NEW e \in S
  PROVE  /\ Append(s, e) \in Seq(S) /\ ToSet(Append(s, e)) = ToSet(s) \cup {e}
         /\ IsInjective(s) /\ e \notin ToSet(s) => IsInjective(Append(s, e))
<1>1. /\ Append(s, e) \in Seq(S) /\ Len(Append(s, e)) = Len(s) + 1 /\ Append(s, e)[Len(s) + 1] = e
      /\ \A i \in 1..Len(s) : Append(s, e)[i] = s[i]
  OBVIOUS
<1>2. DOMAIN Append(s, e) = DOMAIN s \cup {Len(s) + 1} /\ DOMAIN s = 1..Len(s)
  BY <1>1
<1>3. \A x : x \in ToSet(Append(s, e)) <=> x \in ToSet(s) \cup {e}
  BY <1>1, <1>2 DEF ToSet
<1>4. ASSUME IsInjective(s), e \notin ToSet(s)
      PROVE  IsInjective(Append(s, e))
  BY <1>1, <1>2, <1>4 DEF IsInjective, ToSet
<1> QED
  BY <1>1, <1>3, <1>4

LEMMA TailFacts ==
  ASSUME NEW S, NEW s \in Seq(S), s # <<>>
  PROVE  /\ Head(s) \in S /\ Tail(s) \in Seq(S) /\ ToSet(s) = ToSet(Tail(s)) \cup {Head(s)}
         /\ IsInjective(s) => IsInjective(Tail(s)) /\ Head(s) \notin ToSet(Tail(s))
<1>1. /\ Len(s) > 0 /\ Len(s) \in Nat /\ Head(s) = s[1] /\ Head(s) \in S /\ Tail(s) \in Seq(S)
      /\ Len(Tail(s)) = Len(s) - 1 /\ \A i \in 1..(Len(s) - 1) : Tail(s)[i] = s[i + 1]
  OBVIOUS
<1>2. DOMAIN Tail(s) = 1..(Len(s) - 1) /\ DOMAIN s = 1..Len(s)
  BY <1>1
<1>3. ASSUME NEW i \in DOMAIN s
      PROVE  i = 1 \/ (i - 1 \in DOMAIN Tail(s) /\ Tail(s)[i - 1] = s[i])
  BY <1>1, <1>2, <1>3
<1>4. \A x : x \in ToSet(s) <=> x \in ToSet(Tail(s)) \cup {Head(s)}
  <2>1. ASSUME NEW x \in ToSet(s) PROVE x \in ToSet(Tail(s)) \cup {Head(s)}
    BY <1>1, <1>3, <2>1 DEF ToSet
  <2>2. ASSUME NEW x \in ToSet(Tail(s)) PROVE x \in ToSet(s)
    BY <1>1, <1>2, <2>2 DEF ToSet
  <2>3. Head(s) \in ToSet(s)
    BY <1>1, <1>2 DEF ToSet
  <2> QED
    BY <2>1, <2>2, <2>3
<1>5. ASSUME IsInjective(s)
      PROVE  IsInjective(Tail(s)) /\ Head(s) \notin ToSet(Tail(s))
  BY <1>1, <1>2, <1>5 DEF IsInjective, ToSet
<1> QED
  BY <1>1, <1>4, <1>5

LEMMA EntryFacts ==
  ASSUME NEW S, NEW s \in Seq(S), NEW e \in S
  PROVE  /\ DOMAIN Append(s, e) = DOMAIN s \cup {Len(s) + 1} /\ Len(Append(s, e)) = Len(s) + 1
         /\ Append(s, e)[Len(s) + 1] = e /\ \A i \in DOMAIN s : Append(s, e)[i] = s[i]
         /\ \A n \in DOMAIN s : /\ [s EXCEPT ![n] = e] \in Seq(S)
                                /\ DOMAIN [s EXCEPT ![n] = e] = DOMAIN s
                                /\ Len([s EXCEPT ![n] = e]) = Len(s)
<1>1. /\ Append(s, e) \in Seq(S) /\ Len(Append(s, e)) = Len(s) + 1 /\ Append(s, e)[Len(s) + 1] = e
      /\ \A i \in 1..Len(s) : Append(s, e)[i] = s[i]
  OBVIOUS
<1>2. DOMAIN Append(s, e) = DOMAIN s \cup {Len(s) + 1} /\ DOMAIN s = 1..Len(s)
  BY <1>1
<1>3. ASSUME NEW n \in DOMAIN s
      PROVE  /\ [s EXCEPT ![n] = e] \in Seq(S) /\ DOMAIN [s EXCEPT ![n] = e] = DOMAIN s
             /\ Len([s EXCEPT ![n] = e]) = Len(s)
  OBVIOUS
<1> QED
  BY <1>1, <1>2, <1>3

(* Failures are only ever added.                                           *)
Remembers == (Failed("reserve") => Failed("reserve")') /\ (Failed("init") => Failed("init")')

LEMMA FailsAdds ==
  ASSUME TableTyped, NEW step \in Failable, Fails(step)
  PROVE  /\ spent' \in [timeouts : Nat, failed : Seq(Failable)]
         /\ Failed(step)' /\ Remembers
<1>1. spent.failed \in Seq(Failable) /\ spent \in [timeouts : Nat, failed : Seq(Failable)]
  BY DEF TableTyped
<1>2. spent' = [spent EXCEPT !.failed = Append(spent.failed, step)]
  BY DEF Fails
<1>3. spent' \in [timeouts : Nat, failed : Seq(Failable)] /\ spent'.failed = Append(spent.failed, step)
  BY <1>1, <1>2
<1>4. ToSet(spent.failed)' = ToSet(spent.failed) \cup {step}
  BY <1>1, <1>3, AppendFacts
<1> QED
  BY <1>3, <1>4 DEF Failed, Remembers

---------------------------------------------------------------------------
(* Commands: what a request, an answer and the end of a wait leave in rpc. *)
Commands == [command : {"none", "AllocVec", "FreeVec"}, id : Ids \cup {Invalid},
             vec : Vec \cup {None}, state : {"idle", "asked", "answered"}, waiting : BOOLEAN]

LEMMA AskedTyped ==
  ASSUME NEW c \in {"AllocVec", "FreeVec"}, NEW i \in Ids \cup {Invalid}
  PROVE  /\ Asked(c, i) \in Commands /\ Asked(c, i).command = c /\ Asked(c, i).id = i
         /\ Asked(c, i).state = "asked" /\ Asked(c, i).waiting
BY DEF Asked, Commands

LEMMA IdleTyped == Idle \in Commands /\ Idle.command = "none" /\ Idle.state = "idle" /\ ~Idle.waiting
BY DEF Idle, Commands

LEMMA AnsweredTyped ==
  ASSUME rpc \in Commands, NEW i \in Ids \cup {Invalid}, NEW v \in Vec \cup {None}, Answered(i, v)
  PROVE  /\ rpc' \in Commands
         /\ \/ ~rpc.waiting /\ rpc' = Idle
            \/ /\ rpc.waiting /\ rpc'.waiting /\ rpc'.state = "answered" /\ rpc'.command = rpc.command
               /\ rpc'.id = i /\ rpc'.vec = v
BY IdleTyped DEF Answered, Commands

---------------------------------------------------------------------------
(* The host's table under the id that alloc_vec takes.                     *)
LEMMA AllocTakes ==
  ASSUME VecTableAssumption, TableInv, ServeAlloc
  PROVE  /\ NewVec \in Vec /\ NextId \in Ids /\ NewVec > created
         /\ IF freeVecs = <<>> THEN NextId = Len(vecs) + 1 /\ NextId \notin DOMAIN vecs
                               ELSE NextId \in DOMAIN vecs
         /\ Remaining \in Seq(Ids) /\ Returned \in Seq(Ids)
         /\ ToSet(Returned) = ToSet(freeVecs)
         /\ ToSet(Remaining) \cup (IF freeVecs = <<>> THEN {} ELSE {NextId}) = ToSet(freeVecs)
         /\ IsInjective(freeVecs) => IsInjective(Returned) /\ IsInjective(Remaining) /\ NextId \notin ToSet(Remaining)
<1>1. created \in 0..Instances /\ created < Instances /\ Instances \in Nat
  BY DEF TableInv, TableTyped, TableTypeOK, AnswerSound, ServeAlloc, VecTableAssumption
<1>2. /\ vecs \in Seq(Vec \cup {None}) /\ Len(vecs) <= created /\ freeVecs \in Seq(Ids)
      /\ ToSet(freeVecs) \subseteq DOMAIN vecs
  BY DEF TableInv, TableTyped, TableTypeOK, HostSound, TableSound
<1>3. NewVec \in Vec /\ NewVec > created /\ Len(vecs) + 1 \in Ids /\ Len(vecs) + 1 \notin DOMAIN vecs
  BY <1>1, <1>2 DEF NewVec, Vec, Ids
<1>4. CASE freeVecs = <<>>
  BY <1>2, <1>3, <1>4 DEF NextId, Remaining, Returned, ToSet, IsInjective
<1>5. CASE freeVecs # <<>>
  <2> DEFINE h == Head(freeVecs)
             t == Tail(freeVecs)
  <2>1. /\ h \in Ids /\ t \in Seq(Ids) /\ ToSet(freeVecs) = ToSet(t) \cup {h}
        /\ IsInjective(freeVecs) => IsInjective(t) /\ h \notin ToSet(t)
    BY <1>2, <1>5, TailFacts
  <2>2. NextId = h /\ Remaining = t /\ Returned = Append(t, h)
    BY <1>5 DEF NextId, Remaining, Returned
  <2> HIDE DEF h, t
  <2>3. /\ Append(t, h) \in Seq(Ids) /\ ToSet(Append(t, h)) = ToSet(t) \cup {h}
        /\ IsInjective(t) /\ h \notin ToSet(t) => IsInjective(Append(t, h))
    BY <2>1, AppendFacts
  <2> QED
    BY <1>2, <1>3, <1>5, <2>1, <2>2, <2>3
<1> QED
  BY <1>4, <1>5

LEMMA AllocEnters ==
  ASSUME VecTableAssumption, TableInv, AllocSucceeds
  PROVE  /\ vecs' \in Seq(Vec \cup {None}) /\ DOMAIN vecs' = DOMAIN vecs \cup {NextId}
         /\ vecs'[NextId] = NewVec /\ \A i \in DOMAIN vecs : i # NextId => vecs'[i] = vecs[i]
         /\ Len(vecs') <= created' /\ created' <= Instances
<1>1. /\ vecs \in Seq(Vec \cup {None}) /\ Len(vecs) <= created /\ created \in 0..Instances
      /\ Instances \in Nat /\ created < Instances /\ created' = created + 1
  BY DEF TableInv, TableTyped, TableTypeOK, HostSound, TableSound, AllocSucceeds, VecTableAssumption,
     AnswerSound, ServeAlloc, NewVec
<1>2. ServeAlloc /\ vecs' = IF NextId > Len(vecs) THEN Append(vecs, NewVec) ELSE [vecs EXCEPT ![NextId] = NewVec]
  BY DEF AllocSucceeds
<1>3. NewVec \in Vec \cup {None}
  BY <1>2, AllocTakes
<1>4. IF freeVecs = <<>> THEN NextId = Len(vecs) + 1 /\ NextId \notin DOMAIN vecs ELSE NextId \in DOMAIN vecs
  BY <1>2, AllocTakes
<1>5. Len(vecs) \in Nat /\ DOMAIN vecs = 1..Len(vecs)
  BY <1>1
<1>6. CASE freeVecs = <<>>
  <2>1. NextId = Len(vecs) + 1 /\ NextId > Len(vecs)
    BY <1>4, <1>5, <1>6
  <2>2. vecs' = Append(vecs, NewVec)
    BY <1>2, <2>1
  <2>3. /\ DOMAIN vecs' = DOMAIN vecs \cup {NextId} /\ Len(vecs') = Len(vecs) + 1 /\ vecs'[NextId] = NewVec
        /\ vecs' \in Seq(Vec \cup {None}) /\ \A i \in DOMAIN vecs : vecs'[i] = vecs[i]
    BY <1>1, <1>3, <2>1, <2>2, EntryFacts, AppendFacts
  <2> QED
    BY <1>1, <1>5, <2>3
<1>7. CASE freeVecs # <<>>
  <2>1. NextId \in DOMAIN vecs /\ ~(NextId > Len(vecs))
    BY <1>4, <1>5, <1>7
  <2>2. vecs' = [vecs EXCEPT ![NextId] = NewVec]
    BY <1>2, <2>1
  <2>3. vecs' \in Seq(Vec \cup {None}) /\ Len(vecs') = Len(vecs) /\ DOMAIN vecs' = DOMAIN vecs
    BY <1>1, <1>3, <2>1, <2>2, EntryFacts
  <2> QED
    BY <1>1, <1>5, <2>1, <2>2, <2>3
<1> QED
  BY <1>6, <1>7
(* What holds of the host's side while the host is not at work.            *)
LEMMA HostRests ==
  ASSUME HostSound, UNCHANGED hostTable, Remembers
  PROVE  HostSound'
<1>1. vecs' = vecs /\ freeVecs' = freeVecs /\ created' = created /\ handle32' = handle32
  BY DEF hostTable
<1>2. Failed("reserve") => Failed("reserve")'
  BY DEF Remembers
<1> QED
  BY <1>1, <1>2 DEF HostSound, TableSound, FreeListSound, NoIdLost, HandlesFollowTable

LEMMA TableMonotone == ASSUME UNCHANGED spent PROVE Remembers
BY DEF Failed, Remembers

---------------------------------------------------------------------------
(* The client's requests.                                                  *)
LEMMA AllocVecKeeps ==
  ASSUME VecTableAssumption, TableInv, AllocVec
  PROVE  TableInv'
<1>1. /\ rpc' \in Commands /\ rpc'.command = "AllocVec" /\ rpc'.id = Invalid
      /\ rpc'.state = "asked" /\ rpc'.waiting
      /\ rpc.state = "idle" /\ created < Instances
      /\ UNCHANGED <<vecs, freeVecs, created, handle32, users32, mapped, views, known>>
      /\ UNCHANGED <<returned, unwind, broken, spent>>
  BY AskedTyped DEF AllocVec, hostTable, client, Ids
<1>2. Remembers
  BY TableMonotone DEF AllocVec
<1>3. TableTyped'
  BY <1>1, <1>2 DEF TableInv, TableTyped, TableTypeOK, Commands
<1>4. HostSound'
  BY <1>1, <1>2, HostRests DEF TableInv, hostTable
<1>5. MadeFirst'
  BY <1>1, <1>2 DEF TableInv, MadeFirst
<1>6. Counted'
  BY <1>1, <1>2 DEF TableInv, Counted
<1>7. UnwindSound'
  BY <1>1, <1>2 DEF TableInv, UnwindSound, TableTyped, TableTypeOK, Remembers
<1>8. AnswerSound'
  BY <1>1, <1>2 DEF TableInv, AnswerSound, Remembers
<1>9. KnownSound'
  BY <1>1, <1>2 DEF TableInv, KnownSound, Remembers
<1> QED
  BY <1>3, <1>4, <1>5, <1>6, <1>7, <1>8, <1>9 DEF TableInv

LEMMA FreeVecKeeps ==
  ASSUME VecTableAssumption, TableInv, FreeVec
  PROVE  TableInv'
<1>0. PICK k \in known : k[2] \notin returned /\ rpc' = Asked("FreeVec", k[1]) /\ returned' = returned \cup {k[2]}
                   /\ rpc.state = "idle" /\ UNCHANGED <<hostTable, users32, mapped, views, known, unwind, broken, spent>>
  BY DEF FreeVec
<1>k. k[2] # None /\ k[1] \in Ids \cup {Invalid}
  <2>1. k \in Ids \X Vec
    BY <1>0 DEF TableInv, TableTyped, TableTypeOK
  <2> QED
    BY <2>1 DEF Vec, None
<1>1. /\ rpc' \in Commands /\ rpc'.command = "FreeVec" /\ rpc'.id = k[1]
      /\ rpc'.state = "asked" /\ rpc'.waiting
      /\ rpc.state = "idle" /\ k \in known /\ k[2] \notin returned /\ k[2] # None
      /\ returned' = returned \cup {k[2]}
      /\ UNCHANGED <<vecs, freeVecs, created, handle32, users32, mapped, views, known, unwind, broken, spent>>
  BY <1>0, <1>k, AskedTyped DEF hostTable
<1>2. Remembers
  BY TableMonotone DEF FreeVec
<1>3. TableTyped'
  BY <1>1, <1>2 DEF TableInv, TableTyped, TableTypeOK, Commands
<1>4. HostSound'
  BY <1>1, <1>2, HostRests DEF TableInv, hostTable
<1>5. MadeFirst'
  BY <1>1, <1>2 DEF TableInv, MadeFirst
<1>6. Counted'
  BY <1>1, <1>2 DEF TableInv, Counted
<1>7. UnwindSound'
  BY <1>1, <1>2 DEF TableInv, UnwindSound, TableTyped, TableTypeOK, Remembers
<1>8. AnswerSound'
  BY <1>1, <1>2 DEF TableInv, AnswerSound, Remembers
<1>9. KnownSound'
  BY <1>1, <1>2 DEF TableInv, KnownSound, Remembers
<1> QED
  BY <1>3, <1>4, <1>5, <1>6, <1>7, <1>8, <1>9 DEF TableInv

LEMMA GiveUpKeeps ==
  ASSUME VecTableAssumption, TableInv, GiveUp
  PROVE  TableInv'
<1> DEFINE t == spent.timeouts + 1
<1>0. /\ spent \in [timeouts : Nat, failed : Seq(Failable)] /\ t \in Nat /\ rpc \in Commands
      /\ spent' = [spent EXCEPT !.timeouts = t] /\ rpc' = [rpc EXCEPT !.waiting = FALSE]
      /\ rpc.state = "asked"
      /\ broken' = (broken \/ unwind # None) /\ unwind' = None
      /\ UNCHANGED <<vecs, freeVecs, created, handle32, users32, mapped, views, known, returned>>
  BY DEF GiveUp, Unwound, hostTable, TableInv, TableTyped, TableTypeOK, Commands
<1> HIDE DEF t
<1>1. /\ rpc' \in Commands /\ rpc'.command = rpc.command /\ rpc'.id = rpc.id /\ rpc'.state = rpc.state
      /\ rpc.state = "asked"
      /\ broken' = (broken \/ unwind # None) /\ unwind' = None
      /\ spent' \in [timeouts : Nat, failed : Seq(Failable)] /\ spent'.failed = spent.failed
      /\ UNCHANGED <<vecs, freeVecs, created, handle32, users32, mapped, views, known, returned>>
  BY <1>0 DEF Commands
<1>2. Remembers
  BY <1>1 DEF Failed, Remembers
<1>3. TableTyped'
  BY <1>1, <1>2 DEF TableInv, TableTyped, TableTypeOK, Commands
<1>4. HostSound'
  BY <1>1, <1>2, HostRests DEF TableInv, hostTable
<1>5. MadeFirst'
  BY <1>1, <1>2 DEF TableInv, MadeFirst
<1>6. Counted'
  <2>1. None \notin Vec
    BY DEF Vec, None
  <2> QED
    BY <1>1, <2>1 DEF TableInv, Counted
<1>7. UnwindSound'
  BY <1>1, <1>2 DEF TableInv, UnwindSound, TableTyped, TableTypeOK, Remembers
<1>8. AnswerSound'
  BY <1>1, <1>2 DEF TableInv, AnswerSound, Remembers
<1>9. KnownSound'
  BY <1>1, <1>2 DEF TableInv, KnownSound, Remembers
<1> QED
  BY <1>3, <1>4, <1>5, <1>6, <1>7, <1>8, <1>9 DEF TableInv

---------------------------------------------------------------------------
(* The host.                                                               *)
LEMMA FreeRefusedKeeps ==
  ASSUME VecTableAssumption, TableInv, FreeRefused
  PROVE  TableInv'
<1>1. /\ rpc' \in Commands /\ rpc.state = "asked"
      /\ \/ ~rpc.waiting /\ rpc'.command = "none" /\ rpc'.state = "idle" /\ ~rpc'.waiting
         \/ /\ rpc.waiting /\ rpc'.waiting /\ rpc'.state = "answered" /\ rpc'.command = rpc.command
            /\ rpc'.id = rpc.id /\ rpc'.vec = None
      /\ rpc.command = "FreeVec" /\ UNCHANGED <<vecs, freeVecs, created, handle32, spent>>
      /\ UNCHANGED <<users32, mapped, views, known, returned, unwind, broken>>
  BY AnsweredTyped, IdleTyped DEF FreeRefused, ServeFree, hostTable, client, TableInv, TableTyped, TableTypeOK,
     Commands, None
<1>2. Remembers
  BY TableMonotone DEF FreeRefused
<1>3. TableTyped'
  BY <1>1, <1>2 DEF TableInv, TableTyped, TableTypeOK, Commands
<1>4. HostSound'
  BY <1>1, <1>2, HostRests DEF TableInv, hostTable
<1>5. MadeFirst'
  BY <1>1, <1>2 DEF TableInv, MadeFirst
<1>6. Counted'
  BY <1>1, <1>2 DEF TableInv, Counted
<1>7. UnwindSound'
  BY <1>1, <1>2 DEF TableInv, UnwindSound, TableTyped, TableTypeOK, Remembers
<1>8. AnswerSound'
  BY <1>1, <1>2 DEF TableInv, AnswerSound, Remembers
<1>9. KnownSound'
  BY <1>1, <1>2 DEF TableInv, KnownSound, Remembers
<1> QED
  BY <1>3, <1>4, <1>5, <1>6, <1>7, <1>8, <1>9 DEF TableInv

LEMMA AllocFailsKeeps ==
  ASSUME VecTableAssumption, TableInv, AllocFails
  PROVE  TableInv'
<1>0. /\ ServeAlloc /\ Fails("create") /\ rpc \in Commands /\ rpc.state = "asked"
      /\ rpc.command = "AllocVec"
  BY DEF AllocFails, ServeAlloc, TableInv, TableTyped, TableTypeOK, Commands
<1>1. /\ rpc' \in Commands /\ rpc.state = "asked"
      /\ \/ ~rpc.waiting /\ rpc'.command = "none" /\ rpc'.state = "idle" /\ ~rpc'.waiting
         \/ /\ rpc.waiting /\ rpc'.waiting /\ rpc'.state = "answered" /\ rpc'.command = rpc.command
            /\ rpc'.id = Invalid /\ rpc'.vec = None
      /\ rpc.command = "AllocVec" /\ UNCHANGED <<vecs, created, handle32>>
      /\ freeVecs' \in Seq(Ids) /\ ToSet(freeVecs)' = ToSet(freeVecs) /\ (IsInjective(freeVecs) => IsInjective(freeVecs)')
      /\ UNCHANGED <<users32, mapped, views, known, returned, unwind, broken>>
  BY <1>0, AnsweredTyped, IdleTyped, AllocTakes DEF AllocFails, client, None, Invalid
<1>2. Remembers
  BY <1>0, FailsAdds DEF TableInv, Failable
<1>3. TableTyped'
  BY <1>0, <1>1, FailsAdds DEF TableInv, TableTyped, TableTypeOK, Commands, Failable
<1>4. HostSound'
  BY <1>1, <1>2 DEF TableInv, HostSound, TableSound, FreeListSound, NoIdLost, HandlesFollowTable, Remembers
<1>5. MadeFirst'
  BY <1>1, <1>2 DEF TableInv, MadeFirst
<1>6. Counted'
  BY <1>1, <1>2 DEF TableInv, Counted
<1>7. UnwindSound'
  BY <1>1, <1>2 DEF TableInv, UnwindSound, TableTyped, TableTypeOK, Remembers
<1>8. AnswerSound'
  BY <1>1, <1>2 DEF TableInv, AnswerSound, Remembers
<1>9. KnownSound'
  BY <1>1, <1>2 DEF TableInv, KnownSound, Remembers
<1> QED
  BY <1>3, <1>4, <1>5, <1>6, <1>7, <1>8, <1>9 DEF TableInv

LEMMA AllocSucceedsKeeps ==
  ASSUME VecTableAssumption, TableInv, AllocSucceeds
  PROVE  TableInv'
<1>0. ServeAlloc /\ rpc \in Commands /\ rpc.state = "asked" /\ rpc.command = "AllocVec"
  BY DEF AllocSucceeds, ServeAlloc, TableInv, TableTyped, TableTypeOK, Commands
<1>a. NewVec \in Vec /\ NextId \in Ids /\ Remaining \in Seq(Ids)
  BY <1>0, AllocTakes
<1>b. /\ ToSet(Remaining) \subseteq ToSet(freeVecs)
      /\ NextId \in DOMAIN vecs => NextId \in ToSet(freeVecs)
      /\ \A i \in ToSet(freeVecs) : i = NextId \/ i \in ToSet(Remaining)
      /\ IsInjective(freeVecs) => IsInjective(Remaining) /\ NextId \notin ToSet(Remaining)
  BY <1>0, AllocTakes
<1>c. /\ vecs' \in Seq(Vec \cup {None}) /\ DOMAIN vecs' = DOMAIN vecs \cup {NextId}
      /\ vecs'[NextId] = NewVec /\ \A i \in DOMAIN vecs : i # NextId => vecs'[i] = vecs[i]
      /\ Len(vecs') <= created' /\ created' <= Instances
  BY AllocEnters
<1>d. /\ created \in Nat /\ Len(vecs) \in Nat /\ NewVec = created + 1 /\ NewVec \in Nat /\ NewVec # None
      /\ \A i \in DOMAIN vecs : vecs[i] \in Nat /\ vecs[i] <= created /\ vecs[i] # NewVec
  <2>1. created \in Nat /\ vecs \in Seq(Vec \cup {None}) /\ \A i \in DOMAIN vecs : vecs[i] <= created
    BY DEF TableInv, TableTyped, TableTypeOK, HostSound, TableSound
  <2>2. \A i \in DOMAIN vecs : vecs[i] \in Nat
    BY <2>1 DEF Vec, None
  <2> QED
    BY <2>1, <2>2 DEF NewVec, None
<1>1. /\ rpc' \in Commands /\ rpc.state = "asked"
      /\ \/ ~rpc.waiting /\ rpc'.command = "none" /\ rpc'.state = "idle" /\ ~rpc'.waiting
         \/ /\ rpc.waiting /\ rpc'.waiting /\ rpc'.state = "answered" /\ rpc'.command = rpc.command
            /\ rpc'.id = NextId /\ rpc'.vec = NewVec
      /\ rpc.command = "AllocVec" /\ freeVecs' = Remaining /\ created' = NewVec
      /\ handle32' = HandlesAfterAlloc
      /\ UNCHANGED <<users32, mapped, views, known, returned, unwind, broken>> /\ spent' = spent
  BY <1>0, <1>a, AnsweredTyped, IdleTyped DEF AllocSucceeds, client
<1>2. Remembers
  BY TableMonotone DEF AllocSucceeds
<1>3. TableTyped'
  <2>1. /\ handle32' \in [Vec -> {"none", "open", "closed"}] /\ created' \in 0..Instances
        /\ Len(vecs') <= Instances
    <3>1. Len(vecs') \in Nat /\ Instances \in Nat
      BY <1>c DEF VecTableAssumption
    <3>2. created' \in 0..Instances /\ Len(vecs') <= Instances
      BY <1>1, <1>c, <1>d, <3>1
    <3> QED
      BY <1>1, <3>2 DEF HandlesAfterAlloc, TableInv, TableTyped, TableTypeOK
  <2> QED
    BY <1>1, <1>a, <1>c, <2>1 DEF TableInv, TableTyped, TableTypeOK, Commands
<1>4. HostSound'
  <2>1. TableSound'
    <3>1. Len(vecs') <= created' /\ \A i \in DOMAIN vecs' : vecs'[i] <= created'
      BY <1>1, <1>c, <1>d
    <3>2. \A i, j \in DOMAIN vecs' : vecs'[i] = vecs'[j] /\ vecs'[i] # None => i = j
      BY <1>c, <1>d DEF TableInv, HostSound, TableSound
    <3>3. ToSet(freeVecs)' \subseteq DOMAIN vecs'
      BY <1>1, <1>b, <1>c DEF TableInv, HostSound, TableSound
    <3> QED
      BY <3>1, <3>2, <3>3 DEF TableSound
  <2>2. NoIdLost'
    BY <1>1, <1>b, <1>c, <1>d DEF TableInv, HostSound, NoIdLost
  <2>3. ASSUME ~Failed("reserve")
        PROVE  /\ IsInjective(freeVecs)' /\ NextId \notin ToSet(freeVecs)'
               /\ NextId \in DOMAIN vecs => vecs[NextId] = None
               /\ ToSet(freeVecs) = {i \in DOMAIN vecs : vecs[i] = None}
    BY <1>1, <1>b, <2>3 DEF TableInv, HostSound, FreeListSound
  <2>4. FreeListSound'
    <3>1. SUFFICES ASSUME ~Failed("reserve")
                   PROVE  ToSet(freeVecs)' = {i \in DOMAIN vecs' : vecs'[i] = None}
      BY <1>2, <2>3 DEF FreeListSound, Remembers
    <3>2. \A i : i \in ToSet(freeVecs)' <=> i \in ToSet(freeVecs) /\ i # NextId
      BY <1>1, <1>b, <2>3, <3>1
    <3> QED
      BY <1>c, <1>d, <2>3, <3>1, <3>2
  <2>5. HandlesFollowTable'
    <3>1. SUFFICES ASSUME ~Failed("reserve"), NEW v \in Vec
                   PROVE  handle32'[v] = "open" <=> \E i \in DOMAIN vecs' : vecs'[i] = v
      BY <1>2 DEF HandlesFollowTable, Remembers
    <3>2. v = NewVec \/ handle32'[v] = handle32[v]
      BY <1>1, <2>3, <3>1 DEF HandlesAfterAlloc, Displaced, None, Vec
    <3>3. v = NewVec => handle32'[v] = "open"
      BY <1>1 DEF HandlesAfterAlloc
    <3>4. v # None
      BY DEF Vec, None
    <3> QED
      BY <1>c, <1>d, <2>3, <3>1, <3>2, <3>3, <3>4 DEF TableInv, HostSound, HandlesFollowTable
  <2> QED
    BY <2>1, <2>2, <2>4, <2>5 DEF HostSound
<1>5. MadeFirst'
  <2>1. \A v \in Vec : v \in Nat
    BY DEF Vec
  <2>2. \A k \in known : k[2] \in Nat
    BY <2>1 DEF TableInv, TableTyped, TableTypeOK
  <2> QED
    BY <1>1, <1>d, <2>1, <2>2 DEF TableInv, MadeFirst
<1>6. Counted'
  BY <1>1, <1>2 DEF TableInv, Counted
<1>7. UnwindSound'
  BY <1>1, <1>2 DEF TableInv, UnwindSound, TableTyped, TableTypeOK, Remembers
<1>8. AnswerSound'
  <2>1. views[NewVec] = 0 /\ \A k \in known : k[2] # NewVec
    <3>1. NewVec > created /\ \A k \in known : k[2] \in Nat
      BY <1>d DEF TableInv, TableTyped, TableTypeOK, Vec
    <3> QED
      BY <1>a, <1>d, <3>1 DEF TableInv, MadeFirst
  <2>2. handle32'[NewVec] = "open"
    BY <1>1, <1>a DEF HandlesAfterAlloc
  <2> QED
    BY <1>1, <1>a, <1>c, <1>d, <2>1, <2>2 DEF TableInv, AnswerSound
<1>9. KnownSound'
  <2>1. ~Failed("reserve") => (NextId \in DOMAIN vecs => vecs[NextId] = None)
    BY <1>b DEF TableInv, HostSound, FreeListSound
  <2>2. \A k \in known : k[2] # None
    <3>1. \A v \in Vec : v # None
      BY DEF Vec, None
    <3> QED
      BY <3>1 DEF TableInv, TableTyped, TableTypeOK
  <2> QED
    BY <1>1, <1>2, <1>c, <2>1, <2>2 DEF TableInv, KnownSound, Remembers
<1> QED
  BY <1>3, <1>4, <1>5, <1>6, <1>7, <1>8, <1>9 DEF TableInv

LEMMA ReserveFailsKeeps ==
  ASSUME VecTableAssumption, TableInv, ReserveFails
  PROVE  TableInv'
<1>0. /\ ServeAlloc /\ Fails("reserve") /\ rpc \in Commands /\ rpc.state = "asked"
      /\ rpc.command = "AllocVec"
  BY DEF ReserveFails, ServeAlloc, TableInv, TableTyped, TableTypeOK, Commands
<1>a. NewVec \in Vec /\ NextId \in Ids /\ Returned \in Seq(Ids) /\ ToSet(Returned) = ToSet(freeVecs)
  BY <1>0, AllocTakes
<1>b. Failed("reserve")'
  BY <1>0, FailsAdds DEF TableInv, Failable
<1>c. spent' \in [timeouts : Nat, failed : Seq(Failable)]
  BY <1>0, FailsAdds DEF TableInv, Failable
<1>d. /\ created \in Nat /\ NewVec = created + 1 /\ Len(vecs) \in Nat /\ NewVec \in 0..Instances
      /\ \A i \in DOMAIN vecs : vecs[i] \in Nat
  <2>1. created \in Nat /\ vecs \in Seq(Vec \cup {None})
    BY DEF TableInv, TableTyped, TableTypeOK
  <2>2. \A i \in DOMAIN vecs : vecs[i] \in Nat
    BY <2>1 DEF Vec, None
  <2> QED
    BY <1>a, <2>1, <2>2 DEF NewVec, Vec
<1>1. /\ rpc' \in Commands /\ rpc.state = "asked"
      /\ \/ ~rpc.waiting /\ rpc'.command = "none" /\ rpc'.state = "idle" /\ ~rpc'.waiting
         \/ /\ rpc.waiting /\ rpc'.waiting /\ rpc'.state = "answered" /\ rpc'.command = rpc.command
            /\ rpc'.id = NextId /\ rpc'.vec = NewVec
      /\ rpc.command = "AllocVec" /\ created' = NewVec /\ vecs' = vecs
      /\ handle32' = [handle32 EXCEPT ![NewVec] = "closed"]
      /\ freeVecs' \in Seq(Ids) /\ ToSet(freeVecs)' = ToSet(freeVecs)
      /\ UNCHANGED <<users32, mapped, views, known, returned, unwind, broken>>
  BY <1>0, <1>a, AnsweredTyped, IdleTyped DEF ReserveFails, client
<1>2. Remembers
  BY <1>0, FailsAdds DEF TableInv, Failable
<1>3. TableTyped'
  BY <1>1, <1>a, <1>c, <1>d DEF TableInv, TableTyped, TableTypeOK, Commands
<1>4. HostSound'
  <2>1. TableSound'
    BY <1>1, <1>d DEF TableInv, HostSound, TableSound
  <2> QED
    BY <1>1, <1>b, <2>1 DEF TableInv, HostSound, FreeListSound, NoIdLost, HandlesFollowTable
<1>5. MadeFirst'
  <2>1. \A v \in Vec : v \in Nat
    BY DEF Vec
  <2>2. \A k \in known : k[2] \in Nat
    BY <2>1 DEF TableInv, TableTyped, TableTypeOK
  <2> QED
    BY <1>1, <1>d, <2>1, <2>2 DEF TableInv, MadeFirst
<1>6. Counted'
  BY <1>1, <1>2 DEF TableInv, Counted
<1>7. UnwindSound'
  BY <1>1, <1>2 DEF TableInv, UnwindSound, TableTyped, TableTypeOK, Remembers
<1>8. AnswerSound'
  <2>1. views[NewVec] = 0 /\ \A k \in known : k[2] # NewVec
    <3>1. NewVec > created /\ \A k \in known : k[2] \in Nat
      BY <1>d DEF TableInv, TableTyped, TableTypeOK, Vec
    <3> QED
      BY <1>a, <1>d, <3>1 DEF TableInv, MadeFirst
  <2>2. handle32'[NewVec] = "closed"
    BY <1>1, <1>a DEF TableInv, TableTyped, TableTypeOK
  <2> QED
    BY <1>1, <1>a, <1>b, <1>d, <2>1, <2>2 DEF TableInv, AnswerSound
<1>9. KnownSound'
  BY <1>b DEF KnownSound
<1> QED
  BY <1>3, <1>4, <1>5, <1>6, <1>7, <1>8, <1>9 DEF TableInv

LEMMA FreeSucceedsKeeps ==
  ASSUME VecTableAssumption, TableInv, FreeSucceeds
  PROVE  TableInv'
<1>0. /\ rpc \in Commands /\ rpc.state = "asked" /\ rpc.command = "FreeVec"
      /\ rpc.id \in Ids \cup {Invalid} /\ rpc.id \in DOMAIN vecs /\ vecs[rpc.id] \in Vec \cup {None}
      /\ (vecs[rpc.id] # None => users32[vecs[rpc.id]] = 0) /\ vecs \in Seq(Vec \cup {None}) /\ freeVecs \in Seq(Ids)
  BY DEF FreeSucceeds, ServeFree, Freeable, CanFree, TableInv, TableTyped, TableTypeOK, Commands
<1>a. /\ vecs' \in Seq(Vec \cup {None}) /\ DOMAIN vecs' = DOMAIN vecs /\ Len(vecs') = Len(vecs)
      /\ vecs'[rpc.id] = None /\ \A i \in DOMAIN vecs : i # rpc.id => vecs'[i] = vecs[i]
  BY <1>0, EntryFacts DEF FreeSucceeds
<1>b. /\ freeVecs' \in Seq(Ids) /\ ToSet(freeVecs)' = ToSet(freeVecs) \cup {rpc.id}
      /\ IsInjective(freeVecs) /\ rpc.id \notin ToSet(freeVecs) => IsInjective(freeVecs)'
  <2>1. rpc.id \in Ids
    BY <1>0 DEF Invalid
  <2> QED
    BY <1>0, <2>1, AppendFacts DEF FreeSucceeds
<1>1. /\ rpc' \in Commands /\ rpc.state = "asked"
      /\ \/ ~rpc.waiting /\ rpc'.command = "none" /\ rpc'.state = "idle" /\ ~rpc'.waiting
         \/ /\ rpc.waiting /\ rpc'.waiting /\ rpc'.state = "answered" /\ rpc'.command = rpc.command
            /\ rpc'.id = rpc.id /\ rpc'.vec = vecs[rpc.id]
      /\ rpc.command = "FreeVec" /\ created' = created /\ vecs' = [vecs EXCEPT ![rpc.id] = None]
      /\ freeVecs' = Append(freeVecs, rpc.id)
      /\ handle32' = [v \in Vec |-> IF v = vecs[rpc.id] THEN "closed" ELSE handle32[v]]
      /\ UNCHANGED <<users32, mapped, views, known, returned, unwind, broken>> /\ spent' = spent
  BY <1>0, AnsweredTyped, IdleTyped DEF FreeSucceeds, client
<1>2. Remembers
  BY TableMonotone DEF FreeSucceeds
<1>3. TableTyped'
  BY <1>0, <1>1, <1>a, <1>b DEF TableInv, TableTyped, TableTypeOK, Commands
<1>4. HostSound'
  <2>1. TableSound'
    <3>1. created \in Nat /\ None <= created /\ TableSound
      BY DEF TableInv, HostSound, TableTyped, TableTypeOK, None
    <3> QED
      BY <1>0, <1>1, <1>a, <1>b, <3>1 DEF TableSound
  <2>2. NoIdLost'
    BY <1>0, <1>1, <1>a, <1>b DEF TableInv, HostSound, NoIdLost
  <2>3. FreeListSound'
    BY <1>0, <1>1, <1>2, <1>a, <1>b DEF TableInv, HostSound, FreeListSound, KnownSound, Remembers
  <2>4. HandlesFollowTable'
    BY <1>0, <1>1, <1>2, <1>a DEF TableInv, HostSound, HandlesFollowTable, TableSound, Remembers, Vec, None
  <2> QED
    BY <2>1, <2>2, <2>3, <2>4 DEF HostSound
<1>5. MadeFirst'
  BY <1>1, <1>2 DEF TableInv, MadeFirst
<1>6. Counted'
  BY <1>1, <1>2 DEF TableInv, Counted
<1>7. UnwindSound'
  BY <1>1, <1>2 DEF TableInv, UnwindSound, TableTyped, TableTypeOK, Remembers
<1>8. AnswerSound'
  BY <1>1, <1>2, <1>a DEF TableInv, AnswerSound
<1>9. KnownSound'
  <2>1. \A k \in known : views[k[2]] \in Nat /\ users32[k[2]] >= views[k[2]] /\ k[2] # None
    <3>1. \A v \in Vec : views[v] \in Nat /\ users32[v] >= views[v]
      BY DEF TableInv, Counted, TableTyped, TableTypeOK
    <3>3. \A v \in Vec : v # None
      BY DEF Vec, None
    <3>2. \A k \in known : k[2] \in Vec
      BY DEF TableInv, TableTyped, TableTypeOK
    <3> QED
      BY <3>1, <3>2, <3>3
  <2>2. \A k \in known : vecs[rpc.id] = k[2] => ~(views[k[2]] > 0)
    BY <1>0, <2>1
  <2> QED
    BY <1>0, <1>1, <1>2, <1>a, <2>1, <2>2 DEF TableInv, KnownSound, Remembers
<1> QED
  BY <1>3, <1>4, <1>5, <1>6, <1>7, <1>8, <1>9 DEF TableInv

---------------------------------------------------------------------------
(* The client's answers.                                                   *)
LEMMA AllocRejectedKeeps ==
  ASSUME VecTableAssumption, TableInv, AllocRejected
  PROVE  TableInv'
<1>1. /\ rpc' \in Commands /\ rpc'.command = "none" /\ rpc'.state = "idle" /\ ~rpc'.waiting
      /\ rpc.state = "answered" /\ rpc.command = "AllocVec"
      /\ UNCHANGED <<vecs, freeVecs, created, handle32>> /\ spent' = spent
      /\ UNCHANGED <<users32, mapped, views, known, returned, unwind, broken>>
  BY IdleTyped DEF AllocRejected, Alloced, hostTable, client
<1>2. Remembers
  BY TableMonotone DEF AllocRejected
<1>3. TableTyped'
  BY <1>1, <1>2 DEF TableInv, TableTyped, TableTypeOK, Commands
<1>4. HostSound'
  BY <1>1, <1>2, HostRests DEF TableInv, hostTable
<1>5. MadeFirst'
  BY <1>1, <1>2 DEF TableInv, MadeFirst
<1>6. Counted'
  BY <1>1, <1>2 DEF TableInv, Counted
<1>7. UnwindSound'
  BY <1>1, <1>2 DEF TableInv, UnwindSound, TableTyped, TableTypeOK, Remembers
<1>8. AnswerSound'
  BY <1>1, <1>2 DEF TableInv, AnswerSound, Remembers
<1>9. KnownSound'
  BY <1>1, <1>2 DEF TableInv, KnownSound, Remembers
<1> QED
  BY <1>3, <1>4, <1>5, <1>6, <1>7, <1>8, <1>9 DEF TableInv

LEMMA ViewMadeKeeps ==
  ASSUME VecTableAssumption, TableInv, ~broken, ViewMade
  PROVE  TableInv'
<1> DEFINE v == rpc.vec
           i == rpc.id
<1>a. /\ v \in Vec /\ i \in Ids /\ views[v] = 0 /\ v <= created /\ \A k \in known : k[2] # v
      /\ i \in DOMAIN vecs /\ vecs[i] = v
      /\ users32 \in [Vec -> 0..MaxViews] /\ views \in [Vec -> 0..MaxViews]
  BY DEF ViewMade, Alloced, TableInv, AnswerSound, TableTyped, TableTypeOK, Invalid
<1>b. unwind = None /\ (~broken => users32[v] = 0)
  <2>1. unwind = None
    BY DEF ViewMade, Alloced, TableInv, UnwindSound
  <2> QED
    BY <1>a, <2>1 DEF TableInv, Counted, Vec, None
<1>c. /\ mapped' = mapped \cup {v} /\ users32' = [users32 EXCEPT ![v] = @ + 1]
      /\ views' = [views EXCEPT ![v] = @ + 1] /\ known' = known \cup {<<i, v>>}
  BY DEF ViewMade
<1> HIDE DEF v, i
<1>d. /\ \A w \in Vec : w # v => users32'[w] = users32[w] /\ views'[w] = views[w]
      /\ views'[v] = 1 /\ users32'[v] = users32[v] + 1 /\ users32[v] \in Nat
      /\ <<i, v>>[1] = i /\ <<i, v>>[2] = v
  BY <1>a, <1>c
<1>1. /\ rpc' \in Commands /\ rpc'.command = "none" /\ rpc'.state = "idle" /\ ~rpc'.waiting
      /\ rpc.state = "answered" /\ rpc.command = "AllocVec"
      /\ UNCHANGED <<vecs, freeVecs, created, handle32>> /\ spent' = spent
      /\ UNCHANGED <<returned, unwind, broken>>
  BY IdleTyped DEF ViewMade, Alloced, hostTable
<1>2. Remembers
  BY TableMonotone DEF ViewMade
<1>3. TableTyped'
  <2>2. users32' \in [Vec -> 0..MaxViews] /\ views' \in [Vec -> 0..MaxViews]
    BY <1>a, <1>b, <1>c, <1>d DEF VecTableAssumption
  <2>3. known' \subseteq Ids \X Vec
    <3>1. <<i, v>> \in Ids \X Vec /\ known \subseteq Ids \X Vec
      BY <1>a DEF TableInv, TableTyped, TableTypeOK
    <3> QED
      BY <1>c, <3>1
  <2> QED
    BY <1>1, <1>a, <1>c, <2>2, <2>3 DEF TableInv, TableTyped, TableTypeOK, Commands
<1>4. HostSound'
  BY <1>1, <1>2, HostRests DEF TableInv, hostTable
<1>5. MadeFirst'
  <2>1. \A w \in Vec : w > created => w # v
    BY <1>a DEF TableInv, TableTyped, TableTypeOK, Vec
  <2> QED
    BY <1>1, <1>a, <1>c, <1>d, <2>1 DEF TableInv, MadeFirst
<1>6. Counted'
  <2>1. v # None
    BY <1>a DEF Vec, None
  <2>2. /\ \A w \in Vec : w \in mapped' <=> w \in mapped \/ w = v
        /\ views'[v] > 0 /\ users32'[v] >= views'[v] /\ (~broken => users32'[v] = views'[v])
    BY <1>b, <1>c, <1>d
  <2> QED
    BY <1>1, <1>b, <1>d, <2>1, <2>2 DEF TableInv, Counted
<1>7. UnwindSound'
  BY <1>1, <1>2, <1>b DEF TableInv, UnwindSound, Remembers
<1>8. AnswerSound'
  BY <1>1, <1>2 DEF TableInv, AnswerSound, Remembers
<1>9. KnownSound'
  BY <1>1, <1>2, <1>a, <1>c, <1>d DEF TableInv, KnownSound, TableTyped, TableTypeOK, Remembers
<1> QED
  BY <1>3, <1>4, <1>5, <1>6, <1>7, <1>8, <1>9 DEF TableInv

LEMMA HeaderFailsKeeps ==
  ASSUME VecTableAssumption, TableInv, HeaderFails
  PROVE  TableInv'
<1>0. rpc.id \in Ids \cup {Invalid} /\ spent' \in [timeouts : Nat, failed : Seq(Failable)] /\ Remembers
  <2>1. CASE UNCHANGED spent
    BY <2>1, TableMonotone DEF TableInv, TableTyped, TableTypeOK
  <2>2. CASE Fails("header")
    BY <2>2, FailsAdds DEF TableInv, TableTyped, TableTypeOK, Failable
  <2> QED
    BY <2>1, <2>2 DEF HeaderFails
<1>1. /\ rpc' \in Commands /\ rpc'.command = "FreeVec" /\ rpc'.id = rpc.id
      /\ rpc'.state = "asked" /\ rpc'.waiting
      /\ rpc.state = "answered" /\ rpc.command = "AllocVec" /\ rpc.id # Invalid
      /\ spent' \in [timeouts : Nat, failed : Seq(Failable)]
      /\ UNCHANGED <<vecs, freeVecs, created, handle32>>
      /\ UNCHANGED <<users32, mapped, views, known, returned, unwind, broken>>
  BY <1>0, AskedTyped DEF HeaderFails, Alloced, hostTable, client
<1>2. Remembers
  BY <1>0
<1>3. TableTyped'
  BY <1>1, <1>2 DEF TableInv, TableTyped, TableTypeOK, Commands
<1>4. HostSound'
  BY <1>1, <1>2, HostRests DEF TableInv, hostTable
<1>5. MadeFirst'
  BY <1>1, <1>2 DEF TableInv, MadeFirst
<1>6. Counted'
  BY <1>1, <1>2 DEF TableInv, Counted
<1>7. UnwindSound'
  BY <1>1, <1>2 DEF TableInv, UnwindSound, TableTyped, TableTypeOK, Remembers
<1>8. AnswerSound'
  BY <1>1, <1>2 DEF TableInv, AnswerSound, Remembers
<1>9. KnownSound'
  <2>1. ~Failed("reserve") => rpc.id \in DOMAIN vecs /\ vecs[rpc.id] = rpc.vec /\ rpc.vec # None
    BY <1>1 DEF TableInv, AnswerSound, Vec, None
  <2>2. \A k \in known : k[2] # rpc.vec
    BY <1>1 DEF TableInv, AnswerSound
  <2> QED
    BY <1>1, <1>2, <2>1, <2>2 DEF TableInv, KnownSound, Remembers
<1> QED
  BY <1>3, <1>4, <1>5, <1>6, <1>7, <1>8, <1>9 DEF TableInv

LEMMA InitFailsKeeps ==
  ASSUME VecTableAssumption, TableInv, ~broken, InitFails
  PROVE  TableInv'
<1>0. /\ rpc.id \in Ids \cup {Invalid} /\ spent' \in [timeouts : Nat, failed : Seq(Failable)]
      /\ Remembers /\ Failed("init")'
  BY FailsAdds DEF InitFails, TableInv, TableTyped, TableTypeOK, Failable
<1>a. /\ rpc.vec \in Vec /\ views[rpc.vec] = 0 /\ rpc.vec # None
      /\ users32 \in [Vec -> 0..MaxViews] /\ views \in [Vec -> 0..MaxViews]
  BY DEF InitFails, Alloced, TableInv, AnswerSound, TableTyped, TableTypeOK, Vec, None
<1>b. unwind = None /\ (~broken => users32[rpc.vec] = 0)
  <2>1. unwind = None
    BY DEF InitFails, Alloced, TableInv, UnwindSound
  <2> QED
    BY <1>a, <2>1 DEF TableInv, Counted
<1>1. /\ rpc' \in Commands /\ rpc'.command = "FreeVec" /\ rpc'.id = rpc.id
      /\ rpc'.state = "asked" /\ rpc'.waiting
      /\ rpc.state = "answered" /\ rpc.command = "AllocVec" /\ rpc.id # Invalid
      /\ unwind' = rpc.vec /\ users32' = [users32 EXCEPT ![rpc.vec] = @ + 1]
      /\ UNCHANGED <<vecs, freeVecs, created, handle32>>
      /\ UNCHANGED <<mapped, views, known, returned, broken>>
  BY <1>0, AskedTyped DEF InitFails, Alloced, hostTable
<1>2. Remembers
  BY <1>0
<1>3. TableTyped'
  <2>1. users32' \in [Vec -> 0..MaxViews]
    BY <1>1, <1>a, <1>b DEF VecTableAssumption
  <2> QED
    BY <1>0, <1>1, <1>a, <2>1 DEF TableInv, TableTyped, TableTypeOK, Commands
<1>4. HostSound'
  BY <1>1, <1>2, HostRests DEF TableInv, hostTable
<1>5. MadeFirst'
  BY <1>1, <1>2 DEF TableInv, MadeFirst
<1>6. Counted'
  <2>1. /\ \A v \in Vec : v # rpc.vec => users32'[v] = users32[v] /\ unwind' # v /\ unwind # v
        /\ users32'[rpc.vec] = users32[rpc.vec] + 1 /\ users32[rpc.vec] = 0
    BY <1>1, <1>a, <1>b DEF Vec, None
  <2> QED
    BY <1>1, <1>a, <1>b, <2>1 DEF TableInv, Counted
<1>7. UnwindSound'
  BY <1>0, <1>1, <1>a DEF UnwindSound
<1>8. AnswerSound'
  BY <1>1, <1>2 DEF TableInv, AnswerSound, Remembers
<1>9. KnownSound'
  <2>1. ~Failed("reserve") => rpc.id \in DOMAIN vecs /\ vecs[rpc.id] = rpc.vec
    BY <1>1 DEF TableInv, AnswerSound
  <2>2. \A k \in known : k[2] # rpc.vec
    BY <1>1 DEF TableInv, AnswerSound
  <2> QED
    BY <1>1, <1>2, <1>a, <2>1, <2>2 DEF TableInv, KnownSound, Remembers
<1> QED
  BY <1>3, <1>4, <1>5, <1>6, <1>7, <1>8, <1>9 DEF TableInv

LEMMA FreedKeeps ==
  ASSUME VecTableAssumption, TableInv, Freed
  PROVE  TableInv'
<1>1. /\ rpc' \in Commands /\ rpc'.command = "none" /\ rpc'.state = "idle" /\ ~rpc'.waiting
      /\ rpc.state = "answered" /\ rpc.command = "FreeVec"
      /\ broken' = (broken \/ unwind # None) /\ unwind' = None
      /\ UNCHANGED <<vecs, freeVecs, created, handle32>> /\ spent' = spent
      /\ UNCHANGED <<users32, mapped, views, known, returned>>
  BY IdleTyped DEF Freed, Unwound, hostTable
<1>2. Remembers
  BY TableMonotone DEF Freed
<1>3. TableTyped'
  BY <1>1, <1>2 DEF TableInv, TableTyped, TableTypeOK, Commands
<1>4. HostSound'
  BY <1>1, <1>2, HostRests DEF TableInv, hostTable
<1>5. MadeFirst'
  BY <1>1, <1>2 DEF TableInv, MadeFirst
<1>6. Counted'
  <2>1. None \notin Vec
    BY DEF Vec, None
  <2> QED
    BY <1>1, <2>1 DEF TableInv, Counted
<1>7. UnwindSound'
  BY <1>1, <1>2 DEF TableInv, UnwindSound, TableTyped, TableTypeOK, Remembers
<1>8. AnswerSound'
  BY <1>1, <1>2 DEF TableInv, AnswerSound, Remembers
<1>9. KnownSound'
  BY <1>1, <1>2 DEF TableInv, KnownSound, Remembers
<1> QED
  BY <1>3, <1>4, <1>5, <1>6, <1>7, <1>8, <1>9 DEF TableInv

---------------------------------------------------------------------------
(* The client's views: of a vector that has some, the count is exact.      *)
LEMMA ViewedCounted ==
  ASSUME TableInv, ~broken, NEW v \in Vec, views[v] > 0
  PROVE  users32[v] = views[v] /\ unwind # v
<1>1. v # None
  BY DEF Vec, None
<1>2. unwind # v
  BY <1>1 DEF TableInv, UnwindSound
<1> QED
  BY <1>2 DEF TableInv, Counted, TableTyped, TableTypeOK

LEMMA CopyViewKeeps ==
  ASSUME VecTableAssumption, TableInv, NEW v \in Vec, ~broken, CopyView(v)
  PROVE  TableInv'
<1>1. /\ users32' = [users32 EXCEPT ![v] = @ + 1] /\ views' = [views EXCEPT ![v] = @ + 1]
      /\ views[v] \in 1..(MaxViews - 1) /\ rpc.state # "answered"
      /\ UNCHANGED <<vecs, freeVecs, created, handle32>> /\ spent' = spent
      /\ UNCHANGED <<mapped, known, returned, rpc, unwind, broken>>
      /\ users32 \in [Vec -> 0..MaxViews] /\ views \in [Vec -> 0..MaxViews] /\ MaxViews \in Nat
  BY DEF CopyView, hostTable, TableInv, TableTyped, TableTypeOK, VecTableAssumption
<1>2. Remembers
  BY TableMonotone DEF CopyView
<1>3. TableTyped'
  <2>1. users32[v] = views[v]
    BY <1>1 DEF TableInv, Counted, UnwindSound, Vec, None
  <2>2. users32' \in [Vec -> 0..MaxViews] /\ views' \in [Vec -> 0..MaxViews]
    BY <1>1, <2>1
  <2> QED
    BY <1>1, <2>2 DEF TableInv, TableTyped, TableTypeOK
<1>4. HostSound'
  BY <1>1, <1>2, HostRests DEF TableInv, hostTable
<1>5. MadeFirst'
  BY <1>1 DEF TableInv, MadeFirst
<1>6. Counted'
  BY <1>1, <1>2 DEF TableInv, Counted
<1>7. UnwindSound'
  BY <1>1, <1>2 DEF TableInv, UnwindSound, Remembers, Vec, None
<1>8. AnswerSound'
  BY <1>1, <1>2 DEF TableInv, AnswerSound, Remembers
<1>9. KnownSound'
  <2>1. \A u \in Vec : views'[u] > 0 => views[u] > 0
    BY <1>1
  <2>2. \A k \in known : k[2] \in Vec
    BY DEF TableInv, TableTyped, TableTypeOK
  <2> QED
    BY <1>1, <1>2, <2>1, <2>2 DEF TableInv, KnownSound, Remembers
<1> QED
  BY <1>3, <1>4, <1>5, <1>6, <1>7, <1>8, <1>9 DEF TableInv

LEMMA DropViewKeeps ==
  ASSUME VecTableAssumption, TableInv, NEW v \in Vec, ~broken, DropView(v)
  PROVE  TableInv'
<1>0. /\ views[v] > 0 /\ users32[v] = views[v] /\ unwind # v
      /\ users32 \in [Vec -> 0..MaxViews] /\ views \in [Vec -> 0..MaxViews] /\ MaxViews \in Nat
  BY ViewedCounted DEF DropView, TableInv, TableTyped, TableTypeOK, VecTableAssumption
<1>1. /\ users32' = [users32 EXCEPT ![v] = users32[v] - 1] /\ views' = [views EXCEPT ![v] = @ - 1]
      /\ mapped' = (IF users32[v] - 1 = 0 THEN mapped \ {v} ELSE mapped)
      /\ views[v] > 0 /\ users32[v] = views[v] /\ unwind # v
      /\ UNCHANGED <<vecs, freeVecs, created, handle32>> /\ spent' = spent
      /\ UNCHANGED <<known, returned, rpc, unwind, broken>>
      /\ users32 \in [Vec -> 0..MaxViews] /\ views \in [Vec -> 0..MaxViews] /\ MaxViews \in Nat
  BY <1>0 DEF DropView, Left, hostTable
<1>2. Remembers
  BY TableMonotone DEF DropView
<1>3. TableTyped'
  <2>1. users32' \in [Vec -> 0..MaxViews] /\ views' \in [Vec -> 0..MaxViews]
    BY <1>1
  <2> QED
    BY <1>1, <2>1 DEF TableInv, TableTyped, TableTypeOK
<1>4. HostSound'
  BY <1>1, <1>2, HostRests DEF TableInv, hostTable
<1>5. MadeFirst'
  BY <1>1, <1>2 DEF TableInv, MadeFirst
<1>6. Counted'
  BY <1>1, <1>2 DEF TableInv, Counted
<1>7. UnwindSound'
  BY <1>1, <1>2 DEF TableInv, UnwindSound, Remembers, TableTyped, TableTypeOK, Vec, None
<1>8. AnswerSound'
  BY <1>1, <1>2 DEF TableInv, AnswerSound, Remembers
<1>9. KnownSound'
  <2>1. \A u \in Vec : views'[u] > 0 => views[u] > 0
    BY <1>1
  <2>2. \A k \in known : k[2] \in Vec
    BY DEF TableInv, TableTyped, TableTypeOK
  <2> QED
    BY <1>1, <1>2, <2>1, <2>2 DEF TableInv, KnownSound, Remembers
<1> QED
  BY <1>3, <1>4, <1>5, <1>6, <1>7, <1>8, <1>9 DEF TableInv

LEMMA AssignViewKeeps ==
  ASSUME VecTableAssumption, TableInv, NEW v \in Vec, NEW w \in Vec, ~broken, AssignView(v, w)
  PROVE  TableInv'
<1>0. /\ views[v] > 0 /\ views[w] \in 1..(MaxViews - 1) /\ v # w /\ unwind # v /\ unwind # w
      /\ users32[v] = views[v] /\ users32[w] = views[w]
      /\ users32 \in [Vec -> 0..MaxViews] /\ views \in [Vec -> 0..MaxViews] /\ MaxViews \in Nat
  <2>1. views[v] > 0 /\ views[w] > 0 /\ views[w] \in 1..(MaxViews - 1) /\ v # w
    BY DEF AssignView, TableInv, TableTyped, TableTypeOK, VecTableAssumption
  <2> QED
    BY <2>1, ViewedCounted DEF TableInv, TableTyped, TableTypeOK, VecTableAssumption
<1>1. /\ users32' = [users32 EXCEPT ![v] = users32[v] - 1, ![w] = @ + 1]
      /\ views' = [views EXCEPT ![v] = @ - 1, ![w] = @ + 1]
      /\ mapped' = (IF users32[v] - 1 = 0 THEN mapped \ {v} ELSE mapped)
      /\ UNCHANGED <<vecs, freeVecs, created, handle32>> /\ spent' = spent
      /\ UNCHANGED <<known, returned, rpc, unwind, broken>>
  BY DEF AssignView, Left, hostTable
<1>2. Remembers
  BY TableMonotone DEF AssignView
<1>3. TableTyped'
  <2>1. users32' \in [Vec -> 0..MaxViews] /\ views' \in [Vec -> 0..MaxViews]
    BY <1>0, <1>1
  <2> QED
    BY <1>1, <2>1 DEF TableInv, TableTyped, TableTypeOK
<1>4. HostSound'
  BY <1>1, <1>2, HostRests DEF TableInv, hostTable
<1>5. MadeFirst'
  BY <1>0, <1>1 DEF TableInv, MadeFirst
<1>6. Counted'
  BY <1>0, <1>1 DEF TableInv, Counted
<1>7. UnwindSound'
  BY <1>0, <1>1, <1>2 DEF TableInv, UnwindSound, Remembers, TableTyped, TableTypeOK, Vec, None
<1>8. AnswerSound'
  BY <1>0, <1>1, <1>2 DEF TableInv, AnswerSound, Remembers
<1>9. KnownSound'
  <2>1. \A u \in Vec : views'[u] > 0 => views[u] > 0
    BY <1>0, <1>1
  <2>2. \A k \in known : k[2] \in Vec
    BY DEF TableInv, TableTyped, TableTypeOK
  <2> QED
    BY <1>1, <1>2, <2>1, <2>2 DEF TableInv, KnownSound, Remembers
<1> QED
  BY <1>3, <1>4, <1>5, <1>6, <1>7, <1>8, <1>9 DEF TableInv

---------------------------------------------------------------------------
LEMMA TableInitEstablishes == ASSUME VecTableAssumption, TableInit PROVE TableInv
<1>1. TableTyped
  <2>1. Instances \in Nat /\ MaxViews \in Nat /\ 0 \in 0..Instances /\ 0 \in 0..MaxViews
    BY DEF VecTableAssumption
  <2>2. /\ vecs \in Seq(Vec \cup {None}) /\ Len(vecs) <= Instances /\ freeVecs \in Seq(Ids)
        /\ created \in 0..Instances
    BY <2>1 DEF TableInit
  <2>3. spent \in [timeouts : Nat, failed : Seq(Failable)]
    BY DEF TableInit
  <2> QED
    BY <2>1, <2>2, <2>3, IdleTyped DEF TableInit, TableTyped, TableTypeOK, Commands, None
<1>2. ~Failed("init") /\ ~Failed("reserve")
  BY DEF TableInit, Failed, ToSet
<1>3. HostSound
  BY DEF TableInit, HostSound, TableSound, FreeListSound, NoIdLost, HandlesFollowTable, ToSet, IsInjective
<1>4. MadeFirst /\ Counted /\ UnwindSound
  BY <1>2 DEF TableInit, MadeFirst, Counted, UnwindSound, Vec, None
<1>5. AnswerSound /\ KnownSound
  BY <1>2, IdleTyped DEF TableInit, AnswerSound, KnownSound
<1> QED
  BY <1>1, <1>3, <1>4, <1>5 DEF TableInv

LEMMA TableNextKeeps == ASSUME VecTableAssumption, TableInv, [TableNext]_tableVars PROVE TableInv'
<1>1. CASE UNCHANGED tableVars
  <2>1. TableTyped' /\ MadeFirst' /\ Counted'
    BY <1>1 DEF tableVars, TableInv, TableTyped, TableTypeOK, MadeFirst, Counted
  <2>2. HostSound'
    BY <1>1, HostRests, TableMonotone DEF tableVars, hostTable, TableInv
  <2>3. UnwindSound' /\ AnswerSound' /\ KnownSound'
    BY <1>1, TableMonotone DEF tableVars, TableInv, UnwindSound, AnswerSound, KnownSound, Remembers
  <2> QED
    BY <2>1, <2>2, <2>3 DEF TableInv
<1>2. CASE ClientRequests
  BY <1>2, AllocVecKeeps, FreeVecKeeps, GiveUpKeeps DEF ClientRequests
<1>3. CASE HostSteps
  BY <1>3, AllocSucceedsKeeps, AllocFailsKeeps, ReserveFailsKeeps, FreeRefusedKeeps,
     FreeSucceedsKeeps DEF HostSteps
<1>4. CASE ~broken /\ Replies
  BY <1>4, AllocRejectedKeeps, ViewMadeKeeps, HeaderFailsKeeps, InitFailsKeeps, FreedKeeps DEF Replies
<1>5. CASE ~broken /\ ViewSteps
  BY <1>5, CopyViewKeeps, DropViewKeeps, AssignViewKeeps DEF ViewSteps
<1> QED
  BY <1>1, <1>2, <1>3, <1>4, <1>5 DEF TableNext

(* Every reachable state satisfies the inductive invariant.                *)
THEOREM TableInvariance == TableSpec => []TableInv
<1>1. VecTableAssumption
  BY VecTableAssumption
<1>2. TableInit => TableInv
  BY <1>1, TableInitEstablishes
<1>3. TableInv /\ [TableNext]_tableVars => TableInv'
  BY <1>1, TableNextKeeps
<1> QED
  BY <1>2, <1>3, PTL DEF TableSpec

(* The ids of alloc_vec and free_vec: none is lost, none is handed out     *)
(* twice and none is taken from a vector in use, unless an initial         *)
(* capacity could not be reserved.                                         *)
THEOREM IdsStaySound == TableSpec => []IdsSound
<1>1. TableInv => IdsSound
  BY DEF TableInv, IdsSound, TableTyped, HostSound, RecycledWhenReleased, KnownSound
<1> QED
  BY <1>1, TableInvariance, PTL

(* What is shared of a vector lives as long as either side uses it: the    *)
(* handles as long as its entry, the mapped header as long as its views,   *)
(* whose number is the count the host reads.                               *)
THEOREM SharesStaySound == TableSpec => []SharesSound
<1>1. TableInv => HeaderHeld
  <2>1. ASSUME TableInv, ~Failed("init")
        PROVE  ~broken /\ unwind = None /\ \A v \in Vec : (v \in mapped <=> views[v] > 0) /\ users32[v] = views[v]
    <3>1. ~broken /\ unwind = None /\ None \notin Vec
      BY <2>1 DEF TableInv, UnwindSound, Vec, None
    <3>2. \A v \in Vec : views[v] \in Nat
      BY <2>1 DEF TableInv, TableTyped, TableTypeOK
    <3> QED
      BY <2>1, <3>1, <3>2 DEF TableInv, Counted
  <2> QED
    BY <2>1 DEF HeaderHeld
<1>2. TableInv => HandlesFollowTable
  BY DEF TableInv, HostSound
<1> QED
  BY <1>1, <1>2, TableInvariance, PTL DEF SharesSound

(* FreeVec never empties the entry of a vector the client still views,     *)
(* whatever failed before.                                                 *)
THEOREM FreedVectorsAreUnviewed == TableSpec => FreedUnviewed
<1>1. ASSUME TableInv, [TableNext]_tableVars, NEW i \in DOMAIN vecs, vecs[i] # None, vecs'[i] = None
      PROVE  views[vecs[i]] = 0
  <2>1. vecs[i] \in Vec
    BY <1>1 DEF TableInv, TableTyped, TableTypeOK
  <2>2. CASE FreeSucceeds
    <3>1. i = rpc.id /\ users32[vecs[i]] = 0
      BY <1>1, <2>2 DEF FreeSucceeds, Freeable, CanFree, TableInv, TableTyped, TableTypeOK
    <3> QED
      BY <1>1, <2>1, <3>1 DEF TableInv, Counted, TableTyped, TableTypeOK
  <2>3. CASE AllocSucceeds
    <3>1. NewVec # None
      BY <1>1, <2>3, AllocTakes, VecTableAssumption DEF AllocSucceeds, Vec, None
    <3> QED
      BY <1>1, <2>3, <3>1, AllocEnters, VecTableAssumption
  <2>4. vecs' = vecs \/ FreeSucceeds \/ AllocSucceeds
    BY <1>1 DEF TableNext, tableVars, ClientRequests, HostSteps, Replies, ViewSteps, AllocVec, FreeVec, GiveUp, AllocFails,
       ReserveFails,
                FreeRefused, AllocRejected, ViewMade, HeaderFails, InitFails, Freed, CopyView, DropView,
                AssignView, hostTable
  <2> QED
    BY <1>1, <2>2, <2>3, <2>4
<1>2. ASSUME TableInv, [TableNext]_tableVars
      PROVE  \A i \in DOMAIN vecs : vecs[i] # None /\ vecs'[i] = None => views[vecs[i]] = 0
  BY <1>1, <1>2
<1> QED
  BY <1>2, TableInvariance, PTL DEF TableSpec, FreedUnviewed

-----------------------------------------------------------------------------
(* The storage of one vector.                                              *)

Sliding == cursor.pc \in {"slide", "load", "count"}

\* Where the client's view stands, or will stand once it has slid.
Aimed == IF Sliding THEN cursor.target ELSE view.window

\* Each side only does what its role in this vector asks for.
Roles ==
  /\ writer = "host" =>
       /\ host.pc \notin Reading /\ cursor.pc \notin {"append", "store", "finish"}
       /\ Sliding => cursor.then \in {"walk", "take"}
       /\ host.pc # "idle" => left > 0
  /\ writer = "client" =>
       /\ host.pc \in {"idle"} \cup Reading /\ cursor.pc \notin {"ready", "walk", "take"}
       /\ Sliding => cursor.then \in {"append", "store"}
       /\ cursor.pc = "store" \/ (Sliding /\ cursor.then = "store") => left > 0

\* The client's cursor runs ahead of its view by one, and the view's two ways
\* of counting agree.
Walking ==
  writer = "host" =>
    /\ view.sub < Slots
    /\ view.mapped => view.index = Aimed * Slots + view.sub
    /\ cursor.pc = "ready" => taken = <<>>
    /\ cursor.pc = "walk" \/ (Sliding /\ cursor.then = "walk") =>
         /\ cursor.next = Len(taken)
         /\ cursor.first => taken = <<>>
         /\ ~cursor.first => ~Sliding /\ view.mapped /\ Len(taken) = view.index + 1
    /\ cursor.pc = "take" \/ (Sliding /\ cursor.then = "take") =>
         /\ ~cursor.first /\ cursor.next = view.index + 1
         /\ Len(taken) = view.index /\ view.index < size

\* What the client stores goes where the element belongs.
Appending ==
  writer = "client" =>
    /\ (cursor.pc = "store" /\ view.mapped) \/ (Sliding /\ cursor.then = "store")
         => Aimed = WindowOf(size)
    /\ host.pc \in Reading => host.index = Len(taken) /\ host.index <= size

SInv == TypeOK /\ (~fault => Roles /\ Walking /\ Appending)

---------------------------------------------------------------------------
(* Where one side commits at a time, the counter tells the truth.          *)

\* All that either side may ask for was committed when the vector was created.
Plenty == initial > 1 + Furthest

CountTold ==
  /\ initial <= committed /\ committed \in 1..reserved
  /\ 0..(committed - 1) \subseteq pages
  /\ view.window \in pages
  /\ \A i \in 0..(size - 1) : WindowOf(i) \in pages

Alone == writer = "host" /\ cursor.pc \notin {"idle", "ready"} => left = 0 \/ Plenty

Extending ==
  /\ writer = "host" => size <= committed * Slots
  /\ host.pc \in {"extend", "count"} => ~Plenty
  /\ host.pc = "count" => committed < reserved /\ committed \in pages
  /\ host.pc = "store" => size < committed * Slots
  /\ cursor.pc \in {"load", "count"} => ~Plenty /\ committed < reserved /\ committed \in pages
  /\ cursor.pc = "count" => cursor.seen = committed

\* With room to spare there is a window more than any element needs.
Room ==
  /\ Ample => view.mapped /\ ~fault
  /\ Sliding => cursor.target <= Furthest

Sound ==
  /\ CountTold /\ Room
  /\ ~fault => Alone /\ Extending

WInv == SInv /\ OneCommits /\ Sound

---------------------------------------------------------------------------
(* Constants, division and sequences.                                      *)
LEMMA Sizes ==
  /\ Slots \in Nat \ {0} /\ MaxElements \in Nat \ {0} /\ MaxBatches \in Nat
  /\ Writers \subseteq {"host", "client"} /\ Reservations \subseteq Nat \ {0}
  /\ Initials \subseteq Nat \ {0}
BY VecWindowAssumption DEF VecWindowAssumption

LEMMA Splits ==
  ASSUME NEW i \in Nat
  PROVE  /\ WindowOf(i) \in Nat /\ SlotOf(i) \in 0..(Slots - 1) /\ SlotOf(i) \in Nat /\ SlotOf(i) < Slots
         /\ i = WindowOf(i) * Slots + SlotOf(i)
<1>1. /\ i \div Slots \in Nat /\ i % Slots \in 0..(Slots - 1)
      /\ i = (i \div Slots) * Slots + (i % Slots)
  BY Sizes
<1>2. \A k \in 0..(Slots - 1) : k \in Nat /\ k < Slots
  BY Sizes
<1> QED
  BY <1>1, <1>2 DEF WindowOf, SlotOf

(* A place belongs to one index.                                           *)
LEMMA SplitsOnce ==
  ASSUME NEW w \in Nat, NEW k \in Nat, k < Slots, NEW v \in Nat, NEW l \in Nat, l < Slots,
         w * Slots + k = v * Slots + l
  PROVE  w = v /\ k = l
<1>1. CASE w < v
  <2>1. (w + 1) * Slots <= v * Slots
    BY <1>1, Sizes
  <2>2. (w + 1) * Slots = w * Slots + Slots
    BY Sizes
  <2> QED
    BY <2>1, <2>2, Sizes
<1>2. CASE v < w
  <2>1. (v + 1) * Slots <= w * Slots
    BY <1>2, Sizes
  <2>2. (v + 1) * Slots = v * Slots + Slots
    BY Sizes
  <2> QED
    BY <2>1, <2>2, Sizes
<1> QED
  BY <1>1, <1>2, Sizes

LEMMA PlaceOf ==
  ASSUME NEW i \in Nat, NEW w \in Nat, NEW k \in Nat, k < Slots, i = w * Slots + k
  PROVE  WindowOf(i) = w /\ SlotOf(i) = k
BY Splits, SplitsOnce

LEMMA Monotone == ASSUME NEW i \in Nat, NEW j \in Nat, i <= j PROVE WindowOf(i) <= WindowOf(j)
<1>1. CASE WindowOf(j) < WindowOf(i)
  <2>1. (WindowOf(j) + 1) * Slots <= WindowOf(i) * Slots
    BY <1>1, Splits, Sizes
  <2>2. (WindowOf(j) + 1) * Slots = WindowOf(j) * Slots + Slots
    BY Splits, Sizes
  <2> QED
    BY <2>1, <2>2, Splits, Sizes
<1> QED
  BY <1>1, Splits

LEMMA Appended ==
  ASSUME NEW S, NEW s \in Seq(S), NEW e \in S
  PROVE  /\ Append(s, e) \in Seq(S) /\ Len(Append(s, e)) = Len(s) + 1 /\ Append(s, e) # <<>>
         /\ Len(s) \in Nat /\ (s = <<>> <=> Len(s) = 0)
OBVIOUS

LEMMA Empty == ASSUME NEW S PROVE <<>> \in Seq(S) /\ Len(<<>>) = 0
OBVIOUS

LEMMA ElementKnown ==
  ASSUME TypeOK, NEW i \in Nat, i <= MaxElements
  PROVE  Element(i) \in Elements
<1>1. batch % 2 \in 0..1
  BY DEF TypeOK
<1> QED
  BY <1>1, Sizes DEF Element, Elements

---------------------------------------------------------------------------
(* What is published, as a function of the storage and the size.           *)
PushedIs(p, m, n) == p = [i \in 1..n |-> m[WindowOf(i - 1)][SlotOf(i - 1)]]

LEMMA PushedGrows ==
  ASSUME NEW p, NEW q, NEW m, NEW l, NEW n \in Nat, NEW e, PushedIs(p, m, n), PushedIs(q, l, n + 1),
         l[WindowOf(n)][SlotOf(n)] = e,
         \A j \in 0..(n - 1) : l[WindowOf(j)][SlotOf(j)] = m[WindowOf(j)][SlotOf(j)]
  PROVE  q = Append(p, e)
<1>1. p = [i \in 1..n |-> m[WindowOf(i - 1)][SlotOf(i - 1)]]
  BY DEF PushedIs
<1>2. Append(p, e) = [i \in 1..(n + 1) |-> IF i <= n THEN p[i] ELSE e]
  BY <1>1
<1>3. q = [i \in 1..(n + 1) |-> l[WindowOf(i - 1)][SlotOf(i - 1)]]
  BY DEF PushedIs
<1>4. ASSUME NEW i \in 1..(n + 1)
      PROVE  l[WindowOf(i - 1)][SlotOf(i - 1)] = IF i <= n THEN p[i] ELSE e
  <2>1. CASE i <= n
    <3>1. i \in 1..n /\ i - 1 \in 0..(n - 1)
      BY <2>1
    <3>2. p[i] = m[WindowOf(i - 1)][SlotOf(i - 1)]
      BY <1>1, <3>1
    <3> QED
      BY <2>1, <3>1, <3>2
  <2>2. CASE i = n + 1
    <3>1. i - 1 = n
      BY <2>2
    <3> QED
      BY <2>2, <3>1
  <2> QED
    BY <2>1, <2>2
<1> QED
  BY <1>2, <1>3, <1>4

(* Storing the next element appends it to what was published.              *)
LEMMA StoringAppends ==
  ASSUME TypeOK, Stored(size), WindowOf(size) \in Windows, size < MaxElements, UNCHANGED batch
  PROVE  /\ Pushed' = Append(Pushed, Element(size))
         /\ mem' \in [Windows -> [0..(Slots - 1) -> Elements]]
<1>1. /\ size \in Nat /\ size' = size + 1 /\ mem \in [Windows -> [0..(Slots - 1) -> Elements]]
      /\ mem' = [mem EXCEPT ![WindowOf(size)][SlotOf(size)] = Element(size)]
  BY DEF TypeOK, Stored
<1>2. SlotOf(size) \in 0..(Slots - 1) /\ Element(size) \in Elements
  BY <1>1, Splits, ElementKnown, Sizes
<1>3. mem' \in [Windows -> [0..(Slots - 1) -> Elements]]
  BY <1>1, <1>2
<1>4. mem'[WindowOf(size)][SlotOf(size)] = Element(size)
  BY <1>1, <1>2
<1>5. \A w \in Windows, k \in 0..(Slots - 1) : w # WindowOf(size) \/ k # SlotOf(size) => mem'[w][k] = mem[w][k]
  BY <1>1
<1>6. ASSUME NEW j \in 0..(size - 1)
      PROVE  mem'[WindowOf(j)][SlotOf(j)] = mem[WindowOf(j)][SlotOf(j)]
  <2>1. j \in Nat /\ j # size /\ j <= size
    BY <1>1
  <2>2. WindowOf(j) # WindowOf(size) \/ SlotOf(j) # SlotOf(size)
    BY <1>1, <2>1, Splits
  <2>3. WindowOf(j) <= WindowOf(size)
    BY <1>1, <2>1, Monotone
  <2>4. WindowOf(j) \in Nat /\ WindowOf(size) \in Nat /\ SlotOf(j) \in 0..(Slots - 1)
    BY <1>1, <2>1, Splits
  <2>5. WindowOf(j) \in Windows
    BY <2>3, <2>4 DEF Windows, TypeOK
  <2> QED
    BY <1>5, <2>2, <2>4, <2>5
<1>7. PushedIs(Pushed, mem, size) /\ PushedIs(Pushed', mem', size')
  BY DEF PushedIs, Pushed
<1>8. Pushed' = Append(Pushed, Element(size))
  <2> DEFINE p == Pushed
             q == Pushed'
             m == mem
             l == mem'
             n == size
             e == Element(size)
  <2>1. /\ n \in Nat /\ PushedIs(p, m, n) /\ PushedIs(q, l, n + 1) /\ l[WindowOf(n)][SlotOf(n)] = e
        /\ \A j \in 0..(n - 1) : l[WindowOf(j)][SlotOf(j)] = m[WindowOf(j)][SlotOf(j)]
    BY <1>1, <1>4, <1>6, <1>7
  <2> HIDE DEF p, q, m, l, n, e
  <2>2. q = Append(p, e)
    BY <2>1, PushedGrows
  <2> QED
    BY <2>2 DEF p, q, e
<1> QED
  BY <1>3, <1>8

LEMMA PushedKept == ASSUME UNCHANGED <<mem, size>> PROVE Pushed' = Pushed
BY DEF Pushed

LEMMA PushedClear == ASSUME size' = 0 PROVE Pushed' = <<>>
BY DEF Pushed

LEMMA PushedAt ==
  ASSUME TypeOK
  PROVE  Len(Pushed) = size /\ \A i \in Nat : i < size => Pushed[i + 1] = mem[WindowOf(i)][SlotOf(i)]
<1>1. size \in Nat
  BY DEF TypeOK
<1> QED
  BY <1>1 DEF Pushed

(* The elements that may be stored, and the windows, never change.         *)
LEMMA TypedNext ==
  ASSUME TypeOK, UNCHANGED fixed
  PROVE  /\ Windows' = Windows /\ writer' \in {"host", "client"} /\ reserved' \in Nat \ {0}
         /\ parallel' \in BOOLEAN /\ initial' \in Nat
BY DEF TypeOK, Windows, fixed

LEMMA Rounding ==
  ASSUME NEW n \in Nat, n > 0
  PROVE  (n + Slots - 1) \div Slots - 1 = WindowOf(n - 1)
<1>1. n - 1 \in Nat
  OBVIOUS
<1>2. n + Slots - 1 = WindowOf(n - 1) * Slots + SlotOf(n - 1) + Slots
  BY <1>1, Splits, Sizes
<1>3. n + Slots - 1 = (WindowOf(n - 1) + 1) * Slots + SlotOf(n - 1)
  BY <1>1, <1>2, Splits, Sizes
<1>4. n + Slots - 1 \in Nat /\ WindowOf(n - 1) + 1 \in Nat
  BY <1>1, Splits, Sizes
<1>5. WindowOf(n + Slots - 1) = WindowOf(n - 1) + 1
  BY <1>1, <1>3, <1>4, Splits, PlaceOf
<1> QED
  BY <1>1, <1>5, Splits DEF WindowOf

---------------------------------------------------------------------------
(* One lemma per action: the sides keep to their roles, and the reader's   *)
(* cursor stays in step with what it was handed.                           *)

LEMMA PushChecksKeeps == ASSUME SInv, ~fault, PushChecks PROVE SInv'
<1>1. TypeOK /\ Roles /\ Walking /\ Appending /\ UNCHANGED fixed
  BY DEF SInv, PushChecks
<1>2. TypeOK'
  BY <1>1, TypedNext DEF TypeOK, Hosts, PushChecks, storage, HostAt
<1>3. Roles'
  BY <1>1 DEF Roles, Sliding, PushChecks, fixed, HostAt, Reading
<1>4. Walking'
  BY <1>1 DEF Walking, Aimed, Sliding, PushChecks, fixed, storage
<1>5. Appending'
  BY <1>1 DEF Appending, Aimed, Sliding, PushChecks, fixed, storage, HostAt, Reading
<1> QED
  BY <1>2, <1>3, <1>4, <1>5 DEF SInv

LEMMA ExtendCommitsKeeps == ASSUME SInv, ~fault, ExtendCommits PROVE SInv'
<1>1. TypeOK /\ Roles /\ Walking /\ Appending /\ UNCHANGED fixed
  BY DEF SInv, ExtendCommits
<1>2. TypeOK'
  <2>1. /\ pages' \subseteq Windows /\ host' \in Hosts
    BY <1>1 DEF TypeOK, ExtendCommits, Hosts, Windows, HostAt
  <2> QED
    BY <1>1, <2>1, TypedNext DEF TypeOK, ExtendCommits, fixed, storage
<1>3. Roles'
  BY <1>1 DEF Roles, Sliding, ExtendCommits, fixed, HostAt, Reading
<1>4. Walking'
  BY <1>1 DEF Walking, Aimed, Sliding, ExtendCommits, fixed
<1>5. Appending'
  BY <1>1 DEF Appending, Aimed, Sliding, ExtendCommits, fixed, HostAt, Reading
<1> QED
  BY <1>2, <1>3, <1>4, <1>5 DEF SInv

LEMMA ExtendCountsKeeps == ASSUME SInv, ~fault, ExtendCounts PROVE SInv'
<1>1. TypeOK /\ Roles /\ Walking /\ Appending /\ UNCHANGED fixed
  BY DEF SInv, ExtendCounts
<1>2. TypeOK'
  <2>1. committed \in Nat /\ host \in Hosts /\ committed' = committed + 1 /\ host' = [host EXCEPT !.pc = "store"]
    BY <1>1 DEF TypeOK, ExtendCounts, HostAt
  <2>2. committed' \in Nat /\ host' \in Hosts
    BY <2>1 DEF Hosts
  <2> QED
    BY <1>1, <2>2, TypedNext DEF TypeOK, ExtendCounts, fixed, storage
<1>3. Roles'
  BY <1>1 DEF Roles, Sliding, ExtendCounts, fixed, HostAt, Reading
<1>4. Walking'
  BY <1>1 DEF Walking, Aimed, Sliding, ExtendCounts, fixed
<1>5. Appending'
  BY <1>1 DEF Appending, Aimed, Sliding, ExtendCounts, fixed, HostAt, Reading
<1> QED
  BY <1>2, <1>3, <1>4, <1>5 DEF SInv

LEMMA ExtendFailsKeeps == ASSUME SInv, ~fault, ExtendFails PROVE SInv'
<1>1. TypeOK /\ Roles /\ Walking /\ Appending /\ UNCHANGED fixed
  BY DEF SInv, ExtendFails
<1>2. TypeOK'
  <2>1. /\ left' \in Nat /\ size' + left' <= MaxElements /\ host' \in Hosts
    BY <1>1, Sizes DEF TypeOK, ExtendFails, Hosts, HostAt, storage
  <2> QED
    BY <1>1, <2>1, TypedNext DEF TypeOK, ExtendFails, fixed, storage
<1>3. Roles'
  BY <1>1 DEF Roles, Sliding, ExtendFails, fixed, HostAt, Reading
<1>4. Walking'
  BY <1>1 DEF Walking, Aimed, Sliding, ExtendFails, fixed, storage
<1>5. Appending'
  BY <1>1 DEF Appending, Aimed, Sliding, ExtendFails, fixed, storage, HostAt, Reading
<1> QED
  BY <1>2, <1>3, <1>4, <1>5 DEF SInv

LEMMA SlideCommitsKeeps == ASSUME SInv, ~fault, SlideCommits PROVE SInv'
<1>1. TypeOK /\ Roles /\ Walking /\ Appending /\ UNCHANGED fixed
  BY DEF SInv, SlideCommits
<1>2. TypeOK'
  <2>1. pages' \subseteq Windows
    BY <1>1 DEF TypeOK, SlideCommits, Windows
  <2>2. cursor' \in Cursors
    BY <1>1 DEF TypeOK, SlideCommits, Cursors, Steps
  <2> QED
    BY <1>1, <2>1, <2>2, TypedNext DEF TypeOK, SlideCommits, fixed, storage
<1>3. Roles'
  BY <1>1 DEF Roles, Sliding, SlideCommits, fixed
<1>4. Walking'
  BY <1>1 DEF Walking, Aimed, Sliding, SlideCommits, fixed
<1>5. Appending'
  BY <1>1 DEF Appending, Aimed, Sliding, SlideCommits, fixed
<1> QED
  BY <1>2, <1>3, <1>4, <1>5 DEF SInv

LEMMA SlideLoadsKeeps == ASSUME SInv, ~fault, SlideLoads PROVE SInv'
<1>1. TypeOK /\ Roles /\ Walking /\ Appending /\ UNCHANGED fixed
  BY DEF SInv, SlideLoads
<1>2. TypeOK'
  BY <1>1, TypedNext DEF TypeOK, Cursors, SlideLoads, storage
<1>3. Roles'
  BY <1>1 DEF Roles, Sliding, SlideLoads, fixed
<1>4. Walking'
  BY <1>1 DEF Walking, Aimed, Sliding, SlideLoads, fixed, storage
<1>5. Appending'
  BY <1>1 DEF Appending, Aimed, Sliding, SlideLoads, fixed, storage
<1> QED
  BY <1>2, <1>3, <1>4, <1>5 DEF SInv

LEMMA SlideCountsKeeps == ASSUME SInv, ~fault, SlideCounts PROVE SInv'
<1>1. TypeOK /\ Roles /\ Walking /\ Appending /\ UNCHANGED fixed
  BY DEF SInv, SlideCounts
<1>2. TypeOK'
  <2>1. cursor.seen + 1 \in Nat
    BY <1>1 DEF TypeOK, Cursors
  <2>2. cursor' \in Cursors
    BY <1>1 DEF TypeOK, SlideCounts, Cursors, Steps
  <2> QED
    BY <1>1, <2>1, <2>2, TypedNext DEF TypeOK, SlideCounts, fixed, storage
<1>3. Roles'
  BY <1>1 DEF Roles, Sliding, SlideCounts, fixed
<1>4. Walking'
  BY <1>1 DEF Walking, Aimed, Sliding, SlideCounts, fixed
<1>5. Appending'
  BY <1>1 DEF Appending, Aimed, Sliding, SlideCounts, fixed
<1> QED
  BY <1>2, <1>3, <1>4, <1>5 DEF SInv

LEMMA SlideMapsKeeps == ASSUME SInv, ~fault, SlideMaps PROVE SInv'
<1>1. TypeOK /\ Roles /\ Walking /\ Appending /\ UNCHANGED fixed
  BY DEF SInv, SlideMaps
<1>2. TypeOK'
  <2>1. reader' \in Readers
    BY <1>1 DEF TypeOK, Readers, SlideMaps, SlideTells
  <2>2. view' \in Views /\ cursor' \in Cursors
    BY <1>1 DEF TypeOK, Views, Cursors, SlideMaps
  <2> QED
    BY <1>1, <2>1, <2>2, TypedNext DEF TypeOK, SlideMaps, fixed, storage
<1>3. Roles'
  BY <1>1 DEF Roles, Sliding, SlideMaps, fixed
<1>4. Walking'
  BY <1>1 DEF Roles, Walking, Aimed, Sliding, SlideMaps, fixed, storage
<1>5. Appending'
  BY <1>1 DEF Appending, Aimed, Sliding, SlideMaps, fixed, storage
<1> QED
  BY <1>2, <1>3, <1>4, <1>5 DEF SInv

LEMMA SlideFailsKeeps == ASSUME SInv, ~fault, SlideFails PROVE SInv'
<1>1. /\ TypeOK /\ Roles /\ Walking /\ Appending /\ cursor.pc = "slide" /\ Sliding
      /\ UNCHANGED <<fixed, reader, batch, size, committed, pages, mem, host, taken, fault>>
  BY DEF SInv, SlideFails, Sliding, storage
<1>2. /\ cursor' \in Cursors /\ ~Sliding' /\ cursor'.first = cursor.first /\ cursor'.next = cursor.next
      /\ cursor'.pc = IF cursor.then = "store" THEN Finished ELSE cursor.then
  BY <1>1 DEF TypeOK, Cursors, Steps, SlideFails, Finished, Sliding
<1>3. view' \in Views /\ ~view'.mapped /\ view'.sub = view.sub /\ view'.index = view.index
  BY <1>1 DEF TypeOK, Views, SlideFails
<1>4. left' = IF cursor.then = "store" THEN 0 ELSE left
  BY DEF SlideFails
<1>5. TypeOK'
  <2>1. left' \in Nat /\ size' + left' <= MaxElements /\ size' \in Nat
    BY <1>1, <1>4, Sizes DEF TypeOK
  <2> QED
    BY <1>1, <1>2, <1>3, <2>1, TypedNext DEF TypeOK, fixed
<1>6. Roles'
  BY <1>1, <1>2, <1>4 DEF Roles, Finished, fixed
<1>7. Walking'
  BY <1>1, <1>2, <1>3 DEF Roles, Walking, fixed
<1>8. Appending'
  BY <1>1, <1>2, <1>3 DEF Appending, fixed
<1> QED
  BY <1>5, <1>6, <1>7, <1>8 DEF SInv

LEMMA RestartKeeps == ASSUME SInv, ~fault, Restart PROVE SInv'
<1>1. TypeOK /\ Roles /\ Walking /\ Appending /\ UNCHANGED <<fixed, reader, batch, left, storage, host, taken, fault>>
  BY DEF SInv, Restart
<1>2. cursor.pc = "ready" /\ writer = "host" /\ taken = <<>> /\ Len(taken) = 0
  BY <1>1, Empty DEF Restart, Walking
<1>3. CASE view' = view /\ cursor' = [cursor EXCEPT !.pc = "walk", !.first = TRUE, !.next = 0]
  <2>1. cursor' \in Cursors /\ cursor'.pc = "walk" /\ cursor'.first /\ cursor'.next = 0 /\ ~Sliding'
    BY <1>1, <1>3 DEF TypeOK, Cursors, Steps, Sliding
  <2>2. TypeOK'
    BY <1>1, <1>3, <2>1, TypedNext DEF TypeOK, fixed, storage
  <2>3. Roles' /\ Appending'
    BY <1>1, <1>2, <2>1 DEF Roles, Appending, fixed
  <2>4. Walking'
    BY <1>1, <1>2, <1>3, <2>1 DEF Walking, Aimed, Sliding, fixed
  <2> QED
    BY <2>2, <2>3, <2>4 DEF SInv
<1>4. CASE /\ view' = [view EXCEPT !.index = 0, !.sub = 0]
           /\ cursor' = [cursor EXCEPT !.pc = IF Stays(0) THEN "walk" ELSE "slide", !.then = "walk",
                                      !.target = 0, !.first = TRUE, !.next = 0]
  <2>1. /\ cursor' \in Cursors /\ cursor'.first /\ cursor'.next = 0 /\ cursor'.then = "walk" /\ cursor'.target = 0
        /\ cursor'.pc = "slide" \/ (cursor'.pc = "walk" /\ view.window = 0)
    BY <1>1, <1>4 DEF TypeOK, Cursors, Steps, Stays
  <2>2. view' \in Views /\ view'.index = 0 /\ view'.sub = 0 /\ view'.window = view.window
    BY <1>1, <1>4 DEF TypeOK, Views
  <2>3. TypeOK'
    BY <1>1, <2>1, <2>2, TypedNext DEF TypeOK, fixed, storage
  <2>4. Roles' /\ Appending'
    BY <1>1, <1>2, <2>1 DEF Roles, Appending, Sliding, fixed
  <2>5. Walking'
    BY <1>1, <1>2, <2>1, <2>2, Sizes DEF Walking, Aimed, Sliding, fixed
  <2> QED
    BY <2>3, <2>4, <2>5 DEF SInv
<1> QED
  BY <1>3, <1>4 DEF Restart

LEMMA NextFirstKeeps == ASSUME SInv, ~fault, NextFirst PROVE SInv'
<1>1. TypeOK /\ Roles /\ Walking /\ Appending /\ UNCHANGED fixed
  BY DEF SInv, NextFirst
<1>2. TypeOK'
  BY <1>1, TypedNext DEF TypeOK, Views, Cursors, Steps, NextFirst, storage
<1>3. Roles'
  BY <1>1 DEF Roles, NextFirst, fixed
<1>4. Walking'
  <2>1. /\ writer = "host" /\ taken = <<>> /\ ~Sliding /\ view.sub < Slots /\ 0 < size
        /\ view.mapped => view.index = view.window * Slots + view.sub
    BY <1>1 DEF NextFirst, AtEnd, Roles, Walking, Aimed, Sliding, TypeOK, Cursors
  <2>2. /\ view.index \in Nat /\ view.window \in Nat /\ view.sub \in Nat
        /\ view' = [view EXCEPT !.index = 0, !.sub = 0]
        /\ cursor' = [cursor EXCEPT !.first = FALSE, !.next = 1, !.then = "take", !.target = 0,
                                    !.pc = IF view.index = 0 \/ (0 = view.window /\ committed > 0) THEN "take" ELSE "slide"]
    BY <1>1 DEF TypeOK, Views, NextFirst, Stays
  <2>3. /\ view'.index = 0 /\ view'.sub = 0 /\ view'.window = view.window /\ view'.mapped = view.mapped
        /\ ~cursor'.first /\ cursor'.next = 1 /\ cursor'.then = "take" /\ cursor'.target = 0
        /\ cursor'.pc \in {"take", "slide"} /\ (cursor'.pc = "take" => view.index = 0 \/ view.window = 0)
    BY <1>1, <2>2 DEF TypeOK, Views, Cursors
  <2>4. view.mapped /\ view.index = 0 => view.window = 0
    <3> DEFINE p == view.window * Slots
    <3>1. p \in Nat /\ (view.window # 0 => p > 0)
      BY <2>2, Sizes
    <3> HIDE DEF p
    <3>2. view.mapped /\ view.index = 0 => p = 0
      BY <2>1, <2>2, <3>1 DEF p
    <3> QED
      BY <2>2, <3>1, <3>2
  <2>5. view'.mapped => 0 = Aimed' * Slots + 0
    <3>1. view'.mapped => Aimed' = 0
      BY <2>3, <2>4 DEF Aimed, Sliding
    <3> QED
      BY <3>1, Sizes
  <2>6. UNCHANGED <<size, taken>>
    BY DEF NextFirst, storage
  <2> QED
    BY <2>1, <2>3, <2>5, <2>6, Sizes DEF Walking, Sliding
<1>5. Appending'
  BY <1>1 DEF Appending, NextFirst, fixed, storage
<1> QED
  BY <1>2, <1>3, <1>4, <1>5 DEF SInv

LEMMA NextAdvancesKeeps == ASSUME SInv, ~fault, NextAdvances PROVE SInv'
<1> DEFINE i == view.index + 1
           n == cursor.next + 1
           w == view.window + 1
           s == view.sub + 1
<1>1. /\ TypeOK /\ Roles /\ Walking /\ Appending
      /\ UNCHANGED <<fixed, reader, batch, left, storage, host, taken, fault>>
      /\ cursor.pc = "walk" /\ ~cursor.first /\ cursor.next < size /\ writer = "host" /\ ~Sliding
  BY DEF SInv, NextAdvances, AtEnd, Roles, TypeOK, Cursors, Sliding
<1>2. /\ view.mapped /\ view.index = view.window * Slots + view.sub /\ view.sub < Slots
      /\ cursor.next = Len(taken) /\ Len(taken) = view.index + 1
      /\ view.index \in Nat /\ view.window \in Nat /\ view.sub \in Nat /\ cursor.next \in Nat /\ size \in Nat
  BY <1>1 DEF Walking, Aimed, TypeOK, Views
<1>3. /\ i \in Nat /\ n \in Nat /\ w \in Nat /\ s \in Nat
      /\ n = i + 1 /\ Len(taken) = i /\ i < size
      /\ IF i >= w * Slots THEN i = w * Slots + 0 ELSE i = view.window * Slots + s /\ s < Slots
  <2> DEFINE p == view.window * Slots
             q == w * Slots
  <2>1. q = p + Slots /\ p \in Nat /\ view.index = p + view.sub /\ Slots \in Nat
    BY <1>2, Sizes
  <2> HIDE DEF p, q
  <2>2. i \in Nat /\ n \in Nat /\ w \in Nat /\ s \in Nat /\ n = i + 1 /\ Len(taken) = i /\ i < size
    BY <1>1, <1>2
  <2>3. IF i >= q THEN i = q + 0 ELSE i = p + s /\ s < Slots
    BY <1>2, <2>1
  <2> QED
    BY <2>2, <2>3 DEF p, q
<1>4. /\ view' = [view EXCEPT !.index = i, !.sub = IF i >= w * Slots THEN 0 ELSE s]
      /\ cursor' = [cursor EXCEPT !.next = n, !.then = "take", !.target = w,
                                  !.pc = IF i >= w * Slots THEN "slide" ELSE "take"]
  BY DEF NextAdvances, Leaves
<1> HIDE DEF i, n, w, s
<1>5. /\ view' \in Views /\ view'.index = i /\ view'.window = view.window /\ view'.mapped
      /\ view'.sub = IF i >= w * Slots THEN 0 ELSE s
  BY <1>1, <1>2, <1>3, <1>4 DEF TypeOK, Views
<1>6. /\ cursor' \in Cursors /\ cursor'.next = n /\ cursor'.then = "take" /\ cursor'.target = w
      /\ ~cursor'.first /\ cursor'.pc = IF i >= w * Slots THEN "slide" ELSE "take"
  BY <1>1, <1>3, <1>4 DEF TypeOK, Cursors, Steps
<1>7. TypeOK'
  BY <1>1, <1>5, <1>6, TypedNext DEF TypeOK, fixed, storage
<1>8. Roles' /\ Appending'
  BY <1>1, <1>6 DEF Roles, Appending, Sliding, fixed
<1>9. Walking'
  BY <1>1, <1>3, <1>5, <1>6, Sizes DEF Walking, Aimed, Sliding, storage
<1> QED
  BY <1>7, <1>8, <1>9 DEF SInv

LEMMA ClientEndsKeeps == ASSUME SInv, ~fault, ClientEnds PROVE SInv'
<1>1. TypeOK /\ Roles /\ Walking /\ Appending /\ UNCHANGED fixed
  BY DEF SInv, ClientEnds
<1>2. TypeOK'
  BY <1>1, TypedNext DEF TypeOK, Cursors, Steps, ClientEnds, storage
<1>3. Roles'
  BY <1>1 DEF Roles, Sliding, ClientEnds, Reading
<1>4. Walking'
  BY <1>1 DEF Walking, Aimed, Sliding, ClientEnds, fixed
<1>5. Appending'
  BY <1>1 DEF Appending, Sliding, ClientEnds, Reading
<1> QED
  BY <1>2, <1>3, <1>4, <1>5 DEF SInv

LEMMA ReserveKeeps == ASSUME SInv, ~fault, Reserve PROVE SInv'
<1>1. TypeOK /\ Roles /\ Walking /\ Appending /\ UNCHANGED fixed
  BY DEF SInv, Reserve
<1>2. TypeOK'
  <2> DEFINE t == (left + Slots - 1) \div Slots - 1
  <2>1. t \in Nat
    <3>1. left \in Nat /\ left > 0 /\ left - 1 \in Nat
      BY <1>1 DEF TypeOK, Reserve
    <3> QED
      BY <3>1, Rounding, Splits
  <2>2. Slide(t, "append")
    BY DEF Reserve
  <2> HIDE DEF t
  <2>3. cursor' \in Cursors
    BY <1>1, <2>1, <2>2 DEF TypeOK, Slide, Cursors, Steps
  <2> QED
    BY <1>1, <2>3, TypedNext DEF TypeOK, Reserve, fixed, storage
<1>3. Roles'
  BY <1>1 DEF Roles, Reserve, fixed, Slide
<1>4. Walking'
  BY <1>1 DEF Roles, Walking, Reserve, fixed
<1>5. Appending'
  BY <1>1 DEF Appending, Reserve, fixed, storage, Slide
<1> QED
  BY <1>2, <1>3, <1>4, <1>5 DEF SInv

LEMMA PushBackKeeps == ASSUME SInv, ~fault, PushBack PROVE SInv'
<1>1. TypeOK /\ Roles /\ Walking /\ Appending /\ UNCHANGED fixed
  BY DEF SInv, PushBack
<1>2. TypeOK'
  BY <1>1, Splits, TypedNext DEF TypeOK, Views, Cursors, Steps, PushBack, storage, Slide
<1>3. Roles'
  BY <1>1 DEF Roles, PushBack, fixed, Slide
<1>4. Walking'
  BY <1>1 DEF Roles, Walking, PushBack, fixed
<1>5. Appending'
  BY <1>1 DEF Appending, Aimed, PushBack, fixed, storage, Slide, Stays
<1> QED
  BY <1>2, <1>3, <1>4, <1>5 DEF SInv

(* The reading host's waits and tests, and how the writer comes to its end. *)
ReaderMoves ==
  \/ HostStarts \/ WaitEnters \/ WaitTests \/ WaitWakes \/ TimesOut
  \/ HostMisses \/ HostFails \/ HostEnds
WriterEnds == Abandons \/ EndWrite

LEMMA ReaderOnly ==
  ASSUME TypeOK, ReaderMoves
  PROVE  /\ UNCHANGED <<fixed, batch, left, size, committed, pages, mem, view, cursor, taken, fault>>
         /\ host.pc \in Reading /\ host' \in Hosts /\ host'.index = host.index
         /\ host'.pc \in Reading \cup {"idle"} /\ reader' \in Readers
<1>1. host \in Hosts /\ reader \in Readers /\ size \in Nat
  BY DEF TypeOK
<1>2. CASE HostStarts
  BY <1>1, <1>2 DEF HostStarts, HostAt, Hosts, Readers, Reading, storage, TypeOK
<1>3. CASE WaitEnters
  BY <1>1, <1>3 DEF WaitEnters, HostAt, Hosts, Readers, Reading, storage
<1>4. CASE WaitTests
  BY <1>1, <1>4 DEF WaitTests, HostAt, Hosts, Readers, Reading, storage
<1>5. CASE WaitWakes
  <2>1. /\ reader.then \in {"get", "recheck"} /\ reader' \in Readers
        /\ UNCHANGED <<fixed, batch, left, size, committed, pages, mem, view, cursor, taken, fault>>
    <3>1. \/ reader' = [reader EXCEPT !.events = @ \ {"update"}]
          \/ reader' = [reader EXCEPT !.events = {}, !.reading = FALSE]
      BY <1>5 DEF WaitWakes
    <3>2. reader.events \ {"update"} \in SUBSET {"update", "complete"} /\ {} \in SUBSET {"update", "complete"}
      BY <1>1 DEF Readers
    <3>3. reader' \in Readers /\ reader.then \in {"get", "recheck"}
      BY <1>1, <3>1, <3>2 DEF Readers
    <3> QED
      BY <1>5, <3>3 DEF WaitWakes, storage
  <2>2. host.pc = "blocked" /\ (host' = [host EXCEPT !.pc = "wait"] \/ host' = [host EXCEPT !.pc = reader.then])
    BY <1>5 DEF WaitWakes, HostAt
  <2> QED
    BY <1>1, <2>1, <2>2 DEF Hosts, Reading
<1>6. CASE TimesOut
  BY <1>1, <1>6 DEF TimesOut, HostAt, Hosts, Readers, Reading, storage
<1>7. CASE HostMisses
  BY <1>1, <1>7 DEF HostMisses, HostAt, Hosts, Readers, Reading, storage
<1>8. CASE HostFails
  BY <1>1, <1>8 DEF HostFails, HostAt, Hosts, Readers, Reading, storage
<1>9. CASE HostEnds
  BY <1>1, <1>9 DEF HostEnds, HostAt, Hosts, Readers, Reading, storage
<1> QED
  BY <1>2, <1>3, <1>4, <1>5, <1>6, <1>7, <1>8, <1>9 DEF ReaderMoves

LEMMA ReaderMovesKeeps == ASSUME SInv, ~fault, ReaderMoves PROVE SInv'
<1>1. TypeOK /\ Roles /\ Walking /\ Appending
  BY DEF SInv
<1>2. /\ UNCHANGED <<fixed, batch, left, size, committed, pages, mem, view, cursor, taken, fault>>
      /\ host.pc \in Reading /\ host' \in Hosts /\ host'.index = host.index
      /\ host'.pc \in Reading \cup {"idle"} /\ reader' \in Readers
  BY <1>1, ReaderOnly
<1>3. TypeOK'
  BY <1>1, <1>2, TypedNext DEF TypeOK, fixed
<1>4. Sliding' = Sliding /\ Aimed' = Aimed
  BY <1>2 DEF Sliding, Aimed
<1>5. Roles' /\ Appending'
  BY <1>1, <1>2, <1>4 DEF TypeOK, Roles, Appending, Reading, fixed
<1>6. Walking'
  BY <1>1, <1>2, <1>4 DEF Walking, fixed
<1> QED
  BY <1>3, <1>5, <1>6 DEF SInv

LEMMA WriterOnly ==
  ASSUME TypeOK, Roles, WriterEnds
  PROVE  /\ UNCHANGED <<fixed, batch, size, committed, pages, mem, host, view, taken, fault>>
         /\ writer = "client" /\ cursor' \in Cursors /\ cursor'.pc \in {"finish", "idle"}
         /\ cursor'.next = cursor.next /\ left' \in {left, 0} /\ reader' \in Readers
<1>1. cursor \in Cursors /\ reader \in Readers /\ writer \in {"host", "client"}
  BY DEF TypeOK
<1>2. CASE Abandons
  BY <1>1, <1>2 DEF Abandons, Roles, Cursors, Steps, storage
<1>3. CASE EndWrite
  BY <1>1, <1>3 DEF EndWrite, Roles, Cursors, Steps, Readers, storage
<1> QED
  BY <1>2, <1>3 DEF WriterEnds

LEMMA WriterEndsKeeps == ASSUME SInv, ~fault, WriterEnds PROVE SInv'
<1>1. TypeOK /\ Roles /\ Walking /\ Appending
  BY DEF SInv
<1>2. /\ UNCHANGED <<fixed, batch, size, committed, pages, mem, host, view, taken, fault>>
      /\ writer = "client" /\ cursor' \in Cursors /\ cursor'.pc \in {"finish", "idle"}
      /\ cursor'.next = cursor.next /\ left' \in {left, 0} /\ reader' \in Readers
  BY <1>1, WriterOnly
<1>3. ~Sliding'
  BY <1>2 DEF Sliding
<1>4. TypeOK'
  <2>1. left' \in Nat /\ size' + left' <= MaxElements /\ size' \in Nat
    BY <1>1, <1>2, Sizes DEF TypeOK
  <2> QED
    BY <1>1, <1>2, <2>1, TypedNext DEF TypeOK, fixed
<1>5. Roles' /\ Walking' /\ Appending'
  BY <1>1, <1>2, <1>3 DEF Roles, Walking, Appending, fixed
<1> QED
  BY <1>4, <1>5 DEF SInv

LEMMA StartBatchKeeps == ASSUME SInv, ~fault, StartBatch PROVE SInv' /\ Pushed' = <<>> /\ taken' = <<>>
<1>1. /\ TypeOK /\ Roles /\ Walking /\ Appending
      /\ UNCHANGED <<fixed, committed, pages, mem, view, fault>> /\ size' = 0 /\ taken' = <<>>
      /\ cursor.pc = "idle"
  BY DEF SInv, StartBatch
<1>2. PICK n \in 1..MaxElements :
         left' = n /\ reader' = [reader EXCEPT !.expected = n, !.late = FALSE, !.failed = FALSE]
  BY DEF StartBatch
<1>3. /\ host' \in Hosts /\ host'.pc = (IF writer = "host" THEN "push" ELSE "ready") /\ host'.index = 0
      /\ cursor' \in Cursors /\ cursor'.pc = (IF writer = "host" THEN "ready" ELSE "append") /\ ~Sliding'
  BY <1>1 DEF StartBatch, TypeOK, Hosts, Reading, Cursors, Steps, Sliding
<1>4. left' \in Nat /\ left' > 0 /\ size' + left' <= MaxElements /\ size' \in Nat /\ batch' \in Nat
  BY <1>1, <1>2, Sizes DEF StartBatch, TypeOK
<1>5. TypeOK'
  <2>1. reader' \in Readers
    <3>1. n \in Nat /\ reader \in Readers
      BY <1>1, Sizes DEF TypeOK
    <3> QED
      BY <1>2, <3>1 DEF Readers
  <2> QED
    BY <1>1, <1>3, <1>4, <2>1, Empty, TypedNext DEF TypeOK, fixed
<1>6. Roles' /\ Appending'
  BY <1>1, <1>3, <1>4, Empty DEF TypeOK, Roles, Appending, Reading, fixed
<1>7. Walking'
  BY <1>1, <1>3 DEF Walking, Aimed, Sliding, fixed
<1> QED
  BY <1>1, <1>5, <1>6, <1>7, PushedClear DEF SInv

(* What the writing side publishes is the next element, and a place that   *)
(* is not there ends the process instead.                                  *)
LEMMA PushStoresKeeps ==
  ASSUME SInv, ~fault, PushStores
  PROVE  /\ SInv' /\ taken' = taken
         /\ Pushed' = Pushed \/ \E e \in Elements : Pushed' = Append(Pushed, e)
<1>1. /\ TypeOK /\ Roles /\ Walking /\ Appending /\ host.pc = "store" /\ writer = "host" /\ left > 0
      /\ UNCHANGED <<fixed, reader, batch, committed, pages, view, cursor, taken>>
  BY DEF SInv, PushStores, Roles, TypeOK, Reading
<1>2. CASE WindowOf(size) \in pages
  <2>1. /\ Stored(size) /\ fault' = fault /\ left' = left - 1
        /\ host' = [host EXCEPT !.pc = IF left = 1 THEN "idle" ELSE "push"]
    BY <1>2 DEF PushStores, HostAt
  <2>2. /\ size \in Nat /\ size' = size + 1 /\ size < MaxElements /\ WindowOf(size) \in Windows
        /\ left' \in Nat /\ size' + left' <= MaxElements /\ (left # 1 => left' > 0) /\ size' \in Nat
    BY <1>1, <1>2, <2>1, Sizes DEF TypeOK, Stored
  <2>3. /\ Pushed' = Append(Pushed, Element(size)) /\ Element(size) \in Elements
        /\ mem' \in [Windows -> [0..(Slots - 1) -> Elements]]
    <3>1. TypeOK /\ Stored(size) /\ UNCHANGED batch /\ size < MaxElements /\ WindowOf(size) \in Windows
      BY <1>1, <2>1, <2>2
    <3>2. Element(size) \in Elements
      BY <3>1, <2>2, Sizes, ElementKnown
    <3> QED
      BY <3>1, <3>2, StoringAppends
  <2>4. host' \in Hosts /\ host'.pc = IF left = 1 THEN "idle" ELSE "push"
    BY <1>1, <2>1 DEF TypeOK, Hosts
  <2>5. TypeOK'
    BY <1>1, <2>1, <2>2, <2>3, <2>4, TypedNext DEF TypeOK, fixed
  <2>6. Roles' /\ Appending'
    BY <1>1, <2>2, <2>4 DEF Roles, Appending, Reading, Sliding, fixed
  <2>7. Walking'
    BY <1>1, <2>2 DEF Walking, Aimed, Sliding
  <2> QED
    BY <1>1, <2>3, <2>5, <2>6, <2>7 DEF SInv
<1>3. CASE WindowOf(size) \notin pages
  <2>1. fault' = TRUE /\ host' = [host EXCEPT !.pc = "idle"] /\ UNCHANGED <<mem, size, left>>
    BY <1>3 DEF PushStores, HostAt
  <2>2. TypeOK'
    BY <1>1, <2>1, TypedNext DEF TypeOK, Hosts, fixed
  <2> QED
    BY <1>1, <2>1, <2>2, PushedKept DEF SInv
<1> QED
  BY <1>2, <1>3

LEMMA PushBackStoresKeeps ==
  ASSUME SInv, ~fault, PushBackStores
  PROVE  /\ SInv' /\ taken' = taken
         /\ Pushed' = Pushed \/ \E e \in Elements : Pushed' = Append(Pushed, e)
<1>1. /\ TypeOK /\ Roles /\ Walking /\ Appending /\ cursor.pc = "store" /\ writer = "client" /\ left > 0
      /\ UNCHANGED <<fixed, reader, batch, committed, pages, host, taken>> /\ ~Sliding
  BY DEF SInv, PushBackStores, Roles, TypeOK, Sliding
<1>2. CASE Readable
  <2>1. /\ Stored(size) /\ fault' = fault /\ left' = left - 1 /\ view' = [view EXCEPT !.index = size]
        /\ cursor' = [cursor EXCEPT !.pc = IF left = 1 THEN Finished ELSE "append"]
    BY <1>2 DEF PushBackStores
  <2>2. WindowOf(size) \in Windows
    BY <1>1, <1>2 DEF Readable, Appending, Aimed, TypeOK
  <2>3. /\ size \in Nat /\ size' = size + 1 /\ size < MaxElements
        /\ left' \in Nat /\ size' + left' <= MaxElements /\ size' \in Nat
    BY <1>1, <2>1, Sizes DEF TypeOK, Stored
  <2>4. /\ Pushed' = Append(Pushed, Element(size)) /\ Element(size) \in Elements
        /\ mem' \in [Windows -> [0..(Slots - 1) -> Elements]]
    <3>1. TypeOK /\ Stored(size) /\ UNCHANGED batch /\ size < MaxElements /\ WindowOf(size) \in Windows
      BY <1>1, <2>1, <2>2, <2>3
    <3>2. Element(size) \in Elements
      BY <3>1, <2>3, Sizes, ElementKnown
    <3> QED
      BY <3>1, <3>2, StoringAppends
  <2>5. view' \in Views /\ cursor' \in Cursors /\ cursor'.pc \in {"idle", "append", "finish"} /\ ~Sliding'
    BY <1>1, <2>1 DEF TypeOK, Views, Cursors, Steps, Sliding, Finished
  <2>6. TypeOK'
    BY <1>1, <2>1, <2>3, <2>4, <2>5, TypedNext DEF TypeOK, fixed
  <2>7. Roles' /\ Walking'
    BY <1>1, <2>5 DEF Roles, Walking, fixed
  <2>8. Appending'
    BY <1>1, <2>3, <2>5 DEF TypeOK, Hosts, Appending, fixed
  <2> QED
    BY <1>1, <2>4, <2>6, <2>7, <2>8 DEF SInv
<1>3. CASE ~Readable
  <2>1. fault' /\ UNCHANGED <<left, mem, size, view, cursor>> /\ fault' \in BOOLEAN
    BY <1>3 DEF PushBackStores
  <2>2. TypeOK'
    BY <1>1, <2>1, TypedNext DEF TypeOK, fixed
  <2> QED
    BY <1>1, <2>1, <2>2, PushedKept DEF SInv
<1> QED
  BY <1>2, <1>3

---------------------------------------------------------------------------
(* What the reading side is handed is the next element published.          *)
Hands == Len(taken) < size /\ taken' = Append(taken, Pushed[Len(taken) + 1])

LEMMA HandedIsElement ==
  ASSUME TypeOK, Len(taken) < size, NEW i \in Nat, i = Len(taken), WindowOf(i) \in pages
  PROVE  /\ Pushed[Len(taken) + 1] = mem[WindowOf(i)][SlotOf(i)]
         /\ mem[WindowOf(i)][SlotOf(i)] \in Elements
BY PushedAt, Splits DEF TypeOK

LEMMA ClientTakesKeeps ==
  ASSUME SInv, ~fault, ClientTakes
  PROVE  SInv' /\ Pushed' = Pushed /\ (taken' = taken \/ Hands)
<1>1. /\ TypeOK /\ Roles /\ Walking /\ Appending /\ cursor.pc = "take" /\ writer = "host"
      /\ UNCHANGED <<fixed, reader, batch, left, storage, host, view>> /\ ~Sliding
      /\ cursor' = [cursor EXCEPT !.pc = "walk"]
  BY DEF SInv, ClientTakes, Roles, TypeOK, Sliding
<1>2. /\ cursor' \in Cursors /\ cursor'.pc = "walk" /\ ~cursor'.first /\ cursor'.next = cursor.next /\ ~Sliding'
      /\ cursor.next = view.index + 1 /\ Len(taken) = view.index /\ view.index < size
      /\ view.index \in Nat /\ view.window \in Nat /\ view.sub \in Nat /\ view.sub < Slots
  BY <1>1 DEF TypeOK, Views, Cursors, Steps, Walking, Sliding
<1>3. CASE Readable /\ view.sub < Slots
  <2>1. taken' = Append(taken, mem[view.window][view.sub]) /\ fault' = fault
    BY <1>3 DEF ClientTakes, Takes
  <2>2. view.mapped /\ view.window \in pages /\ view.index = view.window * Slots + view.sub
    BY <1>1, <1>3 DEF Readable, Walking, Aimed
  <2>3. WindowOf(view.index) = view.window /\ SlotOf(view.index) = view.sub
    BY <1>2, <2>2, PlaceOf
  <2>4. Pushed[Len(taken) + 1] = mem[view.window][view.sub] /\ mem[view.window][view.sub] \in Elements
    BY <1>1, <1>2, <2>2, <2>3, HandedIsElement
  <2>5. taken' \in Seq(Elements) /\ Len(taken') = view.index + 1
    <3>1. taken \in Seq(Elements)
      BY <1>1 DEF TypeOK
    <3>2. taken' \in Seq(Elements) /\ Len(taken') = Len(taken) + 1
      BY <2>1, <2>4, <3>1, Appended
    <3> QED
      BY <1>2, <3>2
  <2>6. TypeOK'
    BY <1>1, <1>2, <2>1, <2>5, TypedNext DEF TypeOK, fixed, storage
  <2>7. Roles' /\ Appending'
    BY <1>1, <1>2 DEF Roles, Appending, fixed
  <2>8. Walking'
    BY <1>1, <1>2, <2>2, <2>5 DEF Walking, Aimed, fixed
  <2> QED
    BY <1>1, <1>2, <2>1, <2>4, <2>6, <2>7, <2>8, PushedKept DEF SInv, Hands, storage
<1>4. CASE ~(Readable /\ view.sub < Slots)
  <2>1. fault' = TRUE /\ taken' = taken
    BY <1>4 DEF ClientTakes, Takes
  <2>2. TypeOK'
    BY <1>1, <1>2, <2>1, TypedNext DEF TypeOK, fixed, storage
  <2> QED
    BY <1>1, <2>1, <2>2, PushedKept DEF SInv, storage
<1> QED
  BY <1>3, <1>4

LEMMA HostTakesKeeps ==
  ASSUME SInv, ~fault, HostTakes
  PROVE  SInv' /\ Pushed' = Pushed /\ (taken' = taken \/ Hands)
<1> DEFINE i == host.index
           n == host.index + 1
<1>1. /\ TypeOK /\ Roles /\ Walking /\ Appending /\ host.pc \in Reading /\ writer = "client" /\ i < size
      /\ UNCHANGED <<fixed, reader, batch, left, storage, view, cursor>>
      /\ host' = [pc |-> IF parallel THEN "get" ELSE "each", index |-> n]
  BY DEF SInv, HostTakes, Roles, TypeOK, Reading
<1>2. i \in Nat /\ n \in Nat /\ i = Len(taken) /\ n = i + 1 /\ n <= size
  BY <1>1 DEF TypeOK, Hosts, Appending
<1>3. Takes(WindowOf(i) \in pages, WindowOf(i), SlotOf(i))
  BY DEF HostTakes
<1> HIDE DEF i, n
<1>4. host' \in Hosts /\ host'.pc \in Reading /\ host'.index = n
  BY <1>1, <1>2 DEF Hosts, Reading
<1>5. CASE WindowOf(i) \in pages
  <2>1. taken' = Append(taken, mem[WindowOf(i)][SlotOf(i)]) /\ fault' = fault
    BY <1>3, <1>5 DEF Takes
  <2>2. /\ Pushed[Len(taken) + 1] = mem[WindowOf(i)][SlotOf(i)] /\ mem[WindowOf(i)][SlotOf(i)] \in Elements
        /\ Len(taken) < size
    BY <1>1, <1>2, <1>5, HandedIsElement
  <2>3. taken' \in Seq(Elements) /\ Len(taken') = n
    <3>1. taken \in Seq(Elements)
      BY <1>1 DEF TypeOK
    <3>2. taken' \in Seq(Elements) /\ Len(taken') = Len(taken) + 1
      BY <2>1, <2>2, <3>1, Appended
    <3> QED
      BY <1>2, <3>2
  <2>4. TypeOK'
    BY <1>1, <1>4, <2>1, <2>3, TypedNext DEF TypeOK, fixed, storage
  <2>5. Roles' /\ Walking'
    BY <1>1, <1>4 DEF Roles, Walking, Sliding, fixed
  <2>6. Appending'
    BY <1>1, <1>2, <2>3 DEF Appending, Aimed, Sliding, storage
  <2> QED
    BY <1>1, <2>1, <2>2, <2>4, <2>5, <2>6, PushedKept DEF SInv, Hands, storage
<1>6. CASE WindowOf(i) \notin pages
  <2>1. fault' = TRUE /\ taken' = taken
    BY <1>3, <1>6 DEF Takes
  <2>2. TypeOK'
    BY <1>1, <1>4, <2>1, TypedNext DEF TypeOK, fixed, storage
  <2> QED
    BY <1>1, <2>1, <2>2, PushedKept DEF SInv, storage
<1> QED
  BY <1>5, <1>6

---------------------------------------------------------------------------
(* The vector implements the sequence.                                     *)
LEMMA SInvInit == ASSUME Init PROVE SInv /\ Pushed = <<>> /\ taken = <<>>
<1>1. Nothing \in Elements
  BY Sizes DEF Nothing, Elements
<1>2. TypeOK
  <2>1. /\ writer \in {"host", "client"} /\ reserved \in Nat \ {0} /\ parallel \in BOOLEAN /\ initial \in Nat
        /\ {batch, left, size, committed} \subseteq Nat /\ size + left <= MaxElements /\ pages \subseteq Windows
    BY Sizes DEF Init, Windows
  <2>2. mem \in [Windows -> [0..(Slots - 1) -> Elements]]
    BY <1>1 DEF Init
  <2>3. host \in Hosts /\ view \in Views /\ reader \in Readers
    BY DEF Init, Hosts, Views, Readers
  <2>4. cursor \in Cursors
    BY DEF Init, Cursors, Steps
  <2>5. taken \in Seq(Elements) /\ fault \in BOOLEAN
    BY Empty DEF Init
  <2> QED
    BY <2>1, <2>2, <2>3, <2>4, <2>5 DEF TypeOK
<1>3. Roles /\ Appending
  BY DEF Init, Roles, Appending, Reading, Sliding
<1>4. Walking
  BY Sizes DEF Init, Walking, Aimed, Sliding
<1>5. Pushed = <<>>
  BY DEF Init, Pushed
<1> QED
  BY <1>2, <1>3, <1>4, <1>5 DEF SInv, Init

Quiet ==
  \/ PushChecks \/ ExtendCommits \/ ExtendCounts \/ ExtendFails \/ ReaderMoves \/ WriterEnds
  \/ SlideCommits \/ SlideLoads \/ SlideCounts \/ SlideMaps \/ SlideFails
  \/ Restart \/ NextFirst \/ NextAdvances \/ ClientEnds \/ Reserve \/ PushBack

LEMMA NextActions ==
  ASSUME Next
  PROVE  ~fault /\ (Quiet \/ StartBatch \/ PushStores \/ PushBackStores \/ ClientTakes \/ HostTakes)
BY DEF Next, Host, HostReads, Client, Quiet, ReaderMoves, WriterEnds

LEMMA QuietKeeps == ASSUME SInv, ~fault, Quiet PROVE SInv' /\ Pushed' = Pushed /\ taken' = taken
<1>1. UNCHANGED <<mem, size, taken>>
  <2>1. CASE ReaderMoves
    BY <2>1, ReaderOnly DEF SInv
  <2>2. CASE WriterEnds
    BY <2>2, WriterOnly DEF SInv
  <2>3. CASE ~ReaderMoves /\ ~WriterEnds
    BY <2>3 DEF Quiet, storage, PushChecks, ExtendCommits, ExtendCounts, ExtendFails, SlideCommits,
       SlideLoads, SlideCounts, SlideMaps, SlideFails, Restart, NextFirst, NextAdvances, ClientEnds,
       Reserve, PushBack
  <2> QED
    BY <2>1, <2>2, <2>3
<1>2. SInv'
  BY PushChecksKeeps, ExtendCommitsKeeps, ExtendCountsKeeps, ExtendFailsKeeps, ReaderMovesKeeps, WriterEndsKeeps,
     SlideCommitsKeeps, SlideLoadsKeeps, SlideCountsKeeps, SlideMapsKeeps, SlideFailsKeeps,
     RestartKeeps, NextFirstKeeps, NextAdvancesKeeps, ClientEndsKeeps, ReserveKeeps, PushBackKeeps DEF Quiet
<1> QED
  BY <1>1, <1>2, PushedKept

LEMMA StutterKeeps == ASSUME SInv, UNCHANGED vars PROVE SInv' /\ Pushed' = Pushed /\ taken' = taken
<1>1. UNCHANGED <<mem, size, taken>>
  BY DEF vars
<1>2. Windows' = Windows
  BY DEF vars, Windows
<1>3. Sliding' = Sliding /\ Aimed' = Aimed
  BY DEF vars, Sliding, Aimed
<1> QED
  BY <1>2, <1>3, PushedKept DEF vars, SInv, TypeOK, Roles, Walking, Appending

LEMMA InvarianceStep == ASSUME SInv, [Next]_vars PROVE SInv'
BY NextActions, QuietKeeps, StartBatchKeeps, PushStoresKeeps, PushBackStoresKeeps, ClientTakesKeeps,
   HostTakesKeeps, StutterKeeps

(* In every reachable state the reader's cursor, its view and the storage  *)
(* name the same element.                                                  *)
THEOREM Invariance == Spec => []SInv
<1>1. Init => SInv
  BY SInvInit
<1>2. SInv /\ [Next]_vars => SInv'
  BY InvarianceStep
<1> QED
  BY <1>1, <1>2, PTL DEF Spec

(* Every behaviour of the windows, commits and slides is one of the plain  *)
(* sequence: whatever the two sides do at the same time, each element that *)
(* is handed over is the next one that was published, and none is handed   *)
(* over twice.                                                             *)
THEOREM SequenceImplemented == Spec => ImplementsStream
<1>1. Init => Stream!Init
  BY SInvInit DEF Stream!Init
<1>2. SInv /\ [Next]_vars => [Stream!Next]_(Stream!svars)
  <2> SUFFICES ASSUME SInv, [Next]_vars
               PROVE  [Stream!Next]_(Stream!svars)
    OBVIOUS
  <2>1. CASE UNCHANGED vars
    BY <2>1, StutterKeeps DEF Stream!svars
  <2>2. CASE Next /\ Quiet
    BY <2>2, NextActions, QuietKeeps DEF Stream!svars
  <2>3. CASE Next /\ StartBatch
    BY <2>3, NextActions, StartBatchKeeps DEF Stream!Next, Stream!Clear
  <2>4. CASE Next /\ (PushStores \/ PushBackStores)
    <3>1. /\ taken' = taken
          /\ Pushed' = Pushed \/ \E e \in Elements : Pushed' = Append(Pushed, e)
      BY <2>4, NextActions, PushStoresKeeps, PushBackStoresKeeps
    <3> QED
      BY <3>1 DEF Stream!Next, Stream!Push, Stream!svars
  <2>5. CASE Next /\ (ClientTakes \/ HostTakes)
    <3>1. Pushed' = Pushed /\ (taken' = taken \/ Hands)
      BY <2>5, NextActions, ClientTakesKeeps, HostTakesKeeps
    <3>2. Len(Pushed) = size
      BY PushedAt DEF SInv
    <3> QED
      BY <3>1, <3>2 DEF Hands, Stream!Next, Stream!Take, Stream!svars
  <2> QED
    BY <2>1, <2>2, <2>3, <2>4, <2>5, NextActions
<1> QED
  BY <1>1, <1>2, Invariance, PTL DEF Spec, ImplementsStream, Stream!Spec

---------------------------------------------------------------------------
(* The windows either side relies on are there.                            *)
LEMMA Rows ==
  ASSUME NEW c \in Nat
  PROVE  /\ c * Slots \in Nat /\ (c + 1) * Slots = c * Slots + Slots
         /\ \A i \in Nat : i < c * Slots => WindowOf(i) < c
<1>1. c * Slots \in Nat /\ (c + 1) * Slots = c * Slots + Slots
  BY Sizes
<1>2. ASSUME NEW i \in Nat, i < c * Slots, c <= WindowOf(i) PROVE FALSE
  <2> DEFINE w == WindowOf(i)
             d == w - c
  <2>1. /\ w \in Nat /\ i = w * Slots + SlotOf(i) /\ SlotOf(i) \in Nat /\ d \in Nat /\ w = c + d
    BY <1>2, Splits
  <2> HIDE DEF w, d
  <2>2. (c + d) * Slots = c * Slots + d * Slots /\ d * Slots \in Nat
    BY <2>1, Sizes
  <2>3. i = c * Slots + d * Slots + SlotOf(i)
    BY <2>1, <2>2
  <2> QED
    BY <1>1, <1>2, <2>1, <2>2, <2>3
<1> QED
  BY <1>1, <1>2, Splits

LEMMA Reach ==
  /\ Furthest \in Nat /\ (Ample <=> reserved > 1 + Furthest)
  /\ \A i \in Nat : i < MaxElements => WindowOf(i) <= Furthest
<1>1. MaxElements - 1 \in Nat
  BY Sizes
<1>2. ASSUME NEW i \in Nat, i < MaxElements PROVE i <= MaxElements - 1
  BY <1>2, Sizes
<1> QED
  BY <1>1, <1>2, Splits, Monotone DEF Furthest, Ample, WindowOf

LEMMA Below == ASSUME TypeOK, CountTold PROVE \A w \in Nat : w < committed => w \in pages
BY DEF TypeOK, CountTold

(* What was committed at the creation is enough for every element to come. *)
LEMMA PlentyHolds ==
  ASSUME TypeOK, CountTold, Plenty, size < MaxElements
  PROVE  size + 1 <= committed * Slots
<1> DEFINE w == WindowOf(size)
           d == committed - (w + 1)
<1>1. /\ w \in Nat /\ size \in Nat /\ size = w * Slots + SlotOf(size) /\ SlotOf(size) \in Nat
      /\ SlotOf(size) < Slots /\ w <= Furthest
  BY Splits, Reach DEF TypeOK
<1>2. d \in Nat /\ committed = (w + 1) + d
  BY <1>1, Reach DEF TypeOK, CountTold, Plenty
<1> HIDE DEF w, d
<1>3. ((w + 1) + d) * Slots = w * Slots + Slots + d * Slots /\ d * Slots \in Nat /\ w * Slots \in Nat
  BY <1>1, <1>2, Sizes
<1>4. committed * Slots = w * Slots + Slots + d * Slots
  BY <1>2, <1>3
<1> QED
  BY <1>1, <1>3, <1>4, Sizes

LEMMA PushChecksSound == ASSUME WInv, ~fault, PushChecks PROVE Sound'
<1>1. /\ TypeOK /\ Roles /\ Walking /\ Appending /\ CountTold /\ Room /\ Alone /\ Extending
      /\ UNCHANGED fixed
  BY DEF WInv, SInv, Sound, PushChecks
<1>2. /\ UNCHANGED <<batch, left, size, committed, pages, view, cursor, fault>> /\ host.pc = "push"
      /\ host'.index = host.index /\ host'.pc \in {"extend", "store"}
      /\ host'.pc = "store" => size < committed * Slots /\ left > 0
      /\ host'.pc = "extend" => ~Plenty
  <2>1. /\ UNCHANGED <<batch, left, size, committed, pages, view, cursor, fault>> /\ host.pc = "push" /\ left > 0
        /\ host' = [host EXCEPT !.pc = IF size + 1 > committed * Slots THEN "extend" ELSE "store"]
    BY DEF PushChecks, HostAt, storage
  <2>2. /\ host'.index = host.index
        /\ host'.pc = IF size + 1 > committed * Slots THEN "extend" ELSE "store"
    BY <1>1, <2>1 DEF TypeOK, Hosts
  <2>3. size \in Nat /\ size < MaxElements /\ committed \in Nat /\ committed * Slots \in Nat
    BY <1>1, <2>1, Rows, Sizes DEF TypeOK
  <2>4. Plenty => size + 1 <= committed * Slots
    BY <1>1, <2>3, PlentyHolds
  <2>5. host'.pc \in {"extend", "store"} /\ (host'.pc = "store" => size < committed * Slots)
    BY <2>2, <2>3
  <2>6. host'.pc = "extend" => ~Plenty
    BY <2>2, <2>3, <2>4
  <2> QED
    BY <2>1, <2>2, <2>5, <2>6
<1>3. CountTold'
  BY <1>1, <1>2, Sizes DEF CountTold, fixed, TypeOK
<1>5. Room'
  BY <1>1, <1>2 DEF Room, Ample, Sliding, fixed
<1>6. Alone'
  BY <1>1, <1>2, Sizes DEF Alone, Plenty, fixed, TypeOK
<1>7. Extending'
  BY <1>1, <1>2, Sizes DEF Extending, Plenty, fixed, TypeOK
<1> QED
  BY <1>3, <1>5, <1>6, <1>7 DEF Sound

LEMMA ExtendCommitsSound == ASSUME WInv, ~fault, ExtendCommits PROVE Sound'
<1>1. /\ TypeOK /\ Roles /\ Walking /\ Appending /\ CountTold /\ Room /\ Alone /\ Extending
      /\ UNCHANGED fixed
  BY DEF WInv, SInv, Sound, ExtendCommits
<1>2. /\ UNCHANGED <<batch, left, size, committed, view, cursor, fault>> /\ committed < reserved
      /\ pages' = pages \cup {committed} /\ host'.index = host.index /\ host'.pc = "count" /\ host.pc = "extend"
  BY DEF ExtendCommits, HostAt
<1>3. CountTold'
  BY <1>1, <1>2, Sizes DEF CountTold, fixed, TypeOK
<1>5. Room'
  BY <1>1, <1>2 DEF Room, Ample, Sliding, fixed
<1>6. Alone'
  BY <1>1, <1>2, Sizes DEF Alone, Plenty, fixed, TypeOK
<1>7. Extending'
  BY <1>1, <1>2, Sizes DEF Extending, Plenty, fixed, TypeOK
<1> QED
  BY <1>3, <1>5, <1>6, <1>7 DEF Sound

LEMMA ExtendCountsSound == ASSUME WInv, ~fault, ExtendCounts PROVE Sound'
<1>1. /\ TypeOK /\ Roles /\ Walking /\ Appending /\ CountTold /\ Room /\ Alone /\ Extending
      /\ UNCHANGED fixed
  BY DEF WInv, SInv, Sound, ExtendCounts
<1>2. /\ UNCHANGED <<batch, left, size, pages, view, cursor, fault>> /\ committed' = committed + 1
      /\ host'.index = host.index /\ host'.pc = "store" /\ host.pc = "count" /\ writer = "host" /\ left > 0
      /\ cursor.pc \in {"idle", "ready"} /\ ~Plenty
  BY <1>1 DEF ExtendCounts, TypeOK, HostAt, Alone, Extending, Roles, Reading
<1>3. CountTold'
  BY <1>1, <1>2 DEF CountTold, Extending, fixed, TypeOK
<1>5. Room'
  BY <1>1, <1>2 DEF Room, Ample, Sliding, fixed
<1>6. Alone'
  BY <1>1, <1>2, Sizes DEF Alone, Plenty, fixed, TypeOK
<1>7. Extending'
  <2> DEFINE a == committed * Slots
             b == committed' * Slots
  <2>1. committed \in Nat /\ size \in Nat /\ Slots \in Nat \ {0} /\ (committed + 1) * Slots = committed * Slots + Slots
        /\ committed * Slots \in Nat
    BY <1>1, Rows, Sizes DEF TypeOK
  <2>2. b = a + Slots /\ a \in Nat
    BY <1>2, <2>1
  <2>3. writer = "host" => size <= a
    BY <1>1 DEF Extending
  <2> HIDE DEF a, b
  <2>4. writer = "host" => size < b /\ size <= b
    BY <2>1, <2>2, <2>3
  <2> QED
    BY <1>1, <1>2, <2>4 DEF b, Extending, fixed
<1> QED
  BY <1>3, <1>5, <1>6, <1>7 DEF Sound

LEMMA ExtendFailsSound == ASSUME WInv, ~fault, ExtendFails PROVE Sound'
<1>1. /\ TypeOK /\ Roles /\ Walking /\ Appending /\ CountTold /\ Room /\ Alone /\ Extending
      /\ UNCHANGED fixed
  BY DEF WInv, SInv, Sound, ExtendFails
<1>2. /\ UNCHANGED <<batch, size, committed, pages, view, cursor, fault>> /\ left' = 0
      /\ host'.index = host.index /\ host'.pc = "idle"
  BY DEF ExtendFails, HostAt, storage
<1>3. CountTold'
  BY <1>1, <1>2, Sizes DEF CountTold, fixed, TypeOK
<1>5. Room'
  BY <1>1, <1>2 DEF Room, Ample, Sliding, fixed
<1>6. Alone'
  BY <1>1, <1>2, Sizes DEF Alone, Plenty, fixed, TypeOK
<1>7. Extending'
  BY <1>1, <1>2, Sizes DEF Extending, Plenty, fixed, TypeOK
<1> QED
  BY <1>3, <1>5, <1>6, <1>7 DEF Sound

LEMMA ReaderMovesSound == ASSUME WInv, ~fault, ReaderMoves PROVE Sound'
<1>1. TypeOK /\ Roles /\ Walking /\ Appending /\ CountTold /\ Room /\ Alone /\ Extending
  BY DEF WInv, SInv, Sound
<1>2. /\ UNCHANGED <<fixed, batch, left, size, committed, pages, mem, view, cursor, taken, fault>>
      /\ host'.pc \in Reading \cup {"idle"}
  BY <1>1, ReaderOnly
<1>3. CountTold'
  BY <1>1, <1>2, Sizes DEF CountTold, fixed, TypeOK
<1>5. Room'
  BY <1>1, <1>2 DEF Room, Ample, Sliding, fixed
<1>6. Alone'
  BY <1>1, <1>2, Sizes DEF Alone, Plenty, fixed, TypeOK
<1>7. Extending'
  BY <1>1, <1>2, Sizes DEF Extending, Plenty, Reading, fixed, TypeOK
<1> QED
  BY <1>3, <1>5, <1>6, <1>7 DEF Sound

LEMMA WriterEndsSound == ASSUME WInv, ~fault, WriterEnds PROVE Sound'
<1>1. TypeOK /\ Roles /\ Walking /\ Appending /\ CountTold /\ Room /\ Alone /\ Extending
  BY DEF WInv, SInv, Sound
<1>2. /\ UNCHANGED <<fixed, batch, size, committed, pages, mem, host, view, taken, fault>>
      /\ writer = "client" /\ cursor'.pc \in {"finish", "idle"}
  BY <1>1, WriterOnly
<1>3. CountTold'
  BY <1>1, <1>2, Sizes DEF CountTold, fixed, TypeOK
<1>5. Room'
  BY <1>1, <1>2 DEF Room, Ample, Sliding, fixed
<1>6. Alone'
  BY <1>1, <1>2, Sizes DEF Alone, Plenty, fixed, TypeOK
<1>7. Extending'
  BY <1>1, <1>2, Sizes DEF Extending, Plenty, Reading, fixed, TypeOK
<1> QED
  BY <1>3, <1>5, <1>6, <1>7 DEF Sound

LEMMA HostTakesSound == ASSUME WInv, ~fault, HostTakes PROVE Sound'
<1>1. /\ TypeOK /\ Roles /\ Walking /\ Appending /\ CountTold /\ Room /\ Alone /\ Extending
      /\ UNCHANGED fixed
  BY DEF WInv, SInv, Sound, HostTakes
<1>2. /\ UNCHANGED <<batch, left, size, committed, pages, view, cursor>> /\ host.index < size
      /\ host'.index = host.index + 1 /\ host'.pc \in Reading /\ host.index \in Nat /\ fault' = FALSE
  BY <1>1 DEF HostTakes, TypeOK, Hosts, Reading, storage, CountTold, Takes
<1>3. CountTold'
  BY <1>1, <1>2, Sizes DEF CountTold, fixed, TypeOK
<1>5. Room'
  BY <1>1, <1>2 DEF Room, Ample, Sliding, fixed
<1>6. Alone'
  BY <1>1, <1>2, Sizes DEF Alone, Plenty, fixed, TypeOK
<1>7. Extending'
  BY <1>1, <1>2, Sizes DEF Extending, Plenty, Reading, fixed, TypeOK
<1> QED
  BY <1>3, <1>5, <1>6, <1>7 DEF Sound

LEMMA SlideCommitsSound == ASSUME WInv, ~fault, SlideCommits PROVE Sound'
<1>1. /\ TypeOK /\ Roles /\ Walking /\ Appending /\ CountTold /\ Room /\ Alone /\ Extending
      /\ UNCHANGED fixed
  BY DEF WInv, SInv, Sound, SlideCommits
<1>2. /\ UNCHANGED <<batch, left, size, committed, host, view, fault>> /\ committed < reserved
      /\ pages' = pages \cup {committed} /\ cursor' = [cursor EXCEPT !.pc = "load"]
      /\ cursor'.pc = "load" /\ cursor.pc = "slide" /\ cursor'.next = cursor.next /\ cursor'.target = cursor.target
      /\ ~Plenty
  <2>1. cursor.target \in Nat /\ cursor.target <= Furthest /\ committed < cursor.target + 2 /\ committed \in Nat
    BY <1>1 DEF SlideCommits, Needed, Room, Sliding, TypeOK, Cursors
  <2>2. ~Plenty
    BY <1>1, <2>1, Reach DEF CountTold, Plenty, TypeOK
  <2> QED
    BY <2>2 DEF SlideCommits
<1>3. CountTold'
  BY <1>1, <1>2, Sizes DEF CountTold, fixed, TypeOK
<1>5. Room'
  BY <1>1, <1>2 DEF Room, Ample, Sliding, fixed
<1>6. Alone'
  BY <1>1, <1>2, Sizes DEF Alone, Plenty, fixed, TypeOK
<1>7. Extending'
  BY <1>1, <1>2, Sizes DEF Extending, Plenty, fixed, TypeOK
<1> QED
  BY <1>3, <1>5, <1>6, <1>7 DEF Sound

LEMMA SlideLoadsSound == ASSUME WInv, ~fault, SlideLoads PROVE Sound'
<1>1. /\ TypeOK /\ Roles /\ Walking /\ Appending /\ CountTold /\ Room /\ Alone /\ Extending
      /\ UNCHANGED fixed
  BY DEF WInv, SInv, Sound, SlideLoads
<1>2. /\ UNCHANGED <<batch, left, size, committed, pages, host, view, fault>>
      /\ cursor'.pc = "count" /\ cursor.pc = "load" /\ cursor'.next = cursor.next /\ cursor'.target = cursor.target
      /\ cursor'.seen = committed
  BY DEF SlideLoads, storage
<1>3. CountTold'
  BY <1>1, <1>2, Sizes DEF CountTold, fixed, TypeOK
<1>5. Room'
  BY <1>1, <1>2 DEF Room, Ample, Sliding, fixed
<1>6. Alone'
  BY <1>1, <1>2, Sizes DEF Alone, Plenty, fixed, TypeOK
<1>7. Extending'
  BY <1>1, <1>2, Sizes DEF Extending, Plenty, fixed, TypeOK
<1> QED
  BY <1>3, <1>5, <1>6, <1>7 DEF Sound

LEMMA SlideCountsSound == ASSUME WInv, ~fault, SlideCounts PROVE Sound'
<1>1. /\ TypeOK /\ Roles /\ Walking /\ Appending /\ CountTold /\ Room /\ Alone /\ Extending
      /\ UNCHANGED fixed
  BY DEF WInv, SInv, Sound, SlideCounts
<1>2. /\ UNCHANGED <<batch, left, size, pages, host, view, fault>> /\ committed' = committed + 1
      /\ cursor'.pc = "slide" /\ cursor.pc = "count" /\ cursor'.next = cursor.next /\ cursor'.target = cursor.target
      /\ committed < reserved /\ committed \in pages /\ committed \in Nat /\ reserved \in Nat /\ size \in Nat
      /\ (writer = "host" => host.pc = "idle") /\ ~Plenty
  BY <1>1 DEF SlideCounts, TypeOK, Cursors, Steps, storage, Extending, Alone, Roles
<1>3. CountTold'
  <2>1. committed' \in 1..reserved' /\ committed' - 1 = committed
    BY <1>1, <1>2 DEF fixed, CountTold
  <2>2. 0..(committed' - 1) \subseteq pages'
    BY <1>1, <1>2, <2>1, Below
  <2> QED
    BY <1>1, <1>2, <2>1, <2>2 DEF CountTold, fixed, TypeOK
<1>5. Room'
  BY <1>1, <1>2 DEF Room, Ample, Sliding, fixed
<1>6. Alone'
  BY <1>1, <1>2, Sizes DEF Alone, Plenty, fixed, TypeOK
<1>7. Extending'
  <2> DEFINE a == committed * Slots
             b == committed' * Slots
  <2>1. committed \in Nat /\ size \in Nat /\ Slots \in Nat \ {0} /\ (committed + 1) * Slots = committed * Slots + Slots
        /\ committed * Slots \in Nat
    BY <1>1, Rows, Sizes DEF TypeOK
  <2>2. b = a + Slots /\ a \in Nat
    BY <1>2, <2>1
  <2>3. writer = "host" => size <= a
    BY <1>1 DEF Extending
  <2> HIDE DEF a, b
  <2>4. writer = "host" => size < b
    BY <2>1, <2>2, <2>3
  <2> QED
    <3>1. writer = "client" => host.pc \in {"idle"} \cup Reading
      BY <1>1 DEF Roles
    <3>2. host.pc \notin {"extend", "count", "store"}
      BY <1>1, <1>2, <3>1 DEF TypeOK, Reading
    <3>3. writer = "host" => size <= b
      BY <2>1, <2>2, <2>3
    <3> QED
      BY <1>1, <1>2, <3>2, <3>3 DEF b, Extending, fixed
<1> QED
  BY <1>3, <1>5, <1>6, <1>7 DEF Sound

LEMMA SlideMapsSound == ASSUME WInv, ~fault, SlideMaps PROVE Sound'
<1>1. /\ TypeOK /\ Roles /\ Walking /\ Appending /\ CountTold /\ Room /\ Alone /\ Extending
      /\ UNCHANGED fixed
  BY DEF WInv, SInv, Sound, SlideMaps
<1>2. /\ UNCHANGED <<batch, left, size, committed, pages, host, fault>>
      /\ cursor'.pc = cursor.then /\ cursor.pc = "slide" /\ cursor'.next = cursor.next
      /\ cursor'.pc \in Steps /\ view'.window = cursor.target /\ view'.mapped = view.mapped /\ view'.sub = view.sub
      /\ view'.index = view.index /\ cursor.target \in Nat /\ cursor.target < committed
  <2>1. /\ UNCHANGED <<batch, left, size, committed, pages, host, fault>> /\ cursor.pc = "slide" /\ committed >= cursor.target + 2
        /\ view' = [view EXCEPT !.window = cursor.target] /\ cursor' = [cursor EXCEPT !.pc = cursor.then]
    BY DEF SlideMaps, Needed, storage
  <2>2. cursor'.pc = cursor.then /\ cursor'.next = cursor.next /\ cursor'.pc \in Steps
    BY <1>1, <2>1 DEF TypeOK, Cursors
  <2>3. view'.window = cursor.target /\ view'.mapped = view.mapped /\ view'.sub = view.sub /\ view'.index = view.index
    BY <1>1, <2>1 DEF TypeOK, Views
  <2>4. cursor.target \in Nat /\ cursor.target < committed
    BY <1>1, <2>1 DEF TypeOK, Cursors
  <2> QED
    BY <2>1, <2>2, <2>3, <2>4
<1>3. CountTold'
  BY <1>1, <1>2, Sizes, Below DEF CountTold, fixed, TypeOK
<1>5. Room'
  BY <1>1, <1>2 DEF Room, Ample, Steps, Sliding, fixed
<1>6. Alone'
  BY <1>1, <1>2 DEF Alone, Plenty, fixed, TypeOK
<1>7. Extending'
  BY <1>1, <1>2 DEF Extending, Plenty, Steps, fixed, TypeOK
<1> QED
  BY <1>3, <1>5, <1>6, <1>7 DEF Sound

LEMMA SlideFailsSound == ASSUME WInv, ~fault, SlideFails PROVE Sound'
<1>1. /\ TypeOK /\ Roles /\ Walking /\ Appending /\ CountTold /\ Room /\ Alone /\ Extending
      /\ UNCHANGED fixed
  BY DEF WInv, SInv, Sound, SlideFails
<1>2. /\ UNCHANGED <<batch, size, committed, pages, host, fault>> /\ cursor.pc = "slide"
      /\ cursor'.pc \in Steps /\ view'.window = view.window /\ left' \in {left, 0} /\ ~Ample
  <2>1. /\ UNCHANGED <<batch, size, committed, pages, host, fault>> /\ cursor.pc = "slide" /\ left' \in {left, 0}
        /\ ~view.mapped \/ cursor.target >= reserved \/ (committed < cursor.target + 2 /\ committed >= reserved)
        /\ view' = [view EXCEPT !.mapped = FALSE]
        /\ cursor' = [cursor EXCEPT !.pc = IF cursor.then = "store" THEN Finished ELSE cursor.then]
    BY DEF SlideFails, Needed, storage
  <2>2. cursor'.pc \in Steps
    BY <1>1, <2>1 DEF TypeOK, Cursors, Finished, Steps
  <2>3. view'.window = view.window
    BY <1>1, <2>1 DEF TypeOK, Views
  <2>4. cursor.target \in Nat /\ cursor.target <= Furthest /\ committed \in Nat /\ reserved \in Nat
    BY <1>1, <2>1 DEF TypeOK, Cursors, Room, Sliding
  <2>5. ~Ample
    BY <1>1, <2>1, <2>4, Reach DEF Room
  <2> QED
    BY <2>1, <2>2, <2>3, <2>5
<1>3. CountTold'
  BY <1>1, <1>2, Sizes DEF CountTold, fixed, TypeOK
<1>5. Room'
  BY <1>1, <1>2 DEF Room, Ample, Steps, Sliding, fixed
<1>6. Alone'
  BY <1>1, <1>2 DEF Alone, Plenty, fixed, TypeOK
<1>7. Extending'
  BY <1>1, <1>2 DEF Extending, Plenty, Steps, fixed, TypeOK
<1> QED
  BY <1>3, <1>5, <1>6, <1>7 DEF Sound

LEMMA RestartSound == ASSUME WInv, ~fault, Restart PROVE Sound'
<1>1. /\ TypeOK /\ Roles /\ Walking /\ Appending /\ CountTold /\ Room /\ Alone /\ Extending
      /\ UNCHANGED fixed
  BY DEF WInv, SInv, Sound, Restart
<1>2. /\ UNCHANGED <<batch, left, size, committed, pages, host, fault>> /\ writer = "host" /\ (left = 0 \/ Plenty)
      /\ cursor'.pc \in {"walk", "slide"} /\ cursor'.next = 0 /\ (cursor'.pc = "slide" => cursor'.target = 0)
      /\ view'.window = view.window /\ view'.mapped = view.mapped
      /\ view'.sub \in {view.sub, 0} /\ view'.index \in {view.index, 0}
  <2>1. /\ UNCHANGED <<batch, left, size, committed, pages, host, fault>> /\ writer = "host" /\ (left = 0 \/ Plenty)
    BY <1>1 DEF Restart, ReaderMayStart, storage, WInv, OneCommits, Plenty
  <2>2. cursor'.pc \in {"walk", "slide"} /\ cursor'.next = 0 /\ (cursor'.pc = "slide" => cursor'.target = 0)
    BY <1>1 DEF Restart, TypeOK, Cursors
  <2>3. view'.window = view.window /\ view'.mapped = view.mapped
    BY <1>1 DEF Restart, TypeOK, Views
  <2>4. view'.sub \in {view.sub, 0} /\ view'.index \in {view.index, 0}
    BY <1>1 DEF Restart, TypeOK, Views
  <2> QED
    BY <2>1, <2>2, <2>3, <2>4
<1>3. CountTold'
  BY <1>1, <1>2, Sizes DEF CountTold, fixed, TypeOK
<1>5. Room'
  BY <1>1, <1>2, Reach DEF Room, Ample, Sliding, fixed
<1>6. Alone'
  BY <1>1, <1>2, Sizes DEF Alone, Plenty, fixed, TypeOK
<1>7. Extending'
  BY <1>1, <1>2, Sizes DEF Extending, Plenty, fixed, TypeOK
<1> QED
  BY <1>3, <1>5, <1>6, <1>7 DEF Sound

LEMMA NextFirstSound == ASSUME WInv, ~fault, NextFirst PROVE Sound'
<1>1. /\ TypeOK /\ Roles /\ Walking /\ Appending /\ CountTold /\ Room /\ Alone /\ Extending
      /\ UNCHANGED fixed
  BY DEF WInv, SInv, Sound, NextFirst
<1>2. /\ UNCHANGED <<batch, left, size, committed, pages, host, fault>> /\ cursor.pc = "walk"
      /\ cursor'.pc \in {"take", "slide"} /\ cursor'.next = 1 /\ cursor'.target = 0
      /\ view'.window = view.window /\ view'.mapped = view.mapped /\ view'.sub = 0 /\ view'.index = 0
  BY DEF NextFirst, storage
<1>3. CountTold'
  BY <1>1, <1>2, Sizes DEF CountTold, fixed, TypeOK
<1>5. Room'
  BY <1>1, <1>2, Reach DEF Room, Ample, fixed
<1>6. Alone'
  BY <1>1, <1>2, Sizes DEF Alone, Plenty, fixed, TypeOK
<1>7. Extending'
  BY <1>1, <1>2, Sizes DEF Extending, Plenty, fixed, TypeOK
<1> QED
  BY <1>3, <1>5, <1>6, <1>7 DEF Sound

LEMMA NextAdvancesSound == ASSUME WInv, ~fault, NextAdvances PROVE Sound'
<1>1. /\ TypeOK /\ Roles /\ Walking /\ Appending /\ CountTold /\ Room /\ Alone /\ Extending
      /\ UNCHANGED <<fixed, batch, left, size, committed, pages, host, fault>>
      /\ cursor.pc = "walk" /\ ~cursor.first /\ cursor.next < size /\ writer = "host" /\ ~Sliding
  BY DEF WInv, SInv, Sound, NextAdvances, AtEnd, Roles, TypeOK, Cursors, Sliding, storage
<1> DEFINE i == view.index + 1
           w == view.window + 1
           n == cursor.next + 1
           s == view.sub + 1
           q == w * Slots
           p == view.window * Slots
<1>2. /\ i \in Nat /\ w \in Nat /\ n \in Nat /\ s \in Nat /\ q = p + Slots /\ p \in Nat /\ i < size /\ n = i + 1
      /\ i = p + s /\ s <= Slots /\ size <= MaxElements /\ size \in Nat
  <2>1. /\ view.mapped /\ view.index = view.window * Slots + view.sub /\ view.sub < Slots
        /\ cursor.next = Len(taken) /\ Len(taken) = view.index + 1
        /\ view.index \in Nat /\ view.window \in Nat /\ view.sub \in Nat /\ cursor.next \in Nat /\ size \in Nat
    BY <1>1 DEF Walking, Aimed, TypeOK, Views
  <2>2. q = p + Slots /\ p \in Nat
    BY <2>1, Sizes
  <2>3. left \in Nat /\ size + left <= MaxElements
    BY <1>1 DEF TypeOK
  <2>4. view.index = p + view.sub
    BY <2>1
  <2> HIDE DEF p, q
  <2>5. i \in Nat /\ w \in Nat /\ n \in Nat /\ s \in Nat /\ i < size /\ n = i + 1
    BY <1>1, <2>1
  <2>6. i = p + s /\ s <= Slots /\ size <= MaxElements
    BY <2>1, <2>2, <2>3, <2>4, Sizes
  <2> QED
    BY <2>1, <2>2, <2>5, <2>6
<1>3. /\ view' = [view EXCEPT !.index = i, !.sub = IF i >= q THEN 0 ELSE s]
      /\ cursor' = [cursor EXCEPT !.next = n, !.then = "take", !.target = w,
                                  !.pc = IF i >= q THEN "slide" ELSE "take"]
  BY DEF NextAdvances, Leaves
<1>4. i >= q => WindowOf(i) = w
  <2>1. i >= q => i = w * Slots + 0
    BY <1>2, Sizes
  <2> QED
    BY <1>2, <2>1, Sizes, PlaceOf
<1> HIDE DEF i, w, n, s, p, q
<1>5. /\ view'.index = i /\ view'.sub = (IF i >= q THEN 0 ELSE s) /\ view'.window = view.window
      /\ view'.mapped = view.mapped /\ cursor'.next = n /\ cursor'.target = w
      /\ cursor'.pc = IF i >= q THEN "slide" ELSE "take"
  BY <1>1, <1>3 DEF TypeOK, Views, Cursors
<1>7. CountTold'
  BY <1>1, <1>5 DEF CountTold, fixed
<1>9. Room'
  BY <1>1, <1>2, <1>4, <1>5, Reach, Sizes DEF Room, Sliding, Ample, fixed
<1>10. Alone' /\ Extending'
  BY <1>1, <1>5 DEF Alone, Extending, Plenty, fixed
<1> QED
  BY <1>7, <1>9, <1>10 DEF Sound

LEMMA ClientTakesSound == ASSUME WInv, ~fault, ClientTakes PROVE Sound'
<1>1. /\ TypeOK /\ Roles /\ Walking /\ Appending /\ CountTold /\ Room /\ Alone /\ Extending
      /\ UNCHANGED fixed
  BY DEF WInv, SInv, Sound, ClientTakes
<1>2. /\ UNCHANGED <<batch, left, size, committed, pages, host, view>> /\ cursor.pc = "take"
      /\ cursor'.pc = "walk" /\ cursor'.next = cursor.next /\ (Ample => fault' = FALSE)
  BY <1>1 DEF ClientTakes, storage, CountTold, Room, Roles, Walking, TypeOK, Takes, Readable
<1>3. CountTold'
  BY <1>1, <1>2, Sizes DEF CountTold, fixed, TypeOK
<1>5. Room'
  BY <1>1, <1>2 DEF Room, Ample, Sliding, fixed
<1>6. Alone'
  BY <1>1, <1>2, Sizes DEF Alone, Plenty, fixed, TypeOK
<1>7. Extending'
  BY <1>1, <1>2, Sizes DEF Extending, Plenty, fixed, TypeOK
<1> QED
  BY <1>3, <1>5, <1>6, <1>7 DEF Sound

LEMMA ClientEndsSound == ASSUME WInv, ~fault, ClientEnds PROVE Sound'
<1>1. /\ TypeOK /\ Roles /\ Walking /\ Appending /\ CountTold /\ Room /\ Alone /\ Extending
      /\ UNCHANGED fixed
  BY DEF WInv, SInv, Sound, ClientEnds
<1>2. /\ UNCHANGED <<batch, left, size, committed, pages, host, view, fault>>
      /\ cursor'.pc = "idle" /\ cursor'.next = cursor.next
  BY DEF ClientEnds, storage
<1>3. CountTold'
  BY <1>1, <1>2, Sizes DEF CountTold, fixed, TypeOK
<1>5. Room'
  BY <1>1, <1>2 DEF Room, Ample, Sliding, fixed
<1>6. Alone'
  BY <1>1, <1>2, Sizes DEF Alone, Plenty, fixed, TypeOK
<1>7. Extending'
  BY <1>1, <1>2, Sizes DEF Extending, Plenty, fixed, TypeOK
<1> QED
  BY <1>3, <1>5, <1>6, <1>7 DEF Sound

LEMMA ReserveSound == ASSUME WInv, ~fault, Reserve PROVE Sound'
<1>1. /\ TypeOK /\ Roles /\ Walking /\ Appending /\ CountTold /\ Room /\ Alone /\ Extending
      /\ UNCHANGED fixed
  BY DEF WInv, SInv, Sound, Reserve
<1>2. /\ UNCHANGED <<batch, left, size, committed, pages, host, view, fault>> /\ cursor.pc = "append"
      /\ cursor'.pc \in {"append", "slide"} /\ cursor'.next = cursor.next /\ writer = "client"
      /\ cursor'.target = (left + Slots - 1) \div Slots - 1 /\ left \in Nat /\ left > 0 /\ left <= MaxElements
      /\ left - 1 \in Nat /\ left - 1 < MaxElements
  BY <1>1, Sizes DEF Reserve, TypeOK, storage, Slide, Roles
<1>3. CountTold'
  BY <1>1, <1>2, Sizes DEF CountTold, fixed, TypeOK
<1>5. Room'
  BY <1>1, <1>2, Rounding, Reach DEF Room, Ample, fixed
<1>6. Alone'
  BY <1>1, <1>2, Sizes DEF Alone, Plenty, fixed, TypeOK
<1>7. Extending'
  BY <1>1, <1>2, Sizes DEF Extending, Plenty, fixed, TypeOK
<1> QED
  BY <1>3, <1>5, <1>6, <1>7 DEF Sound

LEMMA PushBackSound == ASSUME WInv, ~fault, PushBack PROVE Sound'
<1>1. /\ TypeOK /\ Roles /\ Walking /\ Appending /\ CountTold /\ Room /\ Alone /\ Extending
      /\ UNCHANGED fixed
  BY DEF WInv, SInv, Sound, PushBack
<1>2. /\ UNCHANGED <<batch, left, size, committed, pages, host, fault>> /\ cursor.pc = "append"
      /\ cursor'.pc \in {"store", "slide"} /\ cursor'.next = cursor.next /\ writer = "client"
      /\ cursor'.target = WindowOf(size) /\ size \in Nat /\ size < MaxElements
      /\ view'.window = view.window /\ view'.mapped = view.mapped /\ view'.sub = SlotOf(size) /\ view'.index = view.index
  <2>1. /\ UNCHANGED <<batch, left, size, committed, pages, host, fault>> /\ cursor.pc = "append" /\ writer = "client"
        /\ left > 0 /\ view' = [view EXCEPT !.sub = SlotOf(size)]
    BY <1>1 DEF PushBack, storage, Roles, TypeOK
  <2>2. cursor'.pc \in {"store", "slide"} /\ cursor'.next = cursor.next /\ cursor'.target = WindowOf(size)
    BY DEF PushBack, Slide
  <2>3. view'.window = view.window /\ view'.mapped = view.mapped /\ view'.sub = SlotOf(size) /\ view'.index = view.index
    BY <1>1, <2>1 DEF TypeOK, Views
  <2>4. size \in Nat /\ size < MaxElements
    BY <1>1, <2>1, Sizes DEF TypeOK
  <2> QED
    BY <2>1, <2>2, <2>3, <2>4
<1>3. CountTold'
  BY <1>1, <1>2, Sizes DEF CountTold, fixed, TypeOK
<1>5. Room'
  BY <1>1, <1>2, Reach DEF Room, Ample, fixed
<1>6. Alone'
  BY <1>1, <1>2, Sizes DEF Alone, Plenty, fixed, TypeOK
<1>7. Extending'
  BY <1>1, <1>2, Sizes DEF Extending, Plenty, fixed, TypeOK
<1> QED
  BY <1>3, <1>5, <1>6, <1>7 DEF Sound

LEMMA StartBatchSound == ASSUME WInv, ~fault, StartBatch PROVE Sound'
<1>1. /\ TypeOK /\ Roles /\ Walking /\ Appending /\ CountTold /\ Room /\ Alone /\ Extending
      /\ UNCHANGED fixed
  BY DEF WInv, SInv, Sound, StartBatch
<1>2. /\ UNCHANGED <<committed, pages, view, fault>> /\ size' = 0
      /\ cursor'.pc = (IF writer = "host" THEN "ready" ELSE "append") /\ cursor'.next = cursor.next
      /\ host'.index = 0 /\ host'.pc = IF writer = "host" THEN "push" ELSE "ready"
  BY <1>1, Sizes DEF StartBatch, TypeOK, Hosts
<1>3. CountTold'
  BY <1>1, <1>2, Sizes DEF CountTold, fixed, TypeOK
<1>5. Room'
  BY <1>1, <1>2 DEF Room, Ample, Sliding, fixed
<1>6. Alone'
  BY <1>1, <1>2, Sizes DEF Alone, Plenty, fixed, TypeOK
<1>7. Extending'
  BY <1>1, <1>2, Sizes, Rows DEF Extending, Plenty, Reading, fixed, TypeOK
<1> QED
  BY <1>3, <1>5, <1>6, <1>7 DEF Sound

LEMMA PushStoresSound == ASSUME WInv, ~fault, PushStores PROVE Sound'
<1>1. /\ TypeOK /\ Roles /\ Walking /\ Appending /\ CountTold /\ Room /\ Alone /\ Extending
      /\ UNCHANGED fixed
  BY DEF WInv, SInv, Sound, PushStores
<1>2. /\ UNCHANGED <<batch, committed, pages, view, cursor>> /\ fault' = FALSE /\ WindowOf(size) \in pages
      /\ size' = size + 1 /\ size \in Nat /\ size < committed * Slots /\ left' = left - 1 /\ left \in Nat /\ left > 0
      /\ host'.index = host.index /\ host'.pc \in {"idle", "push"} /\ writer = "host"
      /\ committed \in Nat
  <2>1. /\ writer = "host" /\ left > 0 /\ size \in Nat /\ left \in Nat /\ committed \in Nat /\ size < committed * Slots
    BY <1>1 DEF PushStores, TypeOK, Roles, Extending, Reading
  <2>2. WindowOf(size) \in pages
    BY <1>1, <2>1, Rows, Below, Splits
  <2>3. /\ UNCHANGED <<batch, committed, pages, view, cursor>> /\ fault' = FALSE /\ size' = size + 1 /\ left' = left - 1
        /\ host' = [host EXCEPT !.pc = IF left = 1 THEN "idle" ELSE "push"]
    BY <2>2 DEF PushStores, Stored, HostAt
  <2>4. host'.index = host.index /\ host'.pc \in {"idle", "push"}
    BY <1>1, <2>3 DEF TypeOK, Hosts
  <2> QED
    BY <2>1, <2>2, <2>3, <2>4
<1>3. CountTold'
  <2>1. \A i \in 0..(size' - 1) : i = size \/ i \in 0..(size - 1)
    BY <1>2
  <2>2. \A i \in 0..(size' - 1) : WindowOf(i) \in pages
    BY <1>1, <1>2, <2>1 DEF CountTold
  <2> QED
    BY <1>1, <1>2, <2>2 DEF CountTold, fixed
<1>5. Room'
  BY <1>1, <1>2 DEF Room, Ample, Sliding, fixed
<1>6. Alone'
  BY <1>1, <1>2 DEF Alone, Plenty, Cursors, fixed, TypeOK
<1>7. Extending'
  <2> DEFINE a == committed * Slots
  <2>1. a \in Nat /\ size < a /\ size \in Nat
    BY <1>1, <1>2, Rows
  <2> HIDE DEF a
  <2>2. size' <= a
    BY <1>2, <2>1
  <2> QED
    BY <1>1, <1>2, <2>2 DEF a, Extending, Plenty, fixed
<1> QED
  BY <1>3, <1>5, <1>6, <1>7 DEF Sound

LEMMA PushBackStoresSound == ASSUME WInv, ~fault, PushBackStores PROVE Sound'
<1>1. /\ TypeOK /\ Roles /\ Walking /\ Appending /\ CountTold /\ Room /\ Alone /\ Extending
      /\ UNCHANGED fixed
  BY DEF WInv, SInv, Sound, PushBackStores
<1>2. /\ UNCHANGED <<batch, committed, pages, host>> /\ writer = "client" /\ view.window \in pages
      /\ cursor.pc = "store" /\ size \in Nat
  BY <1>1 DEF PushBackStores, TypeOK, Roles, CountTold
<1>3. CASE Readable
  <2>1. /\ size' = size + 1 /\ fault' = fault /\ cursor'.pc \in {"idle", "append", "finish"}
        /\ view'.window = view.window /\ view'.mapped = view.mapped
    BY <1>1, <1>3 DEF PushBackStores, Stored, Finished, TypeOK, Views, Cursors
  <2>2. WindowOf(size) \in pages
    BY <1>1, <1>2, <1>3 DEF Readable, Appending, Aimed, Sliding
  <2>3. \A i \in 0..(size' - 1) : i = size \/ i \in 0..(size - 1)
    BY <1>2, <2>1
  <2>4. \A i \in 0..(size' - 1) : WindowOf(i) \in pages
    BY <1>1, <1>2, <2>2, <2>3 DEF CountTold
  <2>5. CountTold'
    BY <1>1, <1>2, <2>1, <2>4 DEF CountTold, fixed
  <2>6. Room'
    BY <1>1, <2>1 DEF Room, Ample, Sliding, fixed
  <2>7. Alone'
    BY <1>2 DEF Alone, Plenty, fixed, PushBackStores
  <2>8. Extending'
    BY <1>1, <1>2, <2>1 DEF Extending, Plenty, Roles, Reading, fixed
  <2> QED
    BY <2>5, <2>6, <2>7, <2>8 DEF Sound
<1>4. CASE ~Readable
  <2>1. fault' /\ UNCHANGED <<size, view, cursor>>
    BY <1>4 DEF PushBackStores
  <2>2. ~Ample
    BY <1>1, <1>2, <1>4 DEF Readable, Room
  <2>3. CountTold' /\ Room'
    BY <1>1, <1>2, <2>1, <2>2 DEF CountTold, Room, Ample, Sliding, fixed
  <2> QED
    BY <2>1, <2>3 DEF Sound
<1> QED
  BY <1>3, <1>4

LEMMA InitSound == ASSUME Init PROVE Sound
<1>1. WindowOf(0) = 0 /\ Furthest \in Nat
  BY Sizes, Reach, PlaceOf
<1>2. CountTold /\ Alone
  BY <1>1, Sizes DEF Init, CountTold, Alone
<1>3. Room
  BY DEF Init, Room, Sliding
<1>4. Extending
  <2>1. initial \in Nat /\ initial * Slots \in Nat
    BY Sizes, Rows DEF Init
  <2> QED
    BY <2>1 DEF Init, Extending
<1> QED
  BY <1>2, <1>3, <1>4 DEF Sound

LEMMA StutterSound == ASSUME WInv, UNCHANGED vars PROVE Sound'
<1>1. Windows' = Windows /\ Sliding' = Sliding /\ Ample' = Ample /\ Plenty' = Plenty
  BY DEF vars, Windows, Sliding, Ample, Plenty
<1> QED
  BY <1>1 DEF WInv, Sound, CountTold, Room, Alone, Extending, vars

LEMMA ModeKept == ASSUME [Next]_vars, SInv PROVE OneCommits' = OneCommits
<1>1. UNCHANGED fixed
  <2>1. CASE UNCHANGED vars
    BY <2>1 DEF vars, fixed
  <2>2. CASE ReaderMoves
    BY <2>2, ReaderOnly DEF SInv
  <2>3. CASE WriterEnds
    BY <2>3 DEF WriterEnds, Abandons, EndWrite
  <2>4. CASE Next /\ ~ReaderMoves /\ ~WriterEnds
    BY <2>4, NextActions DEF Quiet, PushChecks, ExtendCommits, ExtendCounts, ExtendFails, SlideCommits,
       SlideLoads, SlideCounts, SlideMaps, SlideFails, Restart, NextFirst, NextAdvances, ClientEnds,
       Reserve, PushBack, StartBatch, PushStores, PushBackStores, ClientTakes, HostTakes
  <2> QED
    BY <2>1, <2>2, <2>3, <2>4
<1> QED
  BY <1>1 DEF OneCommits, fixed

LEMMA SoundStep == ASSUME WInv, [Next]_vars PROVE Sound'
<1>1. CASE UNCHANGED vars
  BY <1>1, StutterSound
<1>2. CASE Next /\ Quiet
  <2>1. ~fault
    BY <1>2, NextActions
  <2> QED
    BY <1>2, <2>1, PushChecksSound, ExtendCommitsSound, ExtendCountsSound, ExtendFailsSound, ReaderMovesSound,
       WriterEndsSound, SlideCommitsSound, SlideLoadsSound, SlideCountsSound, SlideMapsSound, SlideFailsSound,
       RestartSound, NextFirstSound, NextAdvancesSound, ClientEndsSound, ReserveSound, PushBackSound DEF Quiet
<1>3. CASE Next /\ ~Quiet
  BY <1>3, NextActions, StartBatchSound, PushStoresSound, PushBackStoresSound, ClientTakesSound, HostTakesSound
<1> QED
  BY <1>1, <1>2, <1>3

(* Whatever the batches, window sizes, reservations and ways of passing a  *)
(* batch: wherever one side commits at a time, that is unless the client   *)
(* walks a vector the host may still have to extend, the count of          *)
(* committed windows tells the truth, and with a window to spare neither   *)
(* side ever touches memory that is not there.                             *)
THEOREM WindowsStaySound == Spec => []WindowsSound
<1> DEFINE Inv == SInv /\ (OneCommits => Sound)
<1>1. Init => Inv
  BY SInvInit, InitSound
<1>2. Inv /\ [Next]_vars => Inv'
  <2> SUFFICES ASSUME Inv, [Next]_vars
               PROVE  Inv'
    OBVIOUS
  <2>1. SInv'
    BY InvarianceStep
  <2>2. ASSUME OneCommits' PROVE Sound'
    BY <2>2, ModeKept, SoundStep DEF WInv
  <2> QED
    BY <2>1, <2>2
<1>3. Inv => WindowsSound
  BY DEF SInv, Sound, Room, CountTold, NoFault, CommittedIsReal, WindowsSound
<1> HIDE DEF Inv
<1> QED
  BY <1>1, <1>2, <1>3, PTL DEF Spec

-----------------------------------------------------------------------------
(* The layout of a reservation.  The size of a reservation wraps at 2^32, as it
   does in the code; that of a window is taken as it is, which ReservationHolds
   bounds by 2^32: a reservation that holds its windows holds one.              *)

(* A quotient and a remainder are the only ones that make up the number.   *)
LEMMA DivUnique ==
  ASSUME NEW a \in Nat, NEW b \in Nat \ {0}, NEW q \in Nat, NEW r \in Nat, a = q * b + r, r < b
  PROVE  a \div b = q /\ a % b = r
OBVIOUS

LEMMA DivBelow ==
  ASSUME NEW a \in Nat, NEW b \in Nat \ {0}, NEW q, q = a \div b
  PROVE  q \in Nat /\ q * b <= a /\ a < q * b + b
OBVIOUS

(* What a quotient and a remainder are.                                    *)
LEMMA DivIs ==
  ASSUME NEW a \in Nat, NEW b \in Nat \ {0}
  PROVE  /\ a \div b \in Nat /\ a % b \in Nat /\ a % b < b
         /\ a = (a \div b) * b + (a % b)
<1> DEFINE q == a \div b
           m == q * b
<1>1. q \in Nat /\ m <= a /\ a < m + b
  BY DivBelow
<1>2. m \in Nat
  BY <1>1
<1>3. a = q * b + (a - m) /\ a - m \in Nat /\ a - m < b
  <2> HIDE DEF q
  <2>1. a = m + (a - m) /\ a - m \in Nat /\ a - m < b
    <3> HIDE DEF m
    <3> QED
      BY <1>1, <1>2
  <2> QED
    BY <2>1
<1> DEFINE o == a - m
<1> HIDE DEF o
<1>4. a % b = o
  BY <1>1, <1>3, DivUnique DEF o
<1> QED
  BY <1>1, <1>3, <1>4 DEF o

(* A product grows with its factors.                                       *)
LEMMA TimesGrows ==
  ASSUME NEW a \in Nat, NEW b \in Nat, NEW c \in Nat, a <= b
  PROVE  a * c \in Nat /\ b * c \in Nat /\ a * c <= b * c
OBVIOUS

(* Rounding up makes a multiple, and no less.                              *)
LEMMA RoundingUp ==
  ASSUME NEW n \in Nat \ {0}, NEW unit \in Nat \ {0}
  PROVE  /\ RoundedUp(n, unit) \in Nat /\ n <= RoundedUp(n, unit)
         /\ \E k \in Nat \ {0} : RoundedUp(n, unit) = k * unit
<1> DEFINE k == (n + unit - 1) \div unit
<1>1. n + unit - 1 \in Nat /\ n + unit - 1 = unit + (n - 1) /\ n - 1 \in Nat
  OBVIOUS
<1>2. k \in Nat /\ k * unit <= n + unit - 1 /\ n + unit - 1 < k * unit + unit
  BY <1>1, DivBelow
<1>3. RoundedUp(n, unit) = k * unit
  BY DEF RoundedUp
<1> HIDE DEF k
<1>4. k # 0
  <2> SUFFICES ASSUME k = 0
               PROVE  FALSE
    OBVIOUS
  <2>1. k * unit = 0
    BY <1>2
  <2> QED
    BY <1>2, <2>1
<1> DEFINE m == k * unit
<1>5. m \in Nat
  BY <1>2
<1>6. n + unit - 1 < m + unit
  BY <1>2
<1> HIDE DEF m
<1>7. n <= m
  BY <1>5, <1>6
<1> QED
  BY <1>2, <1>3, <1>4, <1>5, <1>7 DEF m

LEMMA BiggerIs ==
  ASSUME NEW a \in Nat
  PROVE  Bigger(a, 1) \in Nat \ {0} /\ a <= Bigger(a, 1)
BY DEF Bigger

(* What the program may ask for.                                           *)
LEMMA RequestIs ==
  ASSUME NEW r \in Requests
  PROVE  r[1] \in Nat /\ r[2] \in Nat /\ r[3] \in Nat \ {0}
BY VecLayoutAssumption

(* A window is whole granules, and holds all its elements.                 *)
LEMMA WindowIs ==
  ASSUME NEW r \in Requests
  PROVE  /\ WindowBytes(r) \in Nat \ {0} /\ WindowGranules(r) \in Nat \ {0}
         /\ WindowBytes(r) = WindowGranules(r) * Granularity
         /\ WindowSize(r) \in Nat \ {0} /\ WindowSize(r) * r[3] <= WindowBytes(r)
         /\ ClientWindowSize(r) = WindowSize(r)
<1> DEFINE e == r[3]
           n == e * Bigger(r[2], 1)
           w == WindowBytes(r)
           d == w \div e
<1>1. e \in Nat \ {0} /\ Bigger(r[2], 1) \in Nat \ {0} /\ Granularity \in Nat \ {0}
  BY RequestIs, BiggerIs, VecLayoutAssumption
<1>2. n \in Nat \ {0} /\ e <= n
  <2> DEFINE b == Bigger(r[2], 1)
  <2>1. b \in Nat /\ 1 <= b /\ 1 \in Nat
    BY <1>1
  <2> HIDE DEF b
  <2>2. 1 * e <= b * e /\ b * e \in Nat
    BY <1>1, <2>1, TimesGrows
  <2> QED
    BY <1>1, <2>2 DEF b
<1>3. w = RoundedUp(n, Granularity)
  BY DEF WindowBytes
<1> HIDE DEF n
<1>4. w \in Nat /\ n <= w /\ \E k \in Nat \ {0} : w = k * Granularity
  BY <1>1, <1>2, <1>3, RoundingUp
<1>5. WindowGranules(r) = w \div Granularity
  BY DEF WindowGranules
<1>6. WindowSize(r) = Bigger(d, 1) /\ ClientWindowSize(r) = d
  BY DEF WindowSize, ClientWindowSize
<1> HIDE DEF w, e
<1>7. PICK k \in Nat \ {0} : w = k * Granularity
  BY <1>4
<1>8. w \div Granularity = k
  <2>1. w = k * Granularity + 0 /\ 0 \in Nat /\ 0 < Granularity
    BY <1>1, <1>7
  <2> QED
    BY <1>1, <1>4, <1>7, <2>1, DivUnique
<1>9. d \in Nat /\ d * e <= w /\ w < d * e + e
  BY <1>1, <1>4, DivBelow
<1> HIDE DEF d
<1>10. d # 0
  <2> SUFFICES ASSUME d = 0
               PROVE  FALSE
    OBVIOUS
  <2>1. d * e = 0
    BY <1>1
  <2> QED
    BY <1>1, <1>2, <1>4, <1>9, <2>1
<1>11. Bigger(d, 1) = d
  BY <1>9, <1>10 DEF Bigger
<1>12. w # 0
  BY <1>1, <1>2, <1>4
<1> QED
  BY <1>4, <1>5, <1>6, <1>7, <1>8, <1>9, <1>10, <1>11, <1>12 DEF w, e

(* A vector is whole windows, and as long as was asked.                    *)
LEMMA LengthIs ==
  ASSUME NEW r \in Requests
  PROVE  /\ MaxSize(r) \in Nat \ {0} /\ r[1] <= MaxSize(r)
         /\ \E k \in Nat \ {0} : MaxSize(r) = k * WindowSize(r)
<1> DEFINE n == Bigger(r[1], 1)
           s == WindowSize(r)
<1>1. n \in Nat \ {0} /\ r[1] <= n /\ s \in Nat \ {0} /\ r[1] \in Nat
  BY RequestIs, BiggerIs, WindowIs
<1>2. MaxSize(r) = RoundedUp(n, s)
  BY DEF MaxSize
<1> HIDE DEF n, s
<1>3. RoundedUp(n, s) \in Nat /\ n <= RoundedUp(n, s) /\ \E k \in Nat \ {0} : RoundedUp(n, s) = k * s
  BY <1>1, RoundingUp
<1> QED
  BY <1>1, <1>2, <1>3 DEF s

(* A vector of whole windows has so many, and nothing is left over.        *)
LEMMA WholeWindows ==
  ASSUME NEW k \in Nat, NEW s \in Nat \ {0}, NEW n, n = k * s
  PROVE  n \div s = k /\ n % s = 0
<1>1. n \in Nat /\ n = k * s + 0 /\ 0 \in Nat /\ 0 < s
  OBVIOUS
<1> QED
  BY <1>1, DivUnique

(* Bytes are counted in 32 bits.                                           *)
LEMMA ReservedIs ==
  ASSUME NEW r \in Requests
  PROVE  Reserved(r) \in Nat
<1> DEFINE a == MaxSize(r) * WindowGranules(r)
<1>1. a \in Nat /\ Granules \in Nat \ {0}
  BY WindowIs, LengthIs, VecLayoutAssumption
<1>2. Reserved(r) = a % Granules
  BY DEF Reserved
<1> HIDE DEF a
<1>3. a % Granules \in Nat
  BY <1>1
<1> QED
  BY <1>2, <1>3

(* The indices the runs look at.                                           *)
LEMMA ProbesTyped ==
  ASSUME NEW r \in Requests, NEW i \in Probes(r)
  PROVE  i \in Nat
<1> DEFINE s == WindowSize(r)
           n == MaxSize(r)
<1>1. s \in Nat \ {0} /\ n \in Nat \ {0} /\ r[1] \in Nat
  BY RequestIs, WindowIs, LengthIs
<1>2. i \in {0, 1, s - 1, s, s + 1, n - s, n - 1, r[1] - 1} /\ 0 <= i
  BY DEF Probes
<1> HIDE DEF s, n
<1>3. i \in Int
  BY <1>1, <1>2
<1> QED
  BY <1>2, <1>3

(* An element lies in the window its index is in, with all its bytes.      *)
LEMMA ElementIs ==
  ASSUME NEW r \in Requests, NEW i \in Nat, NEW q, NEW m,
         q = i \div WindowSize(r), m = i % WindowSize(r)
  PROVE  /\ q \in Nat /\ m \in Nat /\ i = q * WindowSize(r) + m /\ m < WindowSize(r)
         /\ ElementOffset(r, i) = q * WindowBytes(r) + m * r[3]
         /\ m * r[3] \in Nat /\ m * r[3] + r[3] <= WindowBytes(r)
         /\ ElementOffset(r, i) \in Nat
<1> DEFINE s == WindowSize(r)
           w == WindowBytes(r)
           e == r[3]
<1>1. /\ s \in Nat \ {0} /\ w \in Nat \ {0} /\ e \in Nat \ {0} /\ s * e <= w
  BY RequestIs, WindowIs
<1>2. ElementOffset(r, i) = q * w + m * e
  BY DEF ElementOffset
<1>3. q = i \div s /\ m = i % s
  OBVIOUS
<1> HIDE DEF s, w, e
<1>4. q \in Nat /\ m \in Nat /\ m < s /\ i = q * s + m
  <2>1. /\ i \div s \in Nat /\ i % s \in Nat /\ i % s < s
        /\ i = (i \div s) * s + (i % s)
    BY <1>1, DivIs
  <2> QED
    BY <1>3, <2>1
<1>5. (m + 1) * e <= s * e
  BY <1>1, <1>4, TimesGrows
<1>6. (m + 1) * e = m * e + e /\ m * e \in Nat /\ q * w \in Nat
  BY <1>1, <1>4
<1>7. m * e + e <= w
  <2>1. s * e \in Nat
    BY <1>1
  <2> QED
    BY <1>1, <1>5, <1>6, <2>1
<1> QED
  BY <1>2, <1>4, <1>6, <1>7 DEF s, w, e

(* The elements of a vector never overlap: the next begins where the one before
   has ended, in the same window or in a later one (SharedVec::element_offset).  *)
THEOREM ElementsStayApart ==
  ASSUME NEW r \in Requests, NEW i \in Nat, NEW j \in Nat, i < j
  PROVE  ElementOffset(r, i) + ElementBytes(r) <= ElementOffset(r, j)
<1> DEFINE s == WindowSize(r)
           w == WindowBytes(r)
           e == r[3]
           qi == i \div s
           mi == i % s
           qj == j \div s
           mj == j % s
<1>1. s \in Nat \ {0} /\ w \in Nat \ {0} /\ e \in Nat \ {0}
  BY RequestIs, WindowIs
<1>2. /\ qi \in Nat /\ mi \in Nat /\ i = qi * s + mi /\ mi < s
      /\ ElementOffset(r, i) = qi * w + mi * e /\ mi * e \in Nat /\ mi * e + e <= w
  BY ElementIs
<1>3. /\ qj \in Nat /\ mj \in Nat /\ j = qj * s + mj /\ mj < s
      /\ ElementOffset(r, j) = qj * w + mj * e /\ mj * e \in Nat /\ mj * e + e <= w
  BY ElementIs
<1>4. ElementBytes(r) = e
  BY DEF ElementBytes
<1> HIDE DEF s, w, e, qi, mi, qj, mj
<1>5. CASE qi = qj
  <2>1. mi + 1 <= mj
    <3> DEFINE x == qi * s
    <3>1. x \in Nat /\ i = x + mi /\ j = x + mj
      BY <1>1, <1>2, <1>3, <1>5
    <3> HIDE DEF x
    <3> QED
      BY <1>2, <1>3, <3>1
  <2>2. (mi + 1) * e <= mj * e
    BY <1>1, <1>2, <1>3, <2>1, TimesGrows
  <2>3. (mi + 1) * e = mi * e + e
    BY <1>1, <1>2
  <2> DEFINE x == qi * w
             y == mi * e
             z == mj * e
  <2>4. x \in Nat /\ y \in Nat /\ z \in Nat /\ y + e <= z
    BY <1>1, <1>2, <1>3, <2>2, <2>3
  <2>5. ElementOffset(r, i) = x + y /\ ElementOffset(r, j) = x + z
    BY <1>2, <1>3, <1>5
  <2> HIDE DEF x, y, z
  <2> QED
    BY <1>1, <1>4, <2>4, <2>5
<1>6. CASE qi < qj
  <2>1. (qi + 1) * w <= qj * w
    BY <1>1, <1>2, <1>3, <1>6, TimesGrows
  <2>2. (qi + 1) * w = qi * w + w
    BY <1>1, <1>2
  <2> DEFINE x == qi * w
             y == mi * e
             z == mj * e
             u == qj * w
  <2>3. x \in Nat /\ y \in Nat /\ z \in Nat /\ u \in Nat /\ x + w <= u /\ y + e <= w
    BY <1>1, <1>2, <1>3, <2>1, <2>2
  <2>4. ElementOffset(r, i) = x + y /\ ElementOffset(r, j) = u + z
    BY <1>2, <1>3
  <2> HIDE DEF x, y, z, u
  <2> QED
    BY <1>1, <1>4, <2>3, <2>4
<1>7. CASE qj < qi
  <2>1. (qj + 1) * s <= qi * s
    BY <1>1, <1>2, <1>3, <1>7, TimesGrows
  <2>2. (qj + 1) * s = qj * s + s
    BY <1>1, <1>3
  <2> DEFINE x == qi * s
             u == qj * s
  <2>3. x \in Nat /\ u \in Nat /\ u + s <= x /\ i = x + mi /\ j = u + mj
    BY <1>1, <1>2, <1>3, <2>1, <2>2
  <2> HIDE DEF x, u
  <2> QED
    BY <1>1, <1>2, <1>3, <2>3
<1> QED
  BY <1>2, <1>3, <1>5, <1>6, <1>7

(* No element spans two windows, whatever its index: a side that has mapped the
   window of the first byte has mapped the last.                               *)
THEOREM ElementsStayInWindows ==
  ASSUME NEW r \in Requests, NEW i \in Nat
  PROVE  /\ ElementOffset(r, i) \div WindowBytes(r) = i \div WindowSize(r)
         /\ (ElementOffset(r, i) + ElementBytes(r) - 1) \div WindowBytes(r) = i \div WindowSize(r)
<1> DEFINE s == WindowSize(r)
           w == WindowBytes(r)
           e == r[3]
           q == i \div s
           m == i % s
           o == ElementOffset(r, i)
           x == m * e
<1>1. w \in Nat \ {0} /\ e \in Nat \ {0}
  BY RequestIs, WindowIs
<1>2. q \in Nat /\ o = q * w + x /\ x \in Nat /\ x + e <= w /\ o \in Nat
  BY ElementIs
<1>3. ElementBytes(r) = e
  BY DEF ElementBytes
<1> HIDE DEF w, e, q, x, o, m, s
<1>4. o \div w = q
  BY <1>1, <1>2, DivUnique
<1>5. (o + e - 1) \div w = q
  <2> DEFINE y == x + e - 1
             a == o + e - 1
  <2>1. y \in Nat /\ y < w
    BY <1>1, <1>2
  <2>2. a \in Nat /\ a = q * w + y
    <3> DEFINE z == q * w
    <3>1. z \in Nat /\ o = z + x
      BY <1>1, <1>2
    <3> HIDE DEF z
    <3>2. a \in Nat /\ a = z + y
      BY <1>1, <1>2, <3>1
    <3> QED
      BY <3>2 DEF z
  <2> HIDE DEF y, a
  <2>3. a \div w = q
    BY <1>1, <1>2, <2>1, <2>2, DivUnique
  <2> QED
    BY <2>3 DEF a
<1> QED
  BY <1>3, <1>4, <1>5 DEF w, q, o, s

(* Where the wrapped product of windows and bytes holds the windows, every element
   up to the maximum lies inside it.                                              *)
THEOREM ElementsLieInside ==
  ASSUME ReservationHolds, NEW r \in Requests, NEW i \in Nat, i < MaxSize(r)
  PROVE  ElementOffset(r, i) + ElementBytes(r) <= Reserved(r) * Granularity
<1> DEFINE s == WindowSize(r)
           w == WindowBytes(r)
           g == WindowGranules(r)
           e == r[3]
           q == i \div s
           m == i % s
           o == ElementOffset(r, i)
           x == m * e
<1>1. s \in Nat \ {0} /\ w \in Nat \ {0} /\ e \in Nat \ {0} /\ g \in Nat \ {0} /\ w = g * Granularity
  BY RequestIs, WindowIs
<1>2. q \in Nat /\ m \in Nat /\ i = q * s + m /\ o = q * w + x /\ x \in Nat /\ x + e <= w
  BY ElementIs
<1>3. PICK k \in Nat \ {0} : MaxSize(r) = k * s
  BY LengthIs
<1>4. ElementBytes(r) = e /\ Granularity \in Nat \ {0} /\ i < k * s
  BY <1>3, VecLayoutAssumption DEF ElementBytes
<1>5. (MaxSize(r) \div s + 1) * g <= Reserved(r) /\ Reserved(r) \in Nat
  <2>1. (MaxSize(r) \div s + 1) * g <= Reserved(r)
    BY DEF ReservationHolds
  <2>2. Reserved(r) \in Nat
    BY ReservedIs
  <2> QED
    BY <2>1, <2>2
<1>6. MaxSize(r) \div s = k
  BY <1>1, <1>3, WholeWindows
<1> DEFINE room == Reserved(r)
<1> HIDE DEF s, w, g, e, q, m, o, x, room
<1>7. q + 1 <= k
  <2> SUFFICES ASSUME k <= q
               PROVE  FALSE
    BY <1>2
  <2>1. k * s <= q * s /\ q * s \in Nat /\ k * s \in Nat
    BY <1>1, <1>2, TimesGrows
  <2> DEFINE u == q * s
             v == k * s
  <2>2. u \in Nat /\ v \in Nat /\ v <= u /\ i = u + m /\ i < v
    BY <1>2, <1>4, <2>1
  <2> HIDE DEF u, v
  <2> QED
    BY <1>2, <2>2
<1>8. o + e <= k * w
  <2>1. (q + 1) * w <= k * w /\ k * w \in Nat
    BY <1>1, <1>2, <1>7, TimesGrows
  <2>2. (q + 1) * w = q * w + w /\ q * w \in Nat
    BY <1>1, <1>2
  <2> DEFINE u == q * w
             v == k * w
  <2>3. u \in Nat /\ v \in Nat /\ u + w <= v /\ o = u + x
    BY <1>1, <1>2, <2>1, <2>2
  <2> HIDE DEF u, v
  <2>4. o + e <= v
    BY <1>1, <1>2, <2>3
  <2> QED
    BY <2>4 DEF v
<1>9. k * g <= room
  <2>1. (k + 1) * g <= room /\ room \in Nat
    BY <1>5, <1>6 DEF room, s, g
  <2>2. (k + 1) * g = k * g + g /\ k * g \in Nat
    BY <1>1
  <2> DEFINE v == k * g
  <2>3. v \in Nat /\ v + g <= room /\ room \in Nat
    BY <2>1, <2>2
  <2> HIDE DEF v
  <2>4. v <= room
    BY <1>1, <2>3
  <2> QED
    BY <2>4 DEF v
<1>10. k * w <= room * Granularity
  <2>1. k * g \in Nat /\ room \in Nat
    BY <1>1, <1>5 DEF room
  <2>2. (k * g) * Granularity <= room * Granularity
    BY <1>4, <1>9, <2>1, TimesGrows
  <2>3. k * w = (k * g) * Granularity
    BY <1>1, <1>4
  <2> QED
    BY <2>2, <2>3
<1>11. o + e \in Nat /\ k * w \in Nat /\ room * Granularity \in Nat
  <2>1. q * w \in Nat
    BY <1>1, <1>2
  <2>2. room \in Nat
    BY <1>5 DEF room
  <2> QED
    BY <1>1, <1>2, <1>4, <2>1, <2>2
<1> DEFINE a == o + e
           b == k * w
           c == room * Granularity
<1>12. a \in Nat /\ b \in Nat /\ c \in Nat /\ a <= b /\ b <= c
  BY <1>8, <1>10, <1>11
<1> HIDE DEF a, b, c
<1>13. a <= c
  BY <1>12
<1> QED
  BY <1>4, <1>13 DEF a, c, o, room

(* Where a reservation holds its windows, the two sides agree about it.     *)
LEMMA LayoutFollows ==
  ASSUME ReservationHolds
  PROVE  LayoutSound
<1>1. NoElementSpans
  <2> SUFFICES ASSUME NEW r \in Requests, NEW i \in Probes(r)
               PROVE  ElementOffset(r, i) \div WindowBytes(r)
                        = (ElementOffset(r, i) + ElementBytes(r) - 1) \div WindowBytes(r)
    BY DEF NoElementSpans
  <2>1. i \in Nat
    BY ProbesTyped
  <2> QED
    BY <2>1, ElementsStayInWindows
<1>2. SidesAgree
  <2> SUFFICES ASSUME NEW r \in Requests
               PROVE  /\ ClientWindowSize(r) = WindowSize(r)
                      /\ MaxSize(r) % WindowSize(r) = 0
                      /\ ClientMaxSize(r) >= MaxSize(r)
    BY DEF SidesAgree
  <2> DEFINE s == WindowSize(r)
             g == WindowGranules(r)
             room == Reserved(r)
             d == room \div g
             n == MaxSize(r)
  <2>1. s \in Nat \ {0} /\ g \in Nat \ {0} /\ ClientWindowSize(r) = s
    BY WindowIs
  <2>2. PICK k \in Nat \ {0} : n = k * s
    BY LengthIs
  <2>3. n \div s = k /\ n % s = 0
    BY <2>1, <2>2, WholeWindows
  <2>4. (n \div s + 1) * g <= room /\ room \in Nat
    BY ReservedIs DEF ReservationHolds
  <2>5. ClientMaxSize(r) = d * s
    BY <2>1 DEF ClientMaxSize
  <2> HIDE DEF s, g, room, n
  <2>6. d \in Nat /\ room < d * g + g
    BY <2>1, <2>4, DivBelow
  <2> HIDE DEF d
  <2>7. k <= d
    <3> SUFFICES ASSUME d + 1 <= k
                 PROVE  FALSE
      BY <2>6
    <3>1. (d + 1) * g <= (k + 1) * g /\ (k + 1) * g \in Nat
      BY <2>1, <2>6, TimesGrows
    <3>2. (d + 1) * g = d * g + g /\ d * g \in Nat /\ (k + 1) * g <= room
      BY <2>1, <2>3, <2>4, <2>6
    <3> DEFINE x == d * g
               y == (k + 1) * g
    <3>3. x \in Nat /\ y \in Nat /\ x + g <= y /\ y <= room /\ room < x + g
      BY <2>6, <3>1, <3>2
    <3> HIDE DEF x, y
    <3> QED
      BY <2>1, <2>4, <3>3
  <2>8. k * s <= d * s
    BY <2>1, <2>6, <2>7, TimesGrows
  <2>9. d * s >= n
    <3>1. k * s \in Nat /\ d * s \in Nat
      BY <2>1, <2>6
    <3> QED
      BY <2>2, <2>8, <3>1
  <2> QED
    BY <2>1, <2>3, <2>5, <2>9 DEF s, n
<1> QED
  BY <1>1, <1>2 DEF LayoutSound

(* A request whose product does not wrap, for elements of half a granule or less. *)
Roomy(r) ==
  /\ 2 * ElementBytes(r) <= Granularity
  /\ Header + MaxSize(r) * WindowGranules(r) < Granules

(* Where an element is half a granule or less a window has two, so that there are
   more elements than windows: the window a view asks for in excess is there.     *)
LEMMA WindowsOfTwo ==
  ASSUME NEW r \in Requests, 2 * ElementBytes(r) <= Granularity
  PROVE  2 <= WindowSize(r)
<1> DEFINE e == r[3]
           w == WindowBytes(r)
           g == WindowGranules(r)
           d == w \div e
<1>1. /\ e \in Nat \ {0} /\ w \in Nat \ {0} /\ g \in Nat \ {0} /\ Granularity \in Nat \ {0}
      /\ w = g * Granularity /\ WindowSize(r) = d
  BY RequestIs, WindowIs, VecLayoutAssumption DEF ClientWindowSize
<1>2. 2 * e <= Granularity
  BY DEF ElementBytes
<1> HIDE DEF w, e, g
<1>3. Granularity <= w
  <2>1. 1 * Granularity <= g * Granularity
    BY <1>1, TimesGrows
  <2> QED
    BY <1>1, <2>1
<1>4. d \in Nat /\ w < d * e + e
  BY <1>1, DivBelow
<1> HIDE DEF d
<1>5. d # 0 /\ d # 1
  BY <1>1, <1>2, <1>3, <1>4
<1> QED
  BY <1>1, <1>4, <1>5

(* A reservation whose size does not wrap holds all its windows and one more. *)
LEMMA RoomyHolds ==
  ASSUME NEW r \in Requests, Roomy(r)
  PROVE  /\ Reserved(r) >= (MaxSize(r) \div WindowSize(r) + 1) * WindowGranules(r)
         /\ Header + Reserved(r) < Granules
<1> DEFINE s == WindowSize(r)
           g == WindowGranules(r)
           n == MaxSize(r)
           a == n * g
<1>1. s \in Nat \ {0} /\ g \in Nat \ {0} /\ n \in Nat \ {0}
  BY WindowIs, LengthIs
<1>2. PICK k \in Nat \ {0} : n = k * s
  BY LengthIs
<1>3. n \div s = k
  BY <1>1, <1>2, WholeWindows
<1>4. 2 <= s /\ Header + a < Granules
  BY WindowsOfTwo DEF Roomy
<1>5. Reserved(r) = a % Granules
  BY DEF Reserved
<1>6. a \in Nat /\ Header \in Nat /\ Granules \in Nat \ {0}
  BY <1>1, VecLayoutAssumption
<1> HIDE DEF s, g, n
<1>7. k + 1 <= n
  <2>1. 2 * k <= s * k
    BY <1>1, <1>2, <1>4, TimesGrows
  <2>2. s * k = n
    BY <1>1, <1>2
  <2> QED
    BY <1>1, <1>2, <2>1, <2>2
<1>8. (k + 1) * g <= a
  BY <1>1, <1>2, <1>7, TimesGrows
<1> HIDE DEF a
<1>9. a % Granules = a
  <2>1. a = 0 * Granules + a /\ a < Granules /\ 0 \in Nat
    BY <1>4, <1>6
  <2> QED
    BY <1>6, <2>1, DivUnique
<1>10. (k + 1) * g \in Nat
  BY <1>1
<1> DEFINE c == (k + 1) * g
<1>11. c \in Nat /\ c <= a /\ Reserved(r) = a
  BY <1>5, <1>8, <1>9, <1>10
<1> HIDE DEF c
<1>12. Reserved(r) >= c
  BY <1>6, <1>11
<1>13. Header + Reserved(r) < Granules
  BY <1>4, <1>11
<1> QED
  BY <1>3, <1>12, <1>13 DEF c, n, s, g

(* What ends before a number of whole granules has its last byte in one of them. *)
LEMMA LastByteInside ==
  ASSUME NEW a \in Nat, NEW e \in Nat \ {0}, NEW room \in Nat, NEW unit \in Nat \ {0},
         a + e <= room * unit
  PROVE  (a + e - 1) \div unit < room
<1> DEFINE b == a + e - 1
           q == b \div unit
<1>1. b \in Nat /\ b < a + e
  OBVIOUS
<1>2. q \in Nat /\ q * unit <= b
  <2> HIDE DEF b
  <2> QED
    BY <1>1, DivBelow
<1> HIDE DEF b, q
<1>3. ASSUME room <= q PROVE FALSE
  <2>1. room * unit <= q * unit /\ room * unit \in Nat /\ q * unit \in Nat
    BY <1>2, <1>3, TimesGrows
  <2> DEFINE u == room * unit
             v == q * unit
  <2>2. u \in Nat /\ v \in Nat /\ u <= v /\ v <= b /\ a + e <= u
    BY <1>2, <2>1
  <2> HIDE DEF u, v
  <2> QED
    BY <1>1, <2>2
<1>4. q < room
  BY <1>2, <1>3
<1> QED
  BY <1>4 DEF q, b

(* Where the reservations hold, so do the elements of a vector of any size.  *)
LEMMA HeldApartFollows ==
  ASSUME ReservationHolds, size \in Nat
  PROVE  HeldApart
<1> SUFFICES ASSUME NEW r \in Requests, NEW i \in 0..(size - 1), i < MaxSize(r)
             PROVE  /\ (ElementOffset(r, i) + ElementBytes(r) - 1) \div Granularity < Reserved(r)
                    /\ i > 0 => ElementOffset(r, i - 1) + ElementBytes(r) <= ElementOffset(r, i)
  BY DEF HeldApart
<1>1. i \in Nat
  OBVIOUS
<1>2. ElementOffset(r, i) \in Nat /\ ElementBytes(r) \in Nat \ {0} /\ Reserved(r) \in Nat /\ Granularity \in Nat \ {0}
  BY <1>1, ElementIs, RequestIs, ReservedIs, VecLayoutAssumption DEF ElementBytes
<1>3. ElementOffset(r, i) + ElementBytes(r) <= Reserved(r) * Granularity
  BY <1>1, ElementsLieInside
<1>4. (ElementOffset(r, i) + ElementBytes(r) - 1) \div Granularity < Reserved(r)
  BY <1>2, <1>3, LastByteInside
<1>5. ASSUME i > 0
      PROVE  ElementOffset(r, i - 1) + ElementBytes(r) <= ElementOffset(r, i)
  <2>1. i - 1 \in Nat /\ i - 1 < i
    BY <1>1, <1>5
  <2> QED
    BY <1>1, <2>1, ElementsStayApart
<1> QED
  BY <1>4, <1>5

(* Whatever is appended, by whom and in which order, the layout stays right. *)
LEMMA LayoutIsKept ==
  ASSUME ReservationHolds
  PROVE  Spec => []LayoutAgrees
<1>1. SInv => LayoutAgrees
  <2> SUFFICES ASSUME SInv
               PROVE  LayoutAgrees
    OBVIOUS
  <2>1. size \in Nat
    BY DEF SInv, TypeOK
  <2> QED
    BY <2>1, LayoutFollows, HeldApartFollows DEF LayoutAgrees
<1>2. Spec => []SInv
  BY Invariance
<1> QED
  BY <1>1, <1>2, PTL

(* Where no size wraps and no element is longer than half a granule, the two sides
   agree about every vector the game may ask for: where each element lies, that none
   spans two windows, and that all fit (SharedVecLayout::from_request, awaitAllocVec). *)
THEOREM RoomyLayouts ==
  ASSUME \A r \in Requests : Roomy(r)
  PROVE  Spec => []LayoutAgrees
<1>1. ReservationHolds
  BY RoomyHolds DEF ReservationHolds
<1> QED
  BY <1>1, LayoutIsKept

(* Five of the program's seven requests do wrap (layout_wraps_like_cpp_u32_math is
   about one).  What is left after the wrap still holds their windows, for these are
   far fewer than the elements the code multiplies by.                              *)
THEOREM ProgramLayouts ==
  ASSUME Requests = ProgramRequests, Granularity = 65536, Header = 1, Granules = 65536
  PROVE  Spec => []LayoutAgrees
<1>1. ASSUME NEW r \in Requests
      PROVE  /\ Reserved(r) >= (MaxSize(r) \div WindowSize(r) + 1) * WindowGranules(r)
             /\ Header + Reserved(r) < Granules
  <2>1. \/ r = <<200000, 1, 88>>
        \/ r = <<16384, 16384, 88>>
        \/ r = <<1000, 1, 4>>
        \/ r = <<128, 64, 16>>
        \/ r = <<500000, 1, 52>>
        \/ r = <<500000, 1, 144>>
        \/ r = <<200000, 1, 8>>
    BY DEF ProgramRequests
  <2>2. CASE r = <<200000, 1, 88>>
    <3>1. r[1] = 200000 /\ r[2] = 1 /\ r[3] = 88
      BY <2>2
    <3>2. WindowBytes(r) = 65536
      BY <3>1 DEF WindowBytes, RoundedUp, Bigger
    <3>3. WindowSize(r) = 744 /\ WindowGranules(r) = 1
      BY <3>1, <3>2 DEF WindowSize, WindowGranules, Bigger
    <3>4. MaxSize(r) = 200136
      BY <3>1, <3>3 DEF MaxSize, RoundedUp, Bigger
    <3>5. Reserved(r) = 3528 /\ MaxSize(r) \div WindowSize(r) = 269
      BY <3>3, <3>4 DEF Reserved
    <3> QED
      BY <3>3, <3>5
  <2>3. CASE r = <<16384, 16384, 88>>
    <3>1. r[1] = 16384 /\ r[2] = 16384 /\ r[3] = 88
      BY <2>3
    <3>2. WindowBytes(r) = 1441792
      BY <3>1 DEF WindowBytes, RoundedUp, Bigger
    <3>3. WindowSize(r) = 16384 /\ WindowGranules(r) = 22
      BY <3>1, <3>2 DEF WindowSize, WindowGranules, Bigger
    <3>4. MaxSize(r) = 16384
      BY <3>1, <3>3 DEF MaxSize, RoundedUp, Bigger
    <3>5. Reserved(r) = 32768 /\ MaxSize(r) \div WindowSize(r) = 1
      BY <3>3, <3>4 DEF Reserved
    <3> QED
      BY <3>3, <3>5
  <2>4. CASE r = <<1000, 1, 4>>
    <3>1. r[1] = 1000 /\ r[2] = 1 /\ r[3] = 4
      BY <2>4
    <3>2. WindowBytes(r) = 65536
      BY <3>1 DEF WindowBytes, RoundedUp, Bigger
    <3>3. WindowSize(r) = 16384 /\ WindowGranules(r) = 1
      BY <3>1, <3>2 DEF WindowSize, WindowGranules, Bigger
    <3>4. MaxSize(r) = 16384
      BY <3>1, <3>3 DEF MaxSize, RoundedUp, Bigger
    <3>5. Reserved(r) = 16384 /\ MaxSize(r) \div WindowSize(r) = 1
      BY <3>3, <3>4 DEF Reserved
    <3> QED
      BY <3>3, <3>5
  <2>5. CASE r = <<128, 64, 16>>
    <3>1. r[1] = 128 /\ r[2] = 64 /\ r[3] = 16
      BY <2>5
    <3>2. WindowBytes(r) = 65536
      BY <3>1 DEF WindowBytes, RoundedUp, Bigger
    <3>3. WindowSize(r) = 4096 /\ WindowGranules(r) = 1
      BY <3>1, <3>2 DEF WindowSize, WindowGranules, Bigger
    <3>4. MaxSize(r) = 4096
      BY <3>1, <3>3 DEF MaxSize, RoundedUp, Bigger
    <3>5. Reserved(r) = 4096 /\ MaxSize(r) \div WindowSize(r) = 1
      BY <3>3, <3>4 DEF Reserved
    <3> QED
      BY <3>3, <3>5
  <2>6. CASE r = <<500000, 1, 52>>
    <3>1. r[1] = 500000 /\ r[2] = 1 /\ r[3] = 52
      BY <2>6
    <3>2. WindowBytes(r) = 65536
      BY <3>1 DEF WindowBytes, RoundedUp, Bigger
    <3>3. WindowSize(r) = 1260 /\ WindowGranules(r) = 1
      BY <3>1, <3>2 DEF WindowSize, WindowGranules, Bigger
    <3>4. MaxSize(r) = 500220
      BY <3>1, <3>3 DEF MaxSize, RoundedUp, Bigger
    <3>5. Reserved(r) = 41468 /\ MaxSize(r) \div WindowSize(r) = 397
      BY <3>3, <3>4 DEF Reserved
    <3> QED
      BY <3>3, <3>5
  <2>7. CASE r = <<500000, 1, 144>>
    <3>1. r[1] = 500000 /\ r[2] = 1 /\ r[3] = 144
      BY <2>7
    <3>2. WindowBytes(r) = 65536
      BY <3>1 DEF WindowBytes, RoundedUp, Bigger
    <3>3. WindowSize(r) = 455 /\ WindowGranules(r) = 1
      BY <3>1, <3>2 DEF WindowSize, WindowGranules, Bigger
    <3>4. MaxSize(r) = 500045
      BY <3>1, <3>3 DEF MaxSize, RoundedUp, Bigger
    <3>5. Reserved(r) = 41293 /\ MaxSize(r) \div WindowSize(r) = 1099
      BY <3>3, <3>4 DEF Reserved
    <3> QED
      BY <3>3, <3>5
  <2>8. CASE r = <<200000, 1, 8>>
    <3>1. r[1] = 200000 /\ r[2] = 1 /\ r[3] = 8
      BY <2>8
    <3>2. WindowBytes(r) = 65536
      BY <3>1 DEF WindowBytes, RoundedUp, Bigger
    <3>3. WindowSize(r) = 8192 /\ WindowGranules(r) = 1
      BY <3>1, <3>2 DEF WindowSize, WindowGranules, Bigger
    <3>4. MaxSize(r) = 204800
      BY <3>1, <3>3 DEF MaxSize, RoundedUp, Bigger
    <3>5. Reserved(r) = 8192 /\ MaxSize(r) \div WindowSize(r) = 25
      BY <3>3, <3>4 DEF Reserved
    <3> QED
      BY <3>3, <3>5
  <2> QED
    BY <2>1, <2>2, <2>3, <2>4, <2>5, <2>6, <2>7, <2>8
<1>2. ReservationHolds
  BY <1>1 DEF ReservationHolds
<1> QED
  BY <1>2, LayoutIsKept
=============================================================================
