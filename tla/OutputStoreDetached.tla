------------------------ MODULE OutputStoreDetached -------------------------
(***************************************************************************)
(* The output store with writer threads that outlive their session.  When  *)
(* a generation returns an error, the JoinHandles it drops detach their    *)
(* threads: those go on writing while the exclusive lock is free again,    *)
(* or held by another generation.                                          *)
(***************************************************************************)
EXTENDS OutputStore

Progressed(o, f, s) == [o EXCEPT !.prog = [o.prog EXCEPT ![f] = s]]

OrphanOpen(o, f) ==
  /\ InGroup(o.kind, o.prog, "open") = {}
  /\ f \in InGroup(o.kind, o.prog, "todo")
  /\ Truncate(f)
  /\ orphans' = (orphans \ {o}) \cup {Progressed(o, f, "open")}
  /\ UNCHANGED << state, stateDisk, session, reader >>

(* Its ledger died with its session: nobody syncs what it writes.          *)
OrphanClose(o, f) ==
  /\ f \in InGroup(o.kind, o.prog, "open")
  /\ cache' = [cache EXCEPT ![f] = Body[o.input][f]]
  /\ orphans' = (orphans \ {o}) \cup
                  (IF InGroup(o.kind, o.prog, "todo") = {} THEN {}
                   ELSE {Progressed(o, f, "wrote")})
  /\ UNCHANGED << dirty, state, stateDisk, session, reader >>

NextDetached ==
  \/ Next
  \/ \E o \in orphans, f \in Files : OrphanOpen(o, f) \/ OrphanClose(o, f)

SpecDetached == Init /\ [][NextDetached]_vars

-----------------------------------------------------------------------------
(* While a state that readers accept lists a file, nothing overwrites it:  *)
(* "Durable invalidation must precede canonical mutation".                 *)
InvalidationPrecedesMutation ==
  [][\A s \in {state, stateDisk} : s # None =>
       \A f \in Listed(s) : cache'[f] = cache[f]]_vars
=============================================================================
