-------------------------- MODULE CompleteOrAbsent --------------------------
(***************************************************************************)
(* What the distant-land output store promises to its readers, without     *)
(* locks, files or syncs: the output is either one complete tree or it is  *)
(* absent.  A tree is published and withdrawn whole, a reader that opened  *)
(* it keeps seeing exactly the bytes it opened, and an interruption may    *)
(* lose the tree but never leaves a mixture behind.                        *)
(***************************************************************************)
CONSTANTS
  Trees,    (* the complete trees a generation can produce              *)
  Absent,   (* "no usable output", not one of Trees                     *)
  Readers

VARIABLES
  tree,     (* the published tree, or Absent                            *)
  view      (* what each reader has pinned, or Absent                   *)

vars == << tree, view >>

Unpinned == \A r \in Readers : view[r] = Absent

Init ==
  /\ tree \in Trees \cup {Absent}
  /\ view = [r \in Readers |-> Absent]

Withdraw ==
  /\ tree # Absent
  /\ Unpinned
  /\ tree' = Absent
  /\ UNCHANGED view

Publish ==
  /\ tree = Absent
  /\ tree' \in Trees
  /\ UNCHANGED view

Open(r) ==
  /\ view[r] = Absent
  /\ tree # Absent
  /\ view' = [view EXCEPT ![r] = tree]
  /\ UNCHANGED tree

Close(r) ==
  /\ view' = [view EXCEPT ![r] = Absent]
  /\ UNCHANGED tree

(* Losing power closes every reader and may lose the tree.                *)
PowerLoss ==
  /\ tree' \in {tree, Absent}
  /\ view' = [r \in Readers |-> Absent]

Next ==
  \/ Withdraw
  \/ Publish
  \/ \E r \in Readers : Open(r) \/ Close(r)
  \/ PowerLoss

Spec == Init /\ [][Next]_vars
=============================================================================
