------------------------ MODULE MCStartupGeneration -------------------------
(* Two jobs over two states of the files, each of the four with inputs of   *)
(* its own; the tree found first was made of the files as they were before, *)
(* or is of a newer version.                                                *)
EXTENDS StartupGeneration, TLC

MCReads ==
  (<<"sea", "old">> :> "sea old") @@ (<<"sea", "new">> :> "sea new") @@
  (<<"isle", "old">> :> "isle old") @@ (<<"isle", "new">> :> "isle new")
MCInputs == {MCReads[p] : p \in Jobs \X Files}
MCInitTrees == {MCReads[<<FirstJob, f>>] : f \in Files \ {FirstFiles}} \cup {"newer"}

(* Hosts are interchangeable: every game is told if the game of one is,     *)
(* which makes the check of liveness cheaper.                               *)
GameIsTold == EventuallyTold(CHOOSE h \in Hosts : TRUE)

(* Whoever waits for a run learns how it ended.                             *)
EveryoneIsTold == GameIsTold /\ RunReports
=============================================================================
