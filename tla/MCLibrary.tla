------------------------------ MODULE MCLibrary ------------------------------
(***************************************************************************)
(* What becomes of a book and of its listeners' places, for TLC:           *)
(* BookLifecycle, ChapterRebuild, ChapterAudio and PositionSync side by    *)
(* side.  They share no state, so a behaviour is one of a single part, and *)
(* the others rest in an initial state of theirs.                          *)
(***************************************************************************)
EXTENDS BookLifecycle, ChapterRebuild, ChapterAudio, PositionSync, TLC

CONSTANTS b1, b2, i1, i2

VARIABLE part   \* whose steps are taken

-----------------------------------------------------------------------------
(* Two profiles and two rebuilds of one book.                              *)

Budget(f) == f @@ [e \in Events |-> 0]
MCBudgets ==
  {Budget(("write" :> 2) @@ ("rebuild" :> 2) @@ ("fault" :> 2) @@ ("crash" :> 1)),
   Budget(("write" :> 2) @@ ("rebuild" :> 2) @@ ("fault" :> 1) @@ ("merge" :> 1))}

-----------------------------------------------------------------------------
(* Imports of a book, or of one of two candidates, and deletions, with one *)
(* fault and one restart.  In the part "imports" two imports and two       *)
(* deletions at once, but no refresh and no sweep that comes to its turn;  *)
(* in the part "sweeps" one deletion with its three sweeps and one import  *)
(* at a time, of new books and of books the library has.                   *)

MCCommands == {<<b1>>, <<b1, b2>>, <<b2, b1>>}

OnlyNew  == \A i \in Importers : imp'[i].pc = "acquire" /\ imp'[i].k = 1 => imp'[i].cmd[1] \notin catalog
NoSweeps == (\A n \in Deletions : ~SweepStep(n)) /\ \A b \in Books : ~LateWrite(b)
OneEach  == imp'[i2] = IdleImport /\ del'[2] = NoDeletion /\ feed' = NoFeed

(* An importer's name means nothing: the second is taken while the first is. *)
InOrder == imp[i2] = IdleImport /\ imp'[i2] # IdleImport => imp[i1] # IdleImport

-----------------------------------------------------------------------------
(* Moves that overlap, upward and downward.                                *)

MCPlans ==
  {[moves |-> {<<1, 1>>, <<2, 3>>, <<3, 4>>}, affected |-> {2, 3, 4}],
   [moves |-> {<<3, 2>>, <<4, 3>>}, affected |-> 1 .. 4]}

-----------------------------------------------------------------------------
(* Two devices at three places of one book.                                *)

Trip(f) == f @@ [e \in {"save", "rewind", "beacon", "open", "loss", "kill"} |-> 0]
MCTrips ==
  {Trip(("save" :> 2) @@ ("rewind" :> 1) @@ ("open" :> 2) @@ ("loss" :> 2)),
   Trip(("save" :> 2) @@ ("beacon" :> 1) @@ ("open" :> 3) @@ ("loss" :> 1) @@ ("kill" :> 1))}

-----------------------------------------------------------------------------
Resting(names, var, value) == part \notin names => var = value

MCInit ==
  /\ part \in {"imports", "sweeps", "rebuild", "audio", "positions"}
  /\ Init /\ Resting({"rebuild"}, budget, CHOOSE x \in MCBudgets : TRUE)
  /\ LifeInit /\ Resting({"imports", "sweeps"}, catalog, {})
  /\ AudioInit /\ Resting({"audio"}, plan, CHOOSE p \in MCPlans : TRUE)
  /\ Resting({"audio"}, had, 1 .. 4)
  /\ PosInit /\ Resting({"positions"}, trips, CHOOSE t \in MCTrips : TRUE)

BookPart     == part \in {"imports", "sweeps"} /\ UNCHANGED <<part, vars, audioVars, posVars>>
RebuildPart  == part = "rebuild" /\ UNCHANGED <<part, lifeVars, audioVars, posVars>>
AudioPart    == part = "audio" /\ UNCHANGED <<part, lifeVars, vars, posVars>>
PositionPart == part = "positions" /\ UNCHANGED <<part, lifeVars, vars, audioVars>>

MCNext ==
  \/ BookPart /\ LifeNext /\ IF part = "imports" THEN OnlyNew /\ NoSweeps /\ InOrder ELSE OneEach
  \/ RebuildPart /\ Next
  \/ AudioPart /\ AudioNext
  \/ PositionPart /\ PosNext
MCSpec == MCInit /\ [][MCNext]_<<part, lifeVars, vars, audioVars, posVars>>
=============================================================================
