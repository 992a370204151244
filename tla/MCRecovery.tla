------------------------------ MODULE MCRecovery ------------------------------
(***************************************************************************)
(* What puts things right later, for TLC: the sweeps that follow a         *)
(* deletion (BookLifecycle), and the locks and copies of an ordinary store *)
(* that was damaged (JsonStore).  They share no state, so a behaviour is   *)
(* one of a single part, and the other one rests.                          *)
(***************************************************************************)
EXTENDS JsonStore, TLC

VARIABLES
  part,      \* whose steps are taken
  catalog, files, refs, pending, revision, published, tombstones, owner, imp, del, sweep,
  feed, removedBy, spoiled, room

-----------------------------------------------------------------------------
(* An ordinary store under an update and a load of the server and a save   *)
(* of the recovery command, with one kill, one damage and one power loss.  *)

CONSTANTS server, cli, t1, t2, t3, a, b, c

MCHome   == t1 :> server @@ t2 :> server @@ t3 :> cli
MCKind   == t1 :> "update" @@ t2 :> "load" @@ t3 :> "save"
MCTags   == t1 :> a @@ t2 :> b @@ t3 :> c
MCBudget == [kill |-> 1, power |-> 1, fault |-> 0, damage |-> 1]

-----------------------------------------------------------------------------
(* Two deletions of two books, three sweeps each and one fault.            *)

CONSTANTS b1, b2

L == INSTANCE BookLifecycle WITH
  Books <- {b1, b2}, Importers <- {}, Commands <- {<<b1>>, <<b1, b2>>}, Refreshable <- {},
  MaxDeletes <- 2, Sweeps <- 3, Feeds <- FALSE, MaxFaults <- 1, MaxCrashes <- 0

lifeVars ==
  <<catalog, files, refs, pending, revision, published, tombstones, owner, imp, del, sweep,
    feed, removedBy, spoiled, room>>

-----------------------------------------------------------------------------
MCInit ==
  /\ part \in {"sweeps", "store"}
  /\ L!LifeInit /\ (part = "sweeps" \/ catalog = {})
  /\ Init /\ (part = "store" \/ file = Missing)

SweepsPart == part = "sweeps" /\ UNCHANGED <<part, vars>>
StorePart  == part = "store" /\ UNCHANGED <<part, lifeVars>>

MCNext == \/ SweepsPart /\ L!LifeNext
          \/ StorePart /\ Next

MCSpec ==
  /\ MCInit /\ [][MCNext]_<<part, lifeVars, vars>>
  /\ \A n \in L!Deletions :
       WF_<<part, lifeVars, vars>>(SweepsPart /\ (L!DeleteStep(n) \/ L!SweepStep(n)))
  /\ \A t \in Tasks : WF_<<part, lifeVars, vars>>(StorePart /\ Step(t))

-----------------------------------------------------------------------------
(* BookLifecycle: the files of a deleted book are gone in the end.         *)
DeletedFilesGo == L!DeletedFilesGo
=============================================================================
