----------------------------- MODULE MCRendering -----------------------------
(***************************************************************************)
(* How the chunks of a chapter come to be rendered, for TLC: the jobs of   *)
(* TTSQueue, and the files of NarrationCache that their renders leave.     *)
(* The models share no state, so a behaviour is one of a single part, and  *)
(* the other one rests.                                                    *)
(***************************************************************************)
EXTENDS TTSQueue, NarrationCache, TLC

VARIABLE part   \* whose steps are taken

-----------------------------------------------------------------------------
(* The live player and an offline preparation share the queue, and p2 is   *)
(* asked for by both.                                                      *)

CONSTANTS j1, j2, p1, p2, p3, live, prep, bookA

MCJobs == {j1, j2}
MCPaths == {p1, p2, p3}
MCRendered == {p3}
MCOwners == {live, prep}
OneChapter == [x \in Paths |-> "chapter"]
OneBook    == [x \in Paths |-> bookA]

LiveAndBackground ==
  [o \in Owners |-> IF o = live THEN [path : {p1, p2}, priority : {"immediate"}]
                    ELSE [path : {p2, p3}, priority : {"background"}]]

-----------------------------------------------------------------------------
(* Two namespaces' outputs for one chunk, and three tasks; which kinds     *)
(* meet and what goes wrong is a scene.                                    *)

CONSTANTS out1, out2, t1, t2, t3

MCAt == t1 :> out2 @@ t2 :> out1 @@ t3 :> out1

Scene(a, b, c, S) ==
  [kind |-> t1 :> a @@ t2 :> b @@ t3 :> c, left |-> [k \in Mishaps |-> IF k \in S THEN 1 ELSE 0]]

MCScenes ==
  {Scene("index", "job", "lookup", {"edit"}),
   Scene("index", "job", "repair", {"edit"}),
   Scene("lookup", "job", "repair", {"crash"}),
   Scene("lookup", "job", "lookup", {"fault"}),
   Scene("lookup", "lookup", "repair", {"crash", "damage"})}

MCSymmetry == Permutations(Recipes)

-----------------------------------------------------------------------------
Blank ==
  /\ bytes = [x \in Files |-> Absent] /\ want = [x \in Outputs |-> CHOOSE r \in Recipes : TRUE]
  /\ kind = (CHOOSE s \in Scenes : TRUE).kind

MCInit ==
  /\ part \in {"queue", "chunks"}
  /\ Init
  /\ CacheInit /\ (part = "queue" => Blank)

QueuePart  == part = "queue" /\ UNCHANGED <<part, cacheVars>>
(* Nothing is asked of a behaviour after a crossing: it is not followed.   *)
ChunksPart == part = "chunks" /\ ~crossed /\ UNCHANGED <<part, vars>>

MCNext == \/ QueuePart /\ Next
          \/ ChunksPart /\ CacheNext

MCSpec == MCInit /\ [][MCNext]_<<part, vars, cacheVars>>
=============================================================================
