--------------------------- MODULE NarrationCache ---------------------------
(***************************************************************************)
(* The rendered narration chunks on the disk: lib/narration-artifact-cache *)
(* .js and what lib/tts-queue.js and lib/chunked-tts.js do with it.        *)
(*                                                                         *)
(* A path is the output of one chunk in one namespace (voice, profile); a  *)
(* recipe is a fingerprint of all that decides the sound.  The artifact of *)
(* a recipe is shared by every path that asks for it.  Output and artifact *)
(* each have a marker beside them: which recipe, which content hash.  Four *)
(* kinds of task use them: a lookup (_resolveArtifact), a render job, the  *)
(* start-up index and the repair of static noise.  A task is interrupted   *)
(* at every file operation.                                                *)
(*                                                                         *)
(* Bytes are <<recipe, take>>: two renders of a recipe differ, and take 0  *)
(* was made before the noise check existed.  Lengths, the memo of hashes   *)
(* and the copy made where links are refused are left out.                 *)
(***************************************************************************)
EXTENDS Naturals

CONSTANTS
  Outputs, Recipes,  \* outputs; fingerprints (and their artifacts)
  Tasks,
  At,              \* At[t]: the path of t
  MaxTakes,        \* renders that succeed
  Scenes,          \* which kinds of tasks meet, and with how many mishaps
  Absent, Legacy, Damaged, NoMark

Files == Outputs \union Recipes
Takes == 0 .. MaxTakes
Renders == Recipes \X Takes
Bytes == Renders \union {Legacy, Damaged}
Marks == [recipe : Recipes, hash : Bytes]
Mishaps == {"crash", "fault", "damage", "edit"}
Kinds == {"lookup", "job", "index", "repair"}

ASSUME CacheAssumption ==
  /\ Outputs \intersect Recipes = {}
  /\ At \in [Tasks -> Outputs]
  /\ MaxTakes \in Nat
  /\ Scenes \subseteq [kind : [Tasks -> Kinds], left : [Mishaps -> Nat]]
  /\ Absent \notin Bytes /\ NoMark \notin Marks
  /\ Legacy \notin Renders \union {Damaged} /\ Damaged \notin Renders

VARIABLES
  bytes,    \* bytes[x]: what the file x holds
  mark,     \* mark[x]: the marker beside it
  want,     \* want[p]: the recipe asked for at p
  takes,    \* renders made
  pc, goal, \* where a task is, and what its inspection is for
  req,      \* req[t]: the recipe of its request
  seen,     \* seen[t]: the hash in the marker it read
  held,     \* held[t]: the identity it publishes or links
  tmp,      \* tmp[t]: its temporary file
  todo,     \* todo[t]: the unlinks it still waits for
  kind,     \* kind[t]: what the task t is
  left,     \* mishaps still to come
  crossed   \* history: a text was put at a path where another's task went on

locals == <<goal, req, seen, held, tmp, todo>>
cacheVars == <<bytes, mark, want, takes, pc, locals, kind, left, crossed>>

Ended == {"ready", "miss", "lost"}
Steps == {"stat", "mark", "hash", "unlink", "link", "markLinked", "generate",
          "publish", "copy", "rename", "markOut", "markTarget", "evict", "dropBytes", "dropMark"}
Goals == {"reuse", "source", "output", "fresh", "target", "freshTarget", "index", "cancel", "evicted"}

CacheTypes ==
  /\ bytes \in [Files -> Bytes \union {Absent}]
  /\ mark \in [Files -> Marks \union {NoMark}]
  /\ want \in [Outputs -> Recipes]
  /\ takes \in Takes
  /\ pc \in [Tasks -> Steps \union Ended \union {"idle"}]
  /\ goal \in [Tasks -> Goals]
  /\ req \in [Tasks -> Recipes]
  /\ seen \in [Tasks -> Bytes] /\ held \in [Tasks -> Bytes]
  /\ tmp \in [Tasks -> Bytes]
  /\ todo \in [Tasks -> SUBSET ({"bytes", "mark"} \X Files)]
  /\ left \in [Mishaps -> Nat]
  /\ kind \in [Tasks -> Kinds]
  /\ crossed \in BOOLEAN

(* A path holds nothing, bytes without a marker from before there were     *)
(* markers, or a render of before, whose artifact may still be there.      *)
CacheInit ==
  /\ want \in [Outputs -> Recipes]
  /\ bytes \in [Files -> {Absent, Legacy} \union (Recipes \X {0})]
  /\ mark \in [Files -> {NoMark} \union [recipe : Recipes, hash : Recipes \X {0}]]
  /\ \A p \in Outputs : IF bytes[p] \in {Absent, Legacy} THEN mark[p] = NoMark
       ELSE mark[p] = [recipe |-> bytes[p][1], hash |-> bytes[p]]
  /\ \A r \in Recipes : \/ bytes[r] = Absent /\ mark[r] = NoMark
                        \/ bytes[r] = <<r, 0>> /\ mark[r] = [recipe |-> r, hash |-> <<r, 0>>]
  /\ takes = 0
  /\ pc = [t \in Tasks |-> "idle"] /\ goal = [t \in Tasks |-> "reuse"]
  /\ req = [t \in Tasks |-> want[At[t]]]
  /\ seen = [t \in Tasks |-> Legacy] /\ held = [t \in Tasks |-> Legacy]
  /\ tmp = [t \in Tasks |-> Legacy]
  /\ todo = [t \in Tasks |-> {}]
  /\ \E s \in Scenes : kind = s.kind /\ left = s.left
  /\ crossed = FALSE

Running(t) == pc[t] \notin Ended \union {"idle"}
Goto(t, step, what) == pc' = [pc EXCEPT ![t] = step] /\ goal' = [goal EXCEPT ![t] = what]
End(t, how) == Goto(t, how, goal[t])
Spend(k) == left[k] > 0 /\ left' = [left EXCEPT ![k] = @ - 1]
Subject(t) == IF goal[t] \in {"source", "target", "freshTarget"} THEN req[t] ELSE At[t]
Both(x) == {<<"bytes", x>>, <<"mark", x>>}
Disk == <<bytes, mark>>
Rest == <<want, takes, kind, left, crossed>>

-----------------------------------------------------------------------------
(* inspect: is there a file, what does its marker say, are the bytes those *)
(* the marker names.                                                       *)

Rejects(t, verdict) == verdict = "invalid" /\ goal[t] \in {"reuse", "source", "output"}

(* Where the task goes with what it may use.                               *)
Proceed(t, verdict) ==
  LET next(step, what) == Goto(t, step, what) IN
  CASE goal[t] = "index" -> IF verdict = "verified" THEN next("publish", "index") ELSE End(t, "miss")
    [] goal[t] = "reuse" -> CASE verdict = "verified" -> next("publish", "reuse")
                              [] verdict = "legacy" -> End(t, "ready")
                              [] OTHER -> IF kind[t] = "job" THEN next("generate", "fresh")
                                          ELSE next("stat", "source")
    [] goal[t] = "source" -> IF verdict = "verified" THEN next("stat", "output") ELSE End(t, "miss")
    [] goal[t] = "output" -> IF verdict = "absent" THEN next("link", "output") ELSE End(t, "ready")
    [] OTHER -> next(IF verdict = "verified" /\ seen[t] = held[t] THEN "markOut" ELSE "copy", goal[t])

(* An invalid file is removed first, bytes and marker side by side.        *)
Follow(t, verdict) ==
  \/ Rejects(t, verdict) /\ Goto(t, "unlink", goal[t])
  \/ ~Rejects(t, verdict) /\ Proceed(t, verdict)

Discarding(t, verdict) ==
  todo' = IF Rejects(t, verdict) THEN [todo EXCEPT ![t] = Both(Subject(t))] ELSE todo

(* A job renders what is asked for now, or what a lookup of its path was   *)
(* asked for before an edit.                                               *)
Asked(t) == {want[At[t]]} \union
  {req[u] : u \in {v \in Tasks : /\ kind[t] = "job" /\ kind[v] = "lookup"
                                /\ At[v] = At[t] /\ pc[v] = "miss"}}

Begin(t) ==
  /\ pc[t] = "idle" /\ kind[t] # "repair"
  /\ kind[t] = "job" => \A u \in Tasks \ {t} :
       kind[u] = "job" /\ At[u] = At[t] /\ Running(u) => goal[u] = "cancel"
  /\ \E r \in Asked(t) : req' = [req EXCEPT ![t] = r]
  /\ Goto(t, "stat", IF kind[t] = "index" THEN "index" ELSE "reuse")
  /\ UNCHANGED <<Disk, Rest, seen, held, tmp, todo>>

Stat(t) ==
  /\ pc[t] = "stat"
  /\ IF bytes[Subject(t)] = Absent THEN Follow(t, "absent") ELSE Goto(t, "mark", goal[t])
  /\ UNCHANGED <<Disk, Rest, req, seen, held, tmp, todo>>

(* Fault: the index also publishes bytes that have no marker. *)
ReadMark_Unproved(t) ==
  LET m == mark[Subject(t)] IN
  /\ pc[t] = "mark"
  /\ CASE m # NoMark /\ m.recipe = req[t] ->
            Goto(t, "hash", goal[t]) /\ seen' = [seen EXCEPT ![t] = m.hash] /\ UNCHANGED <<held, todo>>
       [] m = NoMark /\ goal[t] = "index" /\ bytes[At[t]] # Absent ->
            Goto(t, "publish", "index") /\ held' = [held EXCEPT ![t] = bytes[At[t]]] /\ UNCHANGED <<seen, todo>>
       [] OTHER -> Follow(t, "invalid") /\ Discarding(t, "invalid") /\ UNCHANGED <<seen, held>>
  /\ UNCHANGED <<Disk, Rest, req, tmp>>

(* Fault: any marker with a hash will do, whatever its recipe. *)
ReadMark_AnyRecipe(t) ==
  LET m == mark[Subject(t)] IN
  /\ pc[t] = "mark"
  /\ IF m # NoMark
     THEN Goto(t, "hash", goal[t]) /\ seen' = [seen EXCEPT ![t] = m.hash]
     ELSE Follow(t, "legacy") /\ UNCHANGED seen
  /\ UNCHANGED <<Disk, Rest, req, held, tmp, todo>>

ReadMark(t) ==
  LET m == mark[Subject(t)]
      verdict == IF m = NoMark THEN "legacy" ELSE "invalid" IN
  /\ pc[t] = "mark"
  /\ IF m # NoMark /\ m.recipe = req[t]
     THEN Goto(t, "hash", goal[t]) /\ seen' = [seen EXCEPT ![t] = m.hash] /\ UNCHANGED todo
     ELSE Follow(t, verdict) /\ Discarding(t, verdict) /\ UNCHANGED seen
  /\ UNCHANGED <<Disk, Rest, req, held, tmp>>

Hash(t) ==
  LET verdict == IF bytes[Subject(t)] = seen[t] THEN "verified" ELSE "invalid" IN
  /\ pc[t] = "hash"
  /\ Follow(t, verdict) /\ Discarding(t, verdict)
  /\ held' = IF verdict = "verified" /\ goal[t] \in {"reuse", "index", "source"}
             THEN [held EXCEPT ![t] = seen[t]] ELSE held
  /\ UNCHANGED <<Disk, Rest, req, seen, tmp>>

(* One of the unlinks a task waits for; the last one lets it go on.        *)
Unlink(t) == \E u \in todo[t] :
  /\ pc[t] = "unlink"
  /\ todo' = [todo EXCEPT ![t] = @ \ {u}]
  /\ IF u[1] = "bytes" THEN bytes' = [bytes EXCEPT ![u[2]] = Absent] /\ UNCHANGED mark
     ELSE mark' = [mark EXCEPT ![u[2]] = NoMark] /\ UNCHANGED bytes
  /\ \/ todo[t] # {u} /\ UNCHANGED <<pc, goal>>
     \/ todo[t] = {u} /\ goal[t] = "cancel" /\ End(t, "miss")
     \/ todo[t] = {u} /\ goal[t] = "evicted" /\ Goto(t, "dropBytes", "evicted")
     \/ todo[t] = {u} /\ goal[t] \notin {"cancel", "evicted"} /\ Follow(t, "absent")
  /\ UNCHANGED <<Rest, req, seen, held, tmp>>

-----------------------------------------------------------------------------
(* resolve: link the artifact to the output.                               *)

(* Bytes are put at a path where a task for another text goes on.          *)
Uses(t) == Running(t) /\ goal[t] \notin {"cancel", "evicted"}
Crossing(t) ==
  crossed' = (crossed \/ \E u \in Tasks : Uses(u) /\ At[u] = At[t] /\ req[u] # req[t])

Link(t) ==
  /\ pc[t] = "link"
  /\ IF bytes[req[t]] = Absent THEN End(t, "miss") /\ UNCHANGED <<bytes, crossed>>
     ELSE /\ bytes' = [bytes EXCEPT ![At[t]] = IF @ = Absent THEN bytes[req[t]] ELSE @]
          /\ Goto(t, "markLinked", goal[t])
          /\ Crossing(t)
  /\ UNCHANGED <<mark, want, takes, kind, left, req, seen, held, tmp, todo>>

MarkLinked(t) ==
  /\ pc[t] = "markLinked"
  /\ mark' = [mark EXCEPT ![At[t]] = [recipe |-> req[t], hash |-> held[t]]]
  /\ End(t, "ready")
  /\ UNCHANGED <<bytes, Rest, req, seen, held, tmp, todo>>

-----------------------------------------------------------------------------
(* The render and publishVerified.                                         *)

Generate(t) ==
  /\ pc[t] = "generate" /\ takes < MaxTakes
  /\ takes' = takes + 1
  /\ bytes' = [bytes EXCEPT ![At[t]] = <<req[t], takes'>>]
  /\ Goto(t, "publish", "fresh")
  /\ Crossing(t)
  /\ UNCHANGED <<mark, want, kind, left, req, seen, held, tmp, todo>>

GenerateFails(t) ==
  /\ pc[t] = "generate"
  /\ End(t, "miss")
  /\ UNCHANGED <<Disk, Rest, req, seen, held, tmp, todo>>

(* MOSS Nano refuses what it could not publish; the others keep it.        *)
Unpublished(t) ==
  \/ End(t, "ready") /\ UNCHANGED todo
  \/ Goto(t, "unlink", "cancel") /\ todo' = [todo EXCEPT ![t] = Both(At[t])]

Publish(t) ==
  /\ pc[t] = "publish"
  /\ IF bytes[At[t]] = Absent
     THEN /\ IF goal[t] = "fresh" THEN Unpublished(t) ELSE End(t, "ready") /\ UNCHANGED todo
          /\ UNCHANGED held
     ELSE /\ held' = IF goal[t] = "fresh" THEN [held EXCEPT ![t] = bytes[At[t]]] ELSE held
          /\ Goto(t, "stat", IF goal[t] = "fresh" THEN "freshTarget" ELSE "target")
          /\ UNCHANGED todo
  /\ UNCHANGED <<Disk, Rest, req, seen, tmp>>

(* An operation of the publication or of the link failed; only the         *)
(* publication of a fresh render is allowed to.                            *)
Failed(t) ==
  IF goal[t] = "freshTarget" THEN Unpublished(t) ELSE End(t, "miss") /\ UNCHANGED todo

Copy(t) ==
  /\ pc[t] = "copy"
  /\ IF bytes[At[t]] = Absent THEN Failed(t) /\ UNCHANGED tmp
     ELSE tmp' = [tmp EXCEPT ![t] = bytes[At[t]]] /\ Goto(t, "rename", goal[t]) /\ UNCHANGED todo
  /\ UNCHANGED <<Disk, Rest, req, seen, held>>

Rename(t) ==
  /\ pc[t] = "rename"
  /\ bytes' = [bytes EXCEPT ![req[t]] = tmp[t]]
  /\ Goto(t, "markOut", goal[t])
  /\ UNCHANGED <<mark, Rest, req, seen, held, tmp, todo>>

MarkOut(t) ==
  /\ pc[t] = "markOut"
  /\ mark' = [mark EXCEPT ![At[t]] = [recipe |-> req[t], hash |-> held[t]]]
  /\ Goto(t, "markTarget", goal[t])
  /\ UNCHANGED <<bytes, Rest, req, seen, held, tmp, todo>>

MarkTarget(t) ==
  /\ pc[t] = "markTarget"
  /\ mark' = [mark EXCEPT ![req[t]] = [recipe |-> req[t], hash |-> held[t]]]
  /\ End(t, "ready")
  /\ UNCHANGED <<bytes, Rest, req, seen, held, tmp, todo>>

Fault(t) ==
  /\ pc[t] \in {"link", "markLinked", "copy", "rename", "markOut", "markTarget"}
  /\ Spend("fault")
  /\ Failed(t)
  /\ UNCHANGED <<Disk, want, takes, kind, req, seen, held, tmp, crossed>>

(* The job is cancelled: its signal stops it at the next step, and what is *)
(* at its path is removed.                                                 *)
CancelRender(t) ==
  /\ kind[t] = "job" /\ Running(t) /\ goal[t] # "cancel" /\ pc[t] # "unlink"
  /\ Goto(t, "unlink", "cancel")
  /\ todo' = [todo EXCEPT ![t] = Both(At[t])]
  /\ UNCHANGED <<Disk, Rest, req, seen, held, tmp>>

-----------------------------------------------------------------------------
(* invalidateCachedChunk: playback heard noise in a ready chunk.           *)

Repair(t) ==
  /\ pc[t] = "idle" /\ kind[t] = "repair"
  /\ bytes[At[t]] \in Recipes \X {0}
  /\ held' = [held EXCEPT ![t] = bytes[At[t]]]
  /\ Goto(t, "evict", "evicted")
  /\ UNCHANGED <<Disk, Rest, req, seen, tmp, todo>>

(* invalidate: the artifact is found through the marker of the output.     *)
Evict(t) ==
  LET m == mark[At[t]] IN
  /\ pc[t] = "evict"
  /\ todo' = [todo EXCEPT ![t] = {<<"mark", At[t]>>} \union
                IF m = NoMark THEN {} ELSE Both(m.recipe)]
  /\ Goto(t, "unlink", "evicted")
  /\ UNCHANGED <<Disk, Rest, req, seen, held, tmp>>

DropBytes(t) ==
  /\ pc[t] = "dropBytes"
  /\ bytes' = [bytes EXCEPT ![At[t]] = Absent]
  /\ Goto(t, "dropMark", "evicted")
  /\ UNCHANGED <<mark, Rest, req, seen, held, tmp, todo>>

DropMark(t) ==
  /\ pc[t] = "dropMark"
  /\ mark' = [mark EXCEPT ![At[t]] = NoMark]
  /\ End(t, "ready")
  /\ UNCHANGED <<bytes, Rest, req, seen, held, tmp, todo>>

-----------------------------------------------------------------------------
(* The recipe asked for at a path changes (text, pause, language) once the *)
(* chapter's jobs are quiet; lookups and the index may still be under way. *)
Edit(p) ==
  /\ Spend("edit")
  /\ \A t \in Tasks : At[t] = p /\ kind[t] = "job" => ~Running(t)
  /\ \E r \in Recipes \ {want[p]} : want' = [want EXCEPT ![p] = r]
  /\ UNCHANGED <<Disk, takes, pc, locals, kind, crossed>>

Crash ==
  /\ Spend("crash") /\ \E t \in Tasks : Running(t)
  /\ pc' = [t \in Tasks |-> IF Running(t) THEN "lost" ELSE pc[t]]
  /\ todo' = [t \in Tasks |-> {}]
  /\ UNCHANGED <<Disk, want, takes, goal, req, seen, held, tmp, kind, crossed>>

(* Bytes that are marked go bad on the disk, with every file linked  *)
(* to them.                                                                *)
Damage(x) ==
  /\ Spend("damage") /\ \A t \in Tasks : ~Running(t)
  /\ bytes[x] \in Renders
  /\ \A y \in Files : bytes[y] = bytes[x] => mark[y] # NoMark
  /\ bytes' = [y \in Files |-> IF bytes[y] = bytes[x] THEN Damaged ELSE bytes[y]]
  /\ UNCHANGED <<mark, want, takes, pc, locals, kind, crossed>>

CacheNext ==
  \/ \E t \in Tasks :
       \/ Begin(t) \/ Stat(t) \/ ReadMark(t) \/ Hash(t) \/ Unlink(t)
       \/ Link(t) \/ MarkLinked(t)
       \/ Generate(t) \/ GenerateFails(t) \/ Publish(t) \/ Copy(t) \/ Rename(t)
       \/ MarkOut(t) \/ MarkTarget(t) \/ Fault(t) \/ CancelRender(t)
       \/ Repair(t) \/ Evict(t) \/ DropBytes(t) \/ DropMark(t)
  \/ \E p \in Outputs : Edit(p)
  \/ Crash
  \/ \E x \in Files : Damage(x)

CacheSpec == CacheInit /\ [][CacheNext]_cacheVars

-----------------------------------------------------------------------------
(* What a marker proves: bytes whose hash it names were rendered from the  *)
(* recipe it names.  Where an edit overtook a lookup or the index, and the *)
(* new text was put at the path before that task ended (crossed), the task *)
(* removes, copies or marks the new text's bytes as the old one's.         *)
Provenance == crossed \/ \A x \in Files : mark[x] # NoMark /\ mark[x].hash = bytes[x] =>
  bytes[x] \in Renders /\ bytes[x][1] = mark[x].recipe

(* Only its own recipe's renders are ever put in a recipe's artifact, so   *)
(* no chunk gets the sound of another text (again, short of a crossing).   *)
ArtifactsPure == crossed \/ \A r \in Recipes : bytes[r] \in {Absent, Damaged} \union ({r} \X Takes)
=============================================================================
