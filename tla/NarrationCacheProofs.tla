------------------------ MODULE NarrationCacheProofs ------------------------
(***************************************************************************)
(* For any number of paths, recipes, tasks and failures: a marker names    *)
(* the recipe its hash was rendered from, and an artifact only ever holds  *)
(* renders of its own recipe.                                              *)
(*                                                                         *)
(* The invariant says what each task relies on at its step: the marker it  *)
(* read and the identity it carries are of its recipe, what it links or    *)
(* publishes is a render of its recipe whoever put it there since it was   *)
(* checked.  It holds until a text is put at a path where a task for       *)
(* another one goes on (crossed).                                          *)
(***************************************************************************)
EXTENDS NarrationCache, TLAPS

Pure(r) == {r} \X Takes
Marked == \A x \in Files : mark[x] # NoMark => mark[x].hash \in Pure(mark[x].recipe)
Inspecting == {"stat", "mark", "hash"}
Publishing == {"target", "freshTarget"}

(* The steps a task can be at while it pursues a goal.                     *)
Shape(t) ==
  /\ Running(t) => (kind[t] = "repair" <=> goal[t] = "evicted")
  /\ pc[t] \in Inspecting => goal[t] \in Publishing \union {"reuse", "source", "output", "index"}
  /\ pc[t] = "unlink" => goal[t] \in {"reuse", "source", "output", "cancel", "evicted"}
  /\ pc[t] \in {"link", "markLinked"} => goal[t] = "output"
  /\ pc[t] = "generate" => goal[t] = "fresh"
  /\ pc[t] = "publish" => goal[t] \in {"reuse", "index", "fresh"}
  /\ pc[t] \in {"copy", "rename", "markOut", "markTarget"} => goal[t] \in Publishing
  /\ pc[t] \in {"evict", "dropBytes", "dropMark"} => goal[t] = "evicted"

Carries(t) ==
  /\ pc[t] = "hash" => seen[t] \in Pure(req[t])
  /\ Running(t) /\ (goal[t] \in Publishing \union {"output"} \/ (pc[t] = "publish" /\ goal[t] # "fresh"))
       => held[t] \in Pure(req[t])
  /\ pc[t] = "rename" => tmp[t] \in Pure(req[t])
  /\ Running(t) /\ goal[t] = "evicted" => held[t] \in Renders

Relies(t) ==
  /\ Running(t) /\ goal[t] = "output" => bytes[req[t]] \in {Absent} \union Pure(req[t])
  /\ Running(t) /\ (goal[t] \in Publishing \/ pc[t] = "publish")
       => bytes[At[t]] \in {Absent} \union Pure(req[t])

Sound(t) == Shape(t) /\ Carries(t) /\ Relies(t)
Own == \A r \in Recipes : bytes[r] \in {Absent, Damaged} \union ({r} \X Takes)
Core == Marked /\ Own /\ \A t \in Tasks : Sound(t)
Now == CacheTypes /\ Core
IInv == CacheTypes /\ (crossed \/ Core)

LEMMA InitInvariant == CacheInit => IInv
  <1> SUFFICES ASSUME CacheInit PROVE IInv
    OBVIOUS
  <1>1. 0 \in Takes
    BY CacheAssumption DEF CacheAssumption, Takes
  <1>2. CacheTypes
    <2>1. \A x \in Files : mark[x] \in Marks \union {NoMark}
      BY <1>1 DEF CacheInit, Marks, Bytes, Renders
    <2>2. crossed \in BOOLEAN
      BY DEF CacheInit
    <2> QED
      BY <1>1, <2>1, <2>2, CacheAssumption
      DEF CacheInit, CacheTypes, CacheAssumption, Files, Bytes, Renders, Goals, Marks
  <1>3. Marked
    BY <1>1 DEF CacheInit, Marked, Files, Pure
  <1>4. Own
    <2> SUFFICES ASSUME NEW r \in Recipes
                 PROVE  bytes[r] \in {Absent, Damaged} \union ({r} \X Takes)
      BY DEF Own
    <2>1. bytes[r] = Absent \/ bytes[r] = <<r, 0>>
      BY DEF CacheInit
    <2> QED BY <1>1, <2>1
  <1>5. \A t \in Tasks : Sound(t)
    BY DEF CacheInit, Sound, Shape, Carries, Relies, Running, Ended, Inspecting
  <1> QED BY <1>2, <1>3, <1>4, <1>5 DEF IInv, Core

-----------------------------------------------------------------------------
(* What a step of t may write: at its path a render of its recipe, while   *)
(* no task for another text goes on there, in an artifact renders of the   *)
(* artifact's recipe, and sound markers.                                   *)
Alone(t) == \A u \in Tasks : Uses(u) /\ At[u] = At[t] => req[u] = req[t]

Disciplined(t) ==
  /\ \A p \in Outputs : \/ bytes'[p] \in {bytes[p], Absent}
                        \/ p = At[t] /\ bytes'[p] \in Pure(req[t]) /\ Alone(t)
  /\ \A r \in Recipes : bytes'[r] \in {bytes[r], Absent} \union Pure(r)
  /\ \A x \in Files : \/ mark'[x] \in {mark[x], NoMark}
                      \/ mark'[x].hash \in Pure(mark'[x].recipe)

OnlyOf(t) ==
  /\ kind' = kind
  /\ \A u \in Tasks \ {t} :
       /\ pc'[u] = pc[u] /\ goal'[u] = goal[u] /\ req'[u] = req[u]
       /\ seen'[u] = seen[u] /\ held'[u] = held[u] /\ tmp'[u] = tmp[u]

(* A disciplined step of one task keeps what the others rely on.           *)
LEMMA OthersKept ==
  ASSUME Now, NEW t \in Tasks, OnlyOf(t), Disciplined(t)
  PROVE  Marked' /\ Own' /\ \A u \in Tasks \ {t} : Sound(u)'
  <1>1. Marked'
    BY DEF Now, Core, Marked, Disciplined
  <1>2. Own'
    BY DEF Now, Core, Own, Disciplined, Pure
  <1>3. ASSUME NEW u \in Tasks \ {t} PROVE Sound(u)'
    <2>1. /\ u \in Tasks /\ pc'[u] = pc[u] /\ goal'[u] = goal[u] /\ req'[u] = req[u]
          /\ seen'[u] = seen[u] /\ held'[u] = held[u] /\ tmp'[u] = tmp[u]
          /\ kind' = kind /\ At[u] \in Outputs /\ req[u] \in Recipes /\ Sound(u)
      BY CacheAssumption DEF OnlyOf, Now, Core, CacheTypes, CacheAssumption
    <2>2. Running(u)' = Running(u)
      BY <2>1 DEF Running
    <2>3. Shape(u)' /\ Carries(u)'
      BY <2>1, <2>2 DEF Sound, Shape, Carries
    <2>4. ASSUME Running(u), goal[u] = "output"
          PROVE  bytes'[req[u]] \in {Absent} \union Pure(req[u])
      BY <2>1, <2>4 DEF Sound, Relies, Disciplined
    <2>5. ASSUME Running(u), goal[u] \in Publishing \/ pc[u] = "publish"
          PROVE  bytes'[At[u]] \in {Absent} \union Pure(req[u])
      <3>1. Uses(u)
        BY <2>1, <2>5 DEF Sound, Shape, Publishing, Uses
      <3>2. bytes[At[u]] \in {Absent} \union Pure(req[u])
        BY <2>1, <2>5 DEF Sound, Relies
      <3>3. At[u] = At[t] /\ Alone(t) => req[u] = req[t]
        BY <2>1, <3>1 DEF Alone
      <3> QED BY <2>1, <3>2, <3>3 DEF Disciplined
    <2>6. Relies(u)'
      BY <2>1, <2>2, <2>4, <2>5 DEF Sound, Relies
    <2> QED BY <2>3, <2>6 DEF Sound
  <1> QED BY <1>1, <1>2, <1>3

(* So a step of a task has only to be disciplined and sound.               *)
LEMMA StepSound ==
  ASSUME Now, NEW t \in Tasks, OnlyOf(t), Disciplined(t), Sound(t)'
  PROVE  Core'
  BY OthersKept DEF Core

(* Where an inspection leads.                                              *)
LEMMA FollowLeads ==
  ASSUME CacheTypes, NEW t \in Tasks, NEW v \in {"absent", "legacy", "invalid", "verified"},
         goal[t] \in Publishing \union {"reuse", "source", "output", "index"}, Follow(t, v)
  PROVE  /\ pc' = [pc EXCEPT ![t] = pc'[t]] /\ goal' = [goal EXCEPT ![t] = goal'[t]]
         /\ \/ pc'[t] \in {"ready", "miss"} /\ goal'[t] = goal[t]
            \/ /\ v = "invalid" /\ goal[t] \in {"reuse", "source", "output"}
               /\ pc'[t] = "unlink" /\ goal'[t] = goal[t]
            \/ v = "verified" /\ goal[t] \in {"index", "reuse"} /\ pc'[t] = "publish" /\ goal'[t] = goal[t]
            \/ goal[t] = "reuse" /\ pc'[t] = "generate" /\ goal'[t] = "fresh"
            \/ goal[t] = "reuse" /\ pc'[t] = "stat" /\ goal'[t] = "source"
            \/ v = "verified" /\ goal[t] = "source" /\ pc'[t] = "stat" /\ goal'[t] = "output"
            \/ goal[t] = "output" /\ pc'[t] = "link" /\ goal'[t] = "output"
            \/ goal[t] \in Publishing /\ pc'[t] \in {"markOut", "copy"} /\ goal'[t] = goal[t]
  <1> USE DEF Follow, Rejects, Proceed, Goto, End, CacheTypes
  <1>1. CASE goal[t] = "index"
    BY <1>1
  <1>2. CASE goal[t] = "reuse"
    <2>1. CASE v = "invalid"
      BY <1>2, <2>1
    <2>2. CASE v = "verified"
      BY <1>2, <2>2
    <2>3. CASE v = "legacy"
      BY <1>2, <2>3
    <2>4. CASE v = "absent"
      BY <1>2, <2>4
    <2> QED BY <2>1, <2>2, <2>3, <2>4
  <1>3. CASE goal[t] = "source"
    BY <1>3
  <1>4. CASE goal[t] = "output"
    BY <1>4
  <1>5. CASE goal[t] \in Publishing
    BY <1>5 DEF Publishing
  <1> QED BY <1>1, <1>2, <1>3, <1>4, <1>5

LEMMA SpendTyped ==
  ASSUME left \in [Mishaps -> Nat], NEW k \in Mishaps, Spend(k)
  PROVE  left' \in [Mishaps -> Nat]
  BY DEF Spend

LEMMA AtTyped ==
  ASSUME NEW t \in Tasks, CacheTypes
  PROVE  /\ At[t] \in Outputs /\ req[t] \in Recipes /\ want[At[t]] \in Recipes
         /\ Subject(t) \in Files /\ At[t] \in Files /\ req[t] \in Files
         /\ At[t] \notin Recipes /\ req[t] \notin Outputs
  BY CacheAssumption DEF CacheTypes, CacheAssumption, Files, Subject

-----------------------------------------------------------------------------
LEMMA BeginKeeps == ASSUME Now, NEW t \in Tasks, Begin(t) PROVE Core'
  <1>1. OnlyOf(t) /\ Disciplined(t)
    BY DEF Begin, Now, Core, CacheTypes, Goto, Disk, Rest, OnlyOf, Disciplined
  <1>2. Sound(t)'
    BY DEF Begin, Now, Core, CacheTypes, Goto, Disk, Rest, Sound, Shape, Carries, Relies,
           Running, Ended, Inspecting, Publishing
  <1> QED BY <1>1, <1>2, StepSound

LEMMA StatKeeps == ASSUME Now, NEW t \in Tasks, Stat(t) PROVE Core'
  <1> DEFINE G == Publishing \union {"reuse", "source", "output", "index"}
  <1>0. pc[t] = "stat" /\ goal[t] \in G /\ Running(t) /\ kind[t] # "repair"
    BY DEF Now, Core, Sound, Shape, Stat, Inspecting, Running, Ended, Publishing
  <1>1. CASE bytes[Subject(t)] # Absent
    <2>1. OnlyOf(t) /\ Disciplined(t)
      BY <1>1 DEF Stat, Now, Core, CacheTypes, Goto, Disk, Rest, OnlyOf, Disciplined
    <2>2. Sound(t)'
      BY <1>0, <1>1 DEF Stat, Now, Core, CacheTypes, Goto, Disk, Rest, Sound, Shape, Carries, Relies,
           Running, Ended, Inspecting, Publishing
    <2> QED BY <2>1, <2>2, StepSound
  <1>2. CASE bytes[Subject(t)] = Absent
    <2>0. Follow(t, "absent")
      BY <1>2 DEF Stat
    <2>1. OnlyOf(t) /\ Disciplined(t)
      BY <1>0, <2>0, FollowLeads DEF Stat, Now, Core, CacheTypes, Disk, Rest, OnlyOf, Disciplined
    <2>2. Sound(t)'
      BY <1>0, <2>0, FollowLeads DEF Stat, Now, Core, CacheTypes, Disk, Rest, Sound, Shape, Carries, Relies,
           Running, Ended, Inspecting, Publishing
    <2> QED BY <2>1, <2>2, StepSound
  <1> QED BY <1>1, <1>2

LEMMA ReadMarkKeeps == ASSUME Now, NEW t \in Tasks, ReadMark(t) PROVE Core'
  <1> DEFINE m == mark[Subject(t)]
             v == IF m = NoMark THEN "legacy" ELSE "invalid"
  <1>0. /\ pc[t] = "mark" /\ Running(t) /\ kind[t] # "repair"
        /\ goal[t] \in Publishing \union {"reuse", "source", "output", "index"}
    BY DEF Now, Core, Sound, Shape, ReadMark, Inspecting, Running, Ended, Publishing
  <1>1. CASE m # NoMark /\ m.recipe = req[t]
    <2>0. m.hash \in Pure(req[t]) /\ m.hash \in Bytes
      BY <1>1, AtTyped DEF Now, Core, Marked, CacheTypes, Marks
    <2>1. OnlyOf(t) /\ Disciplined(t)
      BY <1>1 DEF ReadMark, Now, Core, CacheTypes, Goto, Disk, Rest, OnlyOf, Disciplined
    <2>2. Sound(t)'
      BY <1>0, <1>1, <2>0 DEF ReadMark, Now, Core, CacheTypes, Goto, Disk, Rest, Sound, Shape, Carries,
           Relies, Running, Ended, Inspecting, Publishing
    <2> QED BY <2>1, <2>2, StepSound
  <1>2. CASE ~(m # NoMark /\ m.recipe = req[t])
    <2>0. Follow(t, v) /\ Discarding(t, v) /\ UNCHANGED seen /\ v \in {"legacy", "invalid"}
      BY <1>2 DEF ReadMark
    <2>1. OnlyOf(t) /\ Disciplined(t)
      BY <1>0, <2>0, FollowLeads DEF ReadMark, Now, Core, CacheTypes, Disk, Rest, OnlyOf, Disciplined
    <2>2. Sound(t)'
      BY <1>0, <2>0, FollowLeads DEF ReadMark, Now, Core, CacheTypes, Disk, Rest, Sound, Shape, Carries,
           Relies, Running, Ended, Inspecting, Publishing
    <2> QED BY <2>1, <2>2, StepSound
  <1> QED BY <1>1, <1>2

LEMMA HashKeeps == ASSUME Now, NEW t \in Tasks, Hash(t) PROVE Core'
  <1> DEFINE v == IF bytes[Subject(t)] = seen[t] THEN "verified" ELSE "invalid"
  <1>0. /\ pc[t] = "hash" /\ Running(t) /\ kind[t] # "repair"
        /\ goal[t] \in Publishing \union {"reuse", "source", "output", "index"}
        /\ seen[t] \in Pure(req[t]) /\ seen[t] \in Bytes
    BY DEF Now, Core, CacheTypes, Sound, Shape, Carries, Relies, Hash, Inspecting, Running, Ended, Publishing
  <1>1. Follow(t, v) /\ Discarding(t, v) /\ v \in {"verified", "invalid"}
    BY DEF Hash
  <1>2. OnlyOf(t) /\ Disciplined(t)
    BY <1>0, <1>1, FollowLeads DEF Hash, Now, Core, CacheTypes, Disk, Rest, OnlyOf, Disciplined
  <1>3. v = "verified" => bytes[Subject(t)] \in Pure(req[t])
    BY <1>0
  <1>4. UNCHANGED <<bytes, req, want, kind>> /\ tmp' = tmp /\ seen' = seen
    BY DEF Hash, Disk, Rest
  <1>5. Shape(t)'
    BY <1>0, <1>1, <1>4, FollowLeads DEF Now, Core, CacheTypes, Sound, Shape, Running, Ended, Inspecting, Publishing
  <1>6. Carries(t)'
    BY <1>0, <1>1, <1>4, FollowLeads
    DEF Hash, Now, Core, CacheTypes, Sound, Carries, Running, Ended, Publishing
  <1>7. Relies(t)'
    BY <1>0, <1>1, <1>3, <1>4, FollowLeads
    DEF Now, Core, CacheTypes, Sound, Relies, Running, Ended, Publishing, Subject
  <1> QED BY <1>2, <1>5, <1>6, <1>7, StepSound DEF Sound

LEMMA UnlinkKeeps == ASSUME Now, NEW t \in Tasks, Unlink(t) PROVE Core'
  <1>0. /\ pc[t] = "unlink" /\ Running(t)
        /\ goal[t] \in {"reuse", "source", "output", "cancel", "evicted"}
    BY DEF Now, Core, Sound, Shape, Unlink, Running, Ended
  <1>1. PICK u \in todo[t] : Unlink(t)!(u)
    BY DEF Unlink
  <1>2. u[1] \in {"bytes", "mark"} /\ u[2] \in Files
    BY <1>1 DEF Now, Core, CacheTypes
  <1>3. \A x \in Files : bytes'[x] \in {bytes[x], Absent} /\ mark'[x] \in {mark[x], NoMark}
    BY <1>1, <1>2 DEF Now, Core, CacheTypes
  <1>4. UNCHANGED <<want, takes, kind, left, req, seen, held, tmp>>
    BY <1>1 DEF Rest
  <1>5. CASE todo[t] # {u}
    <2>1. UNCHANGED <<pc, goal>>
      BY <1>1, <1>5
    <2> QED
      BY <1>0, <1>3, <1>4, <2>1, AtTyped, StepSound
      DEF Now, Core, CacheTypes, OnlyOf, Disciplined, Files, Sound, Shape, Carries, Relies, Running
  <1>6. CASE todo[t] = {u} /\ goal[t] \in {"cancel", "evicted"}
    <2>1. /\ \/ pc' = [pc EXCEPT ![t] = "miss"] /\ goal[t] = "cancel"
             \/ pc' = [pc EXCEPT ![t] = "dropBytes"] /\ goal[t] = "evicted"
          /\ goal' = goal
      BY <1>1, <1>6 DEF End, Goto, Now, Core, CacheTypes
    <2>2. OnlyOf(t) /\ Disciplined(t)
      BY <1>3, <1>4, <2>1 DEF Now, Core, CacheTypes, OnlyOf, Disciplined, Files
    <2>3. Sound(t)'
      BY <1>0, <1>4, <1>6, <2>1
      DEF Now, Core, CacheTypes, Sound, Shape, Carries, Relies, Running, Ended, Inspecting, Publishing
    <2> QED BY <2>2, <2>3, StepSound
  <1>7. CASE todo[t] = {u} /\ goal[t] \in {"reuse", "source", "output"}
    <2>1. Follow(t, "absent")
      BY <1>1, <1>7
    <2>2. OnlyOf(t) /\ Disciplined(t)
      BY <1>3, <1>4, <1>7, <2>1, FollowLeads DEF Now, Core, CacheTypes, OnlyOf, Disciplined, Files
    <2>3. Sound(t)'
      BY <1>0, <1>3, <1>4, <1>7, <2>1, FollowLeads, AtTyped
      DEF Now, Core, CacheTypes, Sound, Shape, Carries, Relies, Running, Ended, Inspecting, Publishing
    <2> QED BY <2>2, <2>3, StepSound
  <1> QED BY <1>0, <1>5, <1>6, <1>7

-----------------------------------------------------------------------------
LEMMA LinkKeeps == ASSUME Now, NEW t \in Tasks, Link(t), ~crossed' PROVE Core'
  <1>0. /\ pc[t] = "link" /\ goal[t] = "output" /\ Running(t) /\ kind[t] # "repair"
        /\ bytes[req[t]] \in {Absent} \union Pure(req[t])
        /\ held[t] \in Pure(req[t])
    BY DEF Link, Now, Core, Sound, Shape, Carries, Relies, Running, Ended
  <1>1. CASE bytes[req[t]] = Absent
    <2>1. pc' = [pc EXCEPT ![t] = "miss"] /\ goal' = goal
      BY <1>1 DEF Link, End, Goto, Now, Core, CacheTypes
    <2> QED
      BY <1>0, <1>1, <2>1, StepSound
      DEF Link, Now, Core, CacheTypes, Disk, Rest, Steps, Ended, OnlyOf, Disciplined,
          Sound, Shape, Carries, Relies, Running, Inspecting, Publishing
  <1>2. CASE bytes[req[t]] # Absent
    <2>1. /\ pc' = [pc EXCEPT ![t] = "markLinked"] /\ goal' = goal
          /\ bytes' = [bytes EXCEPT ![At[t]] = IF @ = Absent THEN bytes[req[t]] ELSE @]
      BY <1>2 DEF Link, Goto, Now, Core, CacheTypes
    <2>0. Alone(t)
      BY <1>2 DEF Link, Crossing, Alone, Now, CacheTypes
    <2>2. OnlyOf(t) /\ Disciplined(t)
      BY <1>0, <1>2, <2>0, <2>1, AtTyped DEF Link, Now, Core, CacheTypes, OnlyOf, Disciplined, Files
    <2>3. Sound(t)'
      BY <1>0, <2>1, AtTyped
      DEF Link, Now, Core, CacheTypes, Sound, Shape, Carries, Relies, Running, Ended, Inspecting,
          Publishing, Files
    <2> QED BY <2>2, <2>3, StepSound
  <1> QED BY <1>1, <1>2

LEMMA MarkLinkedKeeps == ASSUME Now, NEW t \in Tasks, MarkLinked(t) PROVE Core'
  <1>0. pc[t] = "markLinked" /\ goal[t] = "output" /\ held[t] \in Pure(req[t]) /\ held[t] \in Bytes
        /\ kind[t] # "repair"
    BY DEF MarkLinked, Now, Core, CacheTypes, Sound, Shape, Carries, Relies, Running, Ended, Inspecting, Publishing
  <1>1. OnlyOf(t) /\ Disciplined(t)
    BY <1>0, AtTyped DEF MarkLinked, Now, Core, CacheTypes, Goto, End, Steps, Ended, Goals, Disk, Rest, OnlyOf, Disciplined, Files, Marks
  <1>2. Sound(t)'
    BY <1>0, AtTyped DEF MarkLinked, Now, Core, CacheTypes, Goto, End, Steps, Ended, Goals, Disk, Rest, Sound, Shape,
       Carries, Relies, Running, Inspecting, Publishing
  <1> QED BY <1>1, <1>2, StepSound

LEMMA GenerateKeeps == ASSUME Now, NEW t \in Tasks, Generate(t), ~crossed' PROVE Core'
  <1>0. /\ pc[t] = "generate" /\ goal[t] = "fresh" /\ kind[t] # "repair"
        /\ takes + 1 \in Takes /\ <<req[t], takes + 1>> \in Pure(req[t])
        /\ <<req[t], takes + 1>> \in Renders
    BY AtTyped, CacheAssumption
    DEF Generate, Now, Core, CacheTypes, Sound, Shape, Relies, Running, Ended, Takes, CacheAssumption, Pure, Renders
  <1>a. Alone(t)
    BY DEF Generate, Crossing, Alone, Now, CacheTypes
  <1>1. OnlyOf(t) /\ Disciplined(t)
    BY <1>0, <1>a, AtTyped DEF Generate, Now, Core, CacheTypes, Goto, End, Steps, Ended, Goals, Disk, Rest, OnlyOf, Disciplined, Files
  <1>2. Sound(t)'
    BY <1>0, AtTyped DEF Generate, Now, Core, CacheTypes, Goto, End, Steps, Ended, Goals, Disk, Rest, Sound, Shape,
       Carries, Relies, Running, Inspecting, Publishing
  <1> QED BY <1>1, <1>2, StepSound

LEMMA GenerateFailsKeeps == ASSUME Now, NEW t \in Tasks, GenerateFails(t) PROVE Core'
  <1>0. pc[t] = "generate" /\ goal[t] = "fresh"
    BY DEF GenerateFails, Now, Core, CacheTypes, Sound, Shape, Carries, Relies, Running, Ended, Inspecting, Publishing
  <1>1. OnlyOf(t) /\ Disciplined(t)
    BY <1>0, AtTyped DEF GenerateFails, Now, Core, CacheTypes, Goto, End, Steps, Ended, Goals, Disk, Rest, OnlyOf, Disciplined, Files
  <1>2. Sound(t)'
    BY <1>0, AtTyped DEF GenerateFails, Now, Core, CacheTypes, Goto, End, Steps, Ended, Goals, Disk, Rest, Sound, Shape,
       Carries, Relies, Running, Inspecting, Publishing
  <1> QED BY <1>1, <1>2, StepSound

LEMMA PublishKeeps == ASSUME Now, NEW t \in Tasks, Publish(t) PROVE Core'
  <1>0. /\ pc[t] = "publish" /\ goal[t] \in {"reuse", "index", "fresh"} /\ Running(t)
        /\ kind[t] # "repair"
        /\ bytes[At[t]] \in {Absent} \union Pure(req[t])
        /\ goal[t] # "fresh" => held[t] \in Pure(req[t])
    BY DEF Publish, Now, Core, Sound, Shape, Carries, Relies, Running, Ended
  <1>1. CASE bytes[At[t]] = Absent
    <2>1. /\ \/ pc' = [pc EXCEPT ![t] = "ready"] /\ goal' = goal /\ todo' = todo
             \/ /\ pc' = [pc EXCEPT ![t] = "unlink"] /\ goal' = [goal EXCEPT ![t] = "cancel"]
                /\ todo' = [todo EXCEPT ![t] = Both(At[t])]
          /\ held' = held
      BY <1>1 DEF Publish, Unpublished, End, Goto, Now, Core, CacheTypes
    <2>2. OnlyOf(t) /\ Disciplined(t)
      BY <2>1 DEF Publish, Now, Core, CacheTypes, Disk, Rest, OnlyOf, Disciplined
    <2>3. Sound(t)'
      BY <1>0, <2>1 DEF Publish, Disk, Rest, Now, Core, CacheTypes, Sound, Shape, Carries, Relies, Running,
         Ended, Inspecting, Publishing
    <2> QED BY <2>2, <2>3, StepSound
  <1>2. CASE bytes[At[t]] # Absent
    <2>1. /\ pc' = [pc EXCEPT ![t] = "stat"] /\ todo' = todo
          /\ goal' = [goal EXCEPT ![t] = IF goal[t] = "fresh" THEN "freshTarget" ELSE "target"]
          /\ held' = IF goal[t] = "fresh" THEN [held EXCEPT ![t] = bytes[At[t]]] ELSE held
      BY <1>2 DEF Publish, Goto
    <2>2. OnlyOf(t) /\ Disciplined(t)
      BY <2>1 DEF Publish, Now, Core, CacheTypes, Disk, Rest, OnlyOf, Disciplined
    <2>3. Sound(t)'
      BY <1>0, <1>2, <2>1 DEF Publish, Disk, Rest, Now, Core, CacheTypes, Sound, Shape, Carries, Relies,
         Running, Ended, Inspecting, Publishing
    <2> QED BY <2>2, <2>3, StepSound
  <1> QED BY <1>1, <1>2

(* An operation that failed ends the task or turns it to removing.         *)
LEMMA FailedLeads ==
  ASSUME Now, NEW t \in Tasks, Failed(t), kind[t] # "repair", Running(t),
         UNCHANGED <<Disk, kind, req, seen, held, tmp>>
  PROVE  Core'
  <1>1. \/ \E how \in {"ready", "miss"} : pc' = [pc EXCEPT ![t] = how] /\ goal' = goal /\ todo' = todo
        \/ /\ pc' = [pc EXCEPT ![t] = "unlink"] /\ goal' = [goal EXCEPT ![t] = "cancel"]
           /\ todo' = [todo EXCEPT ![t] = Both(At[t])]
    BY DEF Failed, Unpublished, End, Goto, Now, Core, CacheTypes
  <1>2. OnlyOf(t) /\ Disciplined(t)
    BY <1>1 DEF Now, Core, CacheTypes, Disk, OnlyOf, Disciplined
  <1>3. Sound(t)'
    <2>1. CASE pc'[t] \in {"ready", "miss"}
      BY <1>1, <2>1 DEF Sound, Shape, Carries, Relies, Running, Ended, Inspecting
    <2>2. CASE pc'[t] = "unlink" /\ goal'[t] = "cancel"
      BY <2>2 DEF Sound, Shape, Carries, Relies, Running, Ended, Inspecting, Publishing, Now, Core, Disk
    <2> QED BY <1>1, <2>1, <2>2 DEF Now, Core, CacheTypes
  <1> QED BY <1>2, <1>3, StepSound

LEMMA CopyKeeps == ASSUME Now, NEW t \in Tasks, Copy(t) PROVE Core'
  <1>0. /\ pc[t] = "copy" /\ goal[t] \in Publishing /\ Running(t) /\ kind[t] # "repair"
        /\ bytes[At[t]] \in {Absent} \union Pure(req[t])
        /\ held[t] \in Pure(req[t])
    BY DEF Copy, Now, Core, Sound, Shape, Carries, Relies, Running, Ended, Publishing
  <1>1. CASE bytes[At[t]] = Absent
    BY <1>0, <1>1, FailedLeads DEF Copy, Disk, Rest, Now, Core, CacheTypes
  <1>2. CASE bytes[At[t]] # Absent
    <2>1. /\ pc' = [pc EXCEPT ![t] = "rename"] /\ goal' = goal /\ todo' = todo
          /\ tmp' = [tmp EXCEPT ![t] = bytes[At[t]]]
      BY <1>2 DEF Copy, Goto, Now, Core, CacheTypes
    <2>2. OnlyOf(t) /\ Disciplined(t)
      BY <2>1 DEF Copy, Now, Core, CacheTypes, Disk, Rest, OnlyOf, Disciplined
    <2>3. Sound(t)'
      BY <1>0, <1>2, <2>1 DEF Copy, Disk, Rest, Now, Core, CacheTypes, Sound, Shape, Carries, Relies,
         Running, Ended, Inspecting, Publishing
    <2> QED BY <2>2, <2>3, StepSound
  <1> QED BY <1>1, <1>2

LEMMA FaultKeeps == ASSUME Now, NEW t \in Tasks, Fault(t) PROVE Core'
  <1>1. kind[t] # "repair" /\ Running(t)
    BY DEF Fault, Now, Core, Sound, Shape, Running, Ended, Publishing
  <1> QED BY <1>1, FailedLeads DEF Fault

LEMMA RenameKeeps == ASSUME Now, NEW t \in Tasks, Rename(t) PROVE Core'
  <1>0. /\ pc[t] = "rename" /\ tmp[t] \in Pure(req[t]) /\ tmp[t] \in Bytes
        /\ goal[t] \in Publishing /\ kind[t] # "repair" /\ Running(t)
        /\ held[t] \in Pure(req[t]) /\ held[t] \in Bytes
        /\ bytes[At[t]] \in {Absent} \union Pure(req[t])
    BY DEF Rename, Now, Core, CacheTypes, Sound, Shape, Carries, Relies, Running, Ended, Inspecting, Publishing
  <1>1. OnlyOf(t) /\ Disciplined(t)
    BY <1>0, AtTyped DEF Rename, Now, Core, CacheTypes, Goto, End, Steps, Ended, Goals, Disk, Rest, OnlyOf, Disciplined, Files
  <1>2. Sound(t)'
    BY <1>0, AtTyped DEF Rename, Now, Core, CacheTypes, Goto, End, Steps, Ended, Goals, Disk, Rest, Sound, Shape,
       Carries, Relies, Running, Inspecting, Publishing
  <1> QED BY <1>1, <1>2, StepSound

LEMMA MarkOutKeeps == ASSUME Now, NEW t \in Tasks, MarkOut(t) PROVE Core'
  <1>0. /\ pc[t] = "markOut" /\ goal[t] \in Publishing /\ kind[t] # "repair" /\ Running(t)
        /\ held[t] \in Pure(req[t]) /\ held[t] \in Bytes
        /\ bytes[At[t]] \in {Absent} \union Pure(req[t])
    BY DEF MarkOut, Now, Core, CacheTypes, Sound, Shape, Carries, Relies, Running, Ended, Inspecting, Publishing
  <1>1. OnlyOf(t) /\ Disciplined(t)
    BY <1>0, AtTyped DEF MarkOut, Now, Core, CacheTypes, Goto, End, Steps, Ended, Goals, Disk, Rest, OnlyOf, Disciplined, Files, Marks
  <1>2. Sound(t)'
    BY <1>0, AtTyped DEF MarkOut, Now, Core, CacheTypes, Goto, End, Steps, Ended, Goals, Disk, Rest, Sound, Shape,
       Carries, Relies, Running, Inspecting, Publishing
  <1> QED BY <1>1, <1>2, StepSound

LEMMA MarkTargetKeeps == ASSUME Now, NEW t \in Tasks, MarkTarget(t) PROVE Core'
  <1>0. /\ pc[t] = "markTarget" /\ goal[t] \in Publishing /\ kind[t] # "repair" /\ Running(t)
        /\ held[t] \in Pure(req[t]) /\ held[t] \in Bytes
        /\ bytes[At[t]] \in {Absent} \union Pure(req[t])
    BY DEF MarkTarget, Now, Core, CacheTypes, Sound, Shape, Carries, Relies, Running, Ended, Inspecting, Publishing
  <1>1. OnlyOf(t) /\ Disciplined(t)
    BY <1>0, AtTyped DEF MarkTarget, Now, Core, CacheTypes, Goto, End, Steps, Ended, Goals, Disk, Rest, OnlyOf, Disciplined, Files, Marks
  <1>2. Sound(t)'
    BY <1>0, AtTyped DEF MarkTarget, Now, Core, CacheTypes, Goto, End, Steps, Ended, Goals, Disk, Rest, Sound, Shape,
       Carries, Relies, Running, Inspecting, Publishing
  <1> QED BY <1>1, <1>2, StepSound

LEMMA CancelKeeps == ASSUME Now, NEW t \in Tasks, CancelRender(t) PROVE Core'
  <1>0. kind[t] # "repair"
    BY DEF CancelRender
  <1>1. OnlyOf(t) /\ Disciplined(t)
    BY <1>0, AtTyped DEF CancelRender, Now, Core, CacheTypes, Goto, End, Steps, Ended, Goals, Disk, Rest, OnlyOf, Disciplined, Files
  <1>2. Sound(t)'
    BY <1>0, AtTyped DEF CancelRender, Now, Core, CacheTypes, Goto, End, Steps, Ended, Goals, Disk, Rest, Sound, Shape,
       Carries, Relies, Running, Inspecting, Publishing
  <1> QED BY <1>1, <1>2, StepSound

LEMMA RepairKeeps == ASSUME Now, NEW t \in Tasks, Repair(t) PROVE Core'
  <1>0. bytes[At[t]] \in Bytes /\ bytes[At[t]] \in Renders
    BY CacheAssumption DEF Repair, Bytes, Renders, Takes, CacheAssumption
  <1>1. OnlyOf(t) /\ Disciplined(t)
    BY <1>0, AtTyped DEF Repair, Now, Core, CacheTypes, Goto, End, Steps, Ended, Goals, Disk, Rest, OnlyOf, Disciplined, Files
  <1>2. Sound(t)'
    BY <1>0, AtTyped DEF Repair, Now, Core, CacheTypes, Goto, End, Steps, Ended, Goals, Disk, Rest, Sound, Shape,
       Carries, Relies, Running, Inspecting, Publishing
  <1> QED BY <1>1, <1>2, StepSound

LEMMA EvictKeeps == ASSUME Now, NEW t \in Tasks, Evict(t) PROVE Core'
  <1>0. pc[t] = "evict" /\ goal[t] = "evicted" /\ kind[t] = "repair"
    BY DEF Evict, Now, Core, CacheTypes, Sound, Shape, Carries, Relies, Running, Ended, Inspecting, Publishing
  <1>1. OnlyOf(t) /\ Disciplined(t)
    BY <1>0, AtTyped DEF Evict, Now, Core, CacheTypes, Goto, End, Steps, Ended, Goals, Disk, Rest, OnlyOf, Disciplined, Files
  <1>2. Sound(t)'
    BY <1>0, AtTyped DEF Evict, Now, Core, CacheTypes, Goto, End, Steps, Ended, Goals, Disk, Rest, Sound, Shape,
       Carries, Relies, Running, Inspecting, Publishing
  <1> QED BY <1>1, <1>2, StepSound

LEMMA DropBytesKeeps == ASSUME Now, NEW t \in Tasks, DropBytes(t) PROVE Core'
  <1>0. pc[t] = "dropBytes" /\ goal[t] = "evicted" /\ kind[t] = "repair"
    BY DEF DropBytes, Now, Core, CacheTypes, Sound, Shape, Carries, Relies, Running, Ended, Inspecting, Publishing
  <1>1. OnlyOf(t) /\ Disciplined(t)
    BY <1>0, AtTyped DEF DropBytes, Now, Core, CacheTypes, Goto, End, Steps, Ended, Goals, Disk, Rest, OnlyOf, Disciplined, Files
  <1>2. Sound(t)'
    BY <1>0, AtTyped DEF DropBytes, Now, Core, CacheTypes, Goto, End, Steps, Ended, Goals, Disk, Rest, Sound, Shape,
       Carries, Relies, Running, Inspecting, Publishing
  <1> QED BY <1>1, <1>2, StepSound

LEMMA DropMarkKeeps == ASSUME Now, NEW t \in Tasks, DropMark(t) PROVE Core'
  <1>0. /\ pc[t] = "dropMark" /\ goal[t] = "evicted" /\ kind[t] = "repair"
        /\ held[t] \in Renders /\ At[t] \in Outputs
    BY AtTyped DEF DropMark, Now, Core, Sound, Shape, Carries, Running, Ended
  <1>1. OnlyOf(t) /\ Disciplined(t)
    BY AtTyped DEF DropMark, Now, Core, CacheTypes, Goto, End, Ended, Disk, Rest, OnlyOf, Disciplined, Files
  <1>2. Sound(t)'
    BY <1>0 DEF DropMark, Now, Core, CacheTypes, Goto, End, Ended, Disk, Rest, Sound, Shape, Carries, Relies, Running,
       Inspecting
  <1> QED BY <1>1, <1>2, StepSound

-----------------------------------------------------------------------------
(* What happens around the tasks.                                          *)

LEMMA EditKeeps == ASSUME Now, NEW p \in Outputs, Edit(p) PROVE Core'
  BY DEF Edit, Now, Core, Marked, Own, Sound, Shape, Carries, Relies, Running, Disk, locals

LEMMA CrashKeeps == ASSUME Now, Crash PROVE Core'
  <1>1. /\ pc' = [t \in Tasks |-> IF Running(t) THEN "lost" ELSE pc[t]]
        /\ UNCHANGED <<Disk, want, takes, goal, req, seen, held, tmp, kind>>
    BY DEF Crash
  <1>2. \A t \in Tasks : pc'[t] \in Ended \union {"idle"}
    BY <1>1 DEF Running, Ended
  <1>3. Marked' /\ Own'
    BY <1>1 DEF Now, Core, Marked, Own, Disk
  <1>4. \A t \in Tasks : Sound(t)'
    BY <1>2 DEF Sound, Shape, Carries, Relies, Running, Ended, Inspecting
  <1> QED BY <1>3, <1>4 DEF Core

LEMMA DamageKeeps == ASSUME Now, NEW x \in Files, Damage(x) PROVE Core'
  <1>1. /\ \A t \in Tasks : ~Running(t)
        /\ bytes' = [y \in Files |-> IF bytes[y] = bytes[x] THEN Damaged ELSE bytes[y]]
        /\ UNCHANGED <<mark, want, takes, pc, locals, kind>>
    BY DEF Damage
  <1>2. Marked' /\ Own'
    BY <1>1 DEF Now, Core, Marked, Own, Files
  <1>3. \A t \in Tasks : Sound(t)'
    BY <1>1 DEF Now, Core, Sound, Shape, Carries, Relies, Running, Ended, Inspecting, locals
  <1> QED BY <1>2, <1>3 DEF Core

LEMMA CoreKept == ASSUME Now, [CacheNext]_cacheVars, ~crossed' PROVE Core'
  <1>1. ASSUME NEW t \in Tasks,
               \/ Begin(t) \/ Stat(t) \/ ReadMark(t) \/ Hash(t) \/ Unlink(t)
               \/ Link(t) \/ MarkLinked(t) \/ Generate(t) \/ GenerateFails(t)
        PROVE  Core'
    BY <1>1, BeginKeeps, StatKeeps, ReadMarkKeeps, HashKeeps, UnlinkKeeps, LinkKeeps,
       MarkLinkedKeeps, GenerateKeeps, GenerateFailsKeeps
  <1>2. ASSUME NEW t \in Tasks,
               \/ Publish(t) \/ Copy(t) \/ Rename(t) \/ MarkOut(t) \/ MarkTarget(t) \/ Fault(t)
               \/ CancelRender(t) \/ Repair(t) \/ Evict(t) \/ DropBytes(t) \/ DropMark(t)
        PROVE  Core'
    BY <1>2, PublishKeeps, CopyKeeps, RenameKeeps, MarkOutKeeps, MarkTargetKeeps, FaultKeeps,
       CancelKeeps, RepairKeeps, EvictKeeps, DropBytesKeeps, DropMarkKeeps
  <1>3. CASE UNCHANGED cacheVars
    BY <1>3 DEF cacheVars, locals, Now, Core, Marked, Own, Sound, Shape, Carries, Relies, Running
  <1> QED BY <1>1, <1>2, <1>3, EditKeeps, CrashKeeps, DamageKeeps DEF CacheNext

-----------------------------------------------------------------------------
(* The types hold whatever crossed.                                        *)

LEMMA InspectionTyped ==
  ASSUME CacheTypes, NEW t \in Tasks, Stat(t) \/ ReadMark(t) \/ Hash(t)
  PROVE  CacheTypes'
  <1>1. ASSUME NEW v \in {"absent", "legacy", "invalid", "verified"}, Follow(t, v)
        PROVE  pc' \in [Tasks -> Steps \union Ended \union {"idle"}] /\ goal' \in [Tasks -> Goals]
    BY <1>1 DEF Follow, Proceed, Rejects, Goto, End, CacheTypes, Steps, Ended, Goals
  <1>2. ASSUME NEW v \in {"absent", "legacy", "invalid", "verified"}, Discarding(t, v)
        PROVE  todo' \in [Tasks -> SUBSET ({"bytes", "mark"} \X Files)]
    BY <1>2, AtTyped DEF Discarding, Both, CacheTypes
  <1>3. CASE Stat(t)
    BY <1>1, <1>3 DEF Stat, Goto, CacheTypes, Steps, Goals, Disk, Rest
  <1>4. CASE ReadMark(t)
    <2> DEFINE m == mark[Subject(t)]
               v == IF m = NoMark THEN "legacy" ELSE "invalid"
    <2>1. CASE m # NoMark /\ m.recipe = req[t]
      <3>1. m.hash \in Bytes
        BY <2>1, AtTyped DEF CacheTypes, Marks
      <3> QED BY <1>4, <2>1, <3>1 DEF ReadMark, Goto, CacheTypes, Steps, Goals, Disk, Rest
    <2>2. CASE ~(m # NoMark /\ m.recipe = req[t])
      BY <1>1, <1>2, <1>4, <2>2 DEF ReadMark, CacheTypes, Disk, Rest
    <2> QED BY <2>1, <2>2
  <1>5. CASE Hash(t)
    <2>1. held' \in [Tasks -> Bytes]
      BY <1>5 DEF Hash, CacheTypes
    <2> QED BY <1>1, <1>2, <1>5, <2>1 DEF Hash, CacheTypes, Disk, Rest
  <1> QED BY <1>3, <1>4, <1>5

LEMMA TaskTyped ==
  ASSUME CacheTypes, NEW t \in Tasks,
         \/ Begin(t) \/ Unlink(t) \/ Link(t) \/ MarkLinked(t) \/ Generate(t) \/ GenerateFails(t)
         \/ Publish(t) \/ Copy(t) \/ Rename(t) \/ MarkOut(t) \/ MarkTarget(t) \/ Fault(t)
         \/ CancelRender(t) \/ Repair(t) \/ Evict(t) \/ DropBytes(t) \/ DropMark(t)
  PROVE  CacheTypes'
  <1> USE AtTyped DEF Goto, End, Steps, Ended, Goals, Disk, Rest
  <1>1. CASE Begin(t)
    <2>1. PICK r \in Asked(t) : req' = [req EXCEPT ![t] = r]
      BY <1>1 DEF Begin
    <2>2. r \in Recipes
      BY DEF Asked, CacheTypes
    <2> QED BY <1>1, <2>1, <2>2 DEF Begin, CacheTypes
  <1>2. CASE Unlink(t)
    <2>1. PICK u \in todo[t] : Unlink(t)!(u)
      BY <1>2 DEF Unlink
    <2>2. u[1] \in {"bytes", "mark"} /\ u[2] \in Files
      BY DEF CacheTypes
    <2>3. /\ bytes' \in [Files -> Bytes \union {Absent}] /\ mark' \in [Files -> Marks \union {NoMark}]
          /\ todo' \in [Tasks -> SUBSET ({"bytes", "mark"} \X Files)]
      BY <2>1, <2>2 DEF CacheTypes
    <2>4. pc' \in [Tasks -> Steps \union Ended \union {"idle"}] /\ goal' \in [Tasks -> Goals]
      BY <2>1 DEF Follow, Proceed, Rejects, CacheTypes
    <2> QED BY <2>1, <2>3, <2>4 DEF CacheTypes
  <1>3. CASE Link(t)
    <2>1. crossed' \in BOOLEAN
      BY <1>3 DEF Link, Crossing, CacheTypes
    <2>2. bytes' \in [Files -> Bytes \union {Absent}]
      BY <1>3 DEF Link, CacheTypes
    <2> QED BY <1>3, <2>1, <2>2 DEF Link, CacheTypes
  <1>4. CASE MarkLinked(t) \/ MarkOut(t) \/ MarkTarget(t)
    BY <1>4 DEF MarkLinked, MarkOut, MarkTarget, CacheTypes, Marks
  <1>5. CASE Generate(t)
    <2>1. takes + 1 \in Takes
      BY <1>5, CacheAssumption DEF Generate, Takes, CacheTypes, CacheAssumption
    <2>2. <<req[t], takes + 1>> \in Bytes
      BY <2>1 DEF Bytes, Renders
    <2> QED BY <1>5, <2>1, <2>2 DEF Generate, Crossing, CacheTypes
  <1>6. CASE GenerateFails(t)
    BY <1>6 DEF GenerateFails, CacheTypes
  <1>7. CASE Publish(t)
    BY <1>7 DEF Publish, Unpublished, CacheTypes, Both
  <1>8. CASE Copy(t)
    BY <1>8 DEF Copy, Failed, Unpublished, CacheTypes, Both
  <1>9. CASE Rename(t)
    BY <1>9 DEF Rename, CacheTypes
  <1>10. CASE Fault(t)
    <2>1. left' \in [Mishaps -> Nat]
      BY <1>10, SpendTyped DEF Fault, CacheTypes, Mishaps
    <2> QED BY <1>10, <2>1 DEF Fault, Failed, Unpublished, CacheTypes, Both
  <1>11. CASE CancelRender(t)
    BY <1>11 DEF CancelRender, CacheTypes, Both
  <1>12. CASE Repair(t)
    <2>1. bytes[At[t]] \in Bytes
      BY <1>12, CacheAssumption DEF Repair, Bytes, Renders, Takes, CacheAssumption
    <2> QED BY <1>12, <2>1 DEF Repair, CacheTypes
  <1>13. CASE Evict(t)
    <2>1. mark[At[t]] # NoMark => Both(mark[At[t]].recipe) \subseteq {"bytes", "mark"} \X Files
      BY DEF Both, CacheTypes, Marks, Files
    <2>2. todo' \in [Tasks -> SUBSET ({"bytes", "mark"} \X Files)]
      BY <1>13, <2>1 DEF Evict, CacheTypes
    <2> QED BY <1>13, <2>2 DEF Evict, CacheTypes
  <1>14. CASE DropBytes(t) \/ DropMark(t)
    BY <1>14 DEF DropBytes, DropMark, CacheTypes
  <1> QED BY <1>1, <1>2, <1>3, <1>4, <1>5, <1>6, <1>7, <1>8, <1>9, <1>10, <1>11, <1>12, <1>13, <1>14

LEMMA TypesKept == ASSUME CacheTypes, [CacheNext]_cacheVars PROVE CacheTypes'
  <1>1. ASSUME NEW p \in Outputs, Edit(p) PROVE CacheTypes'
    BY <1>1, SpendTyped DEF Edit, CacheTypes, Mishaps, Disk, locals
  <1>2. CASE Crash
    <2>1. \A t \in Tasks : pc'[t] \in Ended \union {"idle"} \union Steps
      BY <1>2 DEF Crash, Ended, CacheTypes
    <2> QED BY <1>2, <2>1, SpendTyped DEF Crash, CacheTypes, Mishaps, Disk
  <1>3. ASSUME NEW x \in Files, Damage(x) PROVE CacheTypes'
    BY <1>3, SpendTyped DEF Damage, CacheTypes, Mishaps, locals, Bytes
  <1>4. CASE UNCHANGED cacheVars
    BY <1>4 DEF cacheVars, locals, CacheTypes
  <1> QED BY <1>1, <1>2, <1>3, <1>4, InspectionTyped, TaskTyped DEF CacheNext

LEMMA HistoryStays == ASSUME [CacheNext]_cacheVars, crossed PROVE crossed'
  <1>1. ASSUME NEW t \in Tasks, Link(t) \/ Generate(t) PROVE crossed'
    BY <1>1 DEF Link, Generate, Crossing
  <1> QED BY <1>1
      DEF CacheNext, cacheVars, Begin, Stat, ReadMark, Hash, Unlink, MarkLinked, GenerateFails, Publish, Copy,
          Rename, MarkOut, MarkTarget, Fault, CancelRender, Repair, Evict, DropBytes, DropMark, Edit, Crash,
          Damage, Rest

(* The invariant of the cache.                                             *)
THEOREM CacheInvariant == CacheSpec => []IInv
  <1>1. IInv /\ [CacheNext]_cacheVars => IInv'
    BY TypesKept, CoreKept, HistoryStays DEF IInv, Now
  <1> QED BY <1>1, InitInvariant, PTL DEF CacheSpec

(* The types of the cache's files and tasks.                               *)
THEOREM CacheTypeOK == CacheSpec => []CacheTypes
  <1>1. IInv => CacheTypes
    BY DEF IInv
  <1> QED BY <1>1, CacheInvariant, PTL

(* A marker whose hash fits the bytes beside it names the recipe they were *)
(* rendered from, whoever wrote either and whatever failed in between: the *)
(* version-2 markers of lib/narration-artifact-cache.js prove provenance.  *)
THEOREM MarkersProve == CacheSpec => []Provenance
  <1>1. IInv => Provenance
    <2> SUFFICES ASSUME CacheTypes, Core, NEW x \in Files, mark[x] # NoMark, mark[x].hash = bytes[x]
                 PROVE  bytes[x] \in Renders /\ bytes[x][1] = mark[x].recipe
      BY DEF IInv, Provenance
    <2>1. bytes[x] \in Pure(mark[x].recipe) /\ mark[x].recipe \in Recipes
      BY DEF Core, Marked, CacheTypes, Marks
    <2> QED BY <2>1 DEF Pure, Renders
  <1> QED BY <1>1, CacheInvariant, PTL

(* The artifact shared by the namespaces holds renders of its own recipe,  *)
(* however lookups, jobs and the index interleave.                         *)
THEOREM SharedSoundIsOwn == CacheSpec => []ArtifactsPure
  <1>1. IInv => ArtifactsPure
    BY DEF IInv, Core, Own, ArtifactsPure
  <1> QED BY <1>1, CacheInvariant, PTL
=============================================================================
