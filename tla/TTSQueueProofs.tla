--------------------------- MODULE TTSQueueProofs ---------------------------
(***************************************************************************)
(* What holds of the narration queue for every set of jobs, paths, owners  *)
(* and books: one render per output path, no render without an owner, a    *)
(* queued job as urgent as its owners asked; one line sorted by urgency,   *)
(* from which the most urgent job starts, no slot idle while it is not     *)
(* empty, and no chapter beyond its window.                                *)
(***************************************************************************)
EXTENDS TTSQueue, FiniteSetTheorems, WellFoundedInduction, TLAPS

IInv == TypeOK /\ OneJobPerPath /\ OwnedOrDying /\ QueuedClaimsHonoured

(* The weights order the priorities.                                       *)
LEMMA WeightType == \A p : Weight(p) \in 0..4
  BY DEF Weight

LEMMA MoreUrgentTransitive ==
  ASSUME NEW p, NEW q, NEW r, IsHigherPriority(p, q), ~IsHigherPriority(r, q)
  PROVE  ~IsHigherPriority(r, p)
  BY WeightType DEF IsHigherPriority

LEMMA FreeJobType == FreeJob \in Job
  <1>1. NoClaims \in [Owners -> Priorities \union {NoClaim}]
    BY DEF NoClaims
  <1>2. (CHOOSE p \in Paths : TRUE) \in Paths
    BY QueueAssumption DEF QueueAssumption
  <1> QED BY <1>1, <1>2 DEF FreeJob, Job, Priorities, Strict

(* The most urgent claim is one of the claims and bounds all of them.      *)
LEMMA MostUrgentClaim ==
  ASSUME NEW claims \in [Owners -> Priorities \union {NoClaim}],
         \E o \in Owners : claims[o] # NoClaim
  PROVE  /\ MostUrgent(claims) \in Priorities
         /\ \A o \in Owners : claims[o] # NoClaim
                                => ~IsHigherPriority(claims[o], MostUrgent(claims))
  <1> DEFINE best(p) == /\ \E o \in Owners : claims[o] = p
                        /\ \A o \in Owners : claims[o] # NoClaim
                                               => ~IsHigherPriority(claims[o], p)
             asked(p) == \E o \in Owners : claims[o] = p
  <1>1. \E p \in Priorities : best(p)
    <2>1. \A o \in Owners : claims[o] # NoClaim => claims[o] \in Priorities
      OBVIOUS
    <2>2. CASE asked("immediate")
      <3>1. best("immediate")
        BY <2>1, <2>2 DEF IsHigherPriority, Weight, Priorities, Strict
      <3> QED BY <3>1 DEF Priorities, Strict
    <2>3. CASE ~asked("immediate") /\ asked("next")
      <3>1. best("next")
        BY <2>1, <2>3 DEF IsHigherPriority, Weight, Priorities, Strict
      <3> QED BY <3>1 DEF Priorities, Strict
    <2>4. CASE ~asked("immediate") /\ ~asked("next") /\ asked("lookahead")
      <3>1. best("lookahead")
        BY <2>1, <2>4 DEF IsHigherPriority, Weight, Priorities, Strict
      <3> QED BY <3>1 DEF Priorities, Strict
    <2>5. CASE /\ ~asked("immediate") /\ ~asked("next") /\ ~asked("lookahead")
               /\ asked("download")
      <3>1. best("download")
        BY <2>1, <2>5 DEF IsHigherPriority, Weight, Priorities, Strict
      <3> QED BY <3>1 DEF Priorities, Strict
    <2>6. CASE /\ ~asked("immediate") /\ ~asked("next") /\ ~asked("lookahead")
               /\ ~asked("download")
      <3>1. best("background")
        BY <2>1, <2>6 DEF IsHigherPriority, Weight, Priorities, Strict
      <3> QED BY <3>1 DEF Priorities, Strict
    <2> QED BY <2>2, <2>3, <2>4, <2>5, <2>6
  <1> QED BY <1>1 DEF MostUrgent

LEMMA InitInvariant == Init => IInv
  <1> SUFFICES ASSUME Init PROVE IInv
    OBVIOUS
  <1>1. Live = {}
    BY DEF Live, Queued, Active, Init, FreeJob
  <1>2. TypeOK
    <2>1. bookOrder \in Seq(Books) /\ lookaheads \in 0..LookaheadBurst
      BY QueueAssumption DEF QueueAssumption, Init
    <2> QED BY <2>1, FreeJobType DEF TypeOK, Init
  <1> QED BY <1>1, <1>2 DEF IInv, OneJobPerPath, OwnedOrDying, QueuedClaimsHonoured, Live

(* The orders the queue can be rearranged into are orders of jobs.         *)
LEMMA OrdersTyped ==
  ASSUME ahead \in [Jobs -> SUBSET Jobs]
  PROVE  /\ \A i \in Jobs : \A p : InsertInFront(i, p) \in [Jobs -> SUBSET Jobs]
         /\ \A i : WithoutJob(i) \in [Jobs -> SUBSET Jobs]
         /\ \A Q \in SUBSET Jobs : \A pr, M : InsertBehind(Q, pr, M) \in [Jobs -> SUBSET Jobs]
  BY DEF InsertInFront, WithoutJob, InsertBehind, Queued

(* Joining a job keeps it in its place in the index and only adds to what  *)
(* it is asked for; a queued job follows the urgency of the new claim.     *)
LEMMA JoinInvariant ==
  ASSUME IInv, NEW j \in Live, NEW o \in Owners, NEW p \in Priorities, Join(j, o, p)
  PROVE  /\ job' \in [Jobs -> Job] /\ ahead' \in [Jobs -> SUBSET Jobs] /\ tick' \in BOOLEAN
         /\ \A k \in Jobs : job'[k].status = job[k].status /\ job'[k].path = job[k].path
         /\ OwnedOrDying' /\ QueuedClaimsHonoured'
  <1> DEFINE old    == job[j].claims[o]
             asked  == IF old = NoClaim \/ IsHigherPriority(p, old) THEN p ELSE old
             claims == [job[j].claims EXCEPT ![o] = asked]
             higher == IsHigherPriority(p, job[j].priority)
             movable == higher /\ (j \in Queued \/ job[j].stage = "admission")
             now    == IF movable THEN p ELSE job[j].priority
  <1>1. j \in Jobs /\ job[j] \in Job /\ job \in [Jobs -> Job]
    BY DEF Live, Queued, Active, IInv, TypeOK
  <1>2. job' = [job EXCEPT ![j].claims = claims, ![j].priority = now]
    BY DEF Join
  <1>3. claims \in [Owners -> Priorities \union {NoClaim}] /\ asked # NoClaim
    BY <1>1, QueueAssumption DEF Job, QueueAssumption
  <1>4. now \in Priorities
    BY <1>1 DEF Job
  <1>5. /\ job'[j].claims = claims /\ job'[j].priority = now
        /\ job'[j].status = job[j].status /\ job'[j].path = job[j].path
        /\ job'[j].stage = job[j].stage
        /\ job'[j].cancelRequested = job[j].cancelRequested
        /\ \A k \in Jobs \ {j} : job'[k] = job[k]
    BY <1>1, <1>2 DEF Job
  <1>6. job' \in [Jobs -> Job]
    BY <1>1, <1>2, <1>3, <1>4 DEF Job
  <1>7. ahead' \in [Jobs -> SUBSET Jobs] /\ tick' \in BOOLEAN
    BY <1>1, OrdersTyped DEF Join, IInv, TypeOK, Queued, IsHigherPriority
  <1>8. Queued' = Queued /\ Live' = Live
    BY <1>5 DEF Queued, Active, Live
  <1>9. OwnedOrDying'
    <2>1. o \in ClaimOwners(j)'
      BY <1>1, <1>3, <1>5 DEF ClaimOwners, Job
    <2>2. \A k \in Jobs \ {j} : ClaimOwners(k)' = ClaimOwners(k) /\ Dying(k)' = Dying(k)
      BY <1>5 DEF ClaimOwners, Dying
    <2> QED BY <1>8, <2>1, <2>2 DEF IInv, OwnedOrDying, Live, Queued, Active
  <1>10. QueuedClaimsHonoured'
    <2> SUFFICES ASSUME NEW k \in Queued', NEW x \in Owners, job'[k].claims[x] # NoClaim
                 PROVE  ~IsHigherPriority(job'[k].claims[x], job'[k].priority)
      BY DEF QueuedClaimsHonoured
    <2>1. k \in Queued /\ (k # j => job'[k] = job[k])
      BY <1>5, <1>8 DEF Queued
    <2>2. k # j => ~IsHigherPriority(job[k].claims[x], job[k].priority)
      BY <2>1 DEF IInv, QueuedClaimsHonoured
    <2>3. ~IsHigherPriority(job[j].priority, now)
      BY WeightType DEF IsHigherPriority
    <2>4. k = j => ~IsHigherPriority(p, now)
      BY <2>1, WeightType DEF IsHigherPriority
    <2>5. CASE k = j /\ x = o /\ asked = p
      <3>1. job'[k].claims[x] = p
        BY <1>1, <1>5, <2>5 DEF Job
      <3> QED BY <1>5, <2>4, <2>5, <3>1
    <2>6. CASE k = j /\ ~(x = o /\ asked = p)
      <3>1. claims[x] = job[j].claims[x]
        BY <1>1, <2>6 DEF Job
      <3>2. ~IsHigherPriority(claims[x], job[j].priority)
        BY <1>5, <2>1, <2>6, <3>1 DEF IInv, QueuedClaimsHonoured
      <3>3. job'[k].claims[x] = claims[x] /\ job'[k].priority = now
        BY <1>5, <2>6
      <3> HIDE DEF claims, now
      <3>4. ~IsHigherPriority(claims[x], now)
        BY <2>3, <3>2, WeightType DEF IsHigherPriority
      <3> QED BY <3>3, <3>4
    <2> QED BY <2>1, <2>2, <2>5, <2>6
  <1> QED BY <1>5, <1>6, <1>7, <1>9, <1>10

(* The index survives a step that keeps status and path of every job.      *)
LEMMA SameIndex ==
  ASSUME OneJobPerPath, byPath' = byPath,
         \A k \in Jobs : job'[k].status = job[k].status /\ job'[k].path = job[k].path
  PROVE  OneJobPerPath'
  BY DEF OneJobPerPath, Live, Queued, Active

(* A job that leaves the queue and the active set disturbs no other job.   *)
LEMMA JobLeaves ==
  ASSUME IInv, NEW j \in Jobs, NEW r \in Job, r.status \notin {"queued", "generating"},
         job' = [job EXCEPT ![j] = r],
         \A f \in Paths : byPath[f] = j \/ byPath'[f] = byPath[f]
  PROVE  job' \in [Jobs -> Job] /\ OneJobPerPath' /\ OwnedOrDying' /\ QueuedClaimsHonoured'
  <1>1. job \in [Jobs -> Job]
    BY DEF IInv, TypeOK
  <1>2. job' \in [Jobs -> Job] /\ job'[j] = r /\ \A k \in Jobs \ {j} : job'[k] = job[k]
    BY <1>1
  <1>3. Live' \subseteq Live \ {j} /\ Queued' \subseteq Queued \ {j}
    BY <1>2 DEF Live, Queued, Active
  <1>4. OneJobPerPath'
    BY <1>1, <1>2, <1>3 DEF OneJobPerPath, IInv, Live, Queued, Active, Job
  <1>5. OwnedOrDying'
    <2>1. \A k \in Live' : ClaimOwners(k)' = ClaimOwners(k) /\ Dying(k)' = Dying(k)
      BY <1>2, <1>3 DEF ClaimOwners, Dying, Live, Queued, Active
    <2> QED BY <1>3, <2>1 DEF OwnedOrDying, IInv
  <1>6. QueuedClaimsHonoured'
    <2> SUFFICES ASSUME NEW k \in Queued', NEW x \in Owners, job'[k].claims[x] # NoClaim
                 PROVE  ~IsHigherPriority(job'[k].claims[x], job'[k].priority)
      BY DEF QueuedClaimsHonoured
    <2>1. k \in Queued /\ job'[k] = job[k]
      BY <1>2, <1>3 DEF Queued
    <2> QED BY <2>1 DEF IInv, QueuedClaimsHonoured
  <1> QED BY <1>2, <1>4, <1>5, <1>6

(* A job that starts, advances, is promoted or begins to die keeps path    *)
(* and claims.                                                             *)
LEMMA JobStays ==
  ASSUME IInv, NEW j \in Live, NEW r \in Job, job' = [job EXCEPT ![j] = r],
         r.path = job[j].path, r.claims = job[j].claims,
         r.status \in {"queued", "generating"}, r.status = "queued" => j \in Queued,
         job[j].cancelRequested => r.cancelRequested,
         ~IsHigherPriority(job[j].priority, r.priority), byPath' = byPath
  PROVE  job' \in [Jobs -> Job] /\ OneJobPerPath' /\ OwnedOrDying' /\ QueuedClaimsHonoured'
  <1>1. j \in Jobs /\ job \in [Jobs -> Job]
    BY DEF IInv, TypeOK, Live, Queued, Active
  <1>2. job' \in [Jobs -> Job] /\ job'[j] = r /\ \A k \in Jobs \ {j} : job'[k] = job[k]
    BY <1>1
  <1>3. Live' = Live /\ Queued' \subseteq Queued
    BY <1>1, <1>2 DEF Live, Queued, Active
  <1>4. OneJobPerPath'
    BY <1>1, <1>2, <1>3 DEF OneJobPerPath, IInv, Live, Queued, Active
  <1>5. OwnedOrDying'
    <2>1. \A k \in Live' : ClaimOwners(k)' = ClaimOwners(k) /\ (Dying(k) => Dying(k)')
      BY <1>2, <1>3 DEF ClaimOwners, Dying, Live, Queued, Active
    <2> QED BY <1>3, <2>1 DEF OwnedOrDying, IInv
  <1>6. QueuedClaimsHonoured'
    <2> SUFFICES ASSUME NEW k \in Queued', NEW x \in Owners, job'[k].claims[x] # NoClaim
                 PROVE  ~IsHigherPriority(job'[k].claims[x], job'[k].priority)
      BY DEF QueuedClaimsHonoured
    <2>1. k \in Queued /\ job'[k].claims = job[k].claims
      BY <1>2, <1>3 DEF Queued
    <2>2. ~IsHigherPriority(job[k].claims[x], job[k].priority)
      BY <2>1 DEF IInv, QueuedClaimsHonoured
    <2>3. ~IsHigherPriority(job[k].priority, job'[k].priority)
      BY <1>1, <1>2, <2>1, WeightType DEF IsHigherPriority, Queued
    <2> QED BY <2>1, <2>2, <2>3, WeightType DEF IsHigherPriority
  <1> QED BY <1>2, <1>4, <1>5, <1>6

(* Creating a job for a path that has no live one.                         *)
LEMMA JobCreated ==
  ASSUME IInv, NEW j \in Jobs, NEW o \in Owners, NEW f \in Paths, NEW p \in Priorities,
         job[j].status = "free", byPath[f] = NoJob \/ byPath[f] \notin Live,
         job' = [job EXCEPT ![j] =
                   [status |-> "queued", stage |-> "none", path |-> f, priority |-> p,
                    claims |-> [NoClaims EXCEPT ![o] = p], cancelRequested |-> FALSE]],
         byPath' = [byPath EXCEPT ![f] = j]
  PROVE  job' \in [Jobs -> Job] /\ OneJobPerPath' /\ OwnedOrDying' /\ QueuedClaimsHonoured'
  <1> DEFINE claims == [NoClaims EXCEPT ![o] = p]
             r == [status |-> "queued", stage |-> "none", path |-> f, priority |-> p,
                   claims |-> claims, cancelRequested |-> FALSE]
  <1>1. job \in [Jobs -> Job] /\ byPath \in [Paths -> Jobs \union {NoJob}]
    BY DEF IInv, TypeOK
  <1>2. /\ claims \in [Owners -> Priorities \union {NoClaim}]
        /\ claims[o] = p /\ p # NoClaim
        /\ \A x \in Owners \ {o} : claims[x] = NoClaim
    BY QueueAssumption DEF NoClaims, QueueAssumption
  <1>3. r \in Job
    BY <1>2 DEF Job
  <1>4. /\ job' \in [Jobs -> Job] /\ \A k \in Jobs \ {j} : job'[k] = job[k]
        /\ job'[j] = r
    BY <1>1, <1>3
  <1>5. /\ job'[j].status = "queued" /\ job'[j].path = f /\ job'[j].priority = p
        /\ job'[j].claims = claims
    BY <1>4
  <1> HIDE DEF claims, r
  <1>6. Live' = Live \union {j} /\ Queued' = Queued \union {j} /\ j \notin Live
    BY <1>4, <1>5 DEF Live, Queued, Active
  <1>7. OneJobPerPath'
    <2> SUFFICES ASSUME NEW k \in Live' PROVE byPath'[job'[k].path] = k
      BY DEF OneJobPerPath
    <2>1. CASE k = j
      BY <1>1, <1>5, <2>1
    <2>2. CASE k # j
      <3>1. k \in Live /\ k \in Jobs /\ job'[k] = job[k] /\ byPath[job[k].path] = k
        BY <1>4, <1>6, <2>2 DEF IInv, OneJobPerPath, Live, Queued, Active
      <3>2. job[k].path # f /\ job[k].path \in Paths
        BY <1>1, <3>1, QueueAssumption DEF Job, QueueAssumption
      <3> QED BY <1>1, <3>1, <3>2
    <2> QED BY <2>1, <2>2
  <1>8. OwnedOrDying'
    <2>1. o \in ClaimOwners(j)'
      BY <1>2, <1>5 DEF ClaimOwners
    <2>2. \A k \in Live : ClaimOwners(k)' = ClaimOwners(k) /\ Dying(k)' = Dying(k)
      BY <1>4, <1>6 DEF ClaimOwners, Dying, Live, Queued, Active
    <2> QED BY <1>6, <2>1, <2>2 DEF IInv, OwnedOrDying
  <1>9. QueuedClaimsHonoured'
    <2> SUFFICES ASSUME NEW k \in Queued', NEW x \in Owners, job'[k].claims[x] # NoClaim
                 PROVE  ~IsHigherPriority(job'[k].claims[x], job'[k].priority)
      BY DEF QueuedClaimsHonoured
    <2>1. CASE k = j
      BY <1>2, <1>5, <2>1, WeightType DEF IsHigherPriority
    <2>2. CASE k # j
      <3>1. k \in Queued /\ job'[k] = job[k]
        BY <1>4, <1>6, <2>2 DEF Queued
      <3> QED BY <3>1 DEF IInv, QueuedClaimsHonoured
    <2> QED BY <2>1, <2>2
  <1> QED BY <1>4, <1>7, <1>8, <1>9

(* Releasing the claims of owners O on the files F cancels exactly the     *)
(* jobs it leaves without an owner.                                        *)
LEMMA ReleaseInvariant ==
  ASSUME IInv, NEW O \in SUBSET Owners, NEW F \in SUBSET Paths, CancelWhere(O, F)
  PROVE  /\ job' \in [Jobs -> Job] /\ ahead' \in [Jobs -> SUBSET Jobs]
         /\ byPath' \in [Paths -> Jobs \union {NoJob}] /\ late' \subseteq Jobs
         /\ OneJobPerPath' /\ OwnedOrDying' /\ QueuedClaimsHonoured'
  <1> DEFINE hit(j)  == j \in Live /\ job[j].path \in F /\ ClaimOwners(j) \intersect O # {}
             kept(j) == [o \in Owners |-> IF o \in O THEN NoClaim ELSE job[j].claims[o]]
             orphan(j) == hit(j) /\ ClaimOwners(j) \subseteq O
             after(j) == IF orphan(j) THEN AfterCancel(j, [job[j] EXCEPT !.claims = NoClaims])
                         ELSE [job[j] EXCEPT !.claims = kept(j), !.priority = MostUrgent(kept(j))]
             Q == {j \in Jobs : job'[j].status = "queued"}
  <1>1. job \in [Jobs -> Job] /\ byPath \in [Paths -> Jobs \union {NoJob}]
    BY DEF IInv, TypeOK
  <1>2. job' = [j \in Jobs |-> IF hit(j) THEN after(j) ELSE job[j]]
    BY DEF CancelWhere
  <1>3. /\ byPath' = [f \in Paths |-> IF byPath[f] \in Queued /\ byPath[f] \notin Q
                                      THEN NoJob ELSE byPath[f]]
        /\ late' = late \intersect Q
        /\ \E pr, M : ahead' = InsertBehind(Q, pr, M)
    BY <1>2 DEF CancelWhere
  <1>4. \A j \in Jobs : ~hit(j) => job'[j] = job[j]
    BY <1>2
  <1>5. ASSUME NEW j \in Jobs, orphan(j)
        PROVE  /\ job'[j] \in Job
               /\ j \in Queued => job'[j].status = "free"
               /\ j \notin Queued => /\ job'[j].status = job[j].status
                                     /\ job'[j].path = job[j].path
                                     /\ job'[j].cancelRequested
    <2>1. job'[j] = AfterCancel(j, [job[j] EXCEPT !.claims = NoClaims])
      BY <1>2, <1>5
    <2>2. [job[j] EXCEPT !.claims = NoClaims] \in Job
      BY <1>1 DEF Job, NoClaims
    <2>3. [job[j] EXCEPT !.claims = NoClaims].status = job[j].status
      BY <1>1 DEF Job
    <2>4. CASE j \in Queued
      BY <2>1, <2>3, <2>4, FreeJobType DEF AfterCancel, Queued, FreeJob
    <2>5. CASE j \notin Queued
      BY <1>1, <2>1, <2>2, <2>3, <2>5 DEF AfterCancel, Queued, Job
    <2> QED BY <2>4, <2>5
  <1>6. ASSUME NEW j \in Jobs, hit(j), ~orphan(j)
        PROVE  /\ job'[j] \in Job
               /\ job'[j].status = job[j].status /\ job'[j].path = job[j].path
               /\ \E o \in Owners : job'[j].claims[o] # NoClaim
               /\ \A o \in Owners : job'[j].claims[o] # NoClaim
                                      => ~IsHigherPriority(job'[j].claims[o], job'[j].priority)
    <2>1. job'[j] = [job[j] EXCEPT !.claims = kept(j), !.priority = MostUrgent(kept(j))]
      BY <1>2, <1>6
    <2>2. kept(j) \in [Owners -> Priorities \union {NoClaim}]
      BY <1>1 DEF Job
    <2>3. \E o \in Owners : kept(j)[o] # NoClaim
      BY <1>6 DEF ClaimOwners
    <2>4. /\ MostUrgent(kept(j)) \in Priorities
          /\ \A o \in Owners : kept(j)[o] # NoClaim
                                 => ~IsHigherPriority(kept(j)[o], MostUrgent(kept(j)))
      BY <2>2, <2>3, MostUrgentClaim
    <2> HIDE DEF kept
    <2>5. job'[j].claims = kept(j) /\ job'[j].priority = MostUrgent(kept(j))
      BY <1>1, <2>1 DEF Job
    <2>6. job'[j] \in Job /\ job'[j].status = job[j].status /\ job'[j].path = job[j].path
      <3>1. job[j] \in Job
        BY <1>1
      <3> DEFINE best == MostUrgent(kept(j))
      <3>2. job'[j] = [job[j] EXCEPT !.claims = kept(j), !.priority = best]
        BY <2>1
      <3>3. best \in Priorities
        BY <2>4
      <3> HIDE DEF best
      <3> QED BY <2>2, <3>1, <3>2, <3>3 DEF Job
    <2> QED BY <2>3, <2>4, <2>5, <2>6
  <1> HIDE DEF after, kept
  <1>7. \A j \in Jobs : job'[j] \in Job
    BY <1>1, <1>4, <1>5, <1>6
  <1>8. job' \in [Jobs -> Job]
    BY <1>2, <1>7
  <1>9. Q = Queued' /\ Q \subseteq Queued /\ Live' \subseteq Live
    BY <1>4, <1>5, <1>6 DEF Queued, Active, Live
  <1>10. \A j \in Live' : job'[j].path = job[j].path
    BY <1>4, <1>5, <1>6, <1>9 DEF Queued, Active, Live
  <1>11. \A j \in Live' : j \in Queued => j \in Q
    BY <1>4, <1>5, <1>6 DEF Queued, Active, Live
  <1>12. OneJobPerPath'
    <2> SUFFICES ASSUME NEW j \in Live' PROVE byPath'[job'[j].path] = j
      BY DEF OneJobPerPath
    <2>1. j \in Live /\ job'[j].path = job[j].path /\ byPath[job[j].path] = j
      BY <1>9, <1>10 DEF IInv, OneJobPerPath
    <2>2. job[j].path \in Paths
      BY <1>1, <2>1 DEF Job, Live, Queued, Active
    <2> QED BY <1>3, <1>11, <2>1, <2>2
  <1>13. OwnedOrDying'
    <2> SUFFICES ASSUME NEW j \in Live' PROVE ClaimOwners(j)' # {} \/ Dying(j)'
      BY DEF OwnedOrDying
    <2>1. j \in Live /\ j \in Jobs
      BY <1>9 DEF Live, Queued, Active
    <2>2. CASE ~hit(j)
      BY <1>4, <2>1, <2>2 DEF IInv, OwnedOrDying, ClaimOwners, Dying
    <2>3. CASE orphan(j)
      BY <1>5, <2>1, <2>3 DEF Dying, Live, Queued, Active
    <2>4. CASE hit(j) /\ ~orphan(j)
      BY <1>6, <2>1, <2>4 DEF ClaimOwners
    <2> QED BY <2>2, <2>3, <2>4
  <1>14. QueuedClaimsHonoured'
    <2> SUFFICES ASSUME NEW j \in Queued', NEW x \in Owners, job'[j].claims[x] # NoClaim
                 PROVE  ~IsHigherPriority(job'[j].claims[x], job'[j].priority)
      BY DEF QueuedClaimsHonoured
    <2>1. j \in Queued /\ j \in Jobs /\ job'[j].status = "queued"
      BY <1>9 DEF Queued
    <2>2. CASE ~hit(j)
      BY <1>4, <2>1, <2>2 DEF IInv, QueuedClaimsHonoured
    <2>3. CASE orphan(j)
      BY <1>5, <2>1, <2>3
    <2>4. CASE hit(j) /\ ~orphan(j)
      BY <1>6, <2>1, <2>4
    <2> QED BY <2>2, <2>3, <2>4
  <1>15. ahead' \in [Jobs -> SUBSET Jobs]
    <2>1. PICK pr, M : ahead' = InsertBehind(Q, pr, M)
      BY <1>3
    <2>2. Q \in SUBSET Jobs /\ ahead \in [Jobs -> SUBSET Jobs]
      BY DEF IInv, TypeOK
    <2> HIDE DEF Q
    <2> QED BY <2>1, <2>2, OrdersTyped
  <1>16. byPath' \in [Paths -> Jobs \union {NoJob}] /\ late' \subseteq Jobs
    BY <1>1, <1>3
  <1> QED BY <1>8, <1>12, <1>13, <1>14, <1>15, <1>16

(* Every step of the queue preserves the invariant.                        *)
LEMMA NextInvariant == IInv /\ [Next]_vars => IInv'
  <1> SUFFICES ASSUME IInv, [Next]_vars PROVE IInv'
    OBVIOUS
  <1> USE DEF vars
  <1>0. /\ job \in [Jobs -> Job] /\ ahead \in [Jobs -> SUBSET Jobs]
        /\ byPath \in [Paths -> Jobs \union {NoJob}]
        /\ call \in [Owners -> Request \union {NoCall}]
        /\ \A j \in Jobs : WithoutJob(j) \in [Jobs -> SUBSET Jobs]
    BY OrdersTyped DEF IInv, TypeOK
  <1>1. CASE UNCHANGED vars
    <2>1. OwnedOrDying' /\ QueuedClaimsHonoured' /\ OneJobPerPath'
      BY <1>1 DEF IInv, OwnedOrDying, QueuedClaimsHonoured, OneJobPerPath, Live,
                  Queued, Active, ClaimOwners, Dying
    <2> QED BY <1>1, <2>1 DEF IInv, TypeOK
  <1>2. ASSUME DrainStep PROVE IInv'
    <2>1. CASE TakeNextRunnableJob = {} /\ draining' = FALSE /\ UNCHANGED <<job, ahead, late, lookaheads>>
      <3>1. OwnedOrDying' /\ QueuedClaimsHonoured' /\ OneJobPerPath'
        BY <1>2, <2>1 DEF DrainStep, IInv, OwnedOrDying, QueuedClaimsHonoured, OneJobPerPath,
                    Live, Queued, Active, ClaimOwners, Dying
      <3> QED BY <1>2, <2>1, <3>1 DEF DrainStep, IInv, TypeOK
    <2>2. CASE \E j \in TakeNextRunnableJob :
                  /\ job' = [job EXCEPT ![j].status = "generating", ![j].stage = "probe"]
                  /\ ahead' = WithoutJob(j)
                  /\ late' = late \ {j}
                  /\ lookaheads' = CountLookahead(job[j].priority)
                  /\ UNCHANGED draining
      <3>1. PICK j \in TakeNextRunnableJob :
                  /\ job' = [job EXCEPT ![j].status = "generating", ![j].stage = "probe"]
                  /\ ahead' = WithoutJob(j)
                  /\ late' = late \ {j}
                  /\ lookaheads' = CountLookahead(job[j].priority)
                  /\ UNCHANGED draining
        BY <2>2
      <3>2. j \in Queued /\ j \in Live /\ j \in Jobs
        BY DEF TakeNextRunnableJob, TakeNextQueuedJob, FirstIn, Foregrounds, Queued, Live
      <3> DEFINE r == [job[j] EXCEPT !.status = "generating", !.stage = "probe"]
      <3>3. /\ r \in Job /\ r.path = job[j].path /\ r.claims = job[j].claims
            /\ r.status = "generating" /\ r.priority = job[j].priority
            /\ r.cancelRequested = job[j].cancelRequested
        BY <1>0, <3>2 DEF Job
      <3>4. job' = [job EXCEPT ![j] = r] /\ byPath' = byPath
        BY <1>0, <1>2, <3>1, <3>2 DEF DrainStep, Job
      <3>5. ~IsHigherPriority(job[j].priority, r.priority)
        BY <3>3, WeightType DEF IsHigherPriority
      <3> HIDE DEF r
      <3>6. job' \in [Jobs -> Job] /\ OneJobPerPath' /\ OwnedOrDying' /\ QueuedClaimsHonoured'
        BY <3>2, <3>3, <3>4, <3>5, JobStays
      <3>7. lookaheads' \in 0..LookaheadBurst
        BY <3>1, QueueAssumption DEF CountLookahead, IInv, TypeOK, QueueAssumption
      <3> QED BY <1>0, <1>2, <3>1, <3>2, <3>6, <3>7 DEF DrainStep, IInv, TypeOK
    <2> QED BY <1>2, <2>1, <2>2 DEF DrainStep
  <1>3. ASSUME NEW j \in Jobs, NEW o \in Owners, NEW p \in Priorities, Claim(j, o, p)
        PROVE  IInv'
    <2>1. j \in Live /\ Join(j, o, p)
      BY <1>3 DEF Claim
    <2>2. /\ job' \in [Jobs -> Job] /\ ahead' \in [Jobs -> SUBSET Jobs] /\ tick' \in BOOLEAN
          /\ \A k \in Jobs : job'[k].status = job[k].status /\ job'[k].path = job[k].path
          /\ OwnedOrDying' /\ QueuedClaimsHonoured'
      BY <2>1, JoinInvariant
    <2>3. OneJobPerPath'
      BY <1>3, <2>2, SameIndex DEF Claim, IInv
    <2> QED BY <1>3, <2>2, <2>3 DEF Claim, IInv, TypeOK
  <1>4. ASSUME NEW o \in Owners, NEW f \in Paths, NEW p \in Priorities, EnqueueStart(o, f, p)
        PROVE  IInv'
    <2>1. CASE byPath[f] # NoJob /\ byPath[f] \in Live /\ Join(byPath[f], o, p) /\ UNCHANGED <<byPath, call>>
      <3>1. /\ job' \in [Jobs -> Job] /\ ahead' \in [Jobs -> SUBSET Jobs] /\ tick' \in BOOLEAN
            /\ \A k \in Jobs : job'[k].status = job[k].status /\ job'[k].path = job[k].path
            /\ OwnedOrDying' /\ QueuedClaimsHonoured'
        BY <2>1, JoinInvariant
      <3>2. OneJobPerPath'
        BY <2>1, <3>1, SameIndex DEF IInv
      <3> QED BY <1>4, <2>1, <3>1, <3>2 DEF EnqueueStart, IInv, TypeOK
    <2>2. CASE /\ byPath[f] = NoJob \/ byPath[f] \notin Live
               /\ byPath' = [byPath EXCEPT ![f] = NoJob]
               /\ call' = [call EXCEPT ![o] = [path |-> f, priority |-> p]]
               /\ UNCHANGED <<job, ahead, tick>>
      <3>1. call' \in [Owners -> Request \union {NoCall}]
        BY <1>0, <2>2 DEF Request
      <3>2. OneJobPerPath'
        BY <1>0, <2>2, QueueAssumption DEF IInv, OneJobPerPath, Live, Queued, Active, QueueAssumption
      <3>3. OwnedOrDying' /\ QueuedClaimsHonoured'
        BY <2>2 DEF IInv, OwnedOrDying, QueuedClaimsHonoured, Live,
                  Queued, Active, ClaimOwners, Dying
      <3> QED BY <1>0, <1>4, <2>2, <3>1, <3>2, <3>3 DEF EnqueueStart, IInv, TypeOK
    <2> QED BY <1>4, <2>1, <2>2 DEF EnqueueStart
  <1>5. ASSUME NEW o \in Owners, NEW r \in BOOLEAN, EnqueueFinish(o, r) PROVE IInv'
    <2> DEFINE f == call[o].path
               p == call[o].priority
    <2>1. call[o] \in Request /\ f \in Paths /\ p \in Priorities
      BY <1>0, <1>5 DEF EnqueueFinish, Request
    <2>2. call' \in [Owners -> Request \union {NoCall}]
      BY <1>0, <1>5 DEF EnqueueFinish
    <2>3. CASE byPath[f] # NoJob /\ byPath[f] \in Live /\ Join(byPath[f], o, p) /\ UNCHANGED <<byPath, late>>
      <3>1. /\ job' \in [Jobs -> Job] /\ ahead' \in [Jobs -> SUBSET Jobs] /\ tick' \in BOOLEAN
            /\ \A k \in Jobs : job'[k].status = job[k].status /\ job'[k].path = job[k].path
            /\ OwnedOrDying' /\ QueuedClaimsHonoured'
        BY <2>1, <2>3, JoinInvariant
      <3>2. OneJobPerPath'
        BY <2>3, <3>1, SameIndex DEF IInv
      <3> QED BY <1>5, <2>2, <2>3, <3>1, <3>2 DEF EnqueueFinish, IInv, TypeOK
    <2>4. CASE /\ byPath[f] = NoJob \/ byPath[f] \notin Live
               /\ byPath' = [byPath EXCEPT ![f] = NoJob]
               /\ UNCHANGED <<job, ahead, tick, late>>
      <3>1. OneJobPerPath'
        BY <1>0, <2>1, <2>4, QueueAssumption DEF IInv, OneJobPerPath, Live, Queued, Active, QueueAssumption
      <3>2. OwnedOrDying' /\ QueuedClaimsHonoured'
        BY <2>4 DEF IInv, OwnedOrDying, QueuedClaimsHonoured, Live,
                  Queued, Active, ClaimOwners, Dying
      <3> QED BY <1>0, <1>5, <2>1, <2>2, <2>4, <3>1, <3>2 DEF EnqueueFinish, IInv, TypeOK
    <2>5. CASE /\ byPath[f] = NoJob \/ byPath[f] \notin Live
               /\ \E j \in Jobs :
                    /\ job[j].status = "free"
                    /\ job' = [job EXCEPT ![j] =
                         [status |-> "queued", stage |-> "none", path |-> f, priority |-> p,
                          claims |-> [NoClaims EXCEPT ![o] = p], cancelRequested |-> FALSE]]
                    /\ ahead' = InsertBehind(Queued \union {j},
                                  [k \in Jobs |-> IF k = j THEN p ELSE job[k].priority], {j})
                    /\ byPath' = [byPath EXCEPT ![f] = j]
                    /\ late' = late \ {j}
               /\ tick' = TRUE
      <3>1. PICK j \in Jobs :
                    /\ job[j].status = "free"
                    /\ job' = [job EXCEPT ![j] =
                         [status |-> "queued", stage |-> "none", path |-> f, priority |-> p,
                          claims |-> [NoClaims EXCEPT ![o] = p], cancelRequested |-> FALSE]]
                    /\ ahead' = InsertBehind(Queued \union {j},
                                  [k \in Jobs |-> IF k = j THEN p ELSE job[k].priority], {j})
                    /\ byPath' = [byPath EXCEPT ![f] = j]
                    /\ late' = late \ {j}
        BY <2>5
      <3>2. job' \in [Jobs -> Job] /\ OneJobPerPath' /\ OwnedOrDying' /\ QueuedClaimsHonoured'
        BY <2>1, <2>5, <3>1, JobCreated
      <3>3. ahead' \in [Jobs -> SUBSET Jobs]
        <4>1. Queued \union {j} \in SUBSET Jobs
          BY DEF Queued
        <4> QED BY <1>0, <3>1, <4>1, OrdersTyped
      <3>4. byPath' \in [Paths -> Jobs \union {NoJob}] /\ late' \subseteq Jobs
        BY <1>0, <2>1, <3>1 DEF IInv, TypeOK
      <3> QED BY <1>5, <2>2, <2>5, <3>2, <3>3, <3>4 DEF EnqueueFinish, IInv, TypeOK
    <2> HIDE DEF f, p
    <2> QED BY <1>5, <2>3, <2>4, <2>5 DEF EnqueueFinish, f, p
  <1>6. ASSUME NEW o \in Owners, EnqueueAbort(o) PROVE IInv'
    <2>1. call' \in [Owners -> Request \union {NoCall}]
      BY <1>0, <1>6 DEF EnqueueAbort
    <2>2. OneJobPerPath' /\ OwnedOrDying' /\ QueuedClaimsHonoured'
      BY <1>6 DEF EnqueueAbort, IInv, OneJobPerPath, OwnedOrDying, QueuedClaimsHonoured,
                  Live, Queued, Active, ClaimOwners, Dying
    <2> QED BY <1>6, <2>1, <2>2 DEF EnqueueAbort, IInv, TypeOK
  <1>7. ASSUME NEW j \in Jobs, NEW p \in Priorities, Prioritize(j, p) PROVE IInv'
    <2> DEFINE r == [job[j] EXCEPT !.priority = p]
    <2>1. j \in Live /\ ~IsHigherPriority(job[j].priority, p)
      BY <1>7, WeightType DEF Prioritize, Live, IsHigherPriority
    <2>2. /\ r \in Job /\ r.path = job[j].path /\ r.claims = job[j].claims
          /\ r.status = job[j].status /\ r.priority = p
          /\ r.cancelRequested = job[j].cancelRequested
      BY <1>0 DEF Job
    <2>3. job' = [job EXCEPT ![j] = r] /\ byPath' = byPath
      BY <1>0, <1>7 DEF Prioritize, Job
    <2> HIDE DEF r
    <2>4. job' \in [Jobs -> Job] /\ OneJobPerPath' /\ OwnedOrDying' /\ QueuedClaimsHonoured'
      <3>1. r.status \in {"queued", "generating"} /\ (r.status = "queued" => j \in Queued)
        BY <2>1, <2>2 DEF Live, Queued, Active
      <3> QED BY <2>1, <2>2, <2>3, <3>1, JobStays
    <2>5. ahead' \in [Jobs -> SUBSET Jobs] /\ tick' \in BOOLEAN
      <3>1. InsertInFront(j, p) \in [Jobs -> SUBSET Jobs]
        BY <1>0, OrdersTyped
      <3> QED BY <1>0, <1>7, <3>1 DEF Prioritize, IInv, TypeOK
    <2> QED BY <1>7, <2>4, <2>5 DEF Prioritize, IInv, TypeOK
  <1>8. ASSUME NEW j \in Jobs, Cancel(j) PROVE IInv'
    <2> DEFINE r == AfterCancel(j, job[j])
    <2>1. j \in Live /\ job' = [job EXCEPT ![j] = r]
      BY <1>8 DEF Cancel
    <2>2. job' \in [Jobs -> Job] /\ OneJobPerPath' /\ OwnedOrDying' /\ QueuedClaimsHonoured'
      <3>1. CASE j \in Queued
        <4>1. r = FreeJob
          BY <3>1 DEF AfterCancel, Queued
        <4>2. r \in Job /\ r.status \notin {"queued", "generating"}
          BY <4>1, FreeJobType DEF FreeJob
        <4>3. \A f \in Paths : byPath[f] = j \/ byPath'[f] = byPath[f]
          BY <1>8 DEF Cancel
        <4> HIDE DEF r
        <4> QED BY <2>1, <4>2, <4>3, JobLeaves
      <3>2. CASE j \notin Queued
        <4>1. r = [job[j] EXCEPT !.cancelRequested = TRUE]
          BY <3>2 DEF AfterCancel, Queued
        <4>2. /\ r \in Job /\ r.path = job[j].path /\ r.claims = job[j].claims
              /\ r.status = "generating" /\ r.priority = job[j].priority
              /\ r.cancelRequested
          BY <1>0, <2>1, <3>2, <4>1 DEF Job, Live, Active
        <4>3. byPath' = byPath
          BY <1>0, <1>8, <3>2 DEF Cancel
        <4>4. ~IsHigherPriority(job[j].priority, r.priority)
          BY <4>2, WeightType DEF IsHigherPriority
        <4> HIDE DEF r
        <4> QED BY <2>1, <4>2, <4>3, <4>4, JobStays
      <3> QED BY <3>1, <3>2
    <2> QED BY <1>0, <1>8, <2>2 DEF Cancel, IInv, TypeOK
  <1>9. ASSUME NEW O \in SUBSET Owners, NEW F \in SUBSET Paths, CancelWhere(O, F) PROVE IInv'
    <2>1. /\ job' \in [Jobs -> Job] /\ ahead' \in [Jobs -> SUBSET Jobs]
          /\ byPath' \in [Paths -> Jobs \union {NoJob}] /\ late' \subseteq Jobs
          /\ OneJobPerPath' /\ OwnedOrDying' /\ QueuedClaimsHonoured'
      BY <1>9, ReleaseInvariant
    <2>2. UNCHANGED <<call, lookaheads, tick, draining, suspended, foreground, bookOrder>>
      BY <1>9 DEF CancelWhere
    <2> QED BY <2>1, <2>2 DEF IInv, TypeOK
  <1>10. ASSUME UNCHANGED <<job, byPath>> PROVE OneJobPerPath' /\ OwnedOrDying' /\ QueuedClaimsHonoured'
    BY <1>10 DEF IInv, OwnedOrDying, QueuedClaimsHonoured, OneJobPerPath, Live,
                 Queued, Active, ClaimOwners, Dying
  <1>11. ASSUME NEW b \in Books, PrioritizeBook(b) PROVE IInv'
    <2>1. ahead' \in [Jobs -> SUBSET Jobs]
      BY <1>11 DEF PrioritizeBook, Queued
    <2>2. foreground' \in Books \union {NoBook} /\ tick' \in BOOLEAN
      BY <1>11 DEF PrioritizeBook, IInv, TypeOK
    <2> QED BY <1>10, <1>11, <2>1, <2>2 DEF PrioritizeBook, IInv, TypeOK
  <1>12. ASSUME NEW s \in Seq(Books), SetBookOrder(s) PROVE IInv'
    BY <1>10, <1>12 DEF SetBookOrder, IInv, TypeOK
  <1>13. ASSUME NEW m \in DOMAIN bookOrder, NEW n \in DOMAIN bookOrder, MoveBook(m, n) PROVE IInv'
    <2>1. [bookOrder EXCEPT ![m] = bookOrder[n], ![n] = bookOrder[m]] \in Seq(Books)
      BY DEF IInv, TypeOK
    <2> QED BY <1>12, <1>13, <2>1 DEF MoveBook
  <1>14. ASSUME StartDrain \/ Suspend \/ ForegroundExpires \/ \E j \in Jobs : GrowLate(j) PROVE IInv'
    <2>1. UNCHANGED <<job, byPath>>
      BY <1>14 DEF StartDrain, Suspend, ForegroundExpires, GrowLate
    <2>2. TypeOK'
      BY <1>14 DEF StartDrain, Suspend, ForegroundExpires, GrowLate, IInv, TypeOK
    <2> QED BY <1>10, <2>1, <2>2 DEF IInv
  <1>15. ASSUME NEW j \in Jobs, NEW to \in {"admission", "render"}, NEW from \in {"probe", "admission"},
                Advance(j, from, to)
         PROVE  IInv'
    <2> DEFINE r == [job[j] EXCEPT !.stage = to]
    <2>1. /\ r \in Job /\ r.path = job[j].path /\ r.claims = job[j].claims
          /\ r.status = job[j].status /\ r.priority = job[j].priority
          /\ r.cancelRequested = job[j].cancelRequested
      BY <1>0 DEF Job
    <2>2. job' = [job EXCEPT ![j] = r] /\ byPath' = byPath
      BY <1>0, <1>15 DEF Advance, Job
    <2> HIDE DEF r
    <2>3. ~IsHigherPriority(job[j].priority, r.priority)
      BY <2>1, WeightType DEF IsHigherPriority
    <2>4. job' \in [Jobs -> Job] /\ OneJobPerPath' /\ OwnedOrDying' /\ QueuedClaimsHonoured'
      <3>1. CASE j \in Live
        <4>1. r.status \in {"queued", "generating"} /\ (r.status = "queued" => j \in Queued)
          BY <2>1, <3>1 DEF Live, Queued, Active
        <4> QED BY <2>1, <2>2, <2>3, <3>1, <4>1, JobStays
      <3>2. CASE j \notin Live
        <4>1. r.status \notin {"queued", "generating"}
          BY <2>1, <3>2 DEF Live, Queued, Active
        <4> QED BY <2>1, <2>2, <4>1, JobLeaves
      <3> QED BY <3>1, <3>2
    <2> QED BY <1>15, <2>4 DEF Advance, IInv, TypeOK
  <1>16. ASSUME NEW j \in Jobs, Complete(j) \/ Fail(j) PROVE IInv'
    <2>1. Settle(j)
      BY <1>16 DEF Complete, Fail
    <2>2. FreeJob \in Job /\ FreeJob.status \notin {"queued", "generating"}
      BY FreeJobType DEF FreeJob
    <2>3. job' = [job EXCEPT ![j] = FreeJob] /\ \A f \in Paths : byPath[f] = j \/ byPath'[f] = byPath[f]
      BY <2>1 DEF Settle, DropPath
    <2>4. job' \in [Jobs -> Job] /\ OneJobPerPath' /\ OwnedOrDying' /\ QueuedClaimsHonoured'
      BY <2>2, <2>3, JobLeaves
    <2> QED BY <1>0, <2>1, <2>4 DEF Settle, DropPath, IInv, TypeOK
  <1>17. ASSUME NEW j \in Jobs, Aborted(j) PROVE IInv'
    <2> DEFINE r == [job[j] EXCEPT !.status = "cancelled", !.stage = "cleanup"]
    <2>1. r \in Job /\ r.status \notin {"queued", "generating"}
      BY <1>0 DEF Job
    <2>2. job' = [job EXCEPT ![j] = r] /\ \A f \in Paths : byPath[f] = j \/ byPath'[f] = byPath[f]
      <3>1. job' = [job EXCEPT ![j] = r]
        BY <1>0, <1>17 DEF Aborted, Job
      <3>2. byPath' = [f \in Paths |-> IF byPath[f] = j THEN NoJob ELSE byPath[f]]
        BY <1>17 DEF Aborted, DropPath
      <3> QED BY <3>1, <3>2
    <2> HIDE DEF r
    <2>3. job' \in [Jobs -> Job] /\ OneJobPerPath' /\ OwnedOrDying' /\ QueuedClaimsHonoured'
      BY <2>1, <2>2, JobLeaves
    <2> QED BY <1>0, <1>17, <2>3 DEF Aborted, DropPath, IInv, TypeOK
  <1>18. ASSUME NEW j \in Jobs, CleanupDone(j) PROVE IInv'
    <2>1. FreeJob \in Job /\ FreeJob.status \notin {"queued", "generating"}
      BY FreeJobType DEF FreeJob
    <2>2. job' = [job EXCEPT ![j] = FreeJob] /\ byPath' = byPath
      BY <1>18 DEF CleanupDone
    <2>3. job' \in [Jobs -> Job] /\ OneJobPerPath' /\ OwnedOrDying' /\ QueuedClaimsHonoured'
      BY <2>1, <2>2, JobLeaves
    <2> QED BY <1>18, <2>3 DEF CleanupDone, IInv, TypeOK
  <1>19. ASSUME Handler PROVE IInv'
    <2>1. \A o \in Owners : \A r \in AsksFor[o] : r \in Request /\ r.path \in Paths /\ r.priority \in Priorities
      BY QueueAssumption DEF QueueAssumption, Request
    <2>2. CASE \E o \in Owners : \E r \in AsksFor[o] :
                 EnqueueStart(o, r.path, r.priority) \/ \E j \in Jobs : Claim(j, o, r.priority)
      BY <1>3, <1>4, <2>1, <2>2
    <2>3. CASE \E o \in Owners : EnqueueAbort(o) \/ \E r \in BOOLEAN : EnqueueFinish(o, r)
      BY <1>5, <1>6, <2>3
    <2>4. CASE \E j \in Jobs, p \in Promotes : Prioritize(j, p)
      BY <1>7, <2>4, QueueAssumption DEF QueueAssumption
    <2>5. CASE \E j \in Jobs : Cancel(j)
      BY <1>8, <2>5
    <2>6. CASE \E o \in Owners : CancelWhere({o}, Paths) \/ \E f \in Paths : CancelWhere({o}, {f})
      <3>1. PICK o \in Owners : CancelWhere({o}, Paths) \/ \E f \in Paths : CancelWhere({o}, {f})
        BY <2>6
      <3>2. {o} \in SUBSET Owners /\ Paths \in SUBSET Paths /\ \A f \in Paths : {f} \in SUBSET Paths
        OBVIOUS
      <3> QED BY <1>9, <3>1, <3>2
    <2>7. CASE \E b \in Books : \/ CancelWhere(Owners, {f \in Paths : BookOf[f] = b})
                                \/ PrioritizeBook(b)
      <3>1. \A b : {f \in Paths : BookOf[f] = b} \in SUBSET Paths /\ Owners \in SUBSET Owners
        OBVIOUS
      <3> QED BY <1>9, <1>11, <2>7, <3>1
    <2>8. CASE \E s \in UNION {[1..n -> Books] : n \in 0..Cardinality(Books)} : SetBookOrder(s)
      <3>1. PICK n \in 0..Cardinality(Books) : \E s \in [1..n -> Books] : SetBookOrder(s)
        BY <2>8
      <3>2. [1..n -> Books] \subseteq Seq(Books)
        BY <3>1
      <3> QED BY <1>12, <3>1, <3>2
    <2>9. CASE \E m, n \in DOMAIN bookOrder : MoveBook(m, n)
      BY <1>13, <2>9
    <2>10. CASE StartDrain \/ Suspend \/ ForegroundExpires \/ \E j \in Jobs : GrowLate(j)
      BY <1>14, <2>10
    <2>11. CASE \E j \in Jobs : ProbeMiss(j) \/ Admit(j)
      BY <1>15, <2>11 DEF ProbeMiss, Admit
    <2>12. CASE \E j \in Jobs : Complete(j) \/ Fail(j) \/ Aborted(j) \/ CleanupDone(j)
      BY <1>16, <1>17, <1>18, <2>12
    <2> QED BY <1>19, <2>2, <2>3, <2>4, <2>5, <2>6, <2>7, <2>8, <2>9, <2>10, <2>11, <2>12 DEF Handler
  <1> QED BY <1>1, <1>2, <1>19 DEF Next

LEMMA Invariance == Spec => []IInv
  BY InitInvariant, NextInvariant, PTL DEF Spec

(* Every variable keeps its type, for all jobs, paths, owners and books.   *)
THEOREM QueueTypeOK == Spec => []TypeOK
  <1>1. IInv => TypeOK
    BY DEF IInv
  <1> QED BY <1>1, Invariance, PTL

(* Two callers never cause the same output path to be rendered twice at    *)
(* once, however their lookups interleave (enqueue).                       *)
THEOREM RenderedOnce == Spec => []OneJobPerPath
  <1>1. IInv => OneJobPerPath
    BY DEF IInv
  <1> QED BY <1>1, Invariance, PTL

(* No render runs on without an owner unless it is being cancelled         *)
(* (cancelWhere).                                                          *)
THEOREM NoOrphans == Spec => []OwnedOrDying
  <1>1. IInv => OwnedOrDying
    BY DEF IInv
  <1> QED BY <1>1, Invariance, PTL

(* After any joins, releases and promotions a queued job is at least as    *)
(* urgent as each of its claims (_refreshPriorityFromClaims, prioritize).  *)
THEOREM ClaimsKept == Spec => []QueuedClaimsHonoured
  <1>1. IInv => QueuedClaimsHonoured
    BY DEF IInv
  <1> QED BY <1>1, Invariance, PTL

(* Claims are neither forgotten nor kept alive by nobody (cancelWhere,     *)
(* _addActivityClaim).                                                     *)
THEOREM ClaimsAndRendersAgree == Spec => []ClaimsAccounted
  <1>1. QueuedClaimsHonoured /\ OwnedOrDying => ClaimsAccounted
    BY DEF ClaimsAccounted
  <1> QED BY <1>1, ClaimsKept, NoOrphans, PTL

-----------------------------------------------------------------------------
(* The order of the queue.                                                 *)

(* Only queued jobs stand in line, none of them has begun to be processed. *)
Line ==
  /\ \A j, k \in Jobs : k \in ahead[j] => j # k /\ j \in Queued /\ k \in Queued
  /\ \A j \in Queued : job[j].stage = "none"

(* QueueOrdered of any line, job by job.                                   *)
InOrder(Q, a, pr) ==
  /\ \A j, k \in Q : k \in a[j] => Weight(pr[k]) <= Weight(pr[j])
  /\ \A j, k \in Q : j # k => (k \in a[j] <=> j \notin a[k])
  /\ \A j, k, m \in Q : k \in a[j] /\ m \in a[k] => m \in a[j]

Priority == [j \in Jobs |-> job[j].priority]

Sorted == ahead \in [Jobs -> SUBSET Jobs] /\ Line /\ InOrder(Queued, ahead, Priority)

LEMMA SortedMeansOrdered == Sorted => QueueOrdered
<1> SUFFICES ASSUME Sorted, NEW j \in Queued, NEW k \in Queued
             PROVE  /\ k \in ahead[j] => ~IsHigherPriority(job[j].priority, job[k].priority)
                    /\ j # k => (k \in ahead[j] <=> j \notin ahead[k])
                    /\ k \in ahead[j] => ahead[k] \subseteq ahead[j]
  BY DEF QueueOrdered
<1>1. j \in Jobs /\ k \in Jobs /\ Queued \subseteq Jobs
  BY DEF Queued
<1>2. k \in ahead[j] => ~IsHigherPriority(job[j].priority, job[k].priority)
  <2>1. k \in ahead[j] => Weight(job[k].priority) <= Weight(job[j].priority)
    BY <1>1 DEF Sorted, InOrder, Priority
  <2> QED
    BY <2>1, WeightType DEF IsHigherPriority
<1>3. j # k => (k \in ahead[j] <=> j \notin ahead[k])
  BY DEF Sorted, InOrder
<1>4. ASSUME k \in ahead[j], NEW m \in ahead[k] PROVE m \in ahead[j]
  <2>1. m \in Queued
    BY <1>1 DEF Sorted, Line
  <2> QED
    BY <1>4, <2>1 DEF Sorted, InOrder
<1> QED
  BY <1>2, <1>3, <1>4

(* The queue survives whatever moves nobody in it.                         *)
LEMMA SameLine ==
  ASSUME Sorted, ahead' = ahead, \A k \in Jobs : k \in Queued' <=> k \in Queued,
         \A k \in Queued : job'[k].priority = job[k].priority /\ job'[k].stage = job[k].stage
  PROVE  Sorted'
<1>1. Queued' \subseteq Jobs /\ Queued \subseteq Jobs
  BY DEF Queued
<1>2. \A k \in Queued : Priority'[k] = Priority[k]
  BY <1>1 DEF Priority
<1>3. Line'
  BY <1>1 DEF Sorted, Line
<1>4. InOrder(Queued, ahead, Priority)'
  BY <1>1, <1>2 DEF Sorted, InOrder
<1> QED
  BY <1>3, <1>4 DEF Sorted

(* The others close ranks when a job leaves the queue.                     *)
LEMMA LeavesLine ==
  ASSUME Sorted, NEW i \in Jobs, ahead' = WithoutJob(i),
         \A k \in Jobs : k \in Queued' <=> k \in Queued /\ k # i,
         \A k \in Queued : k # i => /\ job'[k].priority = job[k].priority
                                    /\ job'[k].stage = job[k].stage
  PROVE  Sorted'
<1>1. Queued' \subseteq Jobs /\ Queued \subseteq Jobs
  BY DEF Queued
<1>2. \A j, k \in Jobs : k \in ahead'[j] <=> j # i /\ k # i /\ k \in ahead[j]
  <2> SUFFICES ASSUME NEW j \in Jobs, NEW k \in Jobs
               PROVE  k \in ahead'[j] <=> j # i /\ k # i /\ k \in ahead[j]
    OBVIOUS
  <2>1. ahead'[j] = IF j = i THEN {} ELSE ahead[j] \ {i}
    BY DEF WithoutJob
  <2> QED
    BY <2>1
<1>3. \A k \in Queued : k # i => Priority'[k] = Priority[k]
  BY <1>1 DEF Priority
<1>4. Line'
  BY <1>1, <1>2 DEF Sorted, Line
<1>5. InOrder(Queued, ahead, Priority)'
  BY <1>1, <1>2, <1>3 DEF Sorted, InOrder
<1>6. ahead' \in [Jobs -> SUBSET Jobs]
  BY OrdersTyped DEF Sorted
<1> QED
  BY <1>4, <1>5, <1>6 DEF Sorted

(* A promoted job has the more urgent ones before it, and all others       *)
(* behind it.                                                              *)
LEMMA GoesInFront ==
  ASSUME Sorted, NEW i \in Queued, NEW p, ahead' = InsertInFront(i, p),
         \A k \in Jobs : k \in Queued' <=> k \in Queued,
         job'[i].priority = p, \A k \in Queued : job'[k].stage = job[k].stage,
         \A k \in Queued : k # i => job'[k].priority = job[k].priority
  PROVE  Sorted'
<1> DEFINE w(k) == Weight(job[k].priority)
           v    == Weight(p)
<1>1. \A k : w(k) \in Nat /\ v \in Nat
  BY WeightType
<1>2. Queued' \subseteq Jobs /\ Queued \subseteq Jobs /\ i \in Jobs
  BY DEF Queued
<1>3. \A j, k \in Jobs : k \in ahead'[j] <=>
         IF j = i THEN k \in Queued /\ k # i /\ w(k) < v
         ELSE IF k = i THEN j \in Queued /\ ~(w(j) < v) ELSE k \in ahead[j]
  <2> SUFFICES ASSUME NEW j \in Jobs, NEW k \in Jobs
               PROVE  k \in ahead'[j] <=>
                        IF j = i THEN k \in Queued /\ k # i /\ w(k) < v
                        ELSE IF k = i THEN j \in Queued /\ ~(w(j) < v) ELSE k \in ahead[j]
    OBVIOUS
  <2>1. CASE j = i
    <3>1. ahead'[j] = {x \in Queued \ {i} : w(x) < v}
      BY <2>1 DEF InsertInFront, IsHigherPriority
    <3> QED
      BY <2>1, <3>1
  <2>2. CASE j # i /\ j \in Queued /\ ~(w(j) < v)
    <3>1. ahead'[j] = ahead[j] \union {i}
      BY <2>2 DEF InsertInFront, IsHigherPriority
    <3> QED
      BY <2>2, <3>1
  <2>3. CASE j # i /\ ~(j \in Queued /\ ~(w(j) < v))
    <3>1. ahead'[j] = ahead[j] \ {i}
      BY <2>3 DEF InsertInFront, IsHigherPriority
    <3> QED
      BY <2>3, <3>1
  <2> QED
    BY <2>1, <2>2, <2>3
<1>4. \A k \in Queued : Weight(Priority'[k]) = IF k = i THEN v ELSE w(k)
  BY <1>2 DEF Priority
<1>5. Line'
  BY <1>2, <1>3 DEF Sorted, Line
<1>6. /\ \A j, k \in Queued : k \in ahead[j] => w(k) <= w(j)
      /\ \A j, k \in Queued : j # k => (k \in ahead[j] <=> j \notin ahead[k])
      /\ \A j, k, m \in Queued : k \in ahead[j] /\ m \in ahead[k] => m \in ahead[j]
      /\ \A j \in Jobs : j \notin ahead[j]
  BY <1>2 DEF Sorted, Line, InOrder, Priority
<1> HIDE DEF w, v
<1>7. \A j, k \in Queued : k \in ahead'[j] => Weight(Priority'[k]) <= Weight(Priority'[j])
  BY <1>1, <1>2, <1>3, <1>4, <1>6
<1>8. \A j, k \in Queued : j # k => (k \in ahead'[j] <=> j \notin ahead'[k])
  BY <1>1, <1>2, <1>3, <1>6
<1>9. \A j, k, m \in Queued : k \in ahead'[j] /\ m \in ahead'[k] => m \in ahead'[j]
  BY <1>1, <1>2, <1>3, <1>6
<1>10. InOrder(Queued, ahead, Priority)'
  BY <1>2, <1>7, <1>8, <1>9 DEF InOrder
<1>11. ahead' \in [Jobs -> SUBSET Jobs]
  BY <1>2, OrdersTyped DEF Sorted
<1> QED
  BY <1>5, <1>10, <1>11 DEF Sorted

(* A line regrouped within its bands stays a sorted line: by weight, then  *)
(* the group in front, then the old order within each group.               *)
LEMMA Regrouped ==
  ASSUME Sorted, NEW F,
         ahead' \in [Jobs -> SUBSET Jobs],
         \A k \in Queued' : job'[k].stage = "none" /\ job'[k].priority \in Priorities,
         \A j, k \in Jobs : k \in ahead'[j] <=>
           /\ j \in Queued' /\ k \in Queued' /\ j # k
           /\ \/ Weight(Priority'[k]) < Weight(Priority'[j])
              \/ /\ Priority'[k] = Priority'[j]
                 /\ \/ k \in F /\ j \notin F
                    \/ (k \in F <=> j \in F) /\ k \in ahead[j],
         \A j, k \in Queued' : j # k /\ (j \in F <=> k \in F) => j \in Queued /\ k \in Queued
  PROVE  Sorted'
<1> DEFINE w(k) == Weight(Priority'[k])
<1>1. \A k : w(k) \in Nat
  BY WeightType
<1>2. Queued' \subseteq Jobs /\ Queued \subseteq Jobs
  BY DEF Queued
<1>3. \A j, k \in Queued' : Priority'[j] = Priority'[k] <=> w(j) = w(k)
  <2>1. \A p, q \in Priorities : Weight(p) = Weight(q) => p = q
    BY DEF Weight, Priorities, Strict
  <2>2. \A k \in Queued' : Priority'[k] \in Priorities
    BY <1>2 DEF Priority
  <2> QED
    BY <2>1, <2>2
<1>4. /\ \A j, k \in Queued : j # k => (k \in ahead[j] <=> j \notin ahead[k])
      /\ \A j, k, m \in Queued : k \in ahead[j] /\ m \in ahead[k] => m \in ahead[j]
      /\ \A j, k \in Jobs : k \in ahead[j] => j # k /\ j \in Queued /\ k \in Queued
  BY <1>2 DEF Sorted, Line, InOrder
<1>5. \A j, k \in Queued' : k \in ahead'[j] <=>
           /\ j # k
           /\ \/ w(k) < w(j)
              \/ /\ w(k) = w(j)
                 /\ \/ k \in F /\ j \notin F
                    \/ (k \in F <=> j \in F) /\ k \in ahead[j]
  BY <1>2, <1>3
<1>6. Line'
  BY <1>2 DEF Line
<1> HIDE DEF w
<1>7. \A j, k \in Queued' : k \in ahead'[j] => w(k) <= w(j)
  BY <1>1, <1>5
<1>8. \A j, k \in Queued' : j # k => (k \in ahead'[j] <=> j \notin ahead'[k])
  BY <1>1, <1>4, <1>5
<1>9. \A j, k, m \in Queued' : k \in ahead'[j] /\ m \in ahead'[k] => m \in ahead'[j]
  BY <1>1, <1>2, <1>4, <1>5
<1>10. InOrder(Queued, ahead, Priority)'
  BY <1>7, <1>8, <1>9 DEF InOrder, w
<1> QED
  BY <1>6, <1>10 DEF Sorted

-----------------------------------------------------------------------------
(* What a handler does to the jobs: none enters the queue or the active    *)
(* set, none changes its path or comes back from the dying.                *)
Shrinks ==
  \A j \in Jobs : /\ j \in Queued' => j \in Queued
                  /\ j \in Active' => j \in Active
                  /\ j \in Live' => /\ job'[j].path = job[j].path
                                    /\ Dying(j) => Dying(j)'

(* A drain is due, under way, barred, or will follow a cleanup.            *)
Busy == draining \/ tick \/ suspended \/ \E j \in Jobs : job[j].stage = "cleanup"

(* A handler that asks for no drain leaves no new room and no new work.    *)
Calm ==
  ~Busy' => /\ ~Busy
            /\ \A j \in Jobs : (j \in Queued' => j \in Queued) /\ (j \in Active' <=> j \in Active)

LEMMA SameJobs ==
  ASSUME Sorted, UNCHANGED <<job, ahead>>
  PROVE  Sorted' /\ Shrinks /\ Queued' = Queued /\ Active' = Active
<1>1. Queued' = Queued /\ Active' = Active /\ Live' = Live
  BY DEF Queued, Active, Live
<1>2. Shrinks
  BY <1>1 DEF Shrinks, Dying
<1>3. Sorted'
  BY <1>1, SameLine
<1> QED
  BY <1>1, <1>2, <1>3

LEMMA JoinEffect ==
  ASSUME IInv, Sorted, NEW j \in Live, NEW o \in Owners, NEW p \in Priorities, Join(j, o, p)
  PROVE  /\ Sorted' /\ Shrinks
         /\ \A k \in Jobs : job'[k].status = job[k].status /\ job'[k].stage = job[k].stage
         /\ tick => tick'
<1> DEFINE old    == job[j].claims[o]
           claims == [job[j].claims EXCEPT ![o] =
                        IF old = NoClaim \/ IsHigherPriority(p, old) THEN p ELSE old]
           higher == IsHigherPriority(p, job[j].priority)
           movable == higher /\ (j \in Queued \/ job[j].stage = "admission")
           now == IF movable THEN p ELSE job[j].priority
<1>1. j \in Jobs /\ job[j] \in Job /\ job \in [Jobs -> Job] /\ Queued \subseteq Jobs
  BY DEF Live, Queued, Active, IInv, TypeOK
<1>2. job' = [job EXCEPT ![j].claims = claims, ![j].priority = now]
  BY DEF Join
<1>3. /\ job'[j].priority = now
      /\ \A k \in Jobs : /\ job'[k].status = job[k].status /\ job'[k].stage = job[k].stage
                         /\ job'[k].path = job[k].path
                         /\ job'[k].cancelRequested = job[k].cancelRequested
                         /\ k # j => job'[k] = job[k]
  <2> HIDE DEF claims, now
  <2> QED
    BY <1>1, <1>2 DEF Job
<1>4. \A k \in Jobs : (k \in Queued' <=> k \in Queued) /\ (k \in Active' <=> k \in Active)
  BY <1>3 DEF Queued, Active
<1>5. Shrinks
  BY <1>3, <1>4 DEF Shrinks, Dying
<1>6. CASE higher /\ j \in Queued
  <2>1. now = p /\ ahead' = InsertInFront(j, p)
    BY <1>6 DEF Join
  <2>2. Sorted'
    BY <1>1, <1>3, <1>4, <1>6, <2>1, GoesInFront
  <2> QED
    BY <1>3, <1>5, <2>2 DEF Join
<1>7. CASE ~(higher /\ j \in Queued)
  <2>1. ahead' = ahead
    BY <1>7 DEF Join
  <2>2. \A k \in Queued : job'[k].priority = job[k].priority
    BY <1>1, <1>3, <1>7
  <2>3. Sorted'
    BY <1>1, <1>3, <1>4, <2>1, <2>2, SameLine
  <2> QED
    BY <1>3, <1>5, <2>3 DEF Join
<1> QED
  BY <1>6, <1>7

(* A render is queued for a path with no live job, while the window of its *)
(* chapter has room, or its audio exists (enqueue).                        *)
Creates ==
  \E j \in Jobs, o \in Owners, f \in Paths, p \in Priorities, ready \in BOOLEAN :
    /\ ready => f \in Rendered
    /\ ready \/ Cardinality(LiveForChapter(f)) < Window
    /\ job[j].status = "free"
    /\ job' = [job EXCEPT ![j] =
                 [status |-> "queued", stage |-> "none", path |-> f, priority |-> p,
                  claims |-> [NoClaims EXCEPT ![o] = p], cancelRequested |-> FALSE]]
    /\ ahead' = InsertBehind(Queued \union {j},
                  [k \in Jobs |-> IF k = j THEN p ELSE job[k].priority], {j})
    /\ tick'

Effect == Sorted' /\ ((Shrinks /\ Calm) \/ Creates)

(* Calm follows when the jobs keep status and stage and no bit is cleared. *)
LEMMA StaysCalm ==
  ASSUME \A k \in Jobs : job'[k].status = job[k].status /\ job'[k].stage = job[k].stage,
         tick => tick', draining => draining', suspended => suspended'
  PROVE  Calm
<1>1. \A k \in Jobs : (k \in Queued' <=> k \in Queued) /\ (k \in Active' <=> k \in Active)
  BY DEF Queued, Active
<1> QED
  BY <1>1 DEF Calm, Busy

(* Creation of a job behind its band.                                      *)
LEMMA CreateSorted ==
  ASSUME IInv, Sorted, Creates
  PROVE  Sorted'
<1>1. PICK j \in Jobs, o \in Owners, f \in Paths, p \in Priorities :
        /\ job[j].status = "free"
        /\ job' = [job EXCEPT ![j] =
                     [status |-> "queued", stage |-> "none", path |-> f, priority |-> p,
                      claims |-> [NoClaims EXCEPT ![o] = p], cancelRequested |-> FALSE]]
        /\ ahead' = InsertBehind(Queued \union {j},
                      [k \in Jobs |-> IF k = j THEN p ELSE job[k].priority], {j})
  BY DEF Creates
<1> DEFINE claims == [NoClaims EXCEPT ![o] = p]
           r == [status |-> "queued", stage |-> "none", path |-> f, priority |-> p,
                 claims |-> claims, cancelRequested |-> FALSE]
           pr == [k \in Jobs |-> IF k = j THEN p ELSE job[k].priority]
           F == Jobs \ {j}
<1>2. job \in [Jobs -> Job] /\ Queued \subseteq Jobs /\ j \notin Queued
  BY <1>1 DEF IInv, TypeOK, Queued
<1>3. job'[j] = r /\ \A k \in Jobs \ {j} : job'[k] = job[k]
  BY <1>1, <1>2
<1>4. r.status = "queued" /\ r.stage = "none" /\ r.priority = p
  OBVIOUS
<1> HIDE DEF claims, r
<1>5. \A k \in Jobs : k \in Queued' <=> k \in Queued \/ k = j
  BY <1>1, <1>3, <1>4 DEF Queued
<1>6. \A k \in Jobs : Priority'[k] = pr[k]
  BY <1>3, <1>4 DEF Priority
<1>7. \A k \in Queued' : job'[k].stage = "none" /\ job'[k].priority \in Priorities
  BY <1>1, <1>2, <1>3, <1>4, <1>5 DEF Sorted, Line, Job, Queued
<1>8. ahead' \in [Jobs -> SUBSET Jobs]
  BY <1>1, <1>2, OrdersTyped DEF Sorted
<1>9. \A i, k \in Jobs : k \in ahead'[i] <=>
           /\ i \in Queued' /\ k \in Queued' /\ i # k
           /\ \/ Weight(Priority'[k]) < Weight(Priority'[i])
              \/ /\ Priority'[k] = Priority'[i]
                 /\ \/ k \in F /\ i \notin F
                    \/ (k \in F <=> i \in F) /\ k \in ahead[i]
  <2> SUFFICES ASSUME NEW i \in Jobs, NEW k \in Jobs
               PROVE  k \in ahead'[i] <=>
                       /\ i \in Queued' /\ k \in Queued' /\ i # k
                       /\ \/ Weight(Priority'[k]) < Weight(Priority'[i])
                          \/ /\ Priority'[k] = Priority'[i]
                             /\ \/ k \in F /\ i \notin F
                                \/ (k \in F <=> i \in F) /\ k \in ahead[i]
    OBVIOUS
  <2>1. ahead'[i] = {x \in Queued \union {j} :
                       /\ i \in Queued \union {j} /\ x # i
                       /\ \/ Weight(pr[x]) < Weight(pr[i])
                          \/ /\ pr[x] = pr[i]
                             /\ \/ x \notin {j} /\ i \in {j}
                                \/ (x \in {j} <=> i \in {j}) /\ x \in ahead[i]}
    BY <1>1 DEF InsertBehind, IsHigherPriority
  <2>2. /\ k \in Queued \union {j} <=> k \in Queued'
        /\ i \in Queued \union {j} <=> i \in Queued'
        /\ k \in {j} <=> k \notin F
        /\ i \in {j} <=> i \notin F
    BY <1>5
  <2>3. pr[k] = Priority'[k] /\ pr[i] = Priority'[i]
    BY <1>6
  <2> HIDE DEF pr, F
  <2> QED
    BY <2>1, <2>2, <2>3
<1>10. \A i, k \in Queued' : i # k /\ (i \in F <=> k \in F) => i \in Queued /\ k \in Queued
  <2>1. Queued' \subseteq Jobs
    BY DEF Queued
  <2> QED
    BY <1>5, <2>1
<1> HIDE DEF F
<1> QED
  BY <1>7, <1>8, <1>9, <1>10, Regrouped

(* Releasing claims re-sorts exactly the jobs whose urgency it lowers.     *)
LEMMA ReleaseEffect ==
  ASSUME IInv, Sorted, NEW O \in SUBSET Owners, NEW F \in SUBSET Paths, CancelWhere(O, F)
  PROVE  Sorted' /\ Shrinks /\ Calm
<1> DEFINE hit(j)  == j \in Live /\ job[j].path \in F /\ ClaimOwners(j) \intersect O # {}
           kept(j) == [o \in Owners |-> IF o \in O THEN NoClaim ELSE job[j].claims[o]]
           orphan(j) == hit(j) /\ ClaimOwners(j) \subseteq O
           after(j) == IF orphan(j) THEN AfterCancel(j, [job[j] EXCEPT !.claims = NoClaims])
                       ELSE [job[j] EXCEPT !.claims = kept(j), !.priority = MostUrgent(kept(j))]
           Q == {j \in Jobs : job'[j].status = "queued"}
           pr == [j \in Jobs |-> job'[j].priority]
           M == {j \in Q : pr[j] # job[j].priority}
           G == Jobs \ M
<1>1. job \in [Jobs -> Job] /\ job' \in [Jobs -> Job] /\ ahead' \in [Jobs -> SUBSET Jobs]
  BY ReleaseInvariant DEF IInv, TypeOK
<1>2. job' = [j \in Jobs |-> IF hit(j) THEN after(j) ELSE job[j]]
  BY DEF CancelWhere
<1>3. ahead' = InsertBehind(Q, pr, M)
  <2>1. \E next :
          /\ job' = next
          /\ ahead' = InsertBehind({j \in Jobs : next[j].status = "queued"},
                        [j \in Jobs |-> next[j].priority],
                        {j \in {x \in Jobs : next[x].status = "queued"} :
                           [x \in Jobs |-> next[x].priority][j] # job[j].priority})
    BY Zenon DEF CancelWhere
  <2> QED
    BY <2>1
<1>4. \A j \in Jobs : ~hit(j) => job'[j] = job[j]
  BY <1>2
<1>5. ASSUME NEW j \in Jobs, orphan(j), j \in Queued
      PROVE  job'[j].status = "free"
  <2>1. job'[j] = AfterCancel(j, [job[j] EXCEPT !.claims = NoClaims])
    BY <1>2, <1>5
  <2>2. [job[j] EXCEPT !.claims = NoClaims].status = "queued"
    BY <1>1, <1>5 DEF Job, Queued
  <2> QED
    BY <2>1, <2>2 DEF AfterCancel, FreeJob
<1>6. ASSUME NEW j \in Jobs, orphan(j), j \notin Queued
      PROVE  /\ job'[j].status = job[j].status /\ job'[j].stage = job[j].stage
             /\ job'[j].path = job[j].path /\ job'[j].cancelRequested
  <2>1. job'[j] = AfterCancel(j, [job[j] EXCEPT !.claims = NoClaims])
    BY <1>2, <1>6
  <2>2. [job[j] EXCEPT !.claims = NoClaims].status # "queued"
    BY <1>1, <1>6 DEF Job, Queued
  <2>3. job'[j] = [[job[j] EXCEPT !.claims = NoClaims] EXCEPT !.cancelRequested = TRUE]
    BY <2>1, <2>2 DEF AfterCancel
  <2> QED
    BY <1>1, <2>3 DEF Job
<1>7. ASSUME NEW j \in Jobs, hit(j), ~orphan(j)
      PROVE  /\ job'[j].status = job[j].status /\ job'[j].stage = job[j].stage
             /\ job'[j].path = job[j].path
             /\ job'[j].cancelRequested = job[j].cancelRequested
  <2>1. job'[j] = [job[j] EXCEPT !.claims = kept(j), !.priority = MostUrgent(kept(j))]
    BY <1>2, <1>7
  <2> HIDE DEF kept
  <2> QED
    BY <1>1, <2>1 DEF Job
<1> HIDE DEF hit, orphan, after, kept
<1>8. ASSUME NEW j \in Jobs
      PROVE  /\ j \in Queued' => j \in Queued
             /\ j \in Active' <=> j \in Active
             /\ j \in Live' => job'[j].path = job[j].path /\ (Dying(j) => Dying(j)')
             /\ j \notin Queued => job'[j].stage = job[j].stage
             /\ j \in Queued' => job'[j].stage = job[j].stage
  <2>1. CASE orphan(j) /\ j \in Queued
    <3>1. job'[j].status = "free" /\ job[j].status = "queued"
      BY <1>5, <2>1 DEF Queued
    <3> QED
      BY <2>1, <3>1 DEF Queued, Active, Live
  <2>2. CASE orphan(j) /\ j \notin Queued
    BY <1>6, <2>2 DEF Queued, Active, Live, Dying
  <2>3. CASE ~orphan(j)
    BY <1>4, <1>7, <2>3 DEF Queued, Active, Live, Dying
  <2> QED
    BY <2>1, <2>2, <2>3
<1>9. Shrinks
  BY <1>8 DEF Shrinks
<1>10. Calm
  <2>1. \A j \in Queued : job[j].stage = "none"
    BY DEF Sorted, Line
  <2>2. \A j \in Jobs : job[j].stage = "cleanup" => job'[j].stage = "cleanup"
    BY <1>8, <2>1
  <2>3. UNCHANGED <<draining, tick, suspended>>
    BY DEF CancelWhere
  <2> QED
    BY <1>8, <2>2, <2>3 DEF Calm, Busy
<1>11. Q = Queued' /\ Queued' \subseteq Jobs
  BY DEF Queued
<1>12. \A k \in Queued' : job'[k].stage = "none" /\ job'[k].priority \in Priorities
  BY <1>1, <1>8, <1>11 DEF Sorted, Line, Job
<1>13. \A k \in Jobs : Priority'[k] = pr[k]
  BY DEF Priority
<1>14. \A i, k \in Jobs : k \in ahead'[i] <=>
           /\ i \in Queued' /\ k \in Queued' /\ i # k
           /\ \/ Weight(Priority'[k]) < Weight(Priority'[i])
              \/ /\ Priority'[k] = Priority'[i]
                 /\ \/ k \in G /\ i \notin G
                    \/ (k \in G <=> i \in G) /\ k \in ahead[i]
  <2> SUFFICES ASSUME NEW i \in Jobs, NEW k \in Jobs
               PROVE  k \in ahead'[i] <=>
                       /\ i \in Queued' /\ k \in Queued' /\ i # k
                       /\ \/ Weight(Priority'[k]) < Weight(Priority'[i])
                          \/ /\ Priority'[k] = Priority'[i]
                             /\ \/ k \in G /\ i \notin G
                                \/ (k \in G <=> i \in G) /\ k \in ahead[i]
    OBVIOUS
  <2> HIDE DEF Q, M, pr
  <2>1. ahead'[i] = {x \in Q :
                       /\ i \in Q /\ x # i
                       /\ \/ Weight(pr[x]) < Weight(pr[i])
                          \/ /\ pr[x] = pr[i]
                             /\ \/ x \notin M /\ i \in M
                                \/ (x \in M <=> i \in M) /\ x \in ahead[i]}
    BY <1>3 DEF InsertBehind, IsHigherPriority
  <2>2. (k \in M <=> k \notin G) /\ (i \in M <=> i \notin G)
    OBVIOUS
  <2> HIDE DEF G
  <2> QED
    BY <1>11, <1>13, <2>1, <2>2
<1>15. \A i, k \in Queued' : i # k /\ (i \in G <=> k \in G) => i \in Queued /\ k \in Queued
  BY <1>8, <1>11
<1> HIDE DEF G
<1>16. Sorted'
  BY <1>1, <1>12, <1>14, <1>15, Regrouped
<1> QED
  BY <1>9, <1>10, <1>16

(* The jobs of a book move to the front of their bands, in their order.    *)
LEMMA PrioritizeBookEffect ==
  ASSUME IInv, Sorted, NEW b \in Books, PrioritizeBook(b)
  PROVE  Sorted' /\ Shrinks /\ Calm
<1> DEFINE mine == {j \in Queued : BookOf[job[j].path] = b}
<1>1. job \in [Jobs -> Job] /\ job' = job
  BY DEF IInv, TypeOK, PrioritizeBook
<1>2. Queued' = Queued /\ Active' = Active /\ Live' = Live /\ Queued \subseteq Jobs /\ Priority' = Priority
  BY <1>1 DEF Queued, Active, Live, Priority
<1>3. Shrinks
  BY <1>1, <1>2 DEF Shrinks, Dying
<1>4. Calm
  BY <1>1, StaysCalm DEF PrioritizeBook
<1>5. ahead' \in [Jobs -> SUBSET Jobs]
  BY <1>2 DEF PrioritizeBook
<1>6. \A k \in Queued' : job'[k].stage = "none" /\ job'[k].priority \in Priorities
  BY <1>1, <1>2 DEF Sorted, Line, Job
<1>7. \A i, k \in Jobs : k \in ahead'[i] <=>
           /\ i \in Queued' /\ k \in Queued' /\ i # k
           /\ \/ Weight(Priority'[k]) < Weight(Priority'[i])
              \/ /\ Priority'[k] = Priority'[i]
                 /\ \/ k \in mine /\ i \notin mine
                    \/ (k \in mine <=> i \in mine) /\ k \in ahead[i]
  <2> SUFFICES ASSUME NEW i \in Jobs, NEW k \in Jobs
               PROVE  k \in ahead'[i] <=>
                       /\ i \in Queued' /\ k \in Queued' /\ i # k
                       /\ \/ Weight(Priority'[k]) < Weight(Priority'[i])
                          \/ /\ Priority'[k] = Priority'[i]
                             /\ \/ k \in mine /\ i \notin mine
                                \/ (k \in mine <=> i \in mine) /\ k \in ahead[i]
    OBVIOUS
  <2>1. ahead'[i] = {x \in Queued \ {i} :
                       /\ i \in Queued
                       /\ \/ Weight(Priority[x]) < Weight(Priority[i])
                          \/ /\ Priority[x] = Priority[i]
                             /\ \/ x \in mine /\ i \notin mine
                                \/ (x \in mine <=> i \in mine) /\ x \in ahead[i]}
    BY <1>2 DEF PrioritizeBook, IsHigherPriority, Priority
  <2> HIDE DEF mine
  <2> QED
    BY <1>2, <2>1
<1> HIDE DEF mine
<1>8. Sorted'
  BY <1>2, <1>5, <1>6, <1>7, Regrouped
<1> QED
  BY <1>3, <1>4, <1>8

(* A queued job that is cancelled leaves the line, a running one stays.    *)
LEMMA CancelEffect ==
  ASSUME IInv, Sorted, NEW i \in Jobs, Cancel(i)
  PROVE  Sorted' /\ Shrinks /\ Calm
<1>1. job \in [Jobs -> Job] /\ Queued \subseteq Jobs
  BY DEF IInv, TypeOK, Queued
<1>2. job'[i] = AfterCancel(i, job[i]) /\ \A k \in Jobs \ {i} : job'[k] = job[k]
  BY <1>1 DEF Cancel
<1>3. ahead' = WithoutJob(i)
  BY DEF Cancel
<1>4. \A k \in Queued : job[k].stage = "none"
  BY DEF Sorted, Line
<1>5. CASE i \in Queued
  <2>1. job'[i].status = "free"
    BY <1>2, <1>5 DEF AfterCancel, Queued, FreeJob
  <2>2. \A k \in Jobs : /\ k \in Queued' <=> k \in Queued /\ k # i
                        /\ k \in Active' <=> k \in Active
                        /\ k \in Live' <=> k \in Live /\ k # i
    BY <1>2, <1>5, <2>1 DEF Queued, Active, Live
  <2>3. Shrinks
    BY <1>2, <2>2 DEF Shrinks, Dying
  <2>4. \A k \in Jobs : job[k].stage = "cleanup" => job'[k].stage = "cleanup"
    BY <1>2, <1>4, <1>5
  <2>5. Calm
    BY <2>2, <2>4 DEF Calm, Busy, Cancel
  <2>6. Sorted'
    BY <1>1, <1>2, <1>3, <2>2, LeavesLine
  <2> QED
    BY <2>3, <2>5, <2>6
<1>6. CASE i \notin Queued
  <2>1. job'[i] = [job[i] EXCEPT !.cancelRequested = TRUE]
    BY <1>2, <1>6 DEF AfterCancel, Queued
  <2>2. /\ job'[i].status = job[i].status /\ job'[i].stage = job[i].stage
        /\ job'[i].path = job[i].path /\ job'[i].cancelRequested
        /\ job'[i].priority = job[i].priority
    BY <1>1, <2>1 DEF Job
  <2>3. \A k \in Jobs : /\ job'[k].status = job[k].status /\ job'[k].stage = job[k].stage
                        /\ job'[k].path = job[k].path /\ job'[k].priority = job[k].priority
    BY <1>2, <2>2
  <2>4. \A k \in Jobs : (k \in Queued' <=> k \in Queued /\ k # i) /\ (k \in Active' <=> k \in Active)
    BY <1>6, <2>3 DEF Queued, Active
  <2>5. Shrinks
    BY <1>2, <2>2, <2>3, <2>4 DEF Shrinks, Dying, Live
  <2>6. Calm
    BY <2>3, StaysCalm DEF Cancel
  <2>7. Sorted'
    BY <1>1, <1>3, <2>3, <2>4, LeavesLine
  <2> QED
    BY <2>5, <2>6, <2>7
<1> QED
  BY <1>5, <1>6

LEMMA PrioritizeEffect ==
  ASSUME IInv, Sorted, NEW i \in Jobs, NEW p \in Priorities, Prioritize(i, p)
  PROVE  Sorted' /\ Shrinks /\ Calm
<1>1. job \in [Jobs -> Job] /\ Queued \subseteq Jobs
  BY DEF IInv, TypeOK, Queued
<1>2. job' = [job EXCEPT ![i].priority = p]
  BY DEF Prioritize
<1>3. /\ job'[i].priority = p
      /\ \A k \in Jobs : /\ job'[k].status = job[k].status /\ job'[k].stage = job[k].stage
                         /\ job'[k].path = job[k].path
                         /\ job'[k].cancelRequested = job[k].cancelRequested
                         /\ k # i => job'[k] = job[k]
  BY <1>1, <1>2 DEF Job
<1>4. \A k \in Jobs : (k \in Queued' <=> k \in Queued) /\ (k \in Active' <=> k \in Active)
  BY <1>3 DEF Queued, Active
<1>5. Shrinks
  BY <1>3, <1>4 DEF Shrinks, Dying
<1>6. Calm
  BY <1>3, StaysCalm DEF Prioritize
<1>7. CASE i \in Queued /\ ahead' = InsertInFront(i, p)
  BY <1>1, <1>3, <1>4, <1>5, <1>6, <1>7, GoesInFront
<1>8. CASE i \notin Queued /\ ahead' = ahead
  BY <1>1, <1>3, <1>4, <1>5, <1>6, <1>8, SameLine
<1>9. i \in Active => i \notin Queued
  BY DEF Queued, Active
<1> QED
  BY <1>7, <1>8, <1>9 DEF Prioritize

(* A job that is not queued advances, ends or gives up.                    *)
LEMMA ProcessEffect ==
  ASSUME IInv, Sorted, NEW i \in Jobs,
         ProbeMiss(i) \/ Admit(i) \/ Complete(i) \/ Fail(i) \/ Aborted(i) \/ CleanupDone(i)
  PROVE  Sorted' /\ Shrinks /\ Calm
<1>1. job \in [Jobs -> Job] /\ Queued \subseteq Jobs /\ \A k \in Queued : job[k].stage = "none"
  BY DEF IInv, TypeOK, Queued, Sorted, Line
<1>2. ahead' = ahead
  BY DEF ProbeMiss, Admit, Advance, Complete, Fail, Settle, Aborted, CleanupDone
<1>3. PICK r : job' = [job EXCEPT ![i] = r]
  <2>1. CASE ProbeMiss(i) \/ Admit(i)
    BY <2>1, <1>1 DEF ProbeMiss, Admit, Advance
  <2>2. CASE Complete(i) \/ Fail(i) \/ CleanupDone(i)
    BY <2>2 DEF Complete, Fail, Settle, CleanupDone
  <2>3. CASE Aborted(i)
    BY <2>3, <1>1 DEF Aborted
  <2> QED
    BY <2>1, <2>2, <2>3
<1>4. job'[i] = r /\ \A k \in Jobs \ {i} : job'[k] = job[k]
  BY <1>1, <1>3
<1>5. CASE ProbeMiss(i) \/ Admit(i)
  <2>1. PICK to \in {"admission", "render"} : job' = [job EXCEPT ![i].stage = to]
    BY <1>5 DEF ProbeMiss, Admit, Advance
  <2>2. /\ job'[i].status = job[i].status /\ job'[i].path = job[i].path
        /\ job'[i].cancelRequested = job[i].cancelRequested /\ job[i].stage # "none"
    BY <1>1, <1>5, <2>1 DEF Job, ProbeMiss, Admit, Advance
  <2>3. i \notin Queued /\ job[i].stage # "cleanup"
    BY <1>1, <1>5, <2>2 DEF ProbeMiss, Admit, Advance
  <2>4. \A k \in Jobs : /\ k \in Queued' <=> k \in Queued
                        /\ k \in Active' <=> k \in Active
                        /\ k \in Live' => job'[k].path = job[k].path /\ (Dying(k) => Dying(k)')
    BY <1>4, <2>2 DEF Queued, Active, Live, Dying
  <2>5. Shrinks
    BY <2>4 DEF Shrinks
  <2>6. \A k \in Jobs : job[k].stage = "cleanup" => job'[k].stage = "cleanup"
    BY <1>4, <2>3
  <2>7. UNCHANGED <<draining, tick, suspended>>
    BY <1>5 DEF ProbeMiss, Admit, Advance
  <2>8. Calm
    BY <2>4, <2>6, <2>7 DEF Calm, Busy
  <2>9. Sorted'
    BY <1>1, <1>2, <1>4, <2>3, <2>4, SameLine
  <2> QED
    BY <2>5, <2>8, <2>9
<1>6. CASE Complete(i) \/ Fail(i) \/ Aborted(i) \/ CleanupDone(i)
  <2>1. r.status \notin {"queued", "generating"} /\ i \notin Queued
    <3>1. CASE Complete(i) \/ Fail(i)
      BY <1>1, <1>4, <3>1 DEF Complete, Fail, Settle, FreeJob, Active, Queued
    <3>2. CASE Aborted(i)
      BY <1>1, <1>4, <3>2 DEF Aborted, Active, Queued, Job
    <3>3. CASE CleanupDone(i)
      BY <1>1, <1>4, <3>3 DEF CleanupDone, FreeJob
    <3> QED
      BY <1>6, <3>1, <3>2, <3>3
  <2>2. \A k \in Jobs : /\ k \in Queued' <=> k \in Queued
                        /\ k \in Active' => k \in Active
                        /\ k \in Live' => k # i /\ k \in Live
    BY <1>4, <2>1 DEF Queued, Active, Live
  <2>3. Shrinks
    BY <1>4, <2>2 DEF Shrinks, Dying
  <2>4. ASSUME Complete(i) \/ Fail(i) \/ CleanupDone(i) PROVE Calm
    <3>1. draining' = ~suspended /\ suspended' = suspended /\ suspended \in BOOLEAN
      BY <2>4 DEF Complete, Fail, Settle, CleanupDone, IInv, TypeOK
    <3>2. draining' \/ suspended'
      BY Zenon, <3>1
    <3> QED
      BY <3>2 DEF Calm, Busy
  <2>5. ASSUME Aborted(i) PROVE Calm
    <3>1. job'[i].stage = "cleanup"
      BY <1>1, <2>5 DEF Aborted, Job
    <3> QED
      BY <3>1 DEF Calm, Busy
  <2>6. Sorted'
    BY <1>1, <1>2, <1>4, <2>1, <2>2, SameLine
  <2> QED
    BY <1>6, <2>3, <2>4, <2>5, <2>6
<1> QED
  BY <1>5, <1>6

(* enqueue() before the lookup joins a live job or leaves the jobs alone.  *)
LEMMA EnqueueStartEffect ==
  ASSUME IInv, Sorted, NEW o \in Owners, NEW f \in Paths, NEW p \in Priorities,
         EnqueueStart(o, f, p)
  PROVE  Sorted' /\ Shrinks /\ Calm
<1>1. CASE byPath[f] \in Live /\ Join(byPath[f], o, p)
  <2>1. /\ Sorted' /\ Shrinks
        /\ \A k \in Jobs : job'[k].status = job[k].status /\ job'[k].stage = job[k].stage
        /\ tick => tick'
    BY <1>1, JoinEffect
  <2> QED
    BY <2>1, StaysCalm DEF EnqueueStart
<1>2. CASE UNCHANGED <<job, ahead, tick>>
  <2>1. Sorted' /\ Shrinks
    BY <1>2, SameJobs
  <2> QED
    BY <1>2, <2>1, StaysCalm DEF EnqueueStart
<1> QED
  BY <1>1, <1>2 DEF EnqueueStart

(* After the lookup it joins a live job, creates one, or gives up.         *)
LEMMA EnqueueFinishEffect ==
  ASSUME IInv, Sorted, NEW o \in Owners, NEW ready \in BOOLEAN, EnqueueFinish(o, ready)
  PROVE  Effect
<1> DEFINE f == call[o].path
           p == call[o].priority
<1>1. f \in Paths /\ p \in Priorities
  BY DEF EnqueueFinish, IInv, TypeOK, Request
<1>2. CASE byPath[f] \in Live /\ Join(byPath[f], o, p)
  <2> HIDE DEF f, p
  <2>1. /\ Sorted' /\ Shrinks
        /\ \A k \in Jobs : job'[k].status = job[k].status /\ job'[k].stage = job[k].stage
        /\ tick => tick'
    BY <1>1, <1>2, JoinEffect
  <2>2. Calm
    BY <2>1, StaysCalm DEF EnqueueFinish
  <2> QED
    BY <2>1, <2>2 DEF Effect
<1>3. CASE UNCHANGED <<job, ahead, tick>>
  <2>1. Sorted' /\ Shrinks
    BY <1>3, SameJobs
  <2>2. Calm
    BY <1>3, StaysCalm DEF EnqueueFinish
  <2> QED
    BY <2>1, <2>2 DEF Effect
<1>4. CASE /\ ready \/ Cardinality(LiveForChapter(f)) < Window
           /\ \E j \in Jobs :
                /\ job[j].status = "free"
                /\ job' = [job EXCEPT ![j] =
                     [status |-> "queued", stage |-> "none", path |-> f, priority |-> p,
                      claims |-> [NoClaims EXCEPT ![o] = p], cancelRequested |-> FALSE]]
                /\ ahead' = InsertBehind(Queued \union {j},
                              [k \in Jobs |-> IF k = j THEN p ELSE job[k].priority], {j})
           /\ tick'
  <2>1. ready => f \in Rendered
    BY DEF EnqueueFinish
  <2> HIDE DEF f, p
  <2>2. Creates
    BY <1>1, <1>4, <2>1 DEF Creates
  <2>3. Sorted'
    BY <2>2, CreateSorted
  <2> QED
    BY <2>2, <2>3 DEF Effect
<1> QED
  BY <1>2, <1>3, <1>4 DEF EnqueueFinish

LEMMA ClaimEffect ==
  ASSUME IInv, Sorted, NEW j \in Jobs, NEW o \in Owners, NEW p \in Priorities, Claim(j, o, p)
  PROVE  Sorted' /\ Shrinks /\ Calm
<1>1. j \in Live /\ Join(j, o, p)
  BY DEF Claim
<1>2. /\ Sorted' /\ Shrinks
      /\ \A k \in Jobs : job'[k].status = job[k].status /\ job'[k].stage = job[k].stage
      /\ tick => tick'
  BY <1>1, JoinEffect
<1> QED
  BY <1>2, StaysCalm DEF Claim

(* Every handler keeps the line sorted.                                    *)
LEMMA HandlerEffect ==
  ASSUME IInv, Sorted, Handler, ~draining
  PROVE  Effect
<1> SUFFICES ASSUME ~Effect PROVE FALSE
  OBVIOUS
<1>1. ~(Sorted' /\ Shrinks /\ Calm)
  BY DEF Effect
<1>2. \A o \in Owners : \A r \in AsksFor[o] : r \in Request /\ r.path \in Paths /\ r.priority \in Priorities
  BY QueueAssumption DEF QueueAssumption, Request
<1>3. CASE \E o \in Owners : \E r \in AsksFor[o] :
             EnqueueStart(o, r.path, r.priority) \/ \E j \in Jobs : Claim(j, o, r.priority)
  BY <1>1, <1>2, <1>3, EnqueueStartEffect, ClaimEffect
<1>4. CASE \E o \in Owners : \E r \in BOOLEAN : EnqueueFinish(o, r)
  BY <1>4, EnqueueFinishEffect
<1>5. CASE UNCHANGED <<job, ahead>> /\ (tick => tick' \/ draining' \/ suspended') /\ (suspended => suspended')
  <2>1. Sorted' /\ Shrinks
    BY <1>5, SameJobs
  <2>2. Queued' = Queued /\ Active' = Active
    BY <1>5, SameJobs
  <2>3. Calm
    BY <1>5, <2>2 DEF Calm, Busy
  <2> QED
    BY <1>1, <2>1, <2>3
<1>6. CASE \E o \in Owners : EnqueueAbort(o)
  BY <1>5, <1>6 DEF EnqueueAbort
<1>7. CASE \E j \in Jobs, p \in Promotes : Prioritize(j, p)
  BY <1>1, <1>7, PrioritizeEffect, QueueAssumption DEF QueueAssumption
<1>8. CASE \E j \in Jobs : Cancel(j)
  BY <1>1, <1>8, CancelEffect
<1>9. CASE \E o \in Owners : CancelWhere({o}, Paths) \/ \E f \in Paths : CancelWhere({o}, {f})
  <2>1. PICK o \in Owners : CancelWhere({o}, Paths) \/ \E f \in Paths : CancelWhere({o}, {f})
    BY <1>9
  <2>2. {o} \in SUBSET Owners /\ Paths \in SUBSET Paths /\ \A f \in Paths : {f} \in SUBSET Paths
    OBVIOUS
  <2> QED
    BY <1>1, <2>1, <2>2, ReleaseEffect
<1>10. CASE \E b \in Books : \/ CancelWhere(Owners, {f \in Paths : BookOf[f] = b})
                             \/ PrioritizeBook(b)
  <2>1. \A b : {f \in Paths : BookOf[f] = b} \in SUBSET Paths /\ Owners \in SUBSET Owners
    OBVIOUS
  <2> QED
    BY <1>1, <1>10, <2>1, ReleaseEffect, PrioritizeBookEffect
<1>11. CASE \E s : SetBookOrder(s)
  BY <1>5, <1>11 DEF SetBookOrder
<1>12. CASE \E m, n : MoveBook(m, n)
  BY <1>11, <1>12 DEF MoveBook
<1>13. CASE StartDrain \/ Suspend \/ ForegroundExpires \/ \E j \in Jobs : GrowLate(j)
  BY <1>5, <1>13 DEF StartDrain, Suspend, ForegroundExpires, GrowLate
<1>14. CASE \E j \in Jobs : ProbeMiss(j) \/ Admit(j) \/ Complete(j) \/ Fail(j) \/ Aborted(j) \/ CleanupDone(j)
  BY <1>1, <1>14, ProcessEffect
<1> QED
  BY <1>3, <1>4, <1>6, <1>7, <1>8, <1>9, <1>10, <1>11, <1>12, <1>13, <1>14 DEF Handler

(* The drain takes the job it starts out of the line.                      *)
Starts(j) ==
  /\ draining /\ j \in TakeNextRunnableJob
  /\ job' = [job EXCEPT ![j].status = "generating", ![j].stage = "probe"]
  /\ ahead' = WithoutJob(j)
  /\ UNCHANGED draining

LEMMA RunnableIsQueued == TakeNextRunnableJob \subseteq Queued /\ Queued \subseteq Jobs
  BY DEF TakeNextRunnableJob, TakeNextQueuedJob, FirstIn, Foregrounds, Queued

LEMMA StartEffect ==
  ASSUME IInv, Sorted, NEW i \in Jobs, Starts(i)
  PROVE  /\ Sorted'
         /\ \A k \in Jobs : /\ k \in Queued' <=> k \in Queued /\ k # i
                            /\ k \in Active' <=> k \in Active \/ k = i
                            /\ job'[k].path = job[k].path
                            /\ Dying(k)' = Dying(k)
<1>1. job \in [Jobs -> Job] /\ i \in Queued /\ Queued \subseteq Jobs
  BY RunnableIsQueued DEF IInv, TypeOK, Starts
<1>2. job' = [job EXCEPT ![i].status = "generating", ![i].stage = "probe"]
  BY DEF Starts
<1>3. /\ job'[i].status = "generating" /\ job'[i].path = job[i].path
      /\ job'[i].cancelRequested = job[i].cancelRequested
      /\ \A k \in Jobs : k # i => job'[k] = job[k]
  BY <1>1, <1>2 DEF Job
<1>4. \A k \in Jobs : /\ k \in Queued' <=> k \in Queued /\ k # i
                      /\ k \in Active' <=> k \in Active \/ k = i
  BY <1>3 DEF Queued, Active
<1>5. Sorted'
  BY <1>1, <1>3, <1>4, LeavesLine DEF Starts
<1> QED
  BY <1>3, <1>4, <1>5 DEF Dying

(* What any step does.                                                     *)
LEMMA StepEffect ==
  ASSUME IInv, Sorted, [Next]_vars
  PROVE  \/ Effect
         \/ \E j \in Jobs : Starts(j)
         \/ TakeNextRunnableJob = {} /\ UNCHANGED <<job, ahead>>
<1>1. CASE DrainStep
  BY <1>1, RunnableIsQueued DEF DrainStep, Starts
<1>2. CASE ~draining /\ Handler
  BY <1>2, HandlerEffect
<1>3. CASE UNCHANGED vars
  <2>1. Sorted' /\ Shrinks
    BY <1>3, SameJobs DEF vars
  <2>2. Calm
    BY <1>3, StaysCalm DEF vars
  <2> QED
    BY <2>1, <2>2 DEF Effect
<1> QED
  BY <1>1, <1>2, <1>3 DEF Next

LEMMA InitSorted == Init => Sorted
<1> SUFFICES ASSUME Init PROVE Sorted
  OBVIOUS
<1>1. Queued = {}
  BY DEF Queued, Init, FreeJob
<1> QED
  BY <1>1 DEF Sorted, Line, InOrder, Init

LEMMA NextSorted == IInv /\ Sorted /\ [Next]_vars => Sorted'
<1> SUFFICES ASSUME IInv, Sorted, [Next]_vars PROVE Sorted'
  OBVIOUS
<1>1. CASE TakeNextRunnableJob = {} /\ UNCHANGED <<job, ahead>>
  BY <1>1, SameJobs
<1>2. CASE \E j \in Jobs : Starts(j)
  BY <1>2, StartEffect
<1> QED
  BY <1>1, <1>2, StepEffect DEF Effect

LEMMA SortedInvariance == Spec => [](IInv /\ Sorted)
  BY InitInvariant, NextInvariant, InitSorted, NextSorted, PTL DEF Spec

(* The queue stays one line, sorted by urgency, through every promotion,   *)
(* demotion, release and reordering.                                       *)
THEOREM LineInOrder == Spec => []QueueOrdered
  BY SortedInvariance, SortedMeansOrdered, PTL

(* A step that starts a job starts the most urgent one, or a download      *)
(* after a burst of lookaheads or a long wait; at the limit, a foreground  *)
(* job.                                                                    *)
LEMMA StartsUrgent ==
  ASSUME IInv, Sorted, NEW j \in Jobs, Starts(j), NEW k \in Queued', 
         IsHigherPriority(job[k].priority, job[j].priority)
  PROVE  /\ job[j].priority = "download" /\ job[k].priority = "lookahead"
         /\ lookaheads = LookaheadBurst \/ late # {}
<1>1. j \in Queued /\ k \in Queued /\ k # j /\ Queued \subseteq Jobs
  <2>1. Queued' \subseteq Jobs
    BY DEF Queued
  <2> QED
    BY <2>1, StartEffect, RunnableIsQueued DEF Starts
<1>2. job[j].priority \in Priorities /\ job[k].priority \in Priorities
  BY <1>1 DEF IInv, TypeOK, Job
<1>3. CASE j \in TakeNextQueuedJob
  <2>1. /\ job[j].priority = "next" => Band({"immediate"}) = {}
        /\ job[j].priority \notin Strict => Band(Strict) = {}
        /\ job[j].priority = "lookahead" => Band({"download"}) = {} \/ ~DownloadDue
        /\ job[j].priority = "download" => Band({"lookahead"}) = {} \/ DownloadDue
        /\ job[j].priority = "background" => Band({"lookahead", "download"}) = {}
    BY <1>3 DEF TakeNextQueuedJob
  <2>2. \A P : job[k].priority \in P => Band(P) # {}
    BY <1>1 DEF Band
  <2>3. job[j].priority = "download" /\ job[k].priority = "lookahead"
    <3>1. job[k].priority = "immediate" => Band({"immediate"}) # {} /\ Band(Strict) # {}
      BY <2>2 DEF Strict
    <3>2. job[k].priority = "next" => Band(Strict) # {}
      BY <2>2 DEF Strict
    <3>3. job[k].priority \in {"lookahead", "download"} => Band({"lookahead", "download"}) # {}
      BY <2>2
    <3> QED
      BY <1>2, <2>1, <3>1, <3>2, <3>3 DEF IsHigherPriority, Weight, Priorities, Strict
  <2>4. DownloadDue
    BY <2>1, <2>2, <2>3
  <2>5. lookaheads \in 0..LookaheadBurst /\ LookaheadBurst \in Nat
    BY QueueAssumption DEF QueueAssumption, IInv, TypeOK
  <2> QED
    BY <2>3, <2>4, <2>5 DEF DownloadDue
<1>4. CASE j \in FirstIn(Foregrounds(Queued))
  <2>1. j \in Foregrounds(Queued) /\ ahead[j] \intersect Foregrounds(Queued) = {}
    BY <1>4 DEF FirstIn
  <2>2. job[j].priority \in Strict
    BY <2>1 DEF Foregrounds
  <2>3. job[k].priority \in Strict
    BY <1>2, <2>2 DEF IsHigherPriority, Weight, Priorities, Strict
  <2>4. k \notin ahead[j]
    BY <1>1, <2>1, <2>3 DEF Foregrounds
  <2>5. j \in ahead[k]
    BY <1>1, <2>4 DEF Sorted, InOrder
  <2>6. ~IsHigherPriority(job[k].priority, job[j].priority)
    BY <1>1, <2>5, SortedMeansOrdered DEF QueueOrdered
  <2> QED
    BY <2>6
<1> QED
  BY <1>3, <1>4 DEF Starts, TakeNextRunnableJob

(* No job starts ahead of more urgent queued work, except a download that  *)
(* has waited through a burst of lookaheads or past its time               *)
(* (_takeNextRunnableJob).                                                 *)
THEOREM MostUrgentFirst == Spec => UrgentFirst
<1>1. ASSUME IInv, Sorted, [Next]_vars
      PROVE  [\A j \in Active' \ Active, k \in Queued' :
                IsHigherPriority(job[k].priority, job[j].priority) =>
                  /\ job[j].priority = "download" /\ job[k].priority = "lookahead"
                  /\ lookaheads = LookaheadBurst \/ late # {}]_vars
  <2> SUFFICES ASSUME NEW j \in Active' \ Active, NEW k \in Queued',
                      IsHigherPriority(job[k].priority, job[j].priority)
               PROVE  /\ job[j].priority = "download" /\ job[k].priority = "lookahead"
                      /\ lookaheads = LookaheadBurst \/ late # {}
    OBVIOUS
  <2>1. j \in Jobs
    BY DEF Active
  <2>2. CASE \E i \in Jobs : Starts(i)
    <3>1. PICK i \in Jobs : Starts(i)
      BY <2>2
    <3>2. j = i
      BY <1>1, <2>1, <3>1, StartEffect
    <3> QED
      BY <1>1, <3>1, <3>2, StartsUrgent
  <2>3. CASE UNCHANGED <<job, ahead>>
    BY <1>1, <2>3, SameJobs
  <2>4. CASE Effect
    <3>1. CASE Shrinks
      BY <2>1, <3>1 DEF Shrinks
    <3>2. CASE Creates
      <4>1. PICK i \in Jobs, x \in Owners, f \in Paths, p \in Priorities :
              job' = [job EXCEPT ![i] =
                 [status |-> "queued", stage |-> "none", path |-> f, priority |-> p,
                  claims |-> [NoClaims EXCEPT ![x] = p], cancelRequested |-> FALSE]]
        BY <3>2 DEF Creates
      <4>2. job'[j].status # "generating"
        BY <1>1, <2>1, <4>1 DEF Active, IInv, TypeOK
      <4> QED
        BY <4>2 DEF Active
    <3> QED
      BY <2>4, <3>1, <3>2 DEF Effect
  <2> QED
    BY <1>1, <2>2, <2>3, <2>4, StepEffect
<1> QED
  BY <1>1, SortedInvariance, PTL DEF Spec, UrgentFirst

-----------------------------------------------------------------------------
(* The window of a chapter.                                                *)

(* What counts against the window of the chapter of f.                     *)
Counted(f) == {j \in Live : /\ job[j].path \notin Rendered /\ ~Dying(j)
                            /\ ChapterOf[job[j].path] = ChapterOf[f]}

LEMMA FiniteJobs ==
  ASSUME NEW S \in SUBSET Jobs
  PROVE  /\ IsFiniteSet(S) /\ Cardinality(S) \in Nat
         /\ \A T \in SUBSET S : Cardinality(T) \in Nat /\ Cardinality(T) <= Cardinality(S)
  BY QueueAssumption, FS_Subset, FS_CardinalityType DEF QueueAssumption

LEMMA CountedJobs == \A f : Counted(f) \subseteq Jobs /\ LiveForChapter(f) \subseteq Jobs
  BY DEF Counted, LiveForChapter, Live, Queued, Active

LEMMA LiveJobs == Live \subseteq Jobs /\ \A j \in Jobs : j \in Live <=> j \in Queued \/ j \in Active
  BY DEF Live, Queued, Active

(* A render is counted only while someone claims it, so the check that     *)
(* enqueue makes bounds every counted render.                              *)
LEMMA NextWindow ==
  ASSUME IInv, Sorted, WindowRespected, [Next]_vars
  PROVE  WindowRespected'
<1> SUFFICES ASSUME NEW f \in Paths PROVE Cardinality(Counted(f)') <= Window
  BY DEF WindowRespected, Counted
<1>1. Cardinality(Counted(f)) <= Window /\ Window \in Nat
  BY QueueAssumption DEF QueueAssumption, WindowRespected, Counted
<1>2. Live' \subseteq Jobs /\ \A j \in Jobs : j \in Live' <=> j \in Queued' \/ j \in Active'
  BY DEF Live, Queued, Active
<1>3. ASSUME \A j \in Jobs : j \in Live' /\ job'[j].path \notin Rendered /\ ~Dying(j)' =>
               j \in Live /\ job'[j].path = job[j].path /\ ~Dying(j)
      PROVE  Cardinality(Counted(f)') <= Window
  <2>1. Counted(f)' \subseteq Counted(f)
    BY <1>2, <1>3 DEF Counted
  <2>2. Counted(f) \in SUBSET Jobs
    BY CountedJobs
  <2>3. /\ Cardinality(Counted(f)') \in Nat /\ Cardinality(Counted(f)) \in Nat
        /\ Cardinality(Counted(f)') <= Cardinality(Counted(f))
    BY <2>1, <2>2, FiniteJobs
  <2> QED
    BY <1>1, <2>3
<1>4. CASE UNCHANGED <<job, ahead>>
  <2>1. Shrinks
    BY <1>4, SameJobs
  <2> QED
    BY <1>2, <1>3, <2>1, LiveJobs DEF Shrinks
<1>5. CASE \E i \in Jobs : Starts(i)
  <2>1. PICK i \in Jobs : Starts(i)
    BY <1>5
  <2>2. \A k \in Jobs : /\ k \in Queued' <=> k \in Queued /\ k # i
                        /\ k \in Active' <=> k \in Active \/ k = i
                        /\ job'[k].path = job[k].path
                        /\ Dying(k)' = Dying(k)
    BY <2>1, StartEffect
  <2>3. i \in Queued
    BY <2>1, RunnableIsQueued DEF Starts
  <2> QED
    BY <1>2, <1>3, <2>2, <2>3, LiveJobs
<1>6. CASE Shrinks
  BY <1>2, <1>3, <1>6, LiveJobs DEF Shrinks
<1>7. CASE Creates
  <2>1. PICK i \in Jobs, o \in Owners, g \in Paths, p \in Priorities, ready \in BOOLEAN :
          /\ ready => g \in Rendered
          /\ ready \/ Cardinality(LiveForChapter(g)) < Window
          /\ job[i].status = "free"
          /\ job' = [job EXCEPT ![i] =
                 [status |-> "queued", stage |-> "none", path |-> g, priority |-> p,
                  claims |-> [NoClaims EXCEPT ![o] = p], cancelRequested |-> FALSE]]
    BY <1>7 DEF Creates
  <2>2. job'[i].path = g /\ \A k \in Jobs \ {i} : job'[k] = job[k]
    BY <2>1 DEF IInv, TypeOK
  <2>3. \A k \in Jobs \ {i} : k \in Live' => k \in Live /\ Dying(k)' = Dying(k)
    BY <1>2, <2>2 DEF Live, Queued, Active, Dying
  <2>4. CASE g \in Rendered \/ ChapterOf[g] # ChapterOf[f]
    <3>1. Counted(f)' \subseteq Counted(f)
      BY <1>2, <2>2, <2>3, <2>4 DEF Counted
    <3>2. Counted(f) \in SUBSET Jobs
      BY CountedJobs
    <3>3. /\ Cardinality(Counted(f)') \in Nat /\ Cardinality(Counted(f)) \in Nat
          /\ Cardinality(Counted(f)') <= Cardinality(Counted(f))
      BY <3>1, <3>2, FiniteJobs
    <3> QED
      BY <1>1, <3>3
  <2>5. CASE g \notin Rendered /\ ChapterOf[g] = ChapterOf[f]
    <3>1. Cardinality(LiveForChapter(g)) < Window
      BY <2>1, <2>5
    <3>2. Counted(f) \subseteq LiveForChapter(g)
      BY <2>5 DEF Counted, LiveForChapter, IInv, OwnedOrDying
    <3>3. Counted(f)' \subseteq LiveForChapter(g) \union {i}
      <4>1. Counted(f)' \subseteq Counted(f) \union {i}
        BY <1>2, <2>2, <2>3 DEF Counted
      <4> QED
        BY <3>2, <4>1
    <3>4. LiveForChapter(g) \in SUBSET Jobs /\ LiveForChapter(g) \union {i} \in SUBSET Jobs
      BY CountedJobs
    <3>5. IsFiniteSet(LiveForChapter(g)) /\ Cardinality(LiveForChapter(g)) \in Nat
      BY <3>4, FiniteJobs
    <3>6. Cardinality(LiveForChapter(g) \union {i}) <= Cardinality(LiveForChapter(g)) + 1
      <4>1. Cardinality(LiveForChapter(g) \union {i}) = IF i \in LiveForChapter(g)
              THEN Cardinality(LiveForChapter(g)) ELSE Cardinality(LiveForChapter(g)) + 1
        BY <3>5, FS_AddElement
      <4> QED
        BY <3>5, <4>1
    <3>7. /\ Cardinality(Counted(f)') \in Nat /\ Cardinality(LiveForChapter(g) \union {i}) \in Nat
          /\ Cardinality(Counted(f)') <= Cardinality(LiveForChapter(g) \union {i})
      BY <3>3, <3>4, FiniteJobs
    <3> QED
      BY <1>1, <3>1, <3>5, <3>6, <3>7
  <2> QED
    BY <2>4, <2>5
<1> QED
  BY <1>4, <1>5, <1>6, <1>7, StepEffect DEF Effect

LEMMA InitWindow == Init => WindowRespected
<1> SUFFICES ASSUME Init, NEW f \in Paths PROVE Cardinality(Counted(f)) <= Window
  BY DEF WindowRespected, Counted
<1>1. Counted(f) = {}
  BY DEF Counted, Live, Queued, Active, Init, FreeJob
<1> QED
  BY <1>1, FS_EmptySet, QueueAssumption DEF QueueAssumption

(* A chapter never has more renders under way than its window allows,      *)
(* although callers are admitted on a check made before their lookup       *)
(* (enqueue, _liveJobsForChapter).                                         *)
THEOREM WindowHolds == Spec => []WindowRespected
  BY InitWindow, NextWindow, SortedInvariance, PTL DEF Spec

-----------------------------------------------------------------------------
(* The queue always has a next job.                                        *)

LEMMA NatMin ==
  ASSUME NEW T, T \subseteq Nat, T # {}
  PROVE  \E x \in T : \A y \in T : x <= y
<1> DEFINE R == OpToRel(<, Nat)
<1>1. IsWellFoundedOn(R, Nat)
  BY NatLessThanWellFounded
<1>2. \A x, y \in Nat : <<y, x>> \in R <=> y < x
  BY DEF OpToRel
<1> HIDE DEF R
<1>3. PICK x \in T : \A y \in T : ~(<<y, x>> \in R)
  BY <1>1, WFMin
<1>4. \A y \in T : y \in Nat
  OBVIOUS
<1>5. ASSUME NEW y \in T PROVE x <= y
  <2>1. y \in Nat /\ x \in Nat /\ ~(<<y, x>> \in R)
    BY <1>3, <1>4
  <2>2. ~(y < x)
    BY <1>2, <2>1
  <2> QED
    BY <2>1, <2>2
<1> QED
  BY <1>5

(* Any group of queued jobs has a first one.                               *)
LEMMA FirstExists ==
  ASSUME Sorted, NEW S \in SUBSET Queued, S # {}
  PROVE  FirstIn(S) # {} /\ FirstIn(S) \subseteq S
<1> DEFINE T == {Cardinality(ahead[j]) : j \in S}
<1>1. Queued \subseteq Jobs /\ \A j \in Jobs : ahead[j] \in SUBSET Jobs
  BY DEF Sorted, Queued
<1>2. T \subseteq Nat /\ T # {}
  BY <1>1, FiniteJobs
<1>3. PICK n \in T : \A m \in T : n <= m
  BY <1>2, NatMin
<1>4. PICK j \in S : n = Cardinality(ahead[j])
  OBVIOUS
<1>5. ASSUME NEW k \in ahead[j], k \in S PROVE FALSE
  <2>1. j \in Queued /\ k \in Queued /\ j \in Jobs /\ k \in Jobs
    BY <1>1, <1>5
  <2>2. ahead[k] \subseteq ahead[j]
    BY <2>1, <1>5, SortedMeansOrdered DEF QueueOrdered
  <2>3. k \notin ahead[k]
    BY <2>1 DEF Sorted, Line
  <2>4. ahead[k] \in SUBSET ahead[j] /\ IsFiniteSet(ahead[j]) /\ ahead[k] # ahead[j]
    BY <1>1, <1>5, <2>1, <2>2, <2>3, FiniteJobs
  <2>5. Cardinality(ahead[k]) <= Cardinality(ahead[j]) /\ Cardinality(ahead[j]) # Cardinality(ahead[k])
    BY <2>4, FS_Subset
  <2>6. Cardinality(ahead[j]) <= Cardinality(ahead[k])
    BY <1>3, <1>4, <1>5
  <2>7. Cardinality(ahead[j]) \in Nat /\ Cardinality(ahead[k]) \in Nat
    BY <1>1, <2>1, FiniteJobs
  <2> QED
    BY <2>5, <2>6, <2>7
<1>6. j \in FirstIn(S)
  BY <1>5 DEF FirstIn
<1> QED
  BY <1>6 DEF FirstIn

LEMMA RankType ==
  ASSUME bookOrder \in Seq(Books)
  PROVE  \A j : Rank(j) \in Nat
  BY DEF Rank

(* Any priority that some queued job has offers one to start.              *)
LEMMA BandOffers ==
  ASSUME IInv, Sorted, NEW p, Band({p}) # {}
  PROVE  \E j \in Queued : job[j].priority = p /\ j \in FirstOf(p)
<1> DEFINE preferred == {j \in Band({p}) : p = "download" /\ BookOf[job[j].path] = foreground}
           ranked    == {j \in Band({p}) : \A k \in Band({p}) : Rank(j) <= Rank(k)}
           S == IF preferred # {} THEN preferred ELSE ranked
           T == {Rank(j) : j \in Band({p})}
<1>1. T \subseteq Nat /\ T # {}
  BY RankType DEF IInv, TypeOK
<1>2. PICK n \in T : \A m \in T : n <= m
  BY <1>1, NatMin
<1>3. PICK j \in Band({p}) : n = Rank(j)
  OBVIOUS
<1>4. j \in ranked
  BY <1>2, <1>3
<1>5. S # {} /\ S \subseteq Band({p}) /\ Band({p}) \subseteq Queued
  BY <1>4 DEF Band
<1> HIDE DEF S
<1>6. PICK i \in S : i \in FirstIn(S)
  BY <1>5, FirstExists
<1>7. i \in Queued /\ job[i].priority = p
  BY <1>5 DEF Band
<1>8. FirstOf(p) = FirstIn(S)
  BY DEF FirstOf, S
<1> QED
  BY <1>6, <1>7, <1>8

(* A queue that is not empty has a next job, whatever the bands hold.      *)
LEMMA NextExists ==
  ASSUME IInv, Sorted, Queued # {}
  PROVE  TakeNextQueuedJob # {}
<1> DEFINE has(p) == Band({p}) # {}
<1>1. \A P : Band(P) # {} <=> \E p \in P : has(p)
  BY DEF Band
<1>2. has("immediate") \/ has("next") \/ has("lookahead") \/ has("download") \/ has("background")
  <2>1. PICK j \in Queued : TRUE
    OBVIOUS
  <2>2. job[j].priority \in Priorities /\ has(job[j].priority)
    BY DEF IInv, TypeOK, Job, Band, Queued
  <2> QED
    BY <2>2 DEF Priorities, Strict
<1>3. \A p : has(p) => \E j \in Queued : job[j].priority = p /\ j \in FirstOf(p)
  BY BandOffers
<1> HIDE DEF has
<1>4. Band(Strict) # {} <=> has("immediate") \/ has("next")
  BY <1>1 DEF Strict
<1>5. Band({"lookahead", "download"}) # {} <=> has("lookahead") \/ has("download")
  BY <1>1
<1>6. CASE has("immediate")
  <2>1. PICK j \in Queued : job[j].priority = "immediate" /\ j \in FirstOf("immediate")
    BY <1>3, <1>6
  <2> QED
    BY <2>1 DEF TakeNextQueuedJob, Strict
<1>7. CASE ~has("immediate") /\ has("next")
  <2>1. PICK j \in Queued : job[j].priority = "next" /\ j \in FirstOf("next")
    BY <1>3, <1>7
  <2>2. Band({"immediate"}) = {}
    BY <1>7 DEF has
  <2> QED
    BY <2>1, <2>2 DEF TakeNextQueuedJob, Strict
<1>8. CASE ~has("immediate") /\ ~has("next") /\ has("lookahead") /\ (has("download") => ~DownloadDue)
  <2>1. PICK j \in Queued : job[j].priority = "lookahead" /\ j \in FirstOf("lookahead")
    BY <1>3, <1>8
  <2>2. Band(Strict) = {} /\ (Band({"download"}) = {} \/ ~DownloadDue)
    BY <1>4, <1>8 DEF has
  <2> QED
    BY <2>1, <2>2 DEF TakeNextQueuedJob, Strict
<1>9. CASE ~has("immediate") /\ ~has("next") /\ has("download") /\ (has("lookahead") => DownloadDue)
  <2>1. PICK j \in Queued : job[j].priority = "download" /\ j \in FirstOf("download")
    BY <1>3, <1>9
  <2>2. Band(Strict) = {} /\ (Band({"lookahead"}) = {} \/ DownloadDue)
    BY <1>4, <1>9 DEF has
  <2> QED
    BY <2>1, <2>2 DEF TakeNextQueuedJob, Strict
<1>10. CASE ~has("immediate") /\ ~has("next") /\ ~has("lookahead") /\ ~has("download")
  <2>1. PICK j \in Queued : job[j].priority = "background" /\ j \in FirstOf("background")
    BY <1>2, <1>3, <1>10
  <2>2. Band(Strict) = {} /\ Band({"lookahead", "download"}) = {}
    BY <1>4, <1>5, <1>10
  <2> QED
    BY <2>1, <2>2 DEF TakeNextQueuedJob, Strict
<1> QED
  BY <1>2, <1>6, <1>7, <1>8, <1>9, <1>10

(* A drain that finds nothing to start has work only at the limit.         *)
LEMMA NothingRunnable ==
  ASSUME IInv, Sorted, TakeNextRunnableJob = {}
  PROVE  Queued = {} \/ Cardinality(Active) >= MaxConcurrent
<1>1. Cardinality(Active) \in Nat /\ MaxConcurrent \in Nat
  <2>1. Active \in SUBSET Jobs
    BY DEF Active
  <2> QED
    BY <2>1, FiniteJobs, QueueAssumption DEF QueueAssumption
<1> QED
  BY <1>1, NextExists DEF TakeNextRunnableJob

Served == Queued = {} \/ Cardinality(Active) >= MaxConcurrent

LEMMA StallServed == NoStall <=> Busy \/ Served
  BY DEF NoStall, Busy, Served

LEMMA NextNoStall ==
  ASSUME IInv, Sorted, NoStall, [Next]_vars
  PROVE  NoStall'
<1> SUFFICES ASSUME ~Busy' PROVE Served'
  BY DEF NoStall, Busy, Served
<1>1. Queued \subseteq Jobs /\ Queued' \subseteq Jobs /\ Active \subseteq Jobs /\ Active' \subseteq Jobs
  BY DEF Queued, Active
<1>2. CASE Creates
  BY <1>2 DEF Creates, Busy
<1>3. CASE \E i \in Jobs : Starts(i)
  <2>1. draining'
    BY <1>3 DEF Starts
  <2> QED
    BY <2>1 DEF Busy
<1>4. CASE Calm
  <2>1. /\ ~Busy
        /\ \A j \in Jobs : (j \in Queued' => j \in Queued) /\ (j \in Active' <=> j \in Active)
    BY <1>4 DEF Calm
  <2>2. Active' = Active
    BY <1>1, <2>1
  <2>3. Queued = {} => Queued' = {}
    BY <1>1, <2>1
  <2>4. Served
    BY <2>1, StallServed
  <2> QED
    BY <2>2, <2>3, <2>4 DEF Served
<1>5. CASE TakeNextRunnableJob = {} /\ UNCHANGED <<job, ahead>>
  <2>1. Served
    BY <1>5, NothingRunnable DEF Served
  <2> QED
    BY <1>5, <2>1 DEF Served, Queued, Active
<1> QED
  BY <1>2, <1>3, <1>4, <1>5, StepEffect DEF Effect

LEMMA InitNoStall == Init => NoStall
  BY DEF Init, NoStall, Queued, FreeJob

(* No slot stays idle with work queued once the drains are done: every     *)
(* handler that frees a slot or adds work asks for a drain, and a drain    *)
(* only stops when nothing can start (_drain).                             *)
THEOREM NeverStalls == Spec => []NoStall
  BY InitNoStall, NextNoStall, SortedInvariance, PTL DEF Spec
=============================================================================
