------------------------------ MODULE TTSQueue ------------------------------
(***************************************************************************)
(* The narration queue: lib/tts-queue.js.  Callers (owners) enqueue chunk  *)
(* renders under a priority; a render for an output path that is already   *)
(* live is joined instead of duplicated, so one job may serve several      *)
(* owners, each holding a claim.  Owners release claims; a job that loses  *)
(* its last claim is cancelled.  _drain starts jobs in priority order.     *)
(*                                                                         *)
(* JavaScript runs one handler at a time, so a handler is one action and   *)
(* an await splits it: enqueue awaits the artifact lookup, _processJob     *)
(* awaits the reuse probe, the admission, the render with its publication  *)
(* and, when cancelled, the cleanup of its files (job.stage).              *)
(***************************************************************************)
EXTENDS Naturals, FiniteSets, Sequences

CONSTANTS
  Jobs,            \* job records (ids are fresh; a slot is reused once deleted)
  Paths,           \* output paths: one per book, chapter, chunk and variant
  Owners,          \* claim identities: origin, request, session, scheduler
  Books,           \* books the reader opens or puts in order
  ChapterOf,       \* [Paths -> chapter]
  BookOf,          \* [Paths -> book]
  AsksFor,         \* [Owners -> SUBSET Request]: what an owner asks for
  Promotes,        \* the priorities players promote a chunk to
  Rendered,        \* paths whose audio a lookup may already find
  MaxConcurrent,   \* _getMaxConcurrent()
  Window,          \* materializationLimit of a chapter
  LookaheadBurst,
  UsesAdmission,   \* the engine has a schedulingResource
  NoJob, NoBook, NoClaim, NoCall

Strict     == {"immediate", "next"}
Priorities == Strict \union {"lookahead", "download", "background"}
Request    == [path : Paths, priority : Priorities]

ASSUME QueueAssumption ==
  /\ IsFiniteSet(Jobs) /\ NoJob \notin Jobs /\ Paths # {}
  /\ NoBook \notin Books /\ NoClaim \notin Priorities
  /\ NoCall \notin Request
  /\ DOMAIN BookOf = Paths
  /\ DOMAIN ChapterOf = Paths
  /\ AsksFor \in [Owners -> SUBSET Request]
  /\ Promotes \subseteq Priorities /\ Rendered \subseteq Paths
  /\ MaxConcurrent \in Nat \ {0}
  /\ Window \in Nat \ {0}
  /\ LookaheadBurst \in Nat \ {0}
  /\ UsesAdmission \in BOOLEAN

VARIABLES
  job,        \* the job records
  ahead,      \* ahead[j]: the jobs before j in _queue
  byPath,     \* _jobsByOutputPath
  call,       \* an owner's enqueue() awaiting the artifact lookup
  late,       \* queued jobs that have waited downloadMaxWaitMs
  lookaheads, \* _consecutiveLookahead, saturated at LookaheadBurst
  tick,       \* a process.nextTick(_drain) is scheduled
  draining,   \* the loop of _drain is running: no other handler may run
  suspended,
  foreground, \* _foregroundBookId while it has not expired
  bookOrder   \* _bookOrder

vars == <<job, ahead, byPath, call, late, lookaheads, tick, draining,
          suspended, foreground, bookOrder>>

Weight(p) ==
  CASE p = "immediate" -> 0
    [] p = "next"      -> 1
    [] p = "lookahead" -> 2
    [] p = "download"  -> 3
    [] OTHER           -> 4

IsHigherPriority(p, q) == Weight(p) < Weight(q)

NoClaims == [o \in Owners |-> NoClaim]

Job == [status   : {"free", "queued", "generating", "cancelled"},
        stage    : {"none", "probe", "admission", "render", "cleanup"},
        path     : Paths,
        priority : Priorities,
        claims   : [Owners -> Priorities \union {NoClaim}],
        cancelRequested : BOOLEAN]

FreeJob == [status |-> "free", stage |-> "none", path |-> CHOOSE p \in Paths : TRUE,
            priority |-> "background", claims |-> NoClaims,
            cancelRequested |-> FALSE]

TypeOK ==
  /\ job \in [Jobs -> Job]
  /\ ahead \in [Jobs -> SUBSET Jobs]
  /\ byPath \in [Paths -> Jobs \union {NoJob}]
  /\ call \in [Owners -> Request \union {NoCall}]
  /\ late \subseteq Jobs
  /\ lookaheads \in 0..LookaheadBurst
  /\ tick \in BOOLEAN /\ draining \in BOOLEAN /\ suspended \in BOOLEAN
  /\ foreground \in Books \union {NoBook}
  /\ bookOrder \in Seq(Books)

Init ==
  /\ job = [j \in Jobs |-> FreeJob]
  /\ ahead = [j \in Jobs |-> {}]
  /\ byPath = [p \in Paths |-> NoJob]
  /\ call = [o \in Owners |-> NoCall]
  /\ late = {}
  /\ lookaheads = 0
  /\ tick = FALSE /\ draining = FALSE /\ suspended = FALSE
  /\ foreground = NoBook
  /\ bookOrder = <<>>

Queued == {j \in Jobs : job[j].status = "queued"}
Active == {j \in Jobs : job[j].status = "generating"}
Live   == Queued \union Active

ClaimOwners(j) == {o \in Owners : job[j].claims[o] # NoClaim}
Foregrounds(S) == {j \in S : job[j].priority \in Strict}

-----------------------------------------------------------------------------
(* Order of the queue. *)

(* Jobs of M are spliced out and inserted behind their band, in their old  *)
(* order; Q is the queue and pr the priorities afterwards.                 *)
InsertBehind(Q, pr, M) ==
  [j \in Jobs |->
     {k \in Q : /\ j \in Q /\ k # j
                /\ \/ IsHigherPriority(pr[k], pr[j])
                   \/ /\ pr[k] = pr[j]
                      /\ \/ k \notin M /\ j \in M
                         \/ (k \in M <=> j \in M) /\ k \in ahead[j]}]

(* Fault: a promoted job goes to the front of the whole queue. *)
InsertInFront_OfQueue(i, p) ==
  [j \in Jobs |-> IF j = i THEN {} ELSE IF j \in Queued THEN ahead[j] \union {i} ELSE ahead[j]]

(* Job i goes to the front of the band of priority p.                      *)
InsertInFront(i, p) ==
  [j \in Jobs |->
     IF j = i THEN {k \in Queued \ {i} : IsHigherPriority(job[k].priority, p)}
     ELSE IF j \in Queued /\ ~IsHigherPriority(job[j].priority, p)
          THEN ahead[j] \union {i} ELSE ahead[j] \ {i}]

WithoutJob(i) == [j \in Jobs |-> IF j = i THEN {} ELSE ahead[j] \ {i}]

-----------------------------------------------------------------------------
(* enqueue, claim, prioritize *)

(* An owner joins a live job.  Its claim only gains urgency; a more urgent *)
(* claim promotes the job, unless its render has passed the admission.     *)
Join(j, o, p) ==
  LET old    == job[j].claims[o]
      claims == [job[j].claims EXCEPT ![o] =
                   IF old = NoClaim \/ IsHigherPriority(p, old) THEN p ELSE old]
      higher == IsHigherPriority(p, job[j].priority)
      movable == higher /\ (j \in Queued \/ job[j].stage = "admission")
  IN /\ job' = [job EXCEPT ![j].claims = claims,
                           ![j].priority = IF movable THEN p ELSE @]
     /\ ahead' = IF higher /\ j \in Queued THEN InsertInFront(j, p) ELSE ahead
     /\ tick' = (tick \/ (higher /\ j \in Queued))

Claim(j, o, p) ==
  /\ j \in Live
  /\ Join(j, o, p)
  /\ UNCHANGED <<byPath, call, late, lookaheads, draining, suspended, foreground, bookOrder>>

(* enqueue() up to the artifact lookup.                                    *)
EnqueueStart(o, f, p) ==
  /\ call[o] = NoCall
  /\ \/ /\ byPath[f] # NoJob /\ byPath[f] \in Live
        /\ Join(byPath[f], o, p)
        /\ UNCHANGED <<byPath, call>>
     \/ /\ byPath[f] = NoJob \/ byPath[f] \notin Live
        /\ byPath' = [byPath EXCEPT ![f] = NoJob]
        /\ call' = [call EXCEPT ![o] = [path |-> f, priority |-> p]]
        /\ UNCHANGED <<job, ahead, tick>>
  /\ UNCHANGED <<late, lookaheads, draining, suspended, foreground, bookOrder>>

(* Fault: renders that wait in the queue are not counted. *)
LiveForChapter_ActiveOnly(f) ==
  {j \in Active : ClaimOwners(j) # {} /\ ChapterOf[job[j].path] = ChapterOf[f]}

LiveForChapter(f) ==
  {j \in Live : ClaimOwners(j) # {} /\ ChapterOf[job[j].path] = ChapterOf[f]}

(* Fault: the index is not consulted again after the lookup. *)
EnqueueFinish_NoSecondLookup(o, ready) ==
  /\ call[o] # NoCall
  /\ call' = [call EXCEPT ![o] = NoCall]
  /\ \E j \in Jobs :
       /\ job[j].status = "free"
       /\ job' = [job EXCEPT ![j] = [FreeJob EXCEPT
                    !.status = "queued", !.path = call[o].path, !.priority = call[o].priority,
                    !.claims = [NoClaims EXCEPT ![o] = call[o].priority]]]
       /\ ahead' = InsertBehind(Queued \union {j},
                      [k \in Jobs |-> IF k = j THEN call[o].priority ELSE job[k].priority], {j})
       /\ byPath' = [byPath EXCEPT ![call[o].path] = j]
       /\ late' = late \ {j}
  /\ tick' = TRUE
  /\ UNCHANGED <<lookaheads, draining, suspended, foreground, bookOrder>>

(* enqueue() after the lookup: join a job that raced it, or create one if  *)
(* the chapter's window has room for another render.                       *)
EnqueueFinish(o, ready) ==
  /\ call[o] # NoCall
  /\ ready => call[o].path \in Rendered
  /\ call' = [call EXCEPT ![o] = NoCall]
  /\ LET f == call[o].path
         p == call[o].priority
     IN \/ /\ byPath[f] # NoJob /\ byPath[f] \in Live
           /\ Join(byPath[f], o, p)
           /\ UNCHANGED <<byPath, late>>
        \/ /\ byPath[f] = NoJob \/ byPath[f] \notin Live
           /\ ~ready /\ Cardinality(LiveForChapter(f)) >= Window
           /\ byPath' = [byPath EXCEPT ![f] = NoJob]
           /\ UNCHANGED <<job, ahead, tick, late>>
        \/ /\ byPath[f] = NoJob \/ byPath[f] \notin Live
           /\ ready \/ Cardinality(LiveForChapter(f)) < Window
           /\ \E j \in Jobs :
                LET new == [status |-> "queued", stage |-> "none", path |-> f,
                            priority |-> p, claims |-> [NoClaims EXCEPT ![o] = p],
                            cancelRequested |-> FALSE]
                    pr  == [k \in Jobs |-> IF k = j THEN p ELSE job[k].priority]
                IN /\ job[j].status = "free"
                   /\ job' = [job EXCEPT ![j] = new]
                   /\ ahead' = InsertBehind(Queued \union {j}, pr, {j})
                   /\ byPath' = [byPath EXCEPT ![f] = j]
                   /\ late' = late \ {j}
           /\ tick' = TRUE
  /\ UNCHANGED <<lookaheads, draining, suspended, foreground, bookOrder>>

(* The caller's signal aborts the lookup before a job exists.              *)
EnqueueAbort(o) ==
  /\ call[o] # NoCall
  /\ call' = [call EXCEPT ![o] = NoCall]
  /\ UNCHANGED <<job, ahead, byPath, late, lookaheads, tick, draining, suspended,
                 foreground, bookOrder>>

Prioritize(j, p) ==
  /\ \/ /\ j \in Queued
        /\ ~IsHigherPriority(job[j].priority, p)
        /\ job' = [job EXCEPT ![j].priority = p]
        /\ ahead' = InsertInFront(j, p)
        /\ tick' = TRUE
     \/ /\ j \in Active /\ job[j].stage = "admission"
        /\ IsHigherPriority(p, job[j].priority)
        /\ job' = [job EXCEPT ![j].priority = p]
        /\ UNCHANGED <<ahead, tick>>
  /\ UNCHANGED <<byPath, call, late, lookaheads, draining, suspended, foreground, bookOrder>>

-----------------------------------------------------------------------------
(* cancel and cancelWhere *)

(* Fault: only queued jobs are cancelled. *)
AfterCancel_QueuedOnly(j, r) == IF r.status = "queued" THEN FreeJob ELSE r

(* cancel(): a queued job is deleted at once, a generating one is aborted  *)
(* and stays until _processJob has seen the abort and cleaned up.          *)
AfterCancel(j, r) ==
  IF r.status = "queued" THEN FreeJob ELSE [r EXCEPT !.cancelRequested = TRUE]

Cancel(j) ==
  /\ j \in Live
  /\ job' = [job EXCEPT ![j] = AfterCancel(j, @)]
  /\ ahead' = WithoutJob(j)
  /\ byPath' = [f \in Paths |-> IF byPath[f] = j /\ j \in Queued THEN NoJob ELSE byPath[f]]
  /\ late' = late \ {j}
  /\ UNCHANGED <<call, lookaheads, tick, draining, suspended, foreground, bookOrder>>

MostUrgent(claims) ==
  CHOOSE p \in Priorities :
    /\ \E o \in Owners : claims[o] = p
    /\ \A o \in Owners : claims[o] # NoClaim => ~IsHigherPriority(claims[o], p)

(* cancelWhere(): the claims of owners O on jobs of the files F go.  A job *)
(* left without a claim is cancelled, the others take the priority of      *)
(* their most urgent claim and queued ones move behind that band.          *)
CancelWhere(O, F) ==
  LET hit(j)  == j \in Live /\ job[j].path \in F /\ ClaimOwners(j) \intersect O # {}
      kept(j) == [o \in Owners |-> IF o \in O THEN NoClaim ELSE job[j].claims[o]]
      orphan(j) == hit(j) /\ ClaimOwners(j) \subseteq O
      after(j) == IF orphan(j) THEN AfterCancel(j, [job[j] EXCEPT !.claims = NoClaims])
                  ELSE [job[j] EXCEPT !.claims = kept(j), !.priority = MostUrgent(kept(j))]
      next == [j \in Jobs |-> IF hit(j) THEN after(j) ELSE job[j]]
      Q  == {j \in Jobs : next[j].status = "queued"}
      pr == [j \in Jobs |-> next[j].priority]
  IN /\ \E j \in Jobs : hit(j)
     /\ job' = next
     /\ ahead' = InsertBehind(Q, pr, {j \in Q : pr[j] # job[j].priority})
     /\ byPath' = [f \in Paths |->
                     IF byPath[f] \in Queued /\ byPath[f] \notin Q THEN NoJob ELSE byPath[f]]
     /\ late' = late \intersect Q
     /\ UNCHANGED <<call, lookaheads, tick, draining, suspended, foreground, bookOrder>>

-----------------------------------------------------------------------------
(* The reader's order of books and the foreground book. *)

(* prioritizeBook(): each queued job of the book goes to the front of its  *)
(* band, the jobs of the book keeping their order.                         *)
PrioritizeBook(b) ==
  LET mine == {j \in Queued : BookOf[job[j].path] = b}
      before(k, j) == \/ IsHigherPriority(job[k].priority, job[j].priority)
                      \/ /\ job[k].priority = job[j].priority
                         /\ \/ k \in mine /\ j \notin mine
                            \/ (k \in mine <=> j \in mine) /\ k \in ahead[j]
  IN /\ foreground' = b
     /\ ahead' = [j \in Jobs |-> {k \in Queued \ {j} : j \in Queued /\ before(k, j)}]
     /\ tick' = (tick \/ mine # {})
     /\ UNCHANGED <<job, byPath, call, late, lookaheads, draining, suspended, bookOrder>>

ForegroundExpires ==
  /\ foreground # NoBook
  /\ foreground' = NoBook
  /\ UNCHANGED <<job, ahead, byPath, call, late, lookaheads, tick, draining,
                 suspended, bookOrder>>

Distinct(s) == \A m, n \in DOMAIN s : s[m] = s[n] => m = n

SetBookOrder(s) ==
  /\ Distinct(s)
  /\ bookOrder' = s
  /\ tick' = TRUE
  /\ UNCHANGED <<job, ahead, byPath, call, late, lookaheads, draining, suspended, foreground>>

MoveBook(m, n) ==
  /\ {m, n} \subseteq DOMAIN bookOrder /\ (n = m + 1 \/ m = n + 1)
  /\ SetBookOrder([bookOrder EXCEPT ![m] = bookOrder[n], ![n] = bookOrder[m]])

-----------------------------------------------------------------------------
(* _drain *)

Rank(j) ==
  IF \E n \in DOMAIN bookOrder : bookOrder[n] = BookOf[job[j].path]
  THEN CHOOSE n \in DOMAIN bookOrder : bookOrder[n] = BookOf[job[j].path]
  ELSE Len(bookOrder) + 1

FirstIn(S) == {j \in S : ahead[j] \intersect S = {}}

Band(P) == {j \in Queued : job[j].priority \in P}

(* The foreground book wins among downloads, else the reader's order of    *)
(* books, else arrival: all within one band.                               *)
FirstOf(p) ==
  LET preferred == {j \in Band({p}) : p = "download" /\ BookOf[job[j].path] = foreground}
      ranked    == {j \in Band({p}) : \A k \in Band({p}) : Rank(j) <= Rank(k)}
  IN FirstIn(IF preferred # {} THEN preferred ELSE ranked)

DownloadDue == lookaheads >= LookaheadBurst \/ late \intersect Band({"download"}) # {}

(* Fault: aged downloads overtake everything, as lookahead only they may. *)
TakeNextQueuedJob_AgedFirst ==
  LET due == late \intersect Band({"download"})
  IN {j \in Queued : j \in FirstOf(job[j].priority) /\ (due # {} => j \in due)
                     /\ (due = {} => \A k \in Queued :
                            ~IsHigherPriority(job[k].priority, job[j].priority))}

TakeNextQueuedJob ==
  {j \in Queued :
     /\ j \in FirstOf(job[j].priority)
     /\ job[j].priority = "next" => Band({"immediate"}) = {}
     /\ job[j].priority \notin Strict => Band(Strict) = {}
     /\ job[j].priority = "lookahead" => Band({"download"}) = {} \/ ~DownloadDue
     /\ job[j].priority = "download" => Band({"lookahead"}) = {} \/ DownloadDue
     /\ job[j].priority = "background" => Band({"lookahead", "download"}) = {}}

(* One foreground job may start beyond the limit when no foreground job is *)
(* active.                                                                 *)
TakeNextRunnableJob ==
  IF Cardinality(Active) < MaxConcurrent THEN TakeNextQueuedJob
  ELSE IF Foregrounds(Active) # {} THEN {}
  ELSE FirstIn(Foregrounds(Queued))

StartDrain ==
  /\ tick /\ ~draining
  /\ tick' = FALSE
  /\ draining' = ~suspended
  /\ UNCHANGED <<job, ahead, byPath, call, late, lookaheads, suspended, foreground, bookOrder>>

CountLookahead(p) ==
  IF p = "lookahead"
  THEN IF lookaheads < LookaheadBurst THEN lookaheads + 1 ELSE LookaheadBurst
  ELSE IF p = "download" THEN 0 ELSE lookaheads

(* _drain hands the next runnable job to _processJob, which runs up to its *)
(* first await: the probe for audio that is already rendered.              *)
DrainStep ==
  /\ draining
  /\ \/ /\ TakeNextRunnableJob = {}
        /\ draining' = FALSE
        /\ UNCHANGED <<job, ahead, late, lookaheads>>
     \/ \E j \in TakeNextRunnableJob :
          /\ job' = [job EXCEPT ![j].status = "generating", ![j].stage = "probe"]
          /\ ahead' = WithoutJob(j)
          /\ late' = late \ {j}
          /\ lookaheads' = CountLookahead(job[j].priority)
          /\ UNCHANGED draining
  /\ UNCHANGED <<byPath, call, tick, suspended, foreground, bookOrder>>

Suspend ==
  /\ ~suspended
  /\ suspended' = TRUE
  /\ UNCHANGED <<job, ahead, byPath, call, late, lookaheads, tick, draining, foreground, bookOrder>>

-----------------------------------------------------------------------------
(* _processJob *)

Advance(j, from, to) ==
  /\ job[j].stage = from
  /\ ~job[j].cancelRequested
  /\ job' = [job EXCEPT ![j].stage = to]
  /\ UNCHANGED <<ahead, byPath, call, late, lookaheads, tick, draining, suspended,
                 foreground, bookOrder>>

ProbeMiss(j)  == Advance(j, "probe", IF UsesAdmission THEN "admission" ELSE "render")
Admit(j)      == Advance(j, "admission", "render")

DropPath(j) == [f \in Paths |-> IF byPath[f] = j THEN NoJob ELSE byPath[f]]

(* Fault: a failing job does not drain. *)
Settle_NoDrain(j) ==
  /\ j \in Active
  /\ ~job[j].cancelRequested
  /\ job' = [job EXCEPT ![j] = FreeJob]
  /\ byPath' = DropPath(j)
  /\ UNCHANGED <<ahead, call, late, lookaheads, tick, draining, suspended, foreground, bookOrder>>

(* Completion (of a reused or a published output) and failure leave the    *)
(* queue in the same way; the finally clause drains.                       *)
Settle(j) ==
  /\ j \in Active
  /\ ~job[j].cancelRequested
  /\ job' = [job EXCEPT ![j] = FreeJob]
  /\ byPath' = DropPath(j)
  /\ draining' = ~suspended
  /\ UNCHANGED <<ahead, call, late, lookaheads, tick, suspended, foreground, bookOrder>>

Complete(j) == (job[j].stage = "probe" => job[j].path \in Rendered) /\ job[j].stage # "admission"
               /\ Settle(j)
Fail(j)     == job[j].stage \in {"admission", "render"} /\ Settle(j)

(* The abort surfaces at the next await: the job leaves the active set and *)
(* the path index, then awaits the removal of its files.                   *)
Aborted(j) ==
  /\ j \in Active
  /\ job[j].cancelRequested
  /\ job' = [job EXCEPT ![j].status = "cancelled", ![j].stage = "cleanup"]
  /\ byPath' = DropPath(j)
  /\ UNCHANGED <<ahead, call, late, lookaheads, tick, draining, suspended, foreground, bookOrder>>

CleanupDone(j) ==
  /\ job[j].stage = "cleanup"
  /\ job' = [job EXCEPT ![j] = FreeJob]
  /\ draining' = ~suspended
  /\ UNCHANGED <<ahead, byPath, call, late, lookaheads, tick, suspended, foreground, bookOrder>>

(* The clock passes createdAt + downloadMaxWaitMs of a queued download.    *)
GrowLate(j) ==
  /\ j \in Band({"download"}) \ late
  /\ late' = late \union {j}
  /\ UNCHANGED <<job, ahead, byPath, call, lookaheads, tick, draining, suspended,
                 foreground, bookOrder>>

Handler ==
  \/ \E o \in Owners : \E r \in AsksFor[o] :
       \/ EnqueueStart(o, r.path, r.priority)
       \/ \E j \in Jobs : job[j].path = r.path /\ Claim(j, o, r.priority)
  \/ \E o \in Owners : EnqueueAbort(o) \/ \E r \in BOOLEAN : EnqueueFinish(o, r)
  \/ \E j \in Jobs, p \in Promotes : Prioritize(j, p)
  \/ \E j \in Jobs : Cancel(j)
  \/ \E o \in Owners : CancelWhere({o}, Paths) \/ \E f \in Paths : CancelWhere({o}, {f})
  \/ \E b \in Books : \/ CancelWhere(Owners, {f \in Paths : BookOf[f] = b})
                      \/ PrioritizeBook(b)
  \/ \E s \in UNION {[1..n -> Books] : n \in 0..Cardinality(Books)} : SetBookOrder(s)
  \/ \E m, n \in DOMAIN bookOrder : MoveBook(m, n)
  \/ StartDrain \/ Suspend \/ ForegroundExpires
  \/ \E j \in Jobs : GrowLate(j)
  \/ \E j \in Jobs : ProbeMiss(j) \/ Admit(j) \/ Complete(j) \/ Fail(j)
                     \/ Aborted(j) \/ CleanupDone(j)

Next == DrainStep \/ (~draining /\ Handler)

Spec == Init /\ [][Next]_vars

-----------------------------------------------------------------------------
Dying(j) == job[j].cancelRequested

(* A render for an output path exists once: two callers whose lookups race *)
(* end up on one job, and the index finds it (enqueue's second lookup).    *)
OneJobPerPath ==
  \A j \in Live : byPath[job[j].path] = j

(* A slot is never left idle with work queued, once no drain is under way  *)
(* or scheduled and no cancelled job is still removing its files.          *)
NoStall ==
  ~draining /\ ~tick /\ ~suspended /\ (\A j \in Jobs : job[j].stage # "cleanup")
    => Queued = {} \/ Cardinality(Active) >= MaxConcurrent

(* The queue stays one line sorted by urgency, whatever is promoted,       *)
(* demoted, cancelled or reordered in it: the bypass and the background    *)
(* pick both trust its head (_takeNextRunnableJob, _takeNextQueuedJob).    *)
QueueOrdered ==
  \A j, k \in Queued :
    /\ k \in ahead[j] => ~IsHigherPriority(job[j].priority, job[k].priority)
    /\ j # k => (k \in ahead[j] <=> j \notin ahead[k])
    /\ k \in ahead[j] => ahead[k] \subseteq ahead[j]

(* A queued job is as urgent as its most urgent owner asked, after any     *)
(* sequence of joins, releases and promotions (_refreshPriorityFromClaims).*)
QueuedClaimsHonoured ==
  \A j \in Queued, o \in Owners :
    job[j].claims[o] # NoClaim => ~IsHigherPriority(job[j].claims[o], job[j].priority)

(* No chapter has more renders in progress than its materialization        *)
(* window, although the window is checked long after the caller asked.     *)
WindowRespected ==
  \A f \in Paths :
    Cardinality({j \in Live : /\ job[j].path \notin Rendered /\ ~Dying(j)
                              /\ ChapterOf[job[j].path] = ChapterOf[f]}) <= Window

(* Releasing claims leaves no render running for nobody: a job that is not *)
(* being cancelled always has an owner (cancelWhere).                      *)
OwnedOrDying == \A j \in Live : ClaimOwners(j) # {} \/ Dying(j)

(* Claims and renders agree: nobody's claim is forgotten, and no render    *)
(* goes on that nobody claims.                                             *)
ClaimsAccounted == QueuedClaimsHonoured /\ OwnedOrDying

(* Nothing starts ahead of more urgent queued work, except a download that *)
(* overtakes lookahead after a full burst or a long wait.                  *)
UrgentFirst ==
  [][\A j \in Active' \ Active, k \in Queued' :
       IsHigherPriority(job[k].priority, job[j].priority) =>
         /\ job[j].priority = "download" /\ job[k].priority = "lookahead"
         /\ lookaheads = LookaheadBurst \/ late # {}]_vars
=============================================================================
