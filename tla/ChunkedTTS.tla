------------------------------ MODULE ChunkedTTS ------------------------------
(***************************************************************************)
(* One chapter of one book in lib/chunked-tts.js, with its record in       *)
(* lib/generation-journal.js and the prepare job that server.js shares     *)
(* between the consumers of the whole chapter.                             *)
(*                                                                         *)
(* generateChapter builds a manifest of the chapter's chunks and gives it  *)
(* a plan: the owners it renders for.  Rounds of a pump enqueue its chunks *)
(* a few at a time; events of the queue come back through _jobMap to the   *)
(* manifest that is current then, which may be a later one.  A job is      *)
(* known by its chunk, since at most one is live per output path; a chunk  *)
(* that holds the id of a job that has ended is "lost".                    *)
(*                                                                         *)
(* A handler runs to its next await.  Journal writes take effect in the    *)
(* order of their calls (lib/json-store.js), hence at the call.  Text,     *)
(* voice and priorities other than a listener's are left out.              *)
(***************************************************************************)
EXTENDS Naturals, FiniteSets, Sequences

CONSTANTS
  Chunks,      \* 1 .. n
  Consumers,   \* requests for the whole chapter, each with a request id
  Listener,    \* playback: no request id, never retired, not durable
  Anon,        \* a claim without origin or request
  Limit,       \* maxMaterializedChunks
  MaxBuilds,   \* bound: manifests built
  Recoveries,  \* chapterLivenessRecoveries
  Scenes       \* bound: how often each request and mishap may come

Owners    == Consumers \union {Listener, Anon}
Durable   == Consumers \union {Anon}
Manifests == 1 .. MaxBuilds
None      == 0
Calls     == {"prep", "listen", "resume"}
Signals   == Consumers \union {"none", "prep"}
Held      == {"queued", "generating"}
Mishaps   == {"ask", "listen", "leave", "release", "resume",
              "fail", "delete", "quiesce", "crash", "invalidate"}

ASSUME ChunkedAssumption ==
  /\ IsFiniteSet(Chunks) /\ Chunks = 1 .. Cardinality(Chunks) /\ Limit \in Nat \ {0}
  /\ Listener # Anon /\ {Listener, Anon} \intersect Consumers = {}
  /\ {"none", "prep"} \intersect Consumers = {}
  /\ MaxBuilds \in Nat /\ Recoveries \in Nat
  /\ Scenes \subseteq [Mishaps -> Nat]

VARIABLES
  journal,   \* the chapter's record: its claims, and whether it is quarantined
  retired,   \* _retiredRequestIds
  released,  \* requests whose releaseRequestClaims has returned
  book,      \* _deletedBooks and _bookEpochs
  audio,     \* chunks whose file exists
  current,   \* manifests.get(key)
  builds,    \* manifests built so far
  chunk,     \* chunk[m][c]: status and job of a manifest's chunk
  plan,      \* plan[m]: manifest._generation
  due,       \* due[m]: signals of the rounds chained to m's pump
  round,     \* round[m]: the round that awaits enqueue for Head(todo)
  refused,   \* signals whose round ended in an AbortError
  job,       \* the queue's jobs
  route,     \* _jobMap
  call,      \* generateChapter, or the prepare job around it
  prep,      \* chapterAudioPrepareJobs.get(key)
  joining,   \* joining[o]: claimChapter for the owner o
  consumer,  \* what became of each consumer ("gone": its signal aborted)
  quiescing, \* quiesceChapter awaits these jobs
  strands,   \* strandedChecks
  left

durableVars == <<journal, audio>>
queueVars   == <<job, route>>
pumpVars    == <<due, round, refused>>
callVars    == <<call, prep, joining, consumer, strands>>
manifestVars == <<current, builds, chunk, plan>>
claimVars   == <<retired, released, book>>
vars == <<durableVars, queueVars, pumpVars, callVars, manifestVars, claimVars, quiescing, left>>

NoJob   == [st |-> "free", dying |-> FALSE, claims |-> {}]
NoPlan  == [on |-> FALSE, claims |-> {}, base |-> Anon, halted |-> FALSE,
            cancelled |-> FALSE, waiting |-> FALSE, urgent |-> {}]
NoRound == [on |-> FALSE, sig |-> "none", todo |-> <<>>, owner |-> Anon, epoch |-> 0]
NoCall  == [pc |-> "off", lead |-> Anon, creator |-> Anon, claims |-> {}, epoch |-> 0,
            was |-> None, mine |-> None, seen |-> {}]
NoPrep  == [open |-> FALSE, consumers |-> {}, aborted |-> FALSE]
NoClaim == [pc |-> "none", m |-> None, sig |-> "none", changed |-> FALSE]
NoRecord == [claims |-> {}, held |-> FALSE]
Fresh   == [c \in Chunks |-> "pending"]

TypeOK ==
  /\ journal \in [claims : SUBSET Owners, held : BOOLEAN]
  /\ retired \subseteq Consumers /\ released \subseteq retired
  /\ book \in [deleted : BOOLEAN, epoch : Nat]
  /\ audio \subseteq Chunks /\ route \subseteq Chunks /\ quiescing \subseteq Chunks \union {0}
  /\ builds \in 0 .. MaxBuilds /\ current \in 0 .. builds
  /\ chunk \in [Manifests -> [Chunks -> {"pending", "lost", "ready", "error"} \union Held]]
  /\ plan \in [Manifests -> [on : BOOLEAN, claims : SUBSET Owners, base : Owners,
                 halted : BOOLEAN, cancelled : BOOLEAN, waiting : BOOLEAN,
                 urgent : SUBSET Chunks]]
  /\ due \in [Manifests -> SUBSET Signals] /\ refused \subseteq Signals
  /\ round \in [Manifests -> [on : BOOLEAN, sig : Signals, todo : Seq(Chunks),
                              owner : Owners, epoch : Nat]]
  /\ job \in [Chunks -> [st : {"free"} \union Held, dying : BOOLEAN, claims : SUBSET Owners]]
  /\ call \in [Calls -> [pc : {"off", "load", "plan", "put", "build", "persist", "pump",
                               "claim", "wait"},
                         lead : Owners, creator : Owners, claims : SUBSET Owners, epoch : Nat,
                         was : 0 .. MaxBuilds, mine : 0 .. MaxBuilds, seen : SUBSET Chunks]]
  /\ prep \in [open : BOOLEAN, consumers : SUBSET Consumers, aborted : BOOLEAN]
  /\ joining \in [Consumers -> [pc : {"none", "adding", "pump"}, m : 0 .. MaxBuilds,
                                sig : Signals, changed : BOOLEAN]]
  /\ consumer \in [Consumers -> {"idle", "waiting", "done", "failed", "gone"}]
  /\ strands \in 0 .. Recoveries

Init ==
  /\ journal = NoRecord /\ retired = {} /\ released = {}
  /\ book = [deleted |-> FALSE, epoch |-> 0]
  /\ audio = {} /\ current = None /\ builds = 0
  /\ chunk = [m \in Manifests |-> Fresh] /\ plan = [m \in Manifests |-> NoPlan]
  /\ due = [m \in Manifests |-> {}] /\ round = [m \in Manifests |-> NoRound]
  /\ refused = {} /\ job = [c \in Chunks |-> NoJob] /\ route = {}
  /\ call = [k \in Calls |-> NoCall] /\ prep = NoPrep
  /\ joining = [o \in Consumers |-> NoClaim]
  /\ consumer = [o \in Consumers |-> "idle"]
  /\ quiescing = {} /\ strands = 0
  /\ left \in Scenes

Spend(what) == left[what] > 0 /\ left' = [left EXCEPT ![what] = @ - 1]

-----------------------------------------------------------------------------
(* What the code asks of manifests, signals and claims. *)

Aborted(s) == \/ s = "prep" /\ (prep.aborted \/ ~prep.open)
              \/ s \in Consumers /\ consumer[s] = "gone"

Complete(m) == \A c \in Chunks : chunk[m][c] = "ready"
Running(c)  == job[c].st # "free"

(* Fault: a chunk that holds a job's id is live, whatever became of the job.*)
HasLiveWork_AnyId(m) == \E c \in Chunks : chunk[m][c] \in Held \union {"lost"}
(* _chapterHasLiveQueueWork                                                *)
HasLiveWork(m) ==
  \/ plan[m].waiting /\ \E c \in Chunks : Running(c)
  \/ \E c \in Chunks : chunk[m][c] \in Held

(* No manifest, or one that only a new generation can complete.            *)
NeedsResume(m) ==
  IF m = None THEN TRUE
  ELSE LET bad == IF plan[m].on /\ ~plan[m].halted /\ ~plan[m].cancelled
                  THEN {"error", "lost"} ELSE {"error", "lost", "pending"}
       IN \E c \in Chunks : chunk[m][c] \in bad

(* Whose claim a chunk is enqueued under.                                  *)
Live(m)      == plan[m].claims \ retired
Primaries(m) == IF Live(m) = {} THEN {plan[m].base}
                ELSE IF Listener \in Live(m) THEN {Listener} ELSE Live(m)

(* A job that loses its last claim is cancelled.                           *)
Unclaimed(r, O) ==
  IF r.st = "free" \/ r.claims \intersect O = {} THEN r
  ELSE IF r.claims \subseteq O
       THEN IF r.st = "queued" THEN NoJob ELSE [r EXCEPT !.dying = TRUE, !.claims = {}]
       ELSE [r EXCEPT !.claims = @ \ O]

Cancelled(r) == IF r.st = "generating" THEN [r EXCEPT !.dying = TRUE] ELSE NoJob

Ended(new) == {c \in Chunks : Running(c) /\ new[c].st = "free"}

Forget(ch, D) ==
  [m \in Manifests |-> [c \in Chunks |->
     IF c \in D /\ ch[m][c] \in Held THEN "lost" ELSE ch[m][c]]]

(* A settled job revives a manifest that waits for capacity.               *)
Revive(d, D) ==
  IF D # {} /\ current # None /\ plan[current].waiting
  THEN [d EXCEPT ![current] = @ \union {"none"}] ELSE d

Pump(m, s) == due' = [due EXCEPT ![m] = @ \union {s}]

-----------------------------------------------------------------------------
(* The journal. *)

(* Fault: a claim that is removed takes the record along.                  *)
Erase_Whole(O) == journal' = IF journal.claims \intersect O = {} THEN journal ELSE NoRecord

Erase(O) ==
  LET kept == journal.claims \ O
  IN journal' = [claims |-> kept, held |-> journal.held /\ kept # {}]

Put(o) == journal' = [journal EXCEPT !.claims = @ \union {o}]

(* Fault: joining a record is left to the next write of an intent.         *)
Adds_NoRecord(O) == {}

(* addChapterClaim: only a record that exists, and is not quarantined.     *)
Adds(O) == IF journal.claims = {} \/ journal.held THEN {} ELSE O
Add(O) == journal' = [journal EXCEPT !.claims = @ \union Adds(O)]

RecordFailure ==
  \E permanent \in BOOLEAN :
    journal' = [journal EXCEPT !.held = @ \/ (permanent /\ journal.claims # {})]

At(k, pc) == call[k].pc = pc

(* The prepare job settles: its consumers hear, and the record goes.       *)
Answer(what) ==
  /\ prep' = NoPrep
  /\ consumer' = [o \in Consumers |-> IF o \in prep.consumers THEN what ELSE consumer[o]]

Stop(k, what) ==
  /\ call' = [call EXCEPT ![k] = NoCall]
  /\ refused' = IF k = "prep" THEN refused \ {"prep"} ELSE refused
  /\ strands' = IF k = "prep" THEN 0 ELSE strands
  /\ IF k = "prep" THEN Answer(what) ELSE UNCHANGED <<prep, consumer>>
  /\ UNCHANGED joining

(* waitForChapter hears an event of the chapter.                           *)
Hear(event, what) ==
  IF event /\ At("prep", "wait") /\ ~prep.aborted THEN Stop("prep", what)
  ELSE UNCHANGED <<callVars, refused>>

-----------------------------------------------------------------------------
(* Rounds of the pump (_pumpManifestNow). *)

(* The chapter's order, but what was brought forward comes first.          *)
Before(m, c, d) ==
  LET urgent == plan[m].urgent
  IN IF c \in urgent <=> d \in urgent THEN c < d ELSE c \in urgent

Ahead(m, S, c)  == Cardinality({d \in S : Before(m, d, c)})
FirstOf(m, S, n) == {c \in S : Ahead(m, S, c) < n}
InTurn(m, S) == [i \in 1 .. Cardinality(S) |-> CHOOSE c \in S : Ahead(m, S, c) = i - 1]

Adoptable(c) == c \in audio

Pumpable(m) == plan[m].on /\ ~plan[m].halted /\ ~plan[m].cancelled
               /\ plan[m].claims # {} /\ ~book.deleted

(* The turn of the next chunk: up to the await of enqueue.                 *)
Turn(m, s, todo) ==
  IF todo = <<>> \/ plan'[m].claims = {} THEN round' = [round EXCEPT ![m] = NoRound]
  ELSE \E o \in Primaries(m) :
         round' = [round EXCEPT ![m] = [on |-> TRUE, sig |-> s, todo |-> todo,
                                        owner |-> o, epoch |-> book.epoch]]

StartRound(m, s) ==
  /\ s \in due[m] /\ ~round[m].on /\ Pumpable(m) /\ ~Aborted(s)
  /\ LET lost    == {c \in Chunks : chunk[m][c] = "lost"}
         adopted == {c \in lost : Adoptable(c)}
         ch      == [c \in Chunks |-> IF c \in adopted THEN "ready"
                                      ELSE IF c \in lost THEN "pending" ELSE chunk[m][c]]
         settled == adopted # {} /\ \A c \in Chunks : ch[c] = "ready"
         desired == FirstOf(m, {c \in Chunks : ch[c] \notin {"ready", "error"}}, Limit)
         (* _rebalanceMaterializedChunks: what is no longer wanted makes room *)
         victims == IF \E c \in desired : ch[c] = "pending"
                    THEN {c \in Chunks \ desired : ch[c] = "queued"} ELSE {}
         kept    == [c \in Chunks |-> IF c \in victims THEN "pending" ELSE ch[c]]
         free    == Limit - Cardinality({c \in Chunks : kept[c] \in Held})
         next    == FirstOf(m, {c \in Chunks : kept[c] = "pending"}, free)
         jobs    == [c \in Chunks |-> IF c \in victims THEN Cancelled(job[c]) ELSE job[c]]
     IN /\ job' = jobs
        /\ route' = route \ victims
        /\ chunk' = Forget([chunk EXCEPT ![m] = kept], Ended(jobs))
        /\ plan' = [plan EXCEPT ![m].waiting = FALSE]
        /\ due' = [Revive(due, Ended(jobs)) EXCEPT ![m] = @ \ {s}]
        /\ IF settled
           THEN journal' = NoRecord /\ UNCHANGED round
           ELSE /\ Turn(m, s, InTurn(m, next))
                /\ UNCHANGED journal
        /\ Hear(settled, "done")
  /\ UNCHANGED <<audio, current, builds, claimVars, quiescing, left>>

(* Nothing to do, or the caller is gone.                                   *)
SkipRound(m, s) ==
  /\ s \in due[m] /\ ~round[m].on /\ (~Pumpable(m) \/ Aborted(s))
  /\ due' = [due EXCEPT ![m] = @ \ {s}]
  /\ refused' = IF Pumpable(m) THEN refused \union ({s} \ {"none"}) ELSE refused
  /\ UNCHANGED <<round, durableVars, queueVars, callVars, manifestVars, claimVars, quiescing, left>>

(* _assertMaterializationCurrent *)
StillCurrent(m) ==
  round[m].epoch = book.epoch /\ ~book.deleted /\ ~plan[m].cancelled /\ ~Aborted(round[m].sig)

EndRound(m) == round' = [round EXCEPT ![m] = NoRound]
RefuseRound(m) ==
  EndRound(m) /\ refused' = refused \union ({round[m].sig} \ {"none"})

Window == Cardinality({c \in Chunks : Running(c) /\ job[c].claims # {}})

(* The job of enqueue(): joined if its path is live, else created.         *)
Enqueued(c, O) == IF Running(c) THEN [job[c] EXCEPT !.claims = @ \union O]
                  ELSE [NoJob EXCEPT !.st = "queued", !.claims = O]

(* Fault: the owner that was captured before enqueue is still believed.    *)
Late_Nobody(o) == {}
Late(o) == retired \intersect {o}

(* After enqueue: the claims of now join, and one retired meanwhile leaves.*)
Materialize(m) ==
  /\ round[m].on /\ StillCurrent(m)
  /\ LET c  == Head(round[m].todo)
         o  == round[m].owner
         in == {o} \union Live(m)
               \union IF o \in retired /\ Live(m) = {} /\ plan[m].claims # {} THEN {Anon} ELSE {}
         jobs == [job EXCEPT ![c] = Unclaimed(Enqueued(c, in), Late(o))]
     IN /\ Running(c) \/ Window < Limit
        /\ job' = jobs
        /\ chunk' = Forget([chunk EXCEPT ![m][c] = "queued"],
                           IF jobs[c].st = "free" THEN {c} ELSE {})
        /\ route' = IF jobs[c].st = "free" THEN route \ {c} ELSE route \union {c}
        /\ due' = Revive(due, Ended(jobs))
        /\ UNCHANGED <<plan, current, builds>>
        /\ Turn(m, round[m].sig, Tail(round[m].todo))
  /\ UNCHANGED <<refused, durableVars, callVars, claimVars, quiescing, left>>

(* The chapter's window is full of earlier renders: wait for one to settle.*)
AtCapacity(m) ==
  /\ round[m].on /\ ~Aborted(round[m].sig) /\ round[m].epoch = book.epoch
  /\ ~Running(Head(round[m].todo)) /\ Window >= Limit
  /\ plan' = [plan EXCEPT ![m].waiting = TRUE]
  /\ EndRound(m)
  /\ UNCHANGED <<due, refused, current, builds, chunk, durableVars, queueVars, callVars,
                 claimVars, quiescing, left>>

(* The claim that enqueue made is released again (a job made for it goes). *)
Retire(m) ==
  LET c == Head(round[m].todo)
  IN job' = [job EXCEPT ![c] = Unclaimed(@, {round[m].owner})]

(* The signal, or cancelBook, aborts the lookup; a cancelled plan is only  *)
(* noticed after it.                                                       *)
AbandonMaterialize(m) ==
  /\ round[m].on /\ ~StillCurrent(m)
  /\ RefuseRound(m)
  /\ IF Aborted(round[m].sig) \/ round[m].epoch # book.epoch \/ ~Running(Head(round[m].todo))
     THEN UNCHANGED job ELSE Retire(m)
  /\ chunk' = Forget(chunk, Ended(job'))
  /\ route' = route \ Ended(job')
  /\ due' = Revive(due, Ended(job'))
  /\ UNCHANGED <<current, builds, plan, durableVars, callVars, claimVars, quiescing, left>>

(* _failManifestScheduling *)
MaterializeFails(m) ==
  /\ round[m].on /\ StillCurrent(m) /\ Spend("fail")
  /\ EndRound(m)
  /\ plan' = [plan EXCEPT ![m].halted = TRUE]
  /\ LET pending == {c \in Chunks : chunk[m][c] = "pending"}
         first == CHOOSE c \in pending : \A d \in pending : c <= d
     IN chunk' = IF pending = {} THEN chunk ELSE [chunk EXCEPT ![m][first] = "error"]
  /\ RecordFailure
  /\ Hear(TRUE, "failed")
  /\ UNCHANGED <<due, audio, current, builds, queueVars, claimVars, quiescing>>

-----------------------------------------------------------------------------
(* Events of the queue. *)

Routed(c) == /\ c \in route /\ ~book.deleted /\ current # None
             /\ chunk[current][c] \in Held

JobStarts(c) ==
  /\ job[c].st = "queued"
  /\ job' = [job EXCEPT ![c].st = "generating"]
  /\ IF Routed(c)
     THEN chunk' = [chunk EXCEPT ![current][c] = "generating"] /\ UNCHANGED route
     ELSE route' = route \ {c} /\ UNCHANGED chunk
  /\ UNCHANGED <<current, builds, plan, durableVars, pumpVars, callVars, claimVars, quiescing, left>>

(* The job of c ends, and the current manifest's chunk becomes st.         *)
Settle(c, st) ==
  /\ job' = [job EXCEPT ![c] = NoJob]
  /\ route' = route \ {c}
  /\ chunk' = Forget(IF Routed(c) THEN [chunk EXCEPT ![current][c] = st] ELSE chunk, {c})

JobCompletes(c) ==
  /\ job[c].st = "generating" /\ ~job[c].dying
  /\ Settle(c, "ready")
  /\ IF book.deleted /\ c \in route THEN UNCHANGED audio ELSE audio' = audio \union {c}
  /\ LET all == Routed(c) /\ \A d \in Chunks \ {c} : chunk[current][d] = "ready"
     IN /\ journal' = IF all THEN NoRecord ELSE journal
        /\ IF Routed(c) /\ ~all THEN Pump(current, "none") ELSE due' = Revive(due, {c})
        /\ Hear(all, "done")
  /\ UNCHANGED <<round, current, builds, plan, claimVars, quiescing, left>>

(* _processJob saw the cancellation: only "settled" is emitted.            *)
JobStops(c) ==
  /\ job[c].dying
  /\ job' = [job EXCEPT ![c] = NoJob]
  /\ route' = route \ {c}
  /\ chunk' = Forget(chunk, {c})
  /\ due' = Revive(due, {c})
  /\ UNCHANGED <<round, refused, current, builds, plan, durableVars, callVars, claimVars,
                 quiescing, left>>

JobFails(c) ==
  /\ job[c].st = "generating" /\ ~job[c].dying /\ Spend("fail")
  /\ Settle(c, "error")
  /\ IF Routed(c)
     THEN RecordFailure /\ plan' = [plan EXCEPT ![current].halted = TRUE]
     ELSE UNCHANGED <<journal, plan>>
  /\ due' = Revive(due, {c})
  /\ Hear(Routed(c), "failed")
  /\ UNCHANGED <<round, audio, current, builds, claimVars, quiescing>>

Stranded(m) == ~HasLiveWork(m)

(* reconcile(): every reconcileIntervalMs.                                 *)
Reconcile ==
  /\ current # None /\ ~book.deleted
  /\ plan[current].on /\ ~plan[current].halted /\ ~plan[current].cancelled
  /\ \E c \in Chunks : chunk[current][c] \notin {"ready", "error"}
  /\ Stranded(current)
  /\ "none" \notin due[current]
  /\ Pump(current, "none")
  /\ UNCHANGED <<round, refused, durableVars, queueVars, callVars, manifestVars, claimVars,
                 quiescing, left>>

-----------------------------------------------------------------------------
(* generateChapter, step by step. *)

Wanted(k) == IF k = "prep" THEN prep.consumers \ retired ELSE call[k].claims

(* refreshClaims: the call is still wanted, by somebody, for this book.    *)
Fresh_AnyEpoch(k) == k = "prep" => ~prep.aborted /\ Wanted(k) # {}
IsFresh(k) ==
  /\ call[k].epoch = book.epoch /\ ~book.deleted
  /\ IF k = "prep" THEN ~prep.aborted /\ Wanted(k) # {} ELSE call[k].lead \notin retired

Leads(k) == IF k = "prep" THEN Wanted(k) ELSE {call[k].lead}

(* Every call that may still build a manifest finds one free.              *)
Room == builds + Cardinality({k \in Calls : call[k].pc \in {"load", "plan", "put", "build"}})
          < MaxBuilds

Goto(k, pc) == call' = [call EXCEPT ![k].pc = pc]

(* An AbortError takes the claim of the call's creator out of the journal. *)
Abort(k) == Erase({call[k].creator}) /\ Stop(k, "failed")

Generate(k, lead, claims) ==
  /\ call' = [call EXCEPT ![k] = [NoCall EXCEPT !.pc = "plan", !.epoch = book.epoch,
                !.lead = lead, !.creator = lead, !.claims = claims]]
  /\ book' = [book EXCEPT !.deleted = FALSE]

(* The text is planned; the intent goes to the journal.                    *)
PutIntent(k) ==
  /\ At(k, "plan")
  /\ \/ /\ ~IsFresh(k)
        /\ Abort(k)
     \/ /\ IsFresh(k) /\ journal.held
        /\ IF call[k].creator \in retired THEN Erase({call[k].creator}) ELSE UNCHANGED journal
        /\ Stop(k, "failed")
     \/ /\ IsFresh(k) /\ ~journal.held
        /\ \E o \in Leads(k) :
             Put(o) /\ call' = [call EXCEPT ![k].pc = "put", ![k].lead = o]
        /\ UNCHANGED <<refused, prep, joining, consumer, strands>>
  /\ UNCHANGED <<audio, queueVars, due, round, manifestVars, claimVars, quiescing, left>>

(* The lead may have been retired meanwhile; every owner is made durable.  *)
Recorded(k) ==
  LET lead == IF call[k].lead \in retired THEN Leads(k) ELSE {call[k].lead}
  IN (journal.claims \ (retired \intersect {call[k].lead})) \union lead

Building == \E k \in Calls : At(k, "build")

StartBuild(k) ==
  /\ At(k, "put") /\ ~Building
  /\ \/ ~IsFresh(k) /\ Abort(k)
     \/ /\ IsFresh(k)
        /\ LET rec == IF call[k].lead \in retired THEN Recorded(k) ELSE journal.claims
               more == IF rec = {} \/ journal.held \/ k = "listen" THEN {} ELSE Wanted(k) \ retired
           IN journal' = [journal EXCEPT !.claims = rec \union more]
        /\ call' = [call EXCEPT ![k].pc = "build", ![k].was = current, ![k].seen = audio]
        /\ UNCHANGED <<refused, prep, joining, consumer, strands>>
  /\ UNCHANGED <<audio, queueVars, due, round, manifestVars, claimVars, quiescing, left>>

(* _buildManifestNow looked at each chunk's file somewhere in between.     *)
EndBuild(k) ==
  /\ At(k, "build")
  /\ \/ /\ ~IsFresh(k)
        /\ Abort(k) /\ UNCHANGED manifestVars
     \/ /\ IsFresh(k)
        /\ builds' = builds + 1 /\ current' = builds'
        /\ \E ready \in SUBSET (call[k].seen \union audio) :
             /\ call[k].seen \intersect audio \subseteq ready
             /\ chunk' = [chunk EXCEPT ![builds'] =
                            [c \in Chunks |-> IF c \in ready THEN "ready" ELSE "pending"]]
        /\ Add(IF k = "listen" THEN {} ELSE Wanted(k) \ retired)
        /\ call' = [call EXCEPT ![k].pc = "persist", ![k].mine = builds']
        /\ UNCHANGED <<refused, prep, joining, consumer, strands, plan>>
  /\ UNCHANGED <<audio, queueVars, due, round, claimVars, quiescing, left>>

Installed(k) == IF k = "listen" THEN {call[k].lead} ELSE Wanted(k)

Install(k) ==
  /\ At(k, "persist")
  /\ LET m == call[k].mine
         was == IF call[k].epoch = book.epoch /\ ~book.deleted THEN call[k].was ELSE None
     IN \/ /\ ~IsFresh(k)
           /\ Abort(k)
           /\ current' = IF current = m THEN was ELSE current
           /\ UNCHANGED <<due, plan>>
        \/ /\ IsFresh(k)
           /\ \E o \in Leads(k) :
                plan' = [plan EXCEPT ![m] = [NoPlan EXCEPT !.on = TRUE,
                            !.claims = Installed(k), !.base = o]]
           /\ Pump(m, IF k = "prep" THEN "prep" ELSE "none")
           /\ IF Complete(m) THEN journal' = NoRecord ELSE UNCHANGED journal
           /\ UNCHANGED current
           /\ IF k = "prep"
              THEN Goto(k, "pump") /\ UNCHANGED <<refused, prep, joining, consumer, strands>>
              ELSE Stop(k, "done")
  /\ UNCHANGED <<audio, queueVars, round, builds, chunk, claimVars, quiescing, left>>

-----------------------------------------------------------------------------
(* The shared prepare job (ensureChapterAudioPrepared) and claimChapter. *)

(* claimChapter up to the journal's answer.                                *)
StartClaim(o, s) ==
  IF current = None THEN UNCHANGED <<journal, joining>>
  ELSE /\ Add({o})
       /\ joining' = [joining EXCEPT ![o] = [pc |-> "adding", m |-> current, sig |-> s,
                        changed |-> o \in Adds({o}) \ journal.claims]]

Request(o) ==
  /\ consumer[o] = "idle" /\ o \notin retired /\ Spend("ask")
  /\ consumer' = [consumer EXCEPT ![o] = "waiting"]
  /\ IF prep.open
     THEN /\ prep' = [prep EXCEPT !.consumers = @ \union {o}]
          /\ StartClaim(o, o)
          /\ UNCHANGED call
     ELSE /\ Room
          /\ prep' = [open |-> TRUE, consumers |-> {o}, aborted |-> FALSE]
          /\ call' = [call EXCEPT !["prep"] = [NoCall EXCEPT !.pc = "load", !.creator = o]]
          /\ UNCHANGED <<journal, joining>>
  /\ UNCHANGED <<strands, audio, queueVars, pumpVars, manifestVars, claimVars, quiescing>>

(* Book and chapter are loaded: generate, or claim what is generated.      *)
Prepare ==
  /\ At("prep", "load")
  /\ \/ /\ prep.aborted
        /\ Stop("prep", "failed")
        /\ UNCHANGED <<book, journal>>
     \/ /\ ~prep.aborted /\ NeedsResume(current)
        /\ IF Wanted("prep") = {} THEN Abort("prep") /\ book' = [book EXCEPT !.deleted = FALSE]
           ELSE /\ Generate("prep", call["prep"].creator, {})
                /\ UNCHANGED <<journal, refused, prep, joining, consumer, strands>>
     \/ /\ ~prep.aborted /\ ~NeedsResume(current)
        /\ LET o == call["prep"].creator
           IN IF o \in retired THEN Stop("prep", "failed") /\ UNCHANGED journal
              ELSE StartClaim(o, "prep") /\ Goto("prep", "claim")
                   /\ UNCHANGED <<refused, prep, consumer, strands>>
        /\ UNCHANGED book
  /\ UNCHANGED <<retired, released, audio, queueVars, due, round, manifestVars, quiescing, left>>

Unwanted(o) == o \in retired \/ Aborted(joining[o].sig)

UndoClaim(o) == IF joining[o].changed THEN Erase({o}) ELSE UNCHANGED journal

FailClaim(o) ==
  /\ joining' = [joining EXCEPT ![o] = NoClaim]
  /\ IF joining[o].sig = "prep"
     THEN refused' = refused \union {"prep"} /\ UNCHANGED <<prep, consumer>>
     ELSE /\ refused' = refused \ {o}
          /\ prep' = [prep EXCEPT !.consumers = @ \ {o}, !.aborted = @ \/ prep.consumers = {o}]
          /\ consumer' = [consumer EXCEPT ![o] = IF @ = "waiting" THEN "failed" ELSE @]
  /\ UNCHANGED <<call, strands>>

(* claimChapter after the journal's answer: plan, jobs, then a round.      *)
Claim(o) ==
  /\ joining[o].pc = "adding"
  /\ \/ /\ Unwanted(o)
        /\ UndoClaim(o) /\ FailClaim(o)
        /\ UNCHANGED <<job, due, plan>>
     \/ /\ ~Unwanted(o)
        /\ LET m == joining[o].m
           IN /\ plan' = IF plan[m].on THEN [plan EXCEPT ![m].claims = @ \union {o}] ELSE plan
              /\ job' = [c \in Chunks |-> IF chunk[m][c] \in Held /\ Running(c)
                                          THEN [job[c] EXCEPT !.claims = @ \union {o}] ELSE job[c]]
              /\ IF plan[m].on THEN Pump(m, joining[o].sig) ELSE UNCHANGED due
        /\ joining' = [joining EXCEPT ![o].pc = "pump"]
        /\ UNCHANGED <<journal, refused, call, prep, consumer, strands>>
  /\ UNCHANGED <<audio, route, round, current, builds, chunk, claimVars, quiescing, left>>

Pumped(m, s) == s \notin due[m] /\ (round[m].on => round[m].sig # s)

(* claimChapter after its round; a round that was aborted undoes the claim.*)
Claimed(o) ==
  LET s == joining[o].sig
      jobs == [c \in Chunks |-> IF chunk[joining[o].m][c] \in Held THEN Unclaimed(job[c], {o})
                                ELSE job[c]]
  IN /\ joining[o].pc = "pump" /\ Pumped(joining[o].m, s)
     /\ \/ /\ s \notin refused
           /\ joining' = [joining EXCEPT ![o] = NoClaim]
           /\ UNCHANGED <<journal, job, route, chunk, due, refused, call, prep, consumer, strands>>
        \/ /\ s \in refused
           /\ UndoClaim(o) /\ FailClaim(o)
           /\ job' = jobs /\ route' = route \ Ended(jobs)
           /\ chunk' = Forget(chunk, Ended(jobs))
           /\ due' = Revive(due, Ended(jobs))
     /\ UNCHANGED <<audio, round, current, builds, plan, claimVars, quiescing, left>>

(* The job's own claim or first round is over: wait for the chapter.       *)
Await ==
  /\ \/ At("prep", "pump") /\ Pumped(call["prep"].mine, "prep")
     \/ At("prep", "claim") /\ joining[call["prep"].creator].sig # "prep"
  /\ IF "prep" \in refused \/ (At("prep", "pump") /\ ~IsFresh("prep"))
     THEN IF At("prep", "pump") THEN Abort("prep") ELSE Stop("prep", "failed") /\ UNCHANGED journal
     ELSE Goto("prep", "wait") /\ UNCHANGED <<journal, refused, prep, joining, consumer, strands>>
  /\ UNCHANGED <<audio, queueVars, due, round, manifestVars, claimVars, quiescing, left>>

(* waitForChapter ends on the abort, or on the state it or its liveness    *)
(* check finds.                                                            *)
EndWait ==
  /\ At("prep", "wait")
  /\ \/ ~prep.aborted /\ current # None /\ Complete(current) /\ Stop("prep", "done")
     \/ /\ \/ prep.aborted \/ current = None
           \/ current # None /\ \E c \in Chunks : chunk[current][c] = "error"
        /\ Stop("prep", "failed")
  /\ UNCHANGED <<durableVars, queueVars, due, round, manifestVars, claimVars, quiescing, left>>

(* checkLiveness finds no work: pump again, a bounded number of times.     *)
CheckLiveness ==
  /\ At("prep", "wait") /\ ~prep.aborted
  /\ current # None /\ ~Complete(current)
  /\ \A c \in Chunks : chunk[current][c] # "error"
  /\ ~HasLiveWork(current)
  /\ IF strands < Recoveries
     THEN /\ strands' = strands + 1 /\ Pump(current, "none")
          /\ UNCHANGED <<call, prep, joining, consumer, refused>>
     ELSE Stop("prep", "failed") /\ UNCHANGED due
  /\ UNCHANGED <<durableVars, queueVars, round, manifestVars, claimVars, quiescing, left>>

-----------------------------------------------------------------------------
(* What the callers may do at any time. *)

(* A consumer's signal aborts; the last one takes the prepare job along.   *)
Leave(o) ==
  /\ consumer[o] = "waiting" /\ Spend("leave")
  /\ consumer' = [consumer EXCEPT ![o] = "gone"]
  /\ prep' = IF o \in prep.consumers
             THEN [prep EXCEPT !.consumers = @ \ {o}, !.aborted = prep.consumers = {o}]
             ELSE prep
  /\ UNCHANGED <<call, joining, strands, durableVars, queueVars, pumpVars, manifestVars,
                 claimVars, quiescing>>

(* releaseRequestClaims: flag, plan, jobs and journal at once ...          *)
Release(o) ==
  LET jobs == [c \in Chunks |-> Unclaimed(job[c], {o})]
      mine == current # None /\ o \in plan[current].claims
  IN /\ consumer[o] # "idle" /\ o \notin retired /\ Spend("release")
     /\ retired' = retired \union {o}
     /\ plan' = IF current = None THEN plan
                ELSE [plan EXCEPT ![current].claims = @ \ {o},
                                  ![current].base = IF @ = o THEN Anon ELSE @]
     /\ job' = jobs /\ route' = route \ Ended(jobs)
     /\ chunk' = Forget(chunk, Ended(jobs))
     /\ due' = Revive(due, Ended(jobs))
     /\ IF mine THEN Erase({o}) ELSE UNCHANGED journal
     /\ UNCHANGED <<released, book, audio, current, builds, round, refused, callVars,
                    quiescing>>

(* ... and once more, for a record older than its manifest.                *)
Released(o) ==
  /\ o \in retired \ released
  /\ released' = released \union {o}
  /\ Erase({o})
  /\ UNCHANGED <<retired, book, audio, queueVars, pumpVars, manifestVars, callVars, quiescing, left>>

(* Playback (no request id): generate, or bring one chunk forward.         *)
Listen ==
  /\ At("listen", "off") /\ Spend("listen")
  /\ \/ /\ NeedsResume(current)
        /\ Room
        /\ Generate("listen", Listener, {Listener})
        /\ UNCHANGED <<due, plan, journal>>
     \/ /\ current # None
        /\ \E c \in Chunks :
             /\ chunk[current][c] = "pending" /\ plan[current].on
             /\ plan' = [plan EXCEPT ![current].urgent = @ \union {c}]
        /\ Pump(current, "none")
        /\ UNCHANGED <<call, book, journal>>
  /\ UNCHANGED <<prep, joining, consumer, strands, retired, released, audio, queueVars, round,
                 refused, current, builds, chunk, quiescing>>

(* resumeChapterErrors, when the engine is up again: no request id.        *)
ResumeErrors ==
  /\ At("resume", "off") /\ Room /\ Spend("resume")
  /\ current # None /\ plan[current].claims # {}
  /\ \E c \in Chunks : chunk[current][c] = "error"
  /\ Generate("resume", Anon, plan[current].claims)
  /\ UNCHANGED <<prep, joining, consumer, strands, retired, released, durableVars, queueVars,
                 pumpVars, manifestVars, quiescing>>

(* cancelBook *)
CancelBook ==
  /\ Spend("delete")
  /\ book' = [deleted |-> TRUE, epoch |-> book.epoch + 1]
  /\ job' = [c \in Chunks |-> Unclaimed(job[c], Owners)]
  /\ route' = route \ Ended(job')
  /\ chunk' = Forget(chunk, Ended(job'))
  /\ plan' = IF current = None THEN plan ELSE [plan EXCEPT ![current].cancelled = TRUE]
  /\ current' = None
  /\ journal' = NoRecord
  /\ Hear(TRUE, "failed")
  /\ UNCHANGED <<retired, released, audio, builds, due, round, quiescing>>

(* quiesceChapter: stop what runs, and wait for it ...                     *)
Quiesce ==
  /\ Spend("quiesce") /\ quiescing = {} /\ current # None
  /\ LET live == {c \in Chunks : chunk[current][c] \in Held}
         jobs == [c \in Chunks |-> IF c \in live THEN Cancelled(job[c]) ELSE job[c]]
     IN /\ job' = jobs /\ route' = route \ Ended(jobs)
        /\ chunk' = Forget(chunk, Ended(jobs))
        /\ quiescing' = {0} \union (live \ Ended(jobs))
  /\ plan' = [plan EXCEPT ![current].cancelled = TRUE]
  /\ UNCHANGED <<durableVars, pumpVars, current, builds, callVars, claimVars>>

(* ... then the manifest goes, and the caller removes files.               *)
Quiesced ==
  /\ quiescing # {} /\ \A c \in quiescing \ {0} : ~job[c].dying
  /\ quiescing' = {}
  /\ current' = None
  /\ \E gone \in SUBSET audio : audio' = audio \ gone
  /\ Hear(TRUE, "failed")
  /\ UNCHANGED <<journal, queueVars, due, round, builds, chunk, plan, claimVars, left>>

(* invalidateCachedChunk, and the playback that found the damage.          *)
Invalidate(c) ==
  /\ Spend("invalidate") /\ current # None /\ chunk[current][c] = "ready"
  /\ audio' = audio \ {c}
  /\ chunk' = [chunk EXCEPT ![current][c] = "pending"]
  /\ IF plan[current].on
     THEN /\ plan' = [plan EXCEPT ![current].urgent = @ \union {c}]
          /\ Pump(current, "none")
     ELSE UNCHANGED <<plan, due>>
  /\ UNCHANGED <<journal, current, builds, round, refused, queueVars, callVars, claimVars, quiescing>>

(* A restart: transient claims are dropped, pending intents go on under    *)
(* their journalled owners (resumePendingChapters).                        *)
Restart ==
  /\ Spend("crash") /\ builds < MaxBuilds
  /\ Erase({Listener})
  /\ retired' = {} /\ released' = {}
  /\ book' = [deleted |-> FALSE, epoch |-> 0]
  /\ current' = None
  /\ chunk' = [m \in Manifests |-> Fresh] /\ plan' = [m \in Manifests |-> NoPlan]
  /\ due' = [m \in Manifests |-> {}] /\ round' = [m \in Manifests |-> NoRound]
  /\ refused' = {} /\ job' = [c \in Chunks |-> NoJob] /\ route' = {}
  /\ prep' = NoPrep /\ strands' = 0
  /\ joining' = [o \in Consumers |-> NoClaim]
  /\ consumer' = [o \in Consumers |-> IF consumer[o] = "waiting" THEN "failed" ELSE consumer[o]]
  /\ quiescing' = {}
  /\ LET owners == journal'.claims
     IN IF owners = {} \/ journal'.held THEN call' = [k \in Calls |-> NoCall]
        ELSE \E lead \in owners :
               call' = [k \in Calls |->
                 IF k = "resume" THEN [NoCall EXCEPT !.pc = "plan", !.lead = lead,
                                         !.creator = lead, !.claims = owners]
                 ELSE NoCall]
  /\ UNCHANGED <<audio, builds>>

-----------------------------------------------------------------------------
Generation ==
  \E k \in Calls : PutIntent(k) \/ StartBuild(k) \/ EndBuild(k) \/ Install(k)
Preparation == Prepare \/ Await \/ EndWait \/ CheckLiveness
Claiming == \E o \in Consumers : Claim(o) \/ Claimed(o) \/ Released(o)
Pumping ==
  \E m \in Manifests :
    \/ \E s \in Signals : StartRound(m, s) \/ SkipRound(m, s)
    \/ Materialize(m) \/ AtCapacity(m) \/ AbandonMaterialize(m) \/ MaterializeFails(m)
Queue == \E c \in Chunks : JobStarts(c) \/ JobCompletes(c) \/ JobStops(c) \/ JobFails(c)
Callers ==
  \/ \E o \in Consumers : Request(o) \/ Leave(o) \/ Release(o)
  \/ Listen \/ ResumeErrors \/ CancelBook \/ Quiesce \/ Quiesced \/ Restart
  \/ \E c \in Chunks : Invalidate(c)

Next == Generation \/ Preparation \/ Claiming \/ Pumping \/ Queue \/ Reconcile \/ Callers

Spec == Init /\ [][Next]_vars

(* Awaits return, the queue renders or fails, and the timers fire; callers *)
(* need not do anything.                                                   *)
Fairness ==
  /\ WF_vars(Generation) /\ WF_vars(Preparation)
  /\ WF_vars(\E o \in Consumers : Claim(o) \/ Claimed(o))
  /\ WF_vars(\E m \in Manifests : \E s \in Signals \ {"none"} : StartRound(m, s) \/ SkipRound(m, s))
  /\ WF_vars(\E m \in Manifests : StartRound(m, "none") \/ SkipRound(m, "none"))
  /\ WF_vars(\E m \in Manifests : Materialize(m) \/ AtCapacity(m) \/ AbandonMaterialize(m))
  /\ WF_vars(\E c \in Chunks : JobStarts(c) \/ JobCompletes(c) \/ JobStops(c))
  /\ WF_vars(Reconcile)

FairSpec == Spec /\ Fairness
-----------------------------------------------------------------------------
(* Properties. *)

(* A request that is released has no claim on any job, whatever await still *)
(* carries it, and once its release has returned it never has one in the   *)
(* journal that a restart would render for (releaseRequestClaims; the      *)
(* checks after every await).                                              *)
RetiredLeaveNothing ==
  /\ \A o \in retired : \A c \in Chunks : o \notin job[c].claims
  /\ released \intersect journal.claims = {}

(* A claim of a consumer leaves the journal with its owner (released,      *)
(* gone, answered, or about to be, with the prepare job that is refused)   *)
(* or with the whole record: the chapter is complete, the book deleted.    *)
(* What ends for one consumer takes no claim of another along.             *)
ClaimsLeaveWithOwners ==
  [][\A o \in Consumers :
       o \in journal.claims /\ o \notin journal'.claims
       => \/ o \in retired' \/ consumer'[o] # "waiting" \/ "prep" \in refused'
          \/ book'.deleted \/ \E m \in Manifests : Complete(m)']_vars

(* A consumer that waits and that the plan renders for is in the journal:  *)
(* a restart goes on for it.  An owner that leaves or is released, and a   *)
(* manifest that completes (a superseded one, or one that is damaged       *)
(* later), may take along the record that the others would join: so only   *)
(* while there was none.  A join that a deletion overtakes may do so too:  *)
(* no scene has a deletion with two consumers and another listener.        *)
PlannedOwnersDurable ==
  /\ At("prep", "wait") /\ ~prep.aborted /\ retired = {}
  /\ \A o \in Consumers : consumer[o] # "gone"
  /\ \A m \in Manifests : ~Complete(m) /\ plan[m].urgent = {}
  /\ current # None /\ ~journal.held
  => \A o \in plan[current].claims \intersect prep.consumers :
       joining[o].pc # "none" \/ o \in journal.claims

(* A deleted book keeps no intent, no manifest and no wanted render, what- *)
(* ever was in flight when it was cancelled (cancelBook).                  *)
DeletedBookForgotten ==
  book.deleted => /\ journal.claims = {} /\ current = None
                  /\ \A c \in Chunks : Running(c) => job[c].dying

(* Whatever events were missed, a consumer of a chapter is answered, and a *)
(* manifest with owners does not stay there with chunks nobody renders: it *)
(* completes, fails, is replaced or loses its owners (reconcile, and the   *)
(* liveness check of whoever waits).                                       *)
ChapterSettles ==
  /\ \A o \in Consumers : consumer[o] = "waiting" ~> consumer[o] # "waiting"
  /\ []<>(\/ current = None
          \/ plan[current].claims = {} \/ plan[current].halted \/ plan[current].cancelled
          \/ Complete(current))
=============================================================================
