------------------------ MODULE GenerationScheduler ------------------------
(***************************************************************************)
(* Priority admission control for one scarce engine resource (the GPU):    *)
(* lib/generation-scheduler.js.  Callers submit work with run(); the       *)
(* scheduler owns the capacity and the order of admission.  A caller may   *)
(* cancel, promote or reprioritize what it submitted, and background       *)
(* producers park in waitForBackgroundTurn() while live work exists.       *)
(*                                                                         *)
(* An element of Items is a caller's slot: it submits, settles and may     *)
(* submit again.  The sequence numbers of the code only order the pending  *)
(* items, so they are kept as that order (ahead), which stays finite.      *)
(***************************************************************************)
EXTENDS Naturals, FiniteSets

CONSTANTS
  Items,          \* callers' submission slots
  Producers,      \* background producers that yield to live work
  Capacity,       \* capacities[resource]
  LookaheadBurst, \* lookahead admissions tolerated while a download waits
  UsedPriorities  \* the priorities callers ask for

ASSUME SchedulerAssumption ==
  /\ IsFiniteSet(Items)
  /\ Capacity \in Nat \ {0}
  /\ LookaheadBurst \in Nat \ {0}
  /\ UsedPriorities \subseteq {"immediate", "next", "lookahead", "download", "background"}

VARIABLES
  phase,       \* scheduler's view of a slot: idle, pending or active
  priority,    \* item.priority
  ahead,       \* ahead[i]: the pending items with a smaller sequence than i
  aged,        \* i has waited downloadMaxWaitMs or longer
  working,     \* items whose work() callback really executes
  aborted,     \* admitted items whose signal has been aborted
  consecutiveLookahead, \* saturates at LookaheadBurst, where it is compared
  producer     \* away, waiting (in state.waiters) or woken (promise resolved)

vars == <<phase, priority, ahead, aged, working, aborted, consecutiveLookahead, producer>>

Strict     == {"immediate", "next"}
Foreground == Strict \union {"lookahead", "download"}
Priorities == Foreground \union {"background"}

Weight(p) ==
  CASE p = "immediate" -> 0
    [] p = "next"      -> 1
    [] p = "lookahead" -> 2
    [] p = "download"  -> 3
    [] OTHER           -> 4

TypeOK ==
  /\ phase \in [Items -> {"idle", "pending", "active"}]
  /\ priority \in [Items -> Priorities]
  /\ ahead \in [Items -> SUBSET Items]
  /\ aged \in [Items -> BOOLEAN]
  /\ working \subseteq Items
  /\ aborted \subseteq Items
  /\ consecutiveLookahead \in 0..LookaheadBurst
  /\ producer \in [Producers -> {"away", "waiting", "woken"}]

Init ==
  /\ phase = [i \in Items |-> "idle"]
  /\ priority = [i \in Items |-> "background"]
  /\ ahead = [i \in Items |-> {}]
  /\ aged = [i \in Items |-> FALSE]
  /\ working = {}
  /\ aborted = {}
  /\ consecutiveLookahead = 0
  /\ producer = [p \in Producers |-> "away"]

-----------------------------------------------------------------------------
(* Selection.  ph, pr and ah are the values drain sees: the handler that   *)
(* calls it has already pushed, removed or reprioritized an item.          *)

InPhase(ph, x) == {i \in Items : ph[i] = x}

Waiting(ph, pr, P) == {i \in InPhase(ph, "pending") : pr[i] \in P}

FirstOf(ph, pr, ah, p) ==
  {i \in Waiting(ph, pr, {p}) : ah[i] \intersect Waiting(ph, pr, {p}) = {}}

HasForegroundWork(ph, pr) ==
  \E i \in Items : ph[i] # "idle" /\ pr[i] \in Foreground

(* The oldest waiting download overtakes lookahead after a full burst of   *)
(* lookahead admissions or once it has waited long enough.                 *)
DownloadDue(ph, pr, ah) ==
  \/ consecutiveLookahead >= LookaheadBurst
  \/ \E d \in FirstOf(ph, pr, ah, "download") : aged[d]

(* Fault: aged background work joins the live class, as it once did. *)
TakeNext_AgedBackground(ph, pr, ah) ==
  {i \in InPhase(ph, "pending") :
     LET live == Waiting(ph, pr, Strict) \union {j \in InPhase(ph, "pending") : aged[j]}
     IN /\ i \in FirstOf(ph, pr, ah, pr[i])
        /\ live # {} => i \in live}

TakeNext(ph, pr, ah) ==
  {i \in InPhase(ph, "pending") :
     /\ i \in FirstOf(ph, pr, ah, pr[i])
     /\ pr[i] = "next" => Waiting(ph, pr, {"immediate"}) = {}
     /\ pr[i] \notin Strict => Waiting(ph, pr, Strict) = {}
     /\ pr[i] = "lookahead" =>
          Waiting(ph, pr, {"download"}) = {} \/ ~DownloadDue(ph, pr, ah)
     /\ pr[i] = "download" =>
          Waiting(ph, pr, {"lookahead"}) = {} \/ DownloadDue(ph, pr, ah)
     /\ pr[i] = "background" => Waiting(ph, pr, Foreground) = {}}

(* Fault: lookahead admissions are not counted. *)
LookaheadCount_Reset(p) == 0

LookaheadCount(p) ==
  IF p = "lookahead"
  THEN IF consecutiveLookahead < LookaheadBurst
       THEN consecutiveLookahead + 1 ELSE LookaheadBurst
  ELSE IF p = "download" THEN 0 ELSE consecutiveLookahead

Notify == producer' = [p \in Producers |->
                         IF producer[p] = "waiting" THEN "woken" ELSE producer[p]]

(* Every handler frees or fills at most one slot, so the while loop of     *)
(* _drain admits at most one item (WorkConserving is what makes that so).  *)
Drain(ph, pr, ah, running) ==
  LET room == /\ Cardinality(InPhase(ph, "active")) < Capacity
              /\ InPhase(ph, "pending") # {}
  IN /\ \/ /\ ~room
           /\ phase' = ph
           /\ working' = running
           /\ UNCHANGED consecutiveLookahead
        \/ /\ room
           /\ \E i \in TakeNext(ph, pr, ah) :
                /\ phase' = [ph EXCEPT ![i] = "active"]
                /\ working' = running \union {i}
                /\ consecutiveLookahead' = LookaheadCount(pr[i])
     /\ priority' = pr
     /\ ahead' = ah
     /\ Notify

-----------------------------------------------------------------------------

(* run(): push the item behind everything pending, then drain.             *)
Run(i, p) ==
  /\ phase[i] = "idle"
  /\ aged' = [aged EXCEPT ![i] = FALSE]
  /\ UNCHANGED aborted
  /\ Drain([phase EXCEPT ![i] = "pending"], [priority EXCEPT ![i] = p],
           [ahead EXCEPT ![i] = InPhase(phase, "pending")], working)

Forget(i) == [j \in Items |-> IF j = i THEN {} ELSE ahead[j] \ {i}]

(* Fault: settling frees the slot and forgets to drain. *)
Settle_NoDrain(i) ==
  /\ i \in working
  /\ phase' = [phase EXCEPT ![i] = "idle"]
  /\ working' = working \ {i}
  /\ Notify
  /\ UNCHANGED <<priority, ahead, aged, aborted, consecutiveLookahead>>

(* The work of an admitted item settles, normally or with an error: the    *)
(* slot is released, waiters are notified and the next item is admitted.   *)
Settle(i) ==
  /\ i \in working
  /\ aborted' = aborted \ {i}
  /\ UNCHANGED aged
  /\ Drain([phase EXCEPT ![i] = "idle"], priority, Forget(i), working \ {i})

(* cancel() of a pending item splices it out and rejects its promise.      *)
CancelPending(i) ==
  /\ phase[i] = "pending"
  /\ phase' = [phase EXCEPT ![i] = "idle"]
  /\ ahead' = Forget(i)
  /\ Notify
  /\ UNCHANGED <<priority, aged, working, aborted, consecutiveLookahead>>

(* Fault: cancelling admitted work releases its slot at once. *)
CancelActive_Releases(i) ==
  /\ phase[i] = "active"
  /\ UNCHANGED <<aged, aborted>>
  /\ Drain([phase EXCEPT ![i] = "idle"], priority, Forget(i), working)

(* cancel() of admitted work only aborts its signal, once: the work keeps  *)
(* its slot until it settles, which Settle may do at any later moment.     *)
CancelActive(i) ==
  /\ phase[i] = "active"
  /\ i \notin aborted
  /\ aborted' = aborted \union {i}
  /\ UNCHANGED <<phase, priority, ahead, aged, working, consecutiveLookahead, producer>>

(* promote() accepts only a higher priority, reprioritize() any other one. *)
Reprioritize(i, p) ==
  /\ phase[i] = "pending"
  /\ p # priority[i]
  /\ UNCHANGED <<aged, aborted>>
  /\ Drain(phase, [priority EXCEPT ![i] = p], ahead, working)

Promote(i, p) ==
  /\ Weight(p) < Weight(priority[i])
  /\ Reprioritize(i, p)

(* The clock passes enqueuedAt + downloadMaxWaitMs of an item; those with  *)
(* a smaller sequence were enqueued no later.                              *)
Age(i) ==
  /\ phase[i] = "pending"
  /\ ~aged[i]
  /\ \A j \in ahead[i] \intersect InPhase(phase, "pending") : aged[j]
  /\ aged' = [aged EXCEPT ![i] = TRUE]
  /\ UNCHANGED <<phase, priority, ahead, working, aborted, consecutiveLookahead, producer>>

(* waitForBackgroundTurn(): first test, and the test again after a wakeup. *)
WaitForBackgroundTurn(p) ==
  /\ producer[p] \in {"away", "woken"}
  /\ producer' = [producer EXCEPT ![p] =
                    IF HasForegroundWork(phase, priority) THEN "waiting" ELSE "away"]
  /\ UNCHANGED <<phase, priority, ahead, aged, working, aborted, consecutiveLookahead>>

Next ==
  \/ \E i \in Items, p \in UsedPriorities :
       Run(i, p) \/ Promote(i, p) \/ Reprioritize(i, p)
  \/ \E i \in Items : Settle(i) \/ CancelPending(i) \/ CancelActive(i) \/ Age(i)
  \/ \E p \in Producers : WaitForBackgroundTurn(p)

Spec == Init /\ [][Next]_vars

(* Engines bound every render with a timeout, so admitted work settles;    *)
(* a resolved waiter's microtask runs.                                     *)
FairSpec ==
  /\ Spec
  /\ \A i \in Items : WF_vars(Settle(i))
  /\ \A p \in Producers : WF_vars(producer[p] = "woken" /\ WaitForBackgroundTurn(p))

-----------------------------------------------------------------------------
(* The renders that execute at once never exceed the resource's capacity,  *)
(* cancelled ones that have not yet stopped included (_cancel, _drain).    *)
WorkBounded == Cardinality(working) <= Capacity

(* No capacity idles while work is pending: every path that frees a slot   *)
(* or adds an item drains (run, settle, reprioritize).                     *)
WorkConserving ==
  InPhase(phase, "pending") # {} => Cardinality(InPhase(phase, "active")) >= Capacity

(* No lost wakeup: a producer is parked only while there is live work that *)
(* will wake it; whatever ends the last live item notifies the waiters.    *)
NoLostWakeup ==
  (\E p \in Producers : producer[p] = "waiting") => HasForegroundWork(phase, priority)

(* Neither work nor a producer waits for nothing.                          *)
NobodyWaitsInVain == WorkConserving /\ NoLostWakeup

(* Live playback is never admitted behind speculative work: nothing but    *)
(* immediate or next work starts while either is left pending, and equals  *)
(* start in the order they arrived.                                        *)
StartsInOrder ==
  \A i \in Items :
    (i \notin working /\ i \in working') =>
       /\ priority'[i] \notin Strict => Waiting(phase', priority', Strict) = {}
       /\ \A j \in Items : (phase'[j] = "pending" /\ priority'[j] = priority'[i])
                             => j \notin ahead'[i]
LivePlaybackFirst == [][StartsInOrder]_vars

(* Lookahead cannot starve an explicit download: once live playback stays  *)
(* quiet, a waiting download is admitted however much lookahead arrives.   *)
DownloadProgress ==
  \A i \in Items :
    <>[](Waiting(phase, priority, Strict) = {} /\ phase[i] # "idle" /\ priority[i] = "download")
      => []<>(phase[i] = "active")
=============================================================================
