------------------------------ MODULE BookLocks ------------------------------
(***************************************************************************)
(* Per-book locks: lib/book-mutation-lock.js.  Every book has one promise  *)
(* chain; a section (a mutation or a state section) runs when the section  *)
(* before it on the chain has settled.  A section may be entered without   *)
(* queueing by code that already owns the book, which the module decides   *)
(* from the ownership store that AsyncLocalStorage carries along: every    *)
(* continuation of a section sees the section's store, and so does a timer *)
(* that the section leaves behind and that fires after the section ended.  *)
(*                                                                         *)
(* A task is one asynchronous operation.  Its plan is the nest of sections *)
(* it enters, outermost first: held[t][i] is the set of held books that    *)
(* the ownership store gives its code inside the i-th section, held[t][0]  *)
(* what it started with.  Books are numbered in the order of their ids.    *)
(***************************************************************************)
EXTENDS Naturals, FiniteSets, Sequences, SequencesExt

CONSTANTS
  Books,   \* book ids, ordered
  Tasks,   \* concurrent operations
  Timers,  \* the tasks that start as a timer left behind by a section
  Plans,   \* nests of sections the callers enter
  Depth,   \* bound on the length of a plan
  Nobody

Request == [kind : {"mutation", "state"}, book : Books, ifBusy : BOOLEAN]

(* A nest takes books in ascending order; a section may be repeated only   *)
(* directly inside a mutation of the same book, where it is reentrant.     *)
Ascending(p) ==
  \A i, j \in 1..Len(p) : i < j =>
    \/ p[i].book < p[j].book
    \/ p[i].book = p[j].book /\ p[i].kind = "mutation" /\ j = i + 1

ASSUME LocksAssumption ==
  /\ Books \subseteq Nat
  /\ Timers \subseteq Tasks
  /\ Nobody \notin Tasks
  /\ Depth \in Nat \ {0}
  /\ \A p \in Plans : p \in Seq(Request) /\ Len(p) \in 1..Depth

VARIABLES
  phase,  \* idle, entering (the next section), waiting (in a chain), leaving
  plan,   \* plan[t]: the sections of t's operation
  at,     \* at[t]: how many of them t is inside
  queued, \* queued[t]: those t entered through the chain
  held,   \* held[t][i]: ownership.getStore().held inside t's i-th section
  tail,   \* tail[b]: the tasks chained on b that wait, oldest first
  holder, \* holder[b]: the task whose chained section on b runs
  mutationActive

vars == <<phase, plan, at, queued, held, tail, holder, mutationActive>>

TypeOK ==
  /\ phase \in [Tasks -> {"idle", "entering", "waiting", "leaving"}]
  /\ plan \in [Tasks -> Seq(Request)]
  /\ at \in [Tasks -> 0..Depth]
  /\ queued \in [Tasks -> SUBSET (1..Depth)]
  /\ held \in [Tasks -> [0..Depth -> SUBSET Books]]
  /\ tail \in [Books -> Seq(Tasks)]
  /\ holder \in [Books -> Tasks \union {Nobody}]
  /\ mutationActive \subseteq Books
  /\ \A t \in Tasks :
       /\ at[t] <= Len(plan[t])
       /\ Len(plan[t]) <= Depth
       /\ phase[t] \in {"entering", "waiting"} => at[t] < Len(plan[t])

Init ==
  /\ phase = [t \in Tasks |-> "idle"]
  /\ plan = [t \in Tasks |-> <<>>]
  /\ at = [t \in Tasks |-> 0]
  /\ queued = [t \in Tasks |-> {}]
  /\ held = [t \in Tasks |-> [i \in 0..Depth |-> {}]]
  /\ tail = [b \in Books |-> <<>>]
  /\ holder = [b \in Books |-> Nobody]
  /\ mutationActive = {}

-----------------------------------------------------------------------------
(* The nests the callers build.                                            *)

Mutation(b) == [kind |-> "mutation", book |-> b, ifBusy |-> FALSE]
Rebuild(b)  == [kind |-> "mutation", book |-> b, ifBusy |-> TRUE]
State(b)    == [kind |-> "state", book |-> b, ifBusy |-> FALSE]

LocksPlan(B) ==
  [i \in 1..Cardinality(B) |-> Mutation(SetToSortSeq(B, LAMBDA a, b : a < b)[i])]

StateLocksPlan(B) ==
  [i \in 1..Cardinality(B) |-> State(SetToSortSeq(B, LAMBDA a, b : a < b)[i])]

-----------------------------------------------------------------------------
(* One request for a section.                                              *)

Cur(t)   == held[t][at[t]]
Asked(t) == plan[t][at[t] + 1]
Requests(t) == phase[t] = "entering"

(* Fault: reentrancy is decided by who is active, not by who asks. *)
Owned_Active(t) == Asked(t).book \in mutationActive

(* A state section has no held set, so only a mutation is reentrant.       *)
Owned(t) == Asked(t).book \in Cur(t)

Busy(t) == Asked(t).ifBusy /\ Asked(t).book \in mutationActive

Begin(t) ==
  /\ phase[t] = "idle"
  /\ t \notin Timers
  /\ \E p \in Plans : plan' = [plan EXCEPT ![t] = p]
  /\ phase' = [phase EXCEPT ![t] = "entering"]
  /\ UNCHANGED <<at, queued, held, tail, holder, mutationActive>>

(* The operation goes on outside the section it was in: k are left.        *)
Unwind(t, k) ==
  /\ phase' = [phase EXCEPT ![t] = IF k = 0 THEN "idle" ELSE "leaving"]
  /\ plan' = [plan EXCEPT ![t] = IF k = 0 THEN <<>> ELSE @]
  /\ held' = [held EXCEPT ![t] = [i \in 0..Depth |-> IF k > 0 /\ i <= k THEN @[i] ELSE {}]]

(* The caller gets busyValue; what it would have nested does not run.      *)
ReturnBusy(t) ==
  /\ Requests(t)
  /\ Busy(t)
  /\ Unwind(t, at[t])
  /\ UNCHANGED <<at, queued, tail, holder, mutationActive>>

Inside(t, books) ==
  /\ at' = [at EXCEPT ![t] = @ + 1]
  /\ held' = [held EXCEPT ![t][at[t] + 1] = books]

Reenter(t) ==
  /\ Requests(t)
  /\ ~Busy(t)
  /\ Owned(t)
  /\ Inside(t, Cur(t))
  /\ phase' = [phase EXCEPT ![t] = IF at'[t] = Len(plan[t]) THEN "leaving" ELSE @]
  /\ UNCHANGED <<plan, queued, tail, holder, mutationActive>>

Chain(t) ==
  /\ Requests(t)
  /\ ~Busy(t)
  /\ ~Owned(t)
  /\ tail' = [tail EXCEPT ![Asked(t).book] = Append(@, t)]
  /\ phase' = [phase EXCEPT ![t] = "waiting"]
  /\ UNCHANGED <<plan, at, queued, held, holder, mutationActive>>

SectionStore(t) ==
  IF Asked(t).kind = "mutation" THEN Cur(t) \union {Asked(t).book} ELSE {}

Admit(t) ==
  /\ phase[t] = "waiting"
  /\ LET b == Asked(t).book
     IN /\ holder[b] = Nobody
        /\ tail[b] # <<>> /\ Head(tail[b]) = t
        /\ tail' = [tail EXCEPT ![b] = Tail(@)]
        /\ holder' = [holder EXCEPT ![b] = t]
        /\ mutationActive' = IF Asked(t).kind = "mutation" THEN mutationActive \union {b}
                             ELSE mutationActive
  /\ queued' = [queued EXCEPT ![t] = @ \union {at[t] + 1}]
  /\ Inside(t, SectionStore(t))
  /\ phase' = [phase EXCEPT ![t] = IF at'[t] = Len(plan[t]) THEN "leaving" ELSE "entering"]
  /\ UNCHANGED plan

(* Fault: an error leaves the chain waiting on the failed section. *)
Leave_ErrorKeeps(t) ==
  /\ phase[t] \in {"entering", "leaving"}
  /\ at[t] > 0
  /\ LET b == plan[t][at[t]].book
     IN IF at[t] \in queued[t] /\ phase[t] = "leaving"
        THEN /\ holder' = [holder EXCEPT ![b] = Nobody]
             /\ mutationActive' = mutationActive \ {b}
        ELSE UNCHANGED <<holder, mutationActive>>
  /\ queued' = [queued EXCEPT ![t] = @ \ {at[t]}]
  /\ at' = [at EXCEPT ![t] = @ - 1]
  /\ Unwind(t, at[t] - 1)
  /\ UNCHANGED tail

(* Fault: leaving a reentrant section already clears mutationActive. *)
Leave_Reentrant(t) ==
  /\ phase[t] \in {"entering", "leaving"}
  /\ at[t] > 0
  /\ LET b == plan[t][at[t]].book
     IN /\ holder' = IF at[t] \in queued[t] THEN [holder EXCEPT ![b] = Nobody] ELSE holder
        /\ mutationActive' = mutationActive \ {b}
  /\ queued' = [queued EXCEPT ![t] = @ \ {at[t]}]
  /\ at' = [at EXCEPT ![t] = @ - 1]
  /\ Unwind(t, at[t] - 1)
  /\ UNCHANGED tail

(* A section ends, normally or by an error; an error skips the sections    *)
(* the task has not entered yet.  Only a chained section has anything to   *)
(* give back.                                                              *)
Leave(t) ==
  /\ phase[t] \in {"entering", "leaving"}
  /\ at[t] > 0
  /\ LET b == plan[t][at[t]].book
     IN IF at[t] \in queued[t]
        THEN /\ holder' = [holder EXCEPT ![b] = Nobody]
             /\ mutationActive' = IF plan[t][at[t]].kind = "mutation" THEN mutationActive \ {b}
                                  ELSE mutationActive
        ELSE UNCHANGED <<holder, mutationActive>>
  /\ queued' = [queued EXCEPT ![t] = @ \ {at[t]}]
  /\ at' = [at EXCEPT ![t] = @ - 1]
  /\ Unwind(t, at[t] - 1)
  /\ UNCHANGED tail

(* A section arms a timer that will mutate the same book: the callback     *)
(* runs with the ownership store of the section that armed it.             *)
Detach(t, c) ==
  /\ phase[t] \in {"entering", "leaving"}
  /\ at[t] > 0
  /\ plan[t][at[t]].kind = "mutation"
  /\ c \in Timers
  /\ phase[c] = "idle"
  /\ phase' = [phase EXCEPT ![c] = "entering"]
  /\ plan' = [plan EXCEPT ![c] = <<Mutation(plan[t][at[t]].book)>>]
  /\ held' = [held EXCEPT ![c][0] = Cur(t)]
  /\ UNCHANGED <<at, queued, tail, holder, mutationActive>>

Next ==
  \E t \in Tasks :
    \/ Begin(t)
    \/ ReturnBusy(t)
    \/ Reenter(t)
    \/ Chain(t)
    \/ Admit(t)
    \/ Leave(t)
    \/ \E c \in Tasks : Detach(t, c)

Spec == Init /\ [][Next]_vars

(* Section bodies settle, and the microtask queue runs what is ready.      *)
FairSpec ==
  /\ Spec
  /\ \A t \in Tasks :
       WF_vars(ReturnBusy(t) \/ Reenter(t) \/ Chain(t) \/ Admit(t) \/ Leave(t))

-----------------------------------------------------------------------------
(* Properties.                                                             *)

In(t, b) == \E i \in 1..at[t] : plan[t][i].book = b

(* withBookMutationLock, withBookStateLock: code inside a section of a     *)
(* book either runs the section its chain admitted or started from a store *)
(* that already claimed the book; reentrancy gives it to nobody else.      *)
OwnershipJustified ==
  \A t \in Tasks, b \in Books :
    In(t, b) => holder[b] = t \/ b \in held[t][0]

(* The finally block and the chain agree: a task that is done holds        *)
(* nothing, a held book belongs to a task inside it, and mutationActive,   *)
(* which turns rebuilds away, names exactly the books being mutated.       *)
LocksAccounted ==
  \A b \in Books :
    /\ b \in mutationActive <=>
         \E t \in Tasks : \E i \in queued[t] :
           plan[t][i].book = b /\ plan[t][i].kind = "mutation"
    /\ \A t \in Tasks :
         holder[b] = t <=> \E i \in queued[t] : plan[t][i].book = b

(* What the module records, and what sections inherit, is what runs.       *)
OwnershipSound == OwnershipJustified /\ LocksAccounted

(* withBookMutationLocks: a task waits only for a book above every book it *)
(* holds, so no set of tasks can wait on each other in a cycle.            *)
WaitsAscend ==
  \A t \in Tasks : phase[t] = "waiting" =>
    \A b \in Books : holder[b] = t => b < Asked(t).book

(* Two operations are never inside the same book at once.  Only a timer    *)
(* that a section left behind may be in it together with another.          *)
SectionsExclusive ==
  \A t, u \in Tasks \ Timers, b \in Books : In(t, b) /\ In(u, b) => t = u

(* Every queued section gets its turn, reentrant and multi-key ones too.   *)
SectionsComplete ==
  \A t \in Tasks : phase[t] = "waiting" ~> phase[t] \in {"idle", "leaving"}
=============================================================================
