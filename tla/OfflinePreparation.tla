-------------------------- MODULE OfflinePreparation --------------------------
(***************************************************************************)
(* lib/offline-preparation-coordinator.js: books that devices want offline *)
(* are prepared chapter by chapter, by at most Capacity workers.  A book   *)
(* has one durable record (in lib/generation-journal.js) with its owners.  *)
(*                                                                         *)
(* Requests, cancellations and the workers' saves take turns in one chain  *)
(* (mutate); everything before and after their turn interleaves.  Epochs   *)
(* and the abort of an invocation decide whether a request that overlaps a *)
(* cancellation was made before or after it.                               *)
(*                                                                         *)
(* The identity of a book stands for text, voice and package recipe.  A    *)
(* package stays once it is made.  Byte counts, retained catalogues and    *)
(* notifications are left out.  Every caller cancels with remove; what a   *)
(* cancellation without it does is left out, but a record may have been    *)
(* paused by an earlier release.                                           *)
(***************************************************************************)
EXTENDS Naturals, FiniteSets, Sequences, SequencesExt

CONSTANTS
  Books, Owners,
  Nobody,     \* a request without an owner: restore, or a worker's own
  Chapters,   \* number of chapters of a book
  Capacity,   \* maxConcurrentTitles
  Tracked,    \* maxTrackedTitles
  Callers,    \* bound: concurrent requests of devices
  Cancels,    \* bound: concurrent cancellations
  Main,       \* bound: the book that changes and that devices leave
  Scenes      \* bound: how often each event may come

Slots  == Callers \union Books   \* a worker requests its own book in slot b
Events == {"request", "other", "remove", "removeAll", "change", "fail", "crash", "move"}

ASSUME OfflineAssumption ==
  /\ Nobody \notin Owners /\ Owners # {} /\ Main \in Books
  /\ Callers # {} /\ Callers \intersect Books = {}
  /\ Chapters \in Nat \ {0} /\ Capacity \in Nat \ {0} /\ Tracked \in Nat
  /\ Scenes \subseteq [Events -> Nat]

VARIABLES
  record,   \* record[b]: the durable intent
  identity, \* identity[b]: what preparationIdentity answers
  packed,   \* packed[b]: chapters whose package for the identity exists
  inv,      \* inv[r]: a requestInvocation
  cancel,   \* cancel[k]: a cancel()
  chain,    \* the turns of mutate
  worker,   \* worker[b]: runBook
  stopped,  \* books whose worker's controller is aborted
  sched,    \* pending, activeBooks, rerun
  removed,  \* paused and removed: cancelled books whose worker goes on
  epochs,   \* request epochs, persisted ones, persisted ones of owners
  word,     \* word[b][o]: the last word on the device: accepted, left, none, or
            \* cancelled: it was accepted, and everybody is being removed
  renewed,  \* devices whose retired request another one's cancellation has renewed,
            \* and that have not cancelled since
  budget

vars == <<record, identity, packed, inv, cancel, chain, worker, stopped, sched, removed,
          epochs, word, renewed, budget>>

Absent    == [id |-> 0, state |-> "absent", owners |-> {}, next |-> 0, identity |-> 0]
Paused    == [id |-> 1, state |-> "paused", owners |-> {}, next |-> 0, identity |-> 1]
NoInv     == [pc |-> "free", book |-> CHOOSE b \in Books : TRUE, owner |-> Nobody, epoch |-> 0,
              aborted |-> FALSE, identity |-> 0, fresh |-> FALSE, replaces |-> FALSE]
NoCancel  == [pc |-> "free", book |-> CHOOSE b \in Books : TRUE, owner |-> Nobody,
              epoch |-> 0, waits |-> {}]
NoWorker  == [pc |-> "off", id |-> 0, identity |-> 0, was |-> FALSE, repair |-> FALSE, next |-> 0]
Idle      == [pending |-> <<>>, active |-> {}, rerun |-> {}]
NoEpochs  == [request |-> [b \in Books |-> 0], saved |-> [b \in Books |-> 0],
              owner |-> [b \in Books |-> [o \in Owners |-> 0]]]

TypeOK ==
  /\ record \in [Books -> [id : Nat, state : {"absent", "preparing", "ready", "paused", "error"},
                           owners : SUBSET Owners, next : 0 .. Chapters, identity : Nat]]
  /\ inv \in [Slots -> [pc : {"free", "load", "admit", "stored", "discard"}, book : Books,
                        owner : Owners \union {Nobody}, epoch : Nat, aborted : BOOLEAN,
                        identity : Nat, fresh : BOOLEAN, replaces : BOOLEAN]]
  /\ cancel \in [Cancels -> [pc : {"free", "wait", "turn", "discard"}, book : Books,
                             owner : Owners \union {Nobody}, epoch : Nat,
                             waits : SUBSET Slots]]
  /\ worker \in [Books -> [pc : {"off", "load", "chapter", "mark", "prepare", "boundary",
                                 "self", "publish", "final", "error"},
                           id : Nat, identity : Nat, was : BOOLEAN, repair : BOOLEAN,
                           next : 0 .. Chapters]]
  /\ sched.active = {b \in Books : worker[b].pc # "off"} /\ Cardinality(sched.active) <= Capacity

Init ==
  /\ \E old \in {Absent, Paused} : record = [b \in Books |-> IF b = Main THEN old ELSE Absent]
  /\ identity = [b \in Books |-> 1]
  /\ packed = [b \in Books |-> {}]
  /\ inv = [r \in Slots |-> NoInv] /\ cancel = [k \in Cancels |-> NoCancel]
  /\ chain = <<>> /\ worker = [b \in Books |-> NoWorker] /\ stopped = {}
  /\ sched = Idle /\ removed = {} /\ epochs = NoEpochs
  /\ word = [b \in Books |-> [o \in Owners |-> "none"]] /\ renewed = {} /\ budget \in Scenes

Spend(e) == budget[e] > 0 /\ budget' = [budget EXCEPT ![e] = @ - 1]

-----------------------------------------------------------------------------
(* schedule, drain and the end of a worker. *)

(* A book is pending once.                                                 *)
Unqueued(q, b) ==
  IF Contains(q, b) THEN RemoveAt(q, CHOOSE i \in DOMAIN q : q[i] = b) ELSE q

Has(s, b) == b \in s.active \/ Contains(s.pending, b)

Drained(s) ==
  LET room == Capacity - Cardinality(s.active)
      n    == IF Len(s.pending) < room THEN Len(s.pending) ELSE room
  IN [s EXCEPT !.active = @ \union {s.pending[i] : i \in 1 .. n},
               !.pending = SubSeq(s.pending, n + 1, Len(s.pending))]

(* Fault: a request that starts afresh relies on the worker that is there. *)
Scheduled_Once(s, b, afresh) ==
  IF Has(s, b) THEN s ELSE Drained([s EXCEPT !.pending = Append(@, b)])
Scheduled(s, b, afresh) ==
  IF Has(s, b) THEN IF afresh THEN [s EXCEPT !.rerun = @ \union {b}] ELSE s
  ELSE Drained([s EXCEPT !.pending = Append(@, b)])

(* sched' = s: workers begin for the books that became active.             *)
Begin(s, ended) ==
  LET begun == s.active \ (sched.active \ ended)
  IN /\ sched' = s
     /\ stopped' = stopped \ (begun \union ended)
     /\ worker' = [b \in Books |-> IF b \in begun THEN [NoWorker EXCEPT !.pc = "load"]
                                   ELSE IF b \in ended THEN NoWorker ELSE worker[b]]

(* The worker of b ends, and runs again if it was asked to.                *)
Finish(b, again) ==
  LET off  == [sched EXCEPT !.active = @ \ {b}, !.rerun = @ \ {b}]
      next == IF again \/ b \in sched.rerun THEN Scheduled(off, b, FALSE) ELSE off
  IN /\ Begin(Drained(next), {b})
     /\ removed' = removed \ {b}

Turn(op)   == chain # <<>> /\ Head(chain) = op
Queue(op)  == chain' = Append(chain, op)
PassTurn   == chain' = Tail(chain)

-----------------------------------------------------------------------------
(* request *)

Invoke(r, b, o) ==
  [inv EXCEPT ![r] = [NoInv EXCEPT !.pc = "load", !.book = b, !.owner = o,
                                   !.epoch = epochs.request[b]]]

Request(r, b, o) ==
  /\ inv[r].pc = "free" /\ Spend(IF b = Main THEN "request" ELSE "other")
  /\ inv' = Invoke(r, b, o)
  /\ word' = [word EXCEPT ![b][o] = IF @ = "left" THEN "none" ELSE @]
  /\ UNCHANGED <<record, identity, packed, cancel, chain, worker, stopped, sched, removed, epochs, renewed>>

IsCurrent(r) == ~inv[r].aborted /\ epochs.request[inv[r].book] = inv[r].epoch

(* The invocation ends: cancellations that wait for it hear of it, and the *)
(* worker that made it goes on; a failure ends in its catch.               *)
Settled(r) == [k \in Cancels |-> [cancel[k] EXCEPT !.waits = @ \ {r}]]

CurrentRecord(b) ==
  /\ b \notin removed \union stopped
  /\ record[b].id = worker[b].id

(* catch of runBook: the state the worker saves, if its request still is   *)
(* the book's.                                                             *)
Caught(b) ==
  IF record[b].id # worker[b].id \/ b \in removed THEN "none" ELSE "error"

Goto(b, pc) == worker' = [worker EXCEPT ![b].pc = pc]

Throw(b) ==
  IF Caught(b) = "none" THEN Finish(b, FALSE) /\ UNCHANGED chain
  ELSE /\ Goto(b, Caught(b)) /\ Queue(<<"save", b>>)
       /\ UNCHANGED <<sched, stopped, removed>>

Ends(r) == inv' = [inv EXCEPT ![r] = NoInv] /\ cancel' = Settled(r)

Identify(r) ==
  /\ inv[r].pc = "load"
  /\ IF IsCurrent(r)
     THEN /\ inv' = [inv EXCEPT ![r].pc = "admit", ![r].identity = identity[inv[r].book]]
          /\ Queue(<<"admit", r>>)
          /\ UNCHANGED <<cancel, worker, stopped, sched, removed>>
     ELSE /\ Ends(r)
          /\ IF r \in Books /\ worker[r].pc = "self" THEN Throw(r)
             ELSE UNCHANGED <<chain, worker, stopped, sched, removed>>
  /\ UNCHANGED <<record, identity, packed, epochs, word, budget, renewed>>

Changed(b, id) == record[b].state # "absent" /\ record[b].identity # id

(* The turn of a request, up to the write of the record.                   *)
Admit(r) ==
  LET b   == inv[r].book
      new == Changed(b, inv[r].identity)
      others == {c \in Books \ {b} : record[c].state \in {"preparing", "error"}}
      full == /\ record[b].state \in {"absent", "paused"} \/ new
              /\ Cardinality(others) >= Tracked
      fresh == record[b].state \in {"absent", "paused", "error"} \/ new
  IN /\ inv[r].pc = "admit" /\ Turn(<<"admit", r>>)
     /\ IF ~IsCurrent(r) \/ full
        THEN /\ Ends(r)
             /\ IF r \in Books /\ worker[r].pc = "self"
                THEN IF Caught(r) = "none" THEN Finish(r, FALSE) /\ PassTurn
                     ELSE /\ Goto(r, Caught(r)) /\ chain' = Append(Tail(chain), <<"save", r>>)
                          /\ UNCHANGED <<sched, stopped, removed>>
                ELSE PassTurn /\ UNCHANGED <<worker, stopped, sched, removed>>
             /\ UNCHANGED record
        ELSE /\ inv' = [inv EXCEPT ![r].pc = "stored", ![r].fresh = fresh, ![r].replaces = new]
             /\ removed' = removed \ {b}
             /\ record' = [record EXCEPT ![b] =
                  [id |-> IF fresh THEN @.id + 1 ELSE @.id,
                   state |-> IF fresh THEN "preparing" ELSE @.state,
                   owners |-> @.owners \union ({inv[r].owner} \ {Nobody}),
                   next |-> IF new THEN 0 ELSE @.next,
                   identity |-> inv[r].identity]]
             /\ UNCHANGED <<cancel, chain, worker, stopped, sched>>
     /\ UNCHANGED <<identity, packed, epochs, word, budget, renewed>>

(* Fault: only cancellations by everybody look at the owner's last request.*)
SavedEpochs_Owner(r) == epochs.owner
SavedEpochs(r) ==
  IF inv[r].owner = Nobody THEN epochs.owner
  ELSE [epochs.owner EXCEPT ![inv[r].book][inv[r].owner] = inv[r].epoch]

Accepted(r) ==
  word' = IF inv[r].owner = Nobody THEN word
          ELSE [word EXCEPT ![inv[r].book][inv[r].owner] = "accepted"]

(* The worker that requested its own book ends; a new one may be due.      *)
Placed(r, b, s) ==
  IF r \in Books /\ worker[r].pc = "self"
  THEN LET off == [s EXCEPT !.active = @ \ {b}, !.rerun = @ \ {b}]
       IN /\ Begin(Drained(IF b \in s.rerun THEN Scheduled(off, b, FALSE) ELSE off), {b})
          /\ removed' = removed \ {b}
  ELSE Begin(s, {}) /\ UNCHANGED removed

Afresh(r, b) == inv[r].fresh /\ Has(sched, b)

(* The record is written: place the work, or first drop what it replaces.  *)
Stored(r) ==
  LET b == inv[r].book
  IN /\ inv[r].pc = "stored"
     /\ PassTurn
     /\ epochs' = [epochs EXCEPT !.saved[b] = inv[r].epoch, !.owner = SavedEpochs(r)]
     /\ \/ /\ ~IsCurrent(r) /\ Ends(r)
           /\ IF r \in Books /\ worker[r].pc = "self" THEN Finish(r, FALSE)
              ELSE UNCHANGED <<worker, stopped, sched, removed>>
           /\ UNCHANGED word
        \/ /\ IsCurrent(r) /\ ~inv[r].replaces
           /\ Ends(r) /\ Accepted(r)
           /\ Placed(r, b, Scheduled(sched, b, Afresh(r, b)))
        \/ /\ IsCurrent(r) /\ inv[r].replaces
           /\ inv' = [inv EXCEPT ![r].pc = "discard"]
           /\ stopped' = stopped \union (sched.active \intersect {b})
           /\ UNCHANGED <<cancel, worker, sched, removed, word>>
     /\ UNCHANGED <<record, identity, packed, budget, renewed>>

Replaced(r) ==
  LET b == inv[r].book
  IN /\ inv[r].pc = "discard"
     /\ Ends(r)
     /\ IF IsCurrent(r)
        THEN Accepted(r) /\ Placed(r, b, Scheduled(sched, b, Afresh(r, b)))
        ELSE /\ UNCHANGED word
             /\ IF r \in Books /\ worker[r].pc = "self" THEN Finish(r, FALSE)
                ELSE UNCHANGED <<worker, stopped, sched, removed>>
     /\ UNCHANGED <<record, identity, packed, chain, epochs, budget, renewed>>

-----------------------------------------------------------------------------
(* cancel *)

Cancel(k, b, o) ==
  /\ cancel[k].pc = "free"
  /\ Spend(IF o = Nobody THEN "removeAll" ELSE "remove")
  /\ LET e == epochs.request[b] + 1
         live == {r \in Slots : inv[r].pc # "free" /\ inv[r].book = b}
         mine == {r \in live : o = Nobody \/ inv[r].owner = o}
     IN /\ epochs' = [epochs EXCEPT !.request[b] = e]
        /\ inv' = [r \in Slots |-> IF r \in mine THEN [inv[r] EXCEPT !.aborted = TRUE]
                                   ELSE IF r \in live THEN [inv[r] EXCEPT !.epoch = e] ELSE inv[r]]
        /\ cancel' = [cancel EXCEPT ![k] = [pc |-> "wait", book |-> b, owner |-> o,
                                       epoch |-> e, waits |-> mine]]
        /\ renewed' = (renewed \ {<<b, o>>})
                      \union {<<b, inv[r].owner>> : r \in {r \in live \ mine : inv[r].aborted}}
  /\ word' = [word EXCEPT ![b] = [p \in Owners |->
                IF p = o THEN "left" ELSE IF o = Nobody /\ @[p] = "accepted" THEN "cancelled" ELSE @[p]]]
  /\ UNCHANGED <<record, identity, packed, chain, worker, stopped, sched, removed>>

Waited(k) == cancel[k].waits = {}

(* The requests it retired have ended: it waits for its turn.              *)
CancelTurn(k) ==
  /\ cancel[k].pc = "wait" /\ Waited(k)
  /\ cancel' = [cancel EXCEPT ![k].pc = "turn"]
  /\ Queue(<<"cancel", k>>)
  /\ UNCHANGED <<record, identity, packed, inv, worker, stopped, sched, removed, epochs, word, budget, renewed>>

Live(b) == {r \in Slots : inv[r].pc # "free" /\ inv[r].book = b /\ ~inv[r].aborted}

(* A request made since this cancellation stands.                          *)
Overtaken(k) ==
  LET b == cancel[k].book  o == cancel[k].owner
  IN \/ \E r \in Live(b) : inv[r].epoch >= cancel[k].epoch /\ (o = Nobody \/ inv[r].owner = o)
     \/ o = Nobody /\ epochs.saved[b] >= cancel[k].epoch

(* Fault: a book that is ready keeps its owners.                           *)
Answered_Ready(k) ==
  LET b == cancel[k].book  o == cancel[k].owner
      others == \E r \in Live(b) : inv[r].owner # o
      rest == record[b].owners \ {o}
  IN IF o # Nobody /\ (record[b].state = "ready" \/ o \notin record[b].owners)
     THEN [done |-> record[b].state = "ready" \/ rest # {} \/ others, owners |-> record[b].owners]
     ELSE [done |-> o # Nobody /\ (rest # {} \/ others),
           owners |-> IF o = Nobody THEN record[b].owners ELSE rest]

(* The owner's part of it: what is left of the owners, and whether that is *)
(* all there is to do.                                                     *)
Answered(k) ==
  LET b == cancel[k].book  o == cancel[k].owner
      others == \E r \in Live(b) : inv[r].owner # o
      rest == record[b].owners \ {o}
  IN IF o = Nobody THEN [done |-> FALSE, owners |-> record[b].owners]
     ELSE IF record[b].owners = {}
          THEN [done |-> others /\ record[b].state = "absent", owners |-> {}]
     ELSE IF o \notin record[b].owners \/ epochs.owner[b][o] >= cancel[k].epoch
          THEN [done |-> TRUE, owners |-> record[b].owners]
     ELSE [done |-> rest # {} \/ others \/ record[b].state = "ready", owners |-> rest]

CancelBody(k) ==
  LET b == cancel[k].book  o == cancel[k].owner  ans == Answered(k)
  IN /\ cancel[k].pc = "turn" /\ Turn(<<"cancel", k>>)
     /\ IF Overtaken(k) \/ ans.done
        THEN /\ record' = IF Overtaken(k) THEN record ELSE [record EXCEPT ![b].owners = ans.owners]
             /\ cancel' = [cancel EXCEPT ![k] = NoCancel]
             /\ PassTurn
             /\ epochs' = IF Overtaken(k) \/ o = Nobody \/ ans.owners = record[b].owners THEN epochs
                          ELSE [epochs EXCEPT !.owner[b][o] = 0]
             /\ UNCHANGED <<sched, stopped, removed>>
        ELSE /\ removed' = removed \union {b}
             /\ stopped' = stopped \union (sched.active \intersect {b})
             /\ sched' = [sched EXCEPT !.rerun = @ \ {b}]
             /\ cancel' = [cancel EXCEPT ![k].pc = "discard"]
             /\ epochs' = IF o = Nobody THEN epochs ELSE [epochs EXCEPT !.owner[b][o] = 0]
             /\ UNCHANGED <<record, chain>>
     /\ UNCHANGED <<identity, packed, inv, worker, word, budget, renewed>>

(* The files of the request are discarded: the record goes.                *)
CancelEnd(k) ==
  LET b == cancel[k].book
  IN /\ cancel[k].pc = "discard"
     /\ sched' = [sched EXCEPT !.pending = Unqueued(@, b)]
     /\ record' = [record EXCEPT ![b] = [Absent EXCEPT !.id = record[b].id]]
     /\ epochs' = [epochs EXCEPT !.saved[b] = 0, !.owner[b] = [o \in Owners |-> 0]]
     /\ removed' = IF b \in sched.active THEN removed ELSE removed \ {b}
     /\ cancel' = [cancel EXCEPT ![k] = NoCancel]
     /\ word' = [word EXCEPT ![b] = [o \in Owners |-> IF @[o] = "cancelled" THEN "none" ELSE @[o]]]
     /\ PassTurn
     /\ UNCHANGED <<identity, packed, inv, worker, stopped, budget, renewed>>

-----------------------------------------------------------------------------
(* runBook *)

Run(b) ==
  /\ worker[b].pc = "load"
  /\ IF b \in stopped \/ record[b].state = "absent"
     THEN Finish(b, FALSE)
     ELSE /\ worker' = [worker EXCEPT ![b] =
               [pc |-> "chapter", id |-> record[b].id, identity |-> record[b].identity,
                was |-> record[b].state = "ready", repair |-> FALSE,
                next |-> IF record[b].state = "ready" THEN 0 ELSE record[b].next]]
          /\ UNCHANGED <<sched, stopped, removed>>
  /\ UNCHANGED <<record, identity, packed, inv, cancel, chain, epochs, word, budget, renewed>>

Save(b, pc) == Goto(b, pc) /\ Queue(<<"save", b>>)
SelfRequest(b) == Goto(b, "self") /\ inv' = Invoke(b, b, Nobody)

(* One round of the loop, or what follows it, up to the next long await.   *)
Chapter(b) ==
  LET w == worker[b]
      c == w.next + 1
  IN /\ w.pc = "chapter"
     /\ \/ /\ ~CurrentRecord(b)
           /\ Finish(b, FALSE)
           /\ UNCHANGED <<inv, chain>>
        \/ /\ CurrentRecord(b) /\ identity[b] # w.identity /\ inv[b].pc = "free"
           /\ SelfRequest(b)
           /\ UNCHANGED <<chain, sched, stopped, removed>>
        \/ /\ CurrentRecord(b) /\ identity[b] = w.identity
           /\ IF w.next = Chapters THEN Goto(b, "publish") /\ UNCHANGED chain
              ELSE IF c \in packed[b]
              THEN /\ worker' = [worker EXCEPT ![b].pc = "boundary", ![b].next = c]
                   /\ Queue(<<"save", b>>)
              ELSE /\ worker' = [worker EXCEPT ![b].pc = "mark", ![b].repair = TRUE]
                   /\ Queue(<<"save", b>>)
           /\ UNCHANGED <<inv, sched, stopped, removed>>
     /\ UNCHANGED <<record, identity, packed, cancel, epochs, word, budget, renewed>>

(* prepareChapter answers, fails, or notices the abort.                    *)
Prepare(b) ==
  LET c == worker[b].next + 1
  IN /\ worker[b].pc = "prepare"
     /\ \/ /\ b \notin stopped
           /\ packed' = IF identity[b] = worker[b].identity
                        THEN [packed EXCEPT ![b] = @ \union {c}] ELSE packed
           /\ IF CurrentRecord(b)
              THEN /\ worker' = [worker EXCEPT ![b].pc = "boundary", ![b].next = c]
                   /\ Queue(<<"save", b>>)
                   /\ UNCHANGED <<sched, stopped, removed>>
              ELSE Finish(b, FALSE) /\ UNCHANGED chain
           /\ UNCHANGED budget
        \/ /\ b \in stopped /\ Throw(b) /\ UNCHANGED <<packed, budget>>
        \/ /\ b \notin stopped /\ Spend("fail") /\ Throw(b) /\ UNCHANGED packed
     /\ UNCHANGED <<record, identity, inv, cancel, epochs, word, renewed>>

(* beforeReadyCommit has published the catalogue.                          *)
Publish(b) ==
  /\ worker[b].pc = "publish"
  /\ \/ /\ ~CurrentRecord(b) /\ Finish(b, FALSE) /\ UNCHANGED <<inv, chain>>
     \/ /\ CurrentRecord(b) /\ identity[b] # worker[b].identity /\ inv[b].pc = "free"
        /\ SelfRequest(b)
        /\ UNCHANGED <<chain, sched, stopped, removed>>
     \/ /\ CurrentRecord(b) /\ identity[b] = worker[b].identity
        /\ Save(b, "final")
        /\ UNCHANGED <<inv, sched, stopped, removed>>
  /\ UNCHANGED <<record, identity, packed, cancel, epochs, word, budget, renewed>>

(* Fault: a save looks neither at the journal nor at the removals.         *)
Saves_Blind(b) == TRUE
Saves(b) == b \notin removed /\ record[b].state # "absent" /\ record[b].id = worker[b].id

SavedState(w) ==
  CASE w.pc = "mark"     -> "preparing"
    [] w.pc = "boundary" -> IF w.was /\ ~w.repair THEN "ready" ELSE "preparing"
    [] w.pc = "final"    -> "ready"
    [] OTHER             -> w.pc

(* The worker's turn: persist, and what it does after it.                  *)
SaveTurn(b) ==
  LET w == worker[b]
  IN /\ Turn(<<"save", b>>) /\ PassTurn
     /\ record' = IF ~Saves(b) THEN record
                  ELSE [record EXCEPT ![b].state = SavedState(w),
                                      ![b].next = w.next]
     /\ IF w.pc \in {"mark", "boundary"}
        THEN IF w.pc = "boundary" /\ sched.pending # <<>> /\ (~w.was \/ w.repair)
             THEN Finish(b, TRUE)
             ELSE /\ Goto(b, IF w.pc = "mark" THEN "prepare" ELSE "chapter")
                  /\ UNCHANGED <<sched, stopped, removed>>
        ELSE Finish(b, FALSE)
     /\ UNCHANGED <<identity, packed, inv, cancel, epochs, word, budget, renewed>>

-----------------------------------------------------------------------------
(* The surroundings. *)

(* The narrator, the text or the package format of the book changes.       *)
Change(b) ==
  /\ Spend("change")
  /\ identity' = [identity EXCEPT ![b] = @ + 1] /\ packed' = [packed EXCEPT ![b] = {}]
  /\ UNCHANGED <<record, inv, cancel, chain, worker, stopped, sched, removed, epochs, word, renewed>>

(* prioritize and move: a pending book changes its place.                  *)
Move(b) ==
  /\ Contains(sched.pending, b) /\ Head(sched.pending) # b /\ Spend("move")
  /\ sched' = [sched EXCEPT !.pending = <<b>> \o Unqueued(@, b)]
  /\ UNCHANGED <<record, identity, packed, inv, cancel, chain, worker, stopped, removed, epochs, word, renewed>>

(* A restart; restore requests what was neither ready nor paused.          *)
Restart ==
  /\ Spend("crash")
  /\ LET due == {b \in Books : record[b].state \in {"preparing", "error"}}
     IN inv' = [r \in Slots |-> IF r \in due THEN [NoInv EXCEPT !.pc = "load", !.book = r] ELSE NoInv]
  /\ cancel' = [k \in Cancels |-> NoCancel] /\ chain' = <<>>
  /\ worker' = [b \in Books |-> NoWorker] /\ stopped' = {} /\ sched' = Idle
  /\ removed' = {} /\ epochs' = NoEpochs
  /\ word' = [b \in Books |-> [o \in Owners |-> IF o \in record[b].owners THEN "accepted" ELSE "none"]]
  /\ renewed' = {} /\ UNCHANGED <<record, identity, packed>>

Requests == \E r \in Slots : Identify(r) \/ Admit(r) \/ Stored(r) \/ Replaced(r)
Cancelling == \E k \in Cancels : CancelTurn(k) \/ CancelBody(k) \/ CancelEnd(k)
Working == \E b \in Books : Run(b) \/ Chapter(b) \/ Prepare(b) \/ Publish(b) \/ SaveTurn(b)
Outside ==
  \/ \E r \in Callers, o \in Owners : Request(r, Main, o)
  \/ \E b \in Books \ {Main} : Request(CHOOSE r \in Callers : TRUE, b, CHOOSE o \in Owners : TRUE)
  \/ \E k \in Cancels :
       \/ \E o \in Owners : Cancel(k, Main, o)
       \/ Cancel(k, Main, Nobody)
  \/ Change(Main)
  \/ \E b \in Books : Move(b)
  \/ Restart

Next == Requests \/ Cancelling \/ Working \/ Outside
Spec == Init /\ [][Next]_vars
FairSpec == Spec /\ WF_vars(Requests \/ Cancelling \/ Working)

-----------------------------------------------------------------------------
(* A device whose request was accepted, and not cancelled since, is an     *)
(* owner of a record that is not paused, whatever other devices cancel     *)
(* meanwhile ("one device cannot pause preparation still needed by another *)
(* device").                                                               *)
Asked(b, o) == word[b][o] = "accepted"
AcceptedOwns ==
  /\ TypeOK
  /\ \A b \in Books, o \in Owners :
       Asked(b, o) => o \in record[b].owners /\ record[b].state \notin {"absent", "paused"}

Quiet(b) == /\ \A r \in Slots : inv[r].pc = "free" \/ inv[r].book # b
            /\ \A k \in Cancels : cancel[k].pc = "free" \/ cancel[k].book # b

(* A device that left, and whose cancellation has ended, owns nothing      *)
(* ("release the requesting account/device's preparation claim").  It is   *)
(* not so: while its cancellation waits for the request it has aborted,    *)
(* the cancellation of another device raises the epoch of that request,    *)
(* which then looks newer than the first cancellation.                     *)
CancelReleases ==
  \A b \in Books, o \in Owners : Quiet(b) /\ word[b][o] = "left" => o \notin record[b].owners

(* Nothing else keeps a device that left in the record, however requests,  *)
(* cancellations of several devices and saves overlap.                     *)
LeftOwnNothing ==
  \A b \in Books, o \in Owners :
    Quiet(b) /\ word[b][o] = "left" /\ <<b, o>> \notin renewed => o \notin record[b].owners

(* Nothing is prepared for nobody: once a book's last owner has left and   *)
(* its worker has ended, no record is left that a restart would take up.   *)
(* The scenes keep cancellations and anonymous requests apart: Answered    *)
(* counts the request of a restart, or of a worker whose book changed, as  *)
(* another owner, and the book is prepared though nobody wants it.         *)
NothingOrphaned ==
  \A b \in Books :
    /\ Quiet(b) /\ worker[b].pc = "off"
    /\ \A o \in Owners : word[b][o] \in {"left", "none"} /\ <<b, o>> \notin renewed
    => record[b].state \notin {"preparing", "error"}

(* A book that devices asked for is prepared, or fails, or is cancelled by *)
(* all of them.                                                            *)
Wanted(b) == \E o \in Owners : Asked(b, o)
Prepared ==
  \A b \in Books : Wanted(b) ~> ~Wanted(b) \/ record[b].state \in {"ready", "error"}
=============================================================================
