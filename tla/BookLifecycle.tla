---------------------------- MODULE BookLifecycle ----------------------------
(***************************************************************************)
(* What importing and deleting do to a book: the catalog (books.json), the *)
(* book's files in the cache, the shelves and positions that name it, the  *)
(* deletion log the devices read (book-deletion-log.js) and the in-memory  *)
(* set deletedBookIds that keeps late writers away.                        *)
(*                                                                         *)
(* Imports and deletions hold the books' locks; BookLocks is where the     *)
(* locks themselves are checked, here a lock is the value of owner.  The   *)
(* deferred sweeps call the lock too, from a timer armed inside the        *)
(* section of the deletion, whose store they inherit: BookLocks' Detach    *)
(* and Reenter.  So they run without waiting for the owner.                *)
(*                                                                         *)
(* The n-th deletion is a process; its number is also its requestedAt.     *)
(***************************************************************************)
EXTENDS Integers, FiniteSets, Sequences

CONSTANTS
  Books,
  Importers,   \* import requests
  Commands,    \* candidate ids of an import: the requested one, then the alternatives
  Refreshable, \* books whose own importer may import them again
  MaxDeletes,  \* bound: deletions that are begun
  Sweeps,      \* deferred sweeps of a deletion (three in the code)
  Feeds,       \* whether devices ask for the deletion feed
  MaxFaults,   \* bound: removals and updates that fail, files written late
  MaxCrashes,  \* bound: restarts
  Nobody

Deletions == 1..MaxDeletes

ASSUME LifecycleAssumption ==
  /\ Commands \subseteq Seq(Books)
  /\ \A c \in Commands : Len(c) > 0
  /\ Refreshable \subseteq Books
  /\ MaxDeletes \in Nat /\ Sweeps \in Nat /\ Feeds \in BOOLEAN
  /\ MaxFaults \in Nat /\ MaxCrashes \in Nat
  /\ Nobody \notin Books \union Importers \union Deletions
  /\ Importers \intersect Deletions = {}

VARIABLES
  catalog,    \* books.json
  files,      \* the books with files in the cache
  refs,       \* the books that shelves, positions, bookmarks or queues name
  pending,    \* the log's pending deletions
  revision,   \* the log's revision
  published,  \* published[b]: the log's deletion record of b
  tombstones, \* deletedBookIds
  owner,      \* who holds the lock of a book
  imp,        \* imp[i]: the state of an import
  del,        \* del[n]: the state of the n-th deletion
  sweep,      \* sweep[n]: the state of the deletion's deferred sweeps
  feed,       \* the feed request being served
  removedBy,  \* history: the last deletion that took b out of the catalog
  spoiled,    \* history: books whose files a sweep or a refresh took away while
              \* the library or an import needed them
  room        \* faults and crashes still allowed

stores == <<catalog, refs, pending, revision, published>>
lifeVars == <<stores, files, tombstones, owner, imp, del, sweep, feed, removedBy, spoiled, room>>

IdleImport == [pc |-> "idle", cmd |-> <<>>, k |-> 0, best |-> Nobody, good |-> FALSE, own |-> {}]
NoDeletion == [pc |-> "none", book |-> Nobody]
NoSweep    == [pc |-> "none", left |-> 0]
NoFeed     == [pc |-> "idle", seen |-> {}]

LifeTypeOK ==
  /\ catalog \subseteq Books /\ files \subseteq Books /\ refs \subseteq Books
  /\ tombstones \subseteq Books
  /\ pending \subseteq Deletions
  /\ revision \in Nat
  /\ published \in [Books -> [n : 0..MaxDeletes, rev : Nat]]
  /\ owner \in [Books -> Importers \union Deletions \union {Nobody}]
  /\ imp \in [Importers -> [pc : {"idle", "acquire", "judge", "persist", "finish", "fail"},
                            cmd : Commands \union {<<>>}, k : Nat,
                            best : Books \union {Nobody}, good : BOOLEAN, own : SUBSET Books]]
  /\ \A i \in Importers : imp[i].k <= Len(imp[i].cmd) + 1
  /\ del \in [Deletions -> [pc : {"none", "remove", "commit", "remember", "cleanup",
                                  "refs", "deleted", "ended"},
                            book : Books \union {Nobody}]]
  /\ sweep \in [Deletions -> [pc : {"none", "armed", "checking", "removing"}, left : 0..Sweeps]]
  /\ feed \in [pc : {"idle", "reconcile"}, seen : SUBSET Books]
  /\ removedBy \in [Books -> 0..MaxDeletes]
  /\ spoiled \subseteq Books
  /\ room \in [faults : 0..MaxFaults, crashes : 0..MaxCrashes]

(* A library that holds some books, each with its files.                   *)
LifeInit ==
  /\ catalog \in SUBSET Books
  /\ files = catalog
  /\ refs = catalog
  /\ pending = {} /\ revision = 0
  /\ published = [b \in Books |-> [n |-> 0, rev |-> 0]]
  /\ tombstones = {}
  /\ owner = [b \in Books |-> Nobody]
  /\ imp = [i \in Importers |-> IdleImport]
  /\ del = [n \in Deletions |-> NoDeletion]
  /\ sweep = [n \in Deletions |-> NoSweep]
  /\ feed = NoFeed
  /\ removedBy = [b \in Books |-> 0]
  /\ spoiled = {}
  /\ room = [faults |-> MaxFaults, crashes |-> MaxCrashes]

SpendRoom(what) == room[what] > 0 /\ room' = [room EXCEPT ![what] = @ - 1]

Release(x) == owner' = [b \in Books |-> IF owner[b] = x THEN Nobody ELSE owner[b]]

-----------------------------------------------------------------------------
(* Import: importDownloadedBook and the importer.                          *)

Candidate(i) == imp[i].cmd[imp[i].k]
CandidateIds(c) == {c[j] : j \in 1..Len(c)}

ImportStart(i, c) ==
  /\ imp[i].pc = "idle"
  /\ \A b \in CandidateIds(c) : owner[b] = Nobody
  /\ c[1] \in catalog => c[1] \in Refreshable
  /\ owner' = [b \in Books |-> IF b \in CandidateIds(c) THEN i ELSE owner[b]]
  /\ tombstones' = tombstones \ {c[1]}
  /\ imp' = [imp EXCEPT ![i] = [IdleImport EXCEPT !.pc = "acquire", !.cmd = c, !.k = 1]]
  /\ UNCHANGED <<stores, files, del, sweep, feed, removedBy, spoiled, room>>

(* Fault: an alternative's id is not checked against the library. *)
Available_Unchecked(i) == TRUE

(* isImportTargetAvailable: an alternative may not be a book in the        *)
(* library nor the requested id; the requested id passed at the start.     *)
Available(i) ==
  imp[i].k = 1 \/ (Candidate(i) \notin catalog /\ \A j \in 1..(imp[i].k - 1) : imp[i].cmd[j] # Candidate(i))

(* The candidate's source becomes <id>.<ext> in the cache.                 *)
Acquire(i) ==
  /\ imp[i].pc = "acquire"
  /\ imp[i].k <= Len(imp[i].cmd)
  /\ Available(i)
  /\ files' = files \union {Candidate(i)}
  /\ spoiled' = spoiled \ {Candidate(i)}
  /\ imp' = [imp EXCEPT ![i].pc = "judge", ![i].own = @ \union {Candidate(i)}]
  /\ UNCHANGED <<stores, tombstones, owner, del, sweep, feed, removedBy, room>>

(* Next alternative, or the end of the search.                             *)
Onward(r) == [r EXCEPT !.pc = IF r.best = Nobody /\ r.k >= Len(r.cmd) THEN "fail"
                              ELSE IF r.good \/ r.k >= Len(r.cmd) THEN "persist" ELSE "acquire",
                       !.k = @ + 1]

(* An alternative that cannot be used or acquired; a primary that cannot   *)
(* be acquired ends the import.                                            *)
PassOver(i) ==
  /\ imp[i].pc = "acquire"
  /\ imp' = [imp EXCEPT ![i] = IF @.k = 1 THEN [@ EXCEPT !.pc = "fail"] ELSE Onward(@)]
  /\ UNCHANGED <<stores, files, tombstones, owner, del, sweep, feed, removedBy, spoiled, room>>

(* The book the import was asked for, if the library has it already: an    *)
(* import of it again, in place, owns the file the library's record names. *)
Refreshed(i) == catalog \intersect {imp[i].cmd[1]}

TakeAway(i, S) ==
  /\ files' = files \ (S \intersect imp[i].own)
  /\ spoiled' = spoiled \union (S \intersect imp[i].own \intersect Refreshed(i))

Drop(i, S) ==
  /\ TakeAway(i, S)
  /\ UNCHANGED <<stores, tombstones, owner, del, sweep, feed, removedBy, room>>

(* Invalid, or no better than the best so far: its file goes.              *)
Reject(i) ==
  /\ imp[i].pc = "judge"
  /\ Drop(i, {Candidate(i)})
  /\ imp' = [imp EXCEPT ![i] = Onward([imp[i] EXCEPT !.own = @ \ {Candidate(i)}])]

Prefer(i) ==
  /\ imp[i].pc = "judge"
  /\ \E good \in BOOLEAN :
       /\ Drop(i, {imp[i].best})
       /\ imp' = [imp EXCEPT ![i] = Onward([imp[i] EXCEPT !.own = @ \ {imp[i].best},
                                                          !.best = Candidate(i), !.good = good])]

(* The file to be removed cannot be: the candidate is passed over and      *)
(* stays owned, the best stays the best; at the primary the import ends.   *)
RemovalFails(i) ==
  /\ imp[i].pc = "judge"
  /\ SpendRoom("faults")
  /\ imp' = [imp EXCEPT ![i] = IF @.k = 1 THEN [@ EXCEPT !.pc = "fail"] ELSE Onward(@)]
  /\ UNCHANGED <<stores, files, tombstones, owner, del, sweep, feed, removedBy, spoiled>>

Persist(i) ==
  /\ imp[i].pc = "persist"
  /\ catalog' = catalog \union {imp[i].best}
  /\ imp' = [imp EXCEPT ![i].pc = "finish", ![i].own = {}]
  /\ UNCHANGED <<refs, pending, revision, published, files, tombstones, owner, del, sweep, feed,
                 removedBy, spoiled, room>>

(* Any step of the requested candidate, or of the chosen one, may fail     *)
(* before the record is written; a duplicate title does.                   *)
ImportError(i) ==
  /\ imp[i].pc = "persist" \/ (imp[i].pc = "judge" /\ imp[i].k = 1)
  /\ imp' = [imp EXCEPT ![i].pc = "fail"]
  /\ UNCHANGED <<stores, files, tombstones, owner, del, sweep, feed, removedBy, spoiled, room>>

ImportFail(i) ==
  /\ imp[i].pc = "fail"
  /\ \/ TakeAway(i, imp[i].own) /\ UNCHANGED room
     \/ SpendRoom("faults") /\ UNCHANGED <<files, spoiled>>
  /\ Release(i)
  /\ imp' = [imp EXCEPT ![i] = IdleImport]
  /\ UNCHANGED <<stores, tombstones, del, sweep, feed, removedBy>>

ImportFinish(i) ==
  /\ imp[i].pc = "finish"
  /\ tombstones' = tombstones \ {imp[i].best}
  /\ refs' = refs \union {imp[i].best}
  /\ Release(i)
  /\ imp' = [imp EXCEPT ![i] = IdleImport]
  /\ UNCHANGED <<catalog, pending, revision, published, files, del, sweep, feed, removedBy, spoiled,
                 room>>

-----------------------------------------------------------------------------
(* The deletion log.                                                       *)

(* Fault: a record published again keeps its revision. *)
Publish_SameRevision(b, n) ==
  /\ revision' = IF published[b].n = 0 THEN revision + 1 ELSE revision
  /\ published' = [published EXCEPT ![b] = [n |-> n, rev |-> revision']]

Publish(b, n) ==
  /\ revision' = revision + 1
  /\ published' = [published EXCEPT ![b] = [n |-> n, rev |-> revision']]

-----------------------------------------------------------------------------
(* Delete: deleteBook, inside the book's lock.                             *)

Step(n, pc) == del' = [del EXCEPT ![n].pc = pc]

DeleteBegin(n, b) ==
  /\ del[n].pc = "none"
  /\ \A m \in 1..(n - 1) : del[m].pc # "none"
  /\ owner[b] = Nobody
  /\ owner' = [owner EXCEPT ![b] = n]
  /\ pending' = pending \union {n}
  /\ del' = [del EXCEPT ![n] = [pc |-> "remove", book |-> b]]
  /\ UNCHANGED <<catalog, refs, revision, published, files, tombstones, imp, sweep, feed,
                 removedBy, spoiled, room>>

(* Not found, forbidden, or the catalog could not be written; the abort    *)
(* may fail too, and the pending record stays.                             *)
DeleteAbort(n) ==
  /\ del[n].pc = "remove"
  /\ \/ pending' = pending \ {n} /\ UNCHANGED room
     \/ SpendRoom("faults") /\ UNCHANGED pending
  /\ Step(n, "ended")
  /\ Release(n)
  /\ UNCHANGED <<catalog, refs, revision, published, files, tombstones, imp, sweep, feed, removedBy,
                 spoiled>>

DeleteRemove(n) ==
  /\ del[n].pc = "remove"
  /\ del[n].book \in catalog
  /\ catalog' = catalog \ {del[n].book}
  /\ removedBy' = [removedBy EXCEPT ![del[n].book] = n]
  /\ Step(n, "commit")
  /\ UNCHANGED <<refs, pending, revision, published, files, tombstones, owner, imp, sweep, feed,
                 spoiled, room>>

(* A token the feed already resolved is gone, and nothing is saved.        *)
DeleteCommit(n) ==
  /\ del[n].pc = "commit"
  /\ IF n \in pending THEN Publish(del[n].book, n) ELSE UNCHANGED <<revision, published>>
  /\ pending' = pending \ {n}
  /\ Step(n, "remember")
  /\ UNCHANGED <<catalog, refs, files, tombstones, owner, imp, sweep, feed, removedBy, spoiled, room>>

(* The commit fails: the pending record is retained.                       *)
DeleteCommitFails(n) ==
  /\ del[n].pc = "commit"
  /\ SpendRoom("faults")
  /\ Step(n, "remember")
  /\ UNCHANGED <<stores, files, tombstones, owner, imp, sweep, feed, removedBy, spoiled>>

DeleteRemember(n) ==
  /\ del[n].pc = "remember"
  /\ tombstones' = tombstones \union {del[n].book}
  /\ Step(n, "cleanup")
  /\ UNCHANGED <<stores, files, owner, imp, sweep, feed, removedBy, spoiled, room>>

ArmSweeps(n) ==
  sweep' = [sweep EXCEPT ![n] = IF Sweeps = 0 THEN NoSweep ELSE [pc |-> "armed", left |-> Sweeps]]

(* Fault: a cleanup that could not remove everything arms no sweeps. *)
DeleteCleanup_NoSweeps(n) ==
  /\ del[n].pc = "cleanup"
  /\ \/ files' = files \ {del[n].book} /\ ArmSweeps(n) /\ UNCHANGED room
     \/ SpendRoom("faults") /\ UNCHANGED <<files, sweep>>
  /\ Step(n, "refs")
  /\ UNCHANGED <<stores, tombstones, owner, imp, feed, removedBy, spoiled>>

(* Jobs are cancelled and waited for, the files removed, the sweeps armed; *)
(* a removal that fails is reported and left to the sweeps.                *)
DeleteCleanup(n) ==
  /\ del[n].pc = "cleanup"
  /\ \/ files' = files \ {del[n].book} /\ UNCHANGED room
     \/ SpendRoom("faults") /\ UNCHANGED files
  /\ ArmSweeps(n)
  /\ Step(n, "refs")
  /\ UNCHANGED <<stores, tombstones, owner, imp, feed, removedBy, spoiled>>

DeleteRefs(n) ==
  /\ del[n].pc = "refs"
  /\ refs' = refs \ {del[n].book}
  /\ Step(n, "deleted")
  /\ Release(n)
  /\ UNCHANGED <<catalog, pending, revision, published, files, tombstones, imp, sweep, feed,
                 removedBy, spoiled, room>>

(* Cancelling jobs or updating a store throws: the rest does not happen.   *)
DeleteThrows(n) ==
  /\ del[n].pc \in {"cleanup", "refs"}
  /\ SpendRoom("faults")
  /\ Step(n, "ended")
  /\ Release(n)
  /\ UNCHANGED <<stores, files, tombstones, imp, sweep, feed, removedBy, spoiled>>

-----------------------------------------------------------------------------
(* The deferred sweeps of a deletion.                                      *)

SweepEnd(n) ==
  /\ sweep' = [sweep EXCEPT ![n] = [pc |-> IF @.left = 1 THEN "none" ELSE "armed", left |-> @.left - 1]]
  /\ tombstones' = IF sweep[n].left = 1 THEN tombstones \ {del[n].book} ELSE tombstones

SweepStart(n) ==
  /\ sweep[n].pc = "armed"
  /\ IF del[n].book \in tombstones
     THEN sweep' = [sweep EXCEPT ![n].pc = "checking"] /\ UNCHANGED tombstones
     ELSE SweepEnd(n)
  /\ UNCHANGED <<stores, files, owner, imp, del, feed, removedBy, spoiled, room>>

SweepCheck(n) ==
  /\ sweep[n].pc = "checking"
  /\ IF del[n].book \notin catalog
     THEN sweep' = [sweep EXCEPT ![n].pc = "removing"] /\ UNCHANGED tombstones
     ELSE SweepEnd(n)
  /\ UNCHANGED <<stores, files, owner, imp, del, feed, removedBy, spoiled, room>>

(* The books whose files the library or an import needs.                   *)
Needed == catalog \union UNION {imp[i].own : i \in Importers}

SweepRemove(n) ==
  /\ sweep[n].pc = "removing"
  /\ \/ /\ files' = files \ {del[n].book}
        /\ spoiled' = spoiled \union ({del[n].book} \intersect Needed)
        /\ UNCHANGED room
     \/ SpendRoom("faults") /\ UNCHANGED <<files, spoiled>>
  /\ SweepEnd(n)
  /\ UNCHANGED <<stores, owner, imp, del, feed, removedBy>>

(* Generation that outlived the deletion writes one more file.             *)
LateWrite(b) ==
  /\ SpendRoom("faults")
  /\ b \in tombstones \ catalog
  /\ \E n \in Deletions : del[n].book = b /\ sweep[n].pc = "armed"
  /\ files' = files \union {b}
  /\ UNCHANGED <<stores, tombstones, owner, imp, del, sweep, feed, removedBy, spoiled>>

-----------------------------------------------------------------------------
(* GET /api/offline/deletions.                                             *)

FeedLoad ==
  /\ Feeds
  /\ feed.pc = "idle"
  /\ feed' = [pc |-> "reconcile", seen |-> catalog]
  /\ UNCHANGED <<stores, files, tombstones, owner, imp, del, sweep, removedBy, spoiled, room>>

(* Pending deletions of books the snapshot shows are dropped, the others   *)
(* published, in the order of their tokens' insertion.                     *)
FeedReconcile ==
  /\ feed.pc = "reconcile"
  /\ LET gone  == {n \in pending : del[n].book \notin feed.seen}
         place(n) == Cardinality({m \in gone : m <= n})
         last(b) == {n \in gone : del[n].book = b /\ \A m \in gone : del[m].book = b => m <= n}
     IN /\ revision' = revision + Cardinality(gone)
        /\ published' = [b \in Books |->
             IF last(b) = {} THEN published[b]
             ELSE LET n == CHOOSE n \in last(b) : TRUE IN [n |-> n, rev |-> revision + place(n)]]
  /\ pending' = {}
  /\ feed' = NoFeed
  /\ UNCHANGED <<catalog, refs, files, tombstones, owner, imp, del, sweep, removedBy, spoiled, room>>

-----------------------------------------------------------------------------
(* The process dies and starts again: stores and files remain.             *)
Restart ==
  /\ SpendRoom("crashes")
  /\ tombstones' = {}
  /\ owner' = [b \in Books |-> Nobody]
  /\ imp' = [i \in Importers |-> IdleImport]
  /\ del' = [n \in Deletions |->
       IF del[n].pc \in {"none", "deleted"} THEN del[n] ELSE [del[n] EXCEPT !.pc = "ended"]]
  /\ sweep' = [n \in Deletions |-> NoSweep]
  /\ feed' = NoFeed
  /\ UNCHANGED <<stores, files, removedBy, spoiled>>

ImportStep(i) ==
  \/ Acquire(i) \/ PassOver(i) \/ Reject(i) \/ Prefer(i) \/ RemovalFails(i) \/ Persist(i)
  \/ ImportError(i) \/ ImportFail(i) \/ ImportFinish(i)

DeleteStep(n) ==
  \/ DeleteAbort(n) \/ DeleteRemove(n) \/ DeleteCommit(n) \/ DeleteCommitFails(n)
  \/ DeleteRemember(n) \/ DeleteCleanup(n) \/ DeleteRefs(n) \/ DeleteThrows(n)

SweepStep(n) == SweepStart(n) \/ SweepCheck(n) \/ SweepRemove(n)

LifeNext ==
  \/ \E i \in Importers : (\E c \in Commands : ImportStart(i, c)) \/ ImportStep(i)
  \/ \E n \in Deletions : (\E b \in Books : DeleteBegin(n, b)) \/ DeleteStep(n) \/ SweepStep(n)
  \/ \E b \in Books : LateWrite(b)
  \/ FeedLoad \/ FeedReconcile
  \/ Restart

LifeSpec == LifeInit /\ [][LifeNext]_lifeVars

(* Handlers run to their end and timers fire.                              *)
FairSpec ==
  /\ LifeSpec
  /\ \A i \in Importers : WF_lifeVars(ImportStep(i))
  /\ \A n \in Deletions : WF_lifeVars(DeleteStep(n)) /\ WF_lifeVars(SweepStep(n))
  /\ WF_lifeVars(FeedReconcile)

-----------------------------------------------------------------------------
(* Properties.                                                             *)

(* createFileOwnership, deleteBook: a book in the library has its files,   *)
(* unless a sweep met it or a refresh of that very book took them: an      *)
(* import that fails or prefers another candidate removes only what it     *)
(* wrote itself, a deletion removes the record first.                      *)
LiveBookIntact == catalog \ spoiled \subseteq files

(* A rejected import and a finished deletion leave neither files nor       *)
(* references of a book that is not in the library, as long as no removal  *)
(* or update failed and the process did not restart.                       *)
NothingLeftBehind ==
  room = [faults |-> MaxFaults, crashes |-> MaxCrashes] =>
    \A b \in Books : owner[b] = Nobody /\ b \notin catalog => b \notin files \union refs

(* A book of the library has its files, whatever is imported and deleted   *)
(* beside it, and what was rejected or deleted leaves none.                *)
FilesFollowLibrary == LifeTypeOK /\ LiveBookIntact /\ NothingLeftBehind

(* GET /api/offline/deletions and the restart: a book that is gone has a   *)
(* record of its last deletion, pending or published, so devices learn it. *)
DeletionRecorded ==
  \A b \in Books :
    b \notin catalog /\ removedBy[b] > 0 =>
      removedBy[b] \in pending \/ published[b].n >= removedBy[b]

(* book-deletion-log.js: a device that has applied revision r misses no    *)
(* record: a record that changes gets a revision above every earlier one.  *)
CursorSound ==
  [][\A b \in Books : published'[b] # published[b] => published'[b].rev > revision]_lifeVars

(* scheduleSweeps: the files of a deleted book are gone in the end, even   *)
(* if a removal failed or generation wrote once more meanwhile, unless the *)
(* book is imported again.                                                 *)
Deleted(n, b) == del[n].pc = "deleted" /\ del[n].book = b
FilesGone(b)  == b \notin files \/ b \in catalog \/ owner[b] \in Importers
DeletedFilesGo == \A n \in Deletions : \A b \in Books : Deleted(n, b) ~> FilesGone(b)
=============================================================================
