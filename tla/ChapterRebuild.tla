---------------------------- MODULE ChapterRebuild ----------------------------
(***************************************************************************)
(* lib/chapter-rebuild.js: the chapters of one book are computed anew, and *)
(* five stores move from structure n to structure n + 1 one after another: *)
(* the artifact, the transition record, the catalog, the positions and the *)
(* bookmarks.  A journal beside the artifact lets a crash or a failure be  *)
(* undone, or the rebuild be finished once it has committed.               *)
(*                                                                         *)
(* A rebuild and a recovery hold the book's mutation lock (BookLocks), so  *)
(* listeners' writes, which take its state lock, run between them.  Only   *)
(* the merge of a profile into another takes no lock of the book.  A store *)
(* is written as JsonStore says: completely or not at all.                 *)
(*                                                                         *)
(* A structure is a number.  A mark is the listener's position or the last *)
(* bookmark: who wrote it, the structure it is labelled with, and whether  *)
(* its chapter and offset are meant in that structure.                     *)
(***************************************************************************)
EXTENDS Naturals

CONSTANTS
  Users,
  Newest,   \* bound: the last structure
  Budgets   \* bound: how many writes, merges, faults and crashes there may be

Events == {"write", "merge", "fault", "crash", "rebuild"}

ASSUME RebuildAssumption == Newest \in Nat /\ Budgets \subseteq [Events -> Nat]

VARIABLES
  artifact, transitions, books,  \* structure of each (Partial: a torn copy)
  marks,    \* marks[s][u], s the positions or the bookmarks
  backup,   \* structure of the artifact's backup
  journal,  \* the durable journal
  op,       \* the rebuild or recovery that holds the lock; own: past its plan
  up,       \* the server answers requests
  acked,    \* acked[s][u]: the last write that was acknowledged
  exposed,  \* what reached the stores while an undecided journal lay there
  torn,     \* a copy was cut short that the durable journal knows nothing of
  budget

vars == <<artifact, transitions, books, marks, backup, journal, op, up, acked, exposed, torn,
          budget>>
kept == <<artifact, transitions, books, marks, backup>>
ghosts == <<acked, exposed, torn>>

Structures == 0 .. Newest
Partial    == Newest + 1
Kinds      == {"positions", "bookmarks"}
NoMark     == [id |-> 0, key |-> 0, sound |-> TRUE]
NoJournal  == [from |-> 0, to |-> 0, started |-> 0, transitions |-> 0,
               marks |-> [s \in Kinds |-> [u \in Users |-> NoMark]],
               committed |-> FALSE, audio |-> FALSE, there |-> FALSE]
Idle       == [kind |-> "none", own |-> FALSE, pc |-> "off", i |-> 0, mem |-> NoJournal]

Marks    == [id : Nat, key : Structures, sound : BOOLEAN]
Journals == [from : Structures, to : Structures, started : 0 .. 5, transitions : Structures,
             marks : [Kinds -> [Users -> Marks]],
             committed : BOOLEAN, audio : BOOLEAN, there : BOOLEAN]
Pcs == {"off", "recover", "undo", "plan", "backup", "prepare", "snapshot", "mark",
        "write", "commit", "audio", "audited", "cleanup"}

TypeOK ==
  /\ artifact \in Structures \union {Partial} /\ transitions \in Structures
  /\ books \in Structures /\ backup \in Structures \union {Partial}
  /\ marks \in [Kinds -> [Users -> Marks]]
  /\ journal \in Journals
  /\ op \in [kind : {"none", "rebuild", "visit", "startup"}, own : BOOLEAN, pc : Pcs,
             i : 0 .. 5, mem : Journals]
  /\ up \in BOOLEAN /\ acked \in [Kinds -> [Users -> Nat]]
  /\ exposed \subseteq {"write", "merge"} /\ torn \in BOOLEAN /\ budget \in [Events -> Nat]

Init ==
  /\ artifact = 0 /\ transitions = 0 /\ books = 0 /\ backup = 0
  /\ marks = [s \in Kinds |-> [u \in Users |-> NoMark]]
  /\ journal = NoJournal /\ op = Idle /\ up = TRUE
  /\ acked = [s \in Kinds |-> [u \in Users |-> 0]] /\ exposed = {}
  /\ torn = FALSE /\ budget \in Budgets

Spend(e) == budget[e] > 0 /\ budget' = [budget EXCEPT ![e] = @ - 1]
Undecided == journal.there /\ ~journal.committed
At(pc)    == op.pc = pc

-----------------------------------------------------------------------------
(* The operation goes on, ends, or throws: then a request fails, and a     *)
(* starting server exits.                                                  *)
Goto(pc) == op' = [op EXCEPT !.pc = pc]
Ends     == op' = Idle /\ up' = TRUE
Throws   == op' = Idle /\ UNCHANGED up

(* The journal found is dealt with: a rebuild may plan.                    *)
Recovered == IF op.kind = "rebuild" THEN Goto("plan") /\ UNCHANGED up ELSE Ends

Start(kind) ==
  /\ At("off") /\ up = (kind # "startup")
  /\ IF kind = "rebuild" THEN Spend("rebuild") ELSE UNCHANGED budget
  /\ op' = [Idle EXCEPT !.kind = kind, !.pc = "recover"]
  /\ UNCHANGED <<kept, journal, up, ghosts>>

Undone(j) == j.started

(* recoverPathUnlocked *)
Recover ==
  /\ At("recover")
  /\ IF ~journal.there THEN Recovered
     ELSE /\ op' = [op EXCEPT !.mem = journal, !.i = Undone(journal),
                    !.pc = IF ~journal.committed THEN "undo"
                           ELSE IF journal.audio THEN "cleanup" ELSE "audio"]
          /\ UNCHANGED up
  /\ UNCHANGED <<kept, journal, ghosts, budget>>

(* Users without a record in the snapshot keep what they have.             *)
Restored(j, s) ==
  [marks EXCEPT ![s] = [u \in Users |-> IF j.marks[s][u].id = 0 THEN marks[s][u] ELSE j.marks[s][u]]]

(* recoverJournal: the stores that were started, the last one first.       *)
Undo ==
  /\ At("undo")
  /\ IF op.i = 0
     THEN Goto("cleanup") /\ UNCHANGED <<artifact, transitions, books, marks>>
     ELSE /\ op' = [op EXCEPT !.i = @ - 1]
          /\ artifact' = IF op.i = 1 THEN backup ELSE artifact
          /\ transitions' = IF op.i = 2 THEN op.mem.transitions ELSE transitions
          /\ books' = IF op.i = 3 THEN op.mem.from ELSE books
          /\ marks' = CASE op.i = 4 -> Restored(op.mem, "positions")
                        [] op.i = 5 -> Restored(op.mem, "bookmarks")
                        [] OTHER    -> marks
  /\ UNCHANGED <<backup, journal, up, ghosts, budget>>

(* The journal goes; when it cannot be removed, nobody hears of it.        *)
Cleanup ==
  /\ At("cleanup")
  /\ \/ journal' = NoJournal /\ UNCHANGED budget
     \/ UNCHANGED journal /\ Spend("fault")
  /\ IF ~op.own THEN Recovered ELSE IF op.mem.committed THEN Ends ELSE Throws
  /\ UNCHANGED <<kept, ghosts>>

-----------------------------------------------------------------------------
(* commitPlan *)

Plan ==
  /\ At("plan")
  /\ IF artifact >= Newest THEN Ends   \* unsafe, or nothing to change
     ELSE /\ op' = [op EXCEPT !.own = TRUE, !.pc = "backup",
                    !.mem = [NoJournal EXCEPT !.from = artifact, !.to = artifact + 1,
                                              !.there = TRUE]]
          /\ UNCHANGED up
  /\ UNCHANGED <<kept, journal, ghosts, budget>>

Backup ==
  /\ At("backup") /\ Goto("prepare")
  /\ backup' = artifact
  /\ UNCHANGED <<artifact, transitions, books, marks, journal, up, ghosts, budget>>

(* The journal is written as the operation has it now.                     *)
Journal(mem, pc, i) ==
  /\ op' = [op EXCEPT !.mem = mem, !.pc = pc, !.i = i] /\ journal' = mem
  /\ UNCHANGED <<kept, up, ghosts, budget>>

Prepare == At("prepare") /\ Journal(op.mem, "snapshot", 0)

Snapshotted == [op.mem EXCEPT !.transitions = transitions, !.marks = marks]
Snapshot    == At("snapshot") /\ Journal(Snapshotted, "mark", 1)

(* Fault: a store is written before the journal says so.                   *)
MarkStarted_Late(i) == IF i = 1 THEN 0 ELSE i - 1
MarkStarted(i) == i
Mark == At("mark") /\ Journal([op.mem EXCEPT !.started = MarkStarted(op.i)], "write", op.i)

(* Fault: the marks that were read for the snapshot are written back.      *)
Current_Snapshot(s) == op.mem.marks[s]
Current(s) == marks[s]

Remapped(s) ==
  [marks EXCEPT ![s] = [u \in Users |->
     LET m == Current(s)[u]
     IN IF m.id = 0 THEN m
        ELSE [m EXCEPT !.key = op.mem.to, !.sound = @ /\ m.key = op.mem.from]]]

WriteStore ==
  /\ artifact' = IF op.i = 1 THEN op.mem.to ELSE artifact
  /\ transitions' = IF op.i = 2 THEN op.mem.to ELSE transitions
  /\ books' = IF op.i = 3 THEN op.mem.to ELSE books
  /\ marks' = CASE op.i = 4 -> Remapped("positions")
                [] op.i = 5 -> Remapped("bookmarks")
                [] OTHER    -> marks
  /\ UNCHANGED backup

Write ==
  /\ At("write") /\ WriteStore
  /\ op' = IF op.i = 5 THEN [op EXCEPT !.pc = "commit"]
           ELSE [op EXCEPT !.pc = "mark", !.i = @ + 1]
  /\ UNCHANGED <<journal, up, ghosts, budget>>

Commit  == At("commit") /\ Journal([op.mem EXCEPT !.committed = TRUE], "audio", 5)
Audio   == At("audio") /\ Goto("audited") /\ UNCHANGED <<kept, journal, up, ghosts, budget>>
Audited == At("audited") /\ Journal([op.mem EXCEPT !.audio = TRUE], "cleanup", 5)

(* A copy under way is not begun, done or cut short.  A torn artifact is   *)
(* lost when the journal's first mark had failed: nothing is undone again. *)
(* So is a torn backup that an undecided journal of an earlier rebuild,    *)
(* which could not be removed, still restores from.                        *)
Copying ==
  /\ artifact' \in {artifact} \union (IF At("undo") /\ op.i = 1 THEN {backup, Partial} ELSE {})
  /\ backup' \in {backup} \union (IF At("backup") THEN {artifact, Partial} ELSE {})
  /\ torn' = \/ torn
             \/ artifact' = Partial /\ journal.started = 0
             \/ backup' = Partial /\ Undecided /\ journal.started >= 1
  /\ UNCHANGED <<transitions, books, marks, acked, exposed>>

(* One of its operations fails, after it took effect or before.            *)
Fail ==
  /\ Spend("fault")
  /\ \/ /\ op.pc \in {"plan", "backup", "prepare", "undo"} /\ Throws /\ Copying
        /\ \/ UNCHANGED journal
           \/ op.pc = "prepare" /\ journal' = op.mem
     \/ /\ op.pc = "snapshot"
        /\ op' = [op EXCEPT !.pc = "undo", !.mem = Snapshotted]
        /\ journal' \in {journal, Snapshotted}
        /\ UNCHANGED <<kept, up, ghosts>>
     \/ /\ op.pc \in {"mark", "write"}
        /\ op' = [op EXCEPT !.pc = "undo", !.mem.started = op.i]
        /\ \/ UNCHANGED kept
           \/ op.pc = "write" /\ WriteStore
        /\ \/ UNCHANGED journal
           \/ op.pc = "mark" /\ journal' = op'.mem
        /\ UNCHANGED <<up, ghosts>>
     \/ /\ op.pc = "commit" /\ Ends
        /\ \/ UNCHANGED journal
           \/ journal' = [op.mem EXCEPT !.committed = TRUE]
        /\ UNCHANGED <<kept, ghosts>>
     \/ /\ op.pc \in {"audio", "audited"} /\ Ends
        /\ UNCHANGED <<kept, journal, ghosts>>
     \/ /\ op.pc = "cleanup"
        /\ IF op.mem.committed THEN Ends ELSE Throws
        /\ journal' \in {journal, NoJournal}
        /\ UNCHANGED <<kept, ghosts>>

-----------------------------------------------------------------------------
(* The surroundings. *)

(* The process dies.                                                       *)
Crash ==
  /\ Spend("crash")
  /\ op' = Idle /\ up' = FALSE
  /\ Copying /\ UNCHANGED journal

(* A listener's write; what a device means in an earlier structure is      *)
(* mapped (mapStateWriteToCurrent).                                        *)
Listen(s, u) ==
  /\ up /\ At("off") /\ Spend("write")
  /\ LET id == acked[s][u] + 1
     IN /\ marks' = [marks EXCEPT ![s][u] = [id |-> id, key |-> books, sound |-> TRUE]]
        /\ acked' = [acked EXCEPT ![s][u] = id]
  /\ exposed' = IF Undecided THEN exposed \union {"write"} ELSE exposed
  /\ UNCHANGED <<artifact, transitions, books, backup, journal, op, up, torn>>

(* A profile takes over the positions of another one.                      *)
Merge(u, v) ==
  /\ up /\ Spend("merge") /\ marks["positions"][u].id # 0
  /\ marks["positions"][v].id = 0
  /\ marks' = [marks EXCEPT !["positions"][v] = marks["positions"][u]]
  /\ acked' = [acked EXCEPT !["positions"][v] = marks["positions"][u].id]
  /\ exposed' = IF Undecided THEN exposed \union {"merge"} ELSE exposed
  /\ UNCHANGED <<artifact, transitions, books, backup, journal, op, up, torn>>

Works ==
  \/ Recover \/ Undo \/ Cleanup \/ Plan \/ Backup \/ Prepare \/ Snapshot \/ Mark \/ Write
  \/ Commit \/ Audio \/ Audited
Next ==
  \/ Works \/ Fail \/ Crash
  \/ \E kind \in {"rebuild", "visit", "startup"} : Start(kind)
  \/ \E s \in Kinds, u \in Users : Listen(s, u)
  \/ \E u, v \in Users : Merge(u, v)
Spec == Init /\ [][Next]_vars

-----------------------------------------------------------------------------
(* Without a journal the artifact, the catalog and the transition record   *)
(* are of one structure; a committed journal finds all of them there       *)
(* ("recovers every store after a crash").  Only the artifact may be a     *)
(* torn copy, and only once a copy was cut short that the durable journal  *)
(* does not know of.                                                       *)
Whole(a, n) == a = n \/ (torn /\ a = Partial)
Agree(n)    == Whole(artifact, n) /\ books = n /\ transitions = n
AllOrNothing ==
  /\ ~journal.there => Agree(books)
  /\ journal.there /\ journal.committed => Agree(journal.to)

(* No acknowledged position or bookmark is replaced by an older one, by a  *)
(* rebuild or its undoing, unless it came while the journal of a failed    *)
(* undoing was left.                                                       *)
ProgressKept == "write" \notin exposed => \A s \in Kinds, u \in Users : marks[s][u].id = acked[s][u]

(* Between rebuilds every mark is labelled with the structure its book     *)
(* has, and meant in it.                                                   *)
MarksReadable ==
  At("off") /\ ~Undecided /\ exposed = {} =>
    \A s \in Kinds, u \in Users : marks[s][u].id # 0 => marks[s][u].key = books /\ marks[s][u].sound

(* A rebuild loses no position or bookmark, and leaves each labelled with  *)
(* the structure it is meant in.                                           *)
ListenersKept == TypeOK /\ ProgressKept /\ MarksReadable
=============================================================================
