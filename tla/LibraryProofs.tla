----------------------------- MODULE LibraryProofs -----------------------------
(***************************************************************************)
(* Proofs about what becomes of a book and of its listeners' places, for   *)
(* the components that MCLibrary puts side by side: a rebuild of a book's  *)
(* chapters is all or nothing and keeps what listeners did; the audio of   *)
(* rebuilt chapters follows them; positions of several devices are kept;   *)
(* imports and deletions keep the library and its files together.          *)
(***************************************************************************)
EXTENDS BookLifecycle, ChapterRebuild, ChapterAudio, PositionSync, FiniteSetTheorems,
        WellFoundedInduction, TLAPS

-----------------------------------------------------------------------------
(* ChapterRebuild: a rebuild is all or nothing.                            *)

(* The stores are those of structure n, as far as they come after the      *)
(* store k in the order in which a rebuild writes them.                    *)
OldAfter(k, n) ==
  /\ k < 1 => Whole(artifact, n)
  /\ k < 2 => transitions = n
  /\ k < 3 => books = n

(* The first k stores are of structure n.                                  *)
NewUpTo(k, n) ==
  /\ k >= 1 => Whole(artifact, n)
  /\ k >= 2 => transitions = n
  /\ k >= 3 => books = n

(* What is durable is enough to undo what was started, and stores that     *)
(* were not started are as they were.                                      *)
Undoable ==
  Undecided =>
    /\ journal.started >= 1 => Whole(backup, journal.from) /\ journal.transitions = journal.from
    /\ OldAfter(journal.started, journal.from)

(* Nothing is half done: a rebuild may begin, and what lies there of an    *)
(* earlier one may be undone once more.                                    *)
Clean ==
  /\ Agree(books)
  /\ Undecided => books = journal.from

(* What an operation that is past its plan knows.                          *)
Fresh == /\ op.mem.there /\ ~op.mem.committed /\ op.mem.started = 0
         /\ op.mem.from = books
Holding == /\ journal = op.mem /\ Undecided /\ Whole(backup, journal.from)
           /\ NewUpTo(op.i - 1, journal.to) /\ OldAfter(op.i, journal.from)

(* Where the operation is, and what holds there.                           *)
Located ==
  /\ op.pc \in {"plan", "backup", "prepare"} => Clean
  /\ op.pc \in {"backup", "prepare"} => Fresh
  /\ op.pc = "prepare" => Whole(backup, books)
  /\ op.pc = "snapshot" => /\ journal = op.mem /\ Undecided /\ journal.started = 0
                           /\ op.i = 0 /\ Whole(backup, journal.from)
  /\ op.pc = "mark" => /\ Holding /\ journal.started = op.i - 1 /\ op.i >= 1
                       /\ OldAfter(op.i - 1, journal.from)
                       /\ journal.transitions = journal.from
  /\ op.pc = "write" => /\ Holding /\ journal.started = op.i /\ op.i >= 1
                        /\ OldAfter(op.i - 1, journal.from)
  /\ op.pc = "commit" => /\ journal = op.mem /\ Undecided /\ journal.started = 5
                         /\ Agree(journal.to)
  /\ op.pc \in {"audio", "audited"} => /\ journal = op.mem /\ journal.there /\ journal.committed
  /\ op.pc = "undo" =>
       /\ Undecided /\ ~op.mem.committed
       /\ op.mem.from = journal.from
       /\ journal.started <= op.mem.started
       /\ op.mem.started >= 1 =>
            Whole(backup, journal.from) /\ op.mem.transitions = journal.from
       /\ op.i <= op.mem.started
       /\ OldAfter(op.mem.started, journal.from)
       /\ op.i < 1 => Whole(artifact, journal.from)
       /\ op.i < 2 => transitions = journal.from
       /\ op.i < 3 => books = journal.from
  /\ op.pc = "cleanup" =>
       /\ journal.there /\ (journal.committed <=> op.mem.committed)
       /\ Undecided => Agree(journal.from)

Ops == [kind : {"none", "rebuild", "visit", "startup"}, own : BOOLEAN, pc : Pcs, i : 0 .. 5,
        mem : Journals]

(* What is not the operation and not the bounds.                           *)
Stored ==
  /\ artifact \in Structures \union {Partial} /\ transitions \in Structures
  /\ books \in Structures /\ backup \in Structures \union {Partial}
  /\ marks \in [Kinds -> [Users -> Marks]]
  /\ journal \in Journals
  /\ up \in BOOLEAN /\ acked \in [Kinds -> [Users -> Nat]]
  /\ exposed \subseteq {"write", "merge"} /\ torn \in BOOLEAN

Typed == Stored /\ op \in Ops /\ budget \in [Events -> Nat]

IInv == Typed /\ AllOrNothing /\ Undoable /\ Located

-----------------------------------------------------------------------------
(* Every step that is an operation's own, a failure, or a listener's.       *)
LEMMA NextCases ==
  ASSUME [Next]_vars
  PROVE  \/ Recover \/ Undo \/ Cleanup \/ Plan \/ Backup \/ Prepare \/ Snapshot \/ Mark
         \/ Write \/ Commit \/ Audio \/ Audited \/ Fail \/ Crash
         \/ \E kind \in {"rebuild", "visit", "startup"} : Start(kind)
         \/ \E s \in Kinds, u \in Users : Listen(s, u)
         \/ \E u, v \in Users : Merge(u, v)
         \/ UNCHANGED vars
  BY DEF Next, Works

(* A mark, a journal and an idle operation are of their types.             *)
LEMMA Constants ==
  /\ NoMark \in Marks /\ NoJournal \in Journals /\ 0 \in Structures /\ Newest \in Structures
  /\ \A n \in Structures : n \in Nat /\ n <= Newest
  /\ Partial \notin Structures
  /\ [u \in Users |-> NoMark] \in [Users -> Marks]
  BY RebuildAssumption DEF NoMark, Marks, NoJournal, Journals, Structures, Kinds, Partial

LEMMA TypeParts == TypeOK <=> Typed
  BY DEF TypeOK, Typed, Stored, Ops

(* An edited operation, and an edited journal, are of their types.         *)
LEMMA OpEdits ==
  \A o \in Ops :
    /\ o.mem \in Journals /\ o.i \in 0 .. 5 /\ o.pc \in Pcs
    /\ \A kind \in {"rebuild", "visit", "startup"}, pc \in Pcs : [o EXCEPT !.kind = kind, !.pc = pc] \in Ops
    /\ \A i \in 0 .. 5 : [o EXCEPT !.i = i] \in Ops
    /\ \A pc \in Pcs : /\ [o EXCEPT !.pc = pc] \in Ops
                       /\ \A i \in 0 .. 5 : [o EXCEPT !.pc = pc, !.i = i] \in Ops
                       /\ \A mem \in Journals : [o EXCEPT !.own = TRUE, !.pc = pc, !.mem = mem] \in Ops
                       /\ \A i \in 0 .. 5, mem \in Journals : [o EXCEPT !.mem = mem, !.pc = pc, !.i = i] \in Ops
  BY DEF Ops

LEMMA JournalEdits ==
  \A j \in Journals :
    /\ j.from \in Structures /\ j.to \in Structures /\ j.transitions \in Structures
    /\ j.started \in 0 .. 5 /\ j.marks \in [Kinds -> [Users -> Marks]]
    /\ j.committed \in BOOLEAN /\ j.audio \in BOOLEAN /\ j.there \in BOOLEAN
    /\ \A n, k \in Structures : [j EXCEPT !.from = n, !.to = k, !.there = TRUE] \in Journals
    /\ \A n \in Structures, m \in [Kinds -> [Users -> Marks]] :
         [j EXCEPT !.transitions = n, !.marks = m] \in Journals
    /\ \A i \in 0 .. 5 : [j EXCEPT !.started = i] \in Journals
    /\ [j EXCEPT !.committed = TRUE] \in Journals
    /\ [j EXCEPT !.audio = TRUE] \in Journals
  BY DEF Journals

(* There is no journal at first.                                           *)
LEMMA Nothing == /\ ~NoJournal.there /\ ~NoJournal.committed /\ NoJournal.started = 0
                 /\ NoJournal \in Journals
  BY Constants DEF NoJournal

(* An idle operation is one, and one that begins.                          *)
LEMMA IdleType ==
  /\ Idle \in Ops /\ Idle.pc = "off"
  /\ \A kind \in {"rebuild", "visit", "startup"} : [Idle EXCEPT !.kind = kind, !.pc = "recover"] \in Ops
<1>1. "off" \in Pcs /\ "recover" \in Pcs
  BY DEF Pcs
<1>2. Idle \in Ops /\ Idle.pc = "off"
  BY <1>1, Nothing DEF Idle, Ops
<1> QED
  BY <1>1, <1>2, OpEdits

LEMMA SpendType ==
  ASSUME budget \in [Events -> Nat], NEW e \in Events, Spend(e)
  PROVE  budget' \in [Events -> Nat]
  BY DEF Spend, Events

LEMMA TypeInit == Init => Typed
<1> SUFFICES ASSUME Init PROVE Typed
  OBVIOUS
<1>1. op \in Ops
  BY IdleType DEF Init
<1>2. Stored
  BY Constants DEF Init, Stored, Kinds
<1> QED
  BY <1>1, <1>2, RebuildAssumption DEF Init, Typed

(* The places of an operation.                                             *)
LEMMA Whereabouts ==
  /\ "off" \in Pcs /\ "recover" \in Pcs /\ "undo" \in Pcs /\ "plan" \in Pcs
  /\ "backup" \in Pcs /\ "prepare" \in Pcs /\ "snapshot" \in Pcs /\ "mark" \in Pcs
  /\ "write" \in Pcs /\ "commit" \in Pcs /\ "audio" \in Pcs /\ "audited" \in Pcs
  /\ "cleanup" \in Pcs
  BY DEF Pcs

-----------------------------------------------------------------------------
(* One lemma for each action: it keeps the invariant.                      *)

(* recoverPathUnlocked: what it finds can be undone, or finished.          *)
LEMMA RecoverStep == IInv /\ Recover => IInv'
<1> SUFFICES ASSUME IInv, Recover PROVE IInv'
  OBVIOUS
<1>1. Stored /\ op \in Ops /\ budget \in [Events -> Nat] /\ journal \in Journals
  BY DEF IInv, Typed, Stored
<1>2. UNCHANGED <<artifact, transitions, books, marks, backup, journal, acked, exposed, torn, budget>>
  BY DEF Recover, kept, ghosts
<1>3. CASE ~journal.there /\ op.kind = "rebuild"
  <2>1. op' = [op EXCEPT !.pc = "plan"] /\ UNCHANGED up
    BY <1>3 DEF Recover, Recovered, Goto
  <2>2. op' \in Ops /\ op'.pc = "plan"
    BY <1>1, <2>1, Whereabouts, OpEdits DEF Ops
  <2>3. Typed'
    BY <1>1, <1>2, <2>1, <2>2 DEF Typed, Stored
  <2> QED
    BY <1>2, <1>3, <2>2, <2>3
    DEF IInv, AllOrNothing, Undoable, Located, Clean, Agree, Whole, Undecided, OldAfter
<1>4. CASE ~journal.there /\ op.kind # "rebuild"
  <2>1. op' = Idle /\ up' = TRUE
    BY <1>4 DEF Recover, Recovered, Ends
  <2>2. Typed'
    BY <1>1, <1>2, <2>1, IdleType DEF Typed, Stored
  <2> QED
    BY <1>2, <2>1, <2>2, IdleType
    DEF IInv, AllOrNothing, Undoable, Located, Agree, Whole, Undecided, OldAfter
<1>5. CASE journal.there
  <2> DEFINE place == IF ~journal.committed THEN "undo"
                      ELSE IF journal.audio THEN "cleanup" ELSE "audio"
  <2>1. op' = [op EXCEPT !.mem = journal, !.i = journal.started, !.pc = place] /\ UNCHANGED up
    BY <1>5 DEF Recover, Undone
  <2>2. /\ op'.mem = journal /\ op'.i = journal.started /\ op'.pc = place /\ place \in Pcs
        /\ journal.started \in 0 .. 5 /\ op' \in Ops
    <3>1. place \in Pcs /\ journal.started \in 0 .. 5
      BY <1>1, Whereabouts, JournalEdits
    <3> QED
      BY <1>1, <2>1, <3>1 DEF Ops
  <2>3. Typed'
    BY <1>1, <1>2, <2>1, <2>2 DEF Typed, Stored
  <2> QED
    BY <1>2, <1>5, <2>2, <2>3
    DEF IInv, AllOrNothing, Undoable, Located, Agree, Whole, Undecided, OldAfter
<1> QED
  BY <1>3, <1>4, <1>5

(* recoverJournal: one store after the other is as it was.                 *)
LEMMA UndoStep == IInv /\ Undo => IInv'
<1> SUFFICES ASSUME IInv, Undo PROVE IInv'
  OBVIOUS
<1>1. Stored /\ op \in Ops /\ budget \in [Events -> Nat] /\ journal \in Journals
      /\ op.mem \in Journals /\ op.i \in 0 .. 5
  BY OpEdits DEF IInv, Typed, Stored
<1>2. UNCHANGED <<backup, journal, up, acked, exposed, torn, budget>>
  BY DEF Undo, ghosts
<1>3. /\ Undecided /\ op.mem.from = journal.from /\ journal.started <= op.mem.started
      /\ op.mem.started >= 1 =>
           Whole(backup, journal.from) /\ op.mem.transitions = journal.from
      /\ op.i <= op.mem.started /\ ~op.mem.committed
      /\ OldAfter(op.mem.started, journal.from)
      /\ op.i < 1 => Whole(artifact, journal.from)
      /\ op.i < 2 => transitions = journal.from
      /\ op.i < 3 => books = journal.from
  BY DEF IInv, Located, Undo, At, Undoable
<1>4. CASE op.i = 0
  <2>1. op' = [op EXCEPT !.pc = "cleanup"] /\ UNCHANGED <<artifact, transitions, books, marks>>
    BY <1>4 DEF Undo, Goto
  <2>2. op' \in Ops /\ op'.pc = "cleanup" /\ op'.mem = op.mem
    BY <1>1, <2>1, Whereabouts, OpEdits DEF Ops
  <2>3. Typed'
    BY <1>1, <1>2, <2>1, <2>2 DEF Typed, Stored
  <2> QED
    BY <1>2, <1>3, <1>4, <2>1, <2>2, <2>3
    DEF IInv, AllOrNothing, Undoable, Located, Agree, Whole, Undecided, OldAfter
<1>5. CASE op.i # 0
  <2>1. /\ op' = [op EXCEPT !.i = @ - 1]
        /\ artifact' = IF op.i = 1 THEN backup ELSE artifact
        /\ transitions' = IF op.i = 2 THEN op.mem.transitions ELSE transitions
        /\ books' = IF op.i = 3 THEN op.mem.from ELSE books
        /\ marks' = CASE op.i = 4 -> Restored(op.mem, "positions")
                      [] op.i = 5 -> Restored(op.mem, "bookmarks")
                      [] OTHER    -> marks
    BY <1>5 DEF Undo
  <2>2. op.i - 1 \in 0 .. 5 /\ op.i \in 1 .. 5
    BY <1>1, <1>5
  <2>3. op' \in Ops /\ op'.pc = "undo" /\ op'.mem = op.mem /\ op'.i = op.i - 1
    BY <1>1, <2>1, <2>2 DEF Ops, Undo, At
  <2>4. \A s \in Kinds : Restored(op.mem, s) \in [Kinds -> [Users -> Marks]]
    <3>1. op.mem.marks \in [Kinds -> [Users -> Marks]]
      BY <1>1, JournalEdits
    <3> QED
      BY <3>1, <1>1 DEF Restored, Stored
  <2>5. marks' \in [Kinds -> [Users -> Marks]]
    BY <2>1, <2>4, <1>1 DEF Stored, Kinds
  <2>6. op.mem.from \in Structures /\ op.mem.transitions \in Structures
    BY <1>1, JournalEdits
  <2>7. Typed'
    BY <1>1, <1>2, <2>1, <2>3, <2>5, <2>6 DEF Typed, Stored
  <2>8. journal.started \in 0 .. 5 /\ op.mem.started \in 0 .. 5
    BY <1>1, JournalEdits
  <2>9. AllOrNothing' /\ Undecided' /\ torn' = torn
    BY <1>2, <1>3 DEF AllOrNothing, Undecided
  <2>10. /\ op.i = 1 => Whole(artifact, journal.from)'
         /\ op.i = 2 => transitions' = journal.from
         /\ op.i = 3 => books' = journal.from
    BY <1>2, <1>3, <2>1, <2>2, <2>8, <2>9 DEF Whole
  <2>11. /\ op.i # 1 => artifact' = artifact
         /\ op.i # 2 => transitions' = transitions
         /\ op.i # 3 => books' = books
    BY <2>1
  <2>12. \A k \in 0 .. 5 : OldAfter(k, journal.from) => OldAfter(k, journal.from)'
    BY <1>2, <2>9, <2>10, <2>11 DEF OldAfter, Whole
  <2>13. Undoable'
    BY <1>2, <1>3, <2>8, <2>9, <2>12 DEF IInv, Undoable, Whole
  <2>14. Located'
    <3>1. OldAfter(op.mem.started, journal.from)'
      BY <1>2, <1>3, <2>3, <2>8, <2>12 DEF OldAfter, Whole
    <3>2. /\ op.i - 1 < 1 => Whole(artifact, journal.from)'
          /\ op.i - 1 < 2 => transitions' = journal.from
          /\ op.i - 1 < 3 => books' = journal.from
      BY <1>2, <1>3, <2>2, <2>9, <2>10, <2>11 DEF Whole
    <3>3. Whole(backup, journal.from) => Whole(backup, journal.from)'
      BY <1>2, <2>9 DEF Whole
    <3> QED
      BY <1>2, <1>3, <2>2, <2>3, <2>8, <2>9, <3>1, <3>2, <3>3 DEF Located
  <2> QED
    BY <2>7, <2>9, <2>13, <2>14 DEF IInv
<1> QED
  BY <1>4, <1>5

(* The journal goes only when the stores agree, or it stays.               *)
LEMMA JournalRemoved ==
  ASSUME IInv, At("cleanup"), journal' \in {journal, NoJournal}, op' \in Ops,
         op'.pc \in {"plan", "off"}, up' \in BOOLEAN, budget' \in [Events -> Nat],
         UNCHANGED <<kept, ghosts>>
  PROVE  IInv'
<1>1. Stored /\ journal \in Journals
  BY DEF IInv, Typed, Stored
<1>2. UNCHANGED <<artifact, transitions, books, marks, backup, acked, exposed, torn>>
  BY DEF kept, ghosts
<1>3. journal' \in Journals /\ (journal' = NoJournal \/ journal' = journal)
  BY <1>1, Nothing
<1>4. /\ journal.there /\ (journal.committed <=> op.mem.committed)
      /\ Undecided => Agree(journal.from)
  BY DEF IInv, Located, At
<1>5. /\ Agree(books)
      /\ Undecided => books = journal.from
  BY <1>4 DEF IInv, AllOrNothing, Agree, Undecided
<1>6. Typed'
  BY <1>1, <1>2, <1>3 DEF Typed, Stored
<1> QED
  BY <1>2, <1>3, <1>4, <1>5, <1>6, Nothing
  DEF IInv, AllOrNothing, Undoable, Located, Clean, Agree, Whole, Undecided, OldAfter

LEMMA CleanupStep == IInv /\ Cleanup => IInv'
<1> SUFFICES ASSUME IInv, Cleanup PROVE IInv'
  OBVIOUS
<1>1. Stored /\ op \in Ops /\ budget \in [Events -> Nat]
  BY DEF IInv, Typed, Stored
<1>2. budget' \in [Events -> Nat] /\ journal' \in {journal, NoJournal}
  <2>1. CASE journal' = NoJournal /\ UNCHANGED budget
    BY <1>1, <2>1 DEF IInv
  <2>2. CASE UNCHANGED journal /\ Spend("fault")
    BY <1>1, <2>2, SpendType DEF IInv, Events
  <2> QED
    BY <2>1, <2>2 DEF Cleanup
<1>3. op' \in Ops /\ up' \in BOOLEAN /\ op'.pc \in {"plan", "off"}
  <2>1. CASE op' = [op EXCEPT !.pc = "plan"] /\ UNCHANGED up
    BY <1>1, <2>1, Whereabouts, OpEdits DEF Ops, Stored
  <2>2. CASE op' = Idle /\ up' \in {up, TRUE}
    BY <1>1, <2>2, IdleType DEF Stored
  <2> QED
    BY <2>1, <2>2 DEF Cleanup, Recovered, Ends, Throws, Goto
<1> QED
  BY <1>2, <1>3, JournalRemoved DEF Cleanup

(* A plan begins with the structure that the stores agree upon.            *)
LEMMA PlanStep == IInv /\ Plan => IInv'
<1> SUFFICES ASSUME IInv, Plan PROVE IInv'
  OBVIOUS
<1>1. Stored /\ op \in Ops /\ budget \in [Events -> Nat] /\ Clean
  BY DEF IInv, Typed, Located, Plan, At
<1>2. CASE artifact >= Newest
  <2>1. op' = Idle /\ up' = TRUE
    BY <1>2 DEF Plan, Ends
  <2>2. Typed'
    BY <1>1, <2>1, IdleType DEF Typed, Plan, Stored, kept, ghosts
  <2> QED
    BY <2>1, <2>2, IdleType
    DEF IInv, AllOrNothing, Undoable, Located, Plan, kept, ghosts, Agree, Whole, Undecided, OldAfter
<1>3. CASE ~(artifact >= Newest)
  <2> DEFINE mem == [NoJournal EXCEPT !.from = artifact, !.to = artifact + 1, !.there = TRUE]
  <2>1. op' = [op EXCEPT !.own = TRUE, !.pc = "backup", !.mem = mem] /\ UNCHANGED up
    BY <1>3 DEF Plan
  <2>2. artifact = books /\ artifact \in Structures /\ artifact + 1 \in Structures
    BY <1>1, <1>3, RebuildAssumption DEF Clean, Agree, Whole, Stored, Structures, Partial
  <2>3. mem \in Journals /\ mem.there /\ ~mem.committed /\ mem.started = 0 /\ mem.from = books
    <3>1. mem \in Journals
      BY <2>2, Nothing, JournalEdits
    <3> QED
      BY <3>1, <2>2, Nothing DEF Journals
  <2>4. op' \in Ops
    BY <1>1, <2>1, <2>3, Whereabouts, OpEdits
  <2>5. Typed'
    BY <1>1, <2>1, <2>4 DEF Typed, Plan, Stored, kept, ghosts
  <2>6. op'.pc = "backup" /\ op'.mem = mem
    BY <2>1, <1>1 DEF Ops
  <2> QED
    BY <1>1, <2>1, <2>3, <2>5, <2>6
    DEF IInv, AllOrNothing, Undoable, Located, Plan, kept, ghosts, Agree, Whole, Undecided, OldAfter,
        Clean, Fresh
<1> QED
  BY <1>2, <1>3

(* A journal of an earlier rebuild may lie there when the backup is        *)
(* replaced: it holds the same structure.                                  *)
LEMMA BackupStep == IInv /\ Backup => IInv'
<1> SUFFICES ASSUME IInv, Backup PROVE IInv'
  OBVIOUS
<1>1. Stored /\ op \in Ops /\ budget \in [Events -> Nat] /\ Clean /\ Fresh
  BY DEF IInv, Typed, Located, Backup, At
<1>2. /\ UNCHANGED <<artifact, transitions, books, marks, journal, up, acked, exposed, torn, budget>>
      /\ backup' = artifact /\ op' = [op EXCEPT !.pc = "prepare"]
  BY DEF Backup, Goto, ghosts
<1>3. op' \in Ops /\ op'.pc = "prepare" /\ op'.mem = op.mem
  BY <1>1, <1>2, Whereabouts DEF Ops
<1>4. Whole(backup, books)' /\ backup' \in Structures \union {Partial}
  BY <1>1, <1>2 DEF Clean, Agree, Whole, Stored
<1>5. Typed'
  BY <1>1, <1>2, <1>3, <1>4 DEF Typed, Stored
<1> QED
  BY <1>1, <1>2, <1>3, <1>4, <1>5
  DEF IInv, AllOrNothing, Undoable, Located, Clean, Fresh, Agree, Whole, Undecided, OldAfter

(* What a step leaves that writes the journal.                             *)
LEMMA JournalStep ==
  ASSUME IInv, NEW mem \in Journals, NEW pc \in Pcs, NEW i \in 0 .. 5, Journal(mem, pc, i)
  PROVE  /\ Typed'
         /\ op'.mem = mem /\ op'.pc = pc /\ op'.i = i /\ journal' = mem
         /\ UNCHANGED <<artifact, transitions, books, marks, backup, torn>>
<1>1. Stored /\ op \in Ops /\ budget \in [Events -> Nat]
  BY DEF IInv, Typed
<1>2. /\ op' = [op EXCEPT !.mem = mem, !.pc = pc, !.i = i] /\ journal' = mem
      /\ UNCHANGED <<artifact, transitions, books, marks, backup, up, acked, exposed, torn, budget>>
  BY DEF Journal, kept, ghosts
<1>3. op' \in Ops /\ op'.mem = mem /\ op'.pc = pc /\ op'.i = i
  BY <1>1, <1>2 DEF Ops
<1> QED
  BY <1>1, <1>2, <1>3 DEF Typed, Stored

(* The new journal says that nothing was begun.                            *)
LEMMA PrepareStep == IInv /\ Prepare => IInv'
<1> SUFFICES ASSUME IInv, Prepare PROVE IInv'
  OBVIOUS
<1>1. op.mem \in Journals
  BY OpEdits DEF IInv, Typed
<1>2. Clean /\ Fresh /\ Whole(backup, books)
  BY DEF IInv, Located, Prepare, At
<1>3. /\ Typed'
      /\ op'.mem = op.mem /\ op'.pc = "snapshot" /\ op'.i = 0 /\ journal' = op.mem
      /\ UNCHANGED <<artifact, transitions, books, marks, backup, torn>>
  <2>1. 0 \in 0 .. 5
    OBVIOUS
  <2> QED
    BY <1>1, <2>1, Whereabouts, JournalStep DEF Prepare
<1> QED
  BY <1>2, <1>3
  DEF IInv, AllOrNothing, Undoable, Located, Clean, Fresh, Agree, Whole, Undecided, OldAfter

(* The snapshot holds the transition record of the old structure.          *)
LEMMA SnapshotStep == IInv /\ Snapshot => IInv'
<1> SUFFICES ASSUME IInv, Snapshot PROVE IInv'
  OBVIOUS
<1> DEFINE mem == Snapshotted
<1>1. op.mem \in Journals /\ transitions \in Structures
      /\ marks \in [Kinds -> [Users -> Marks]]
  BY OpEdits DEF IInv, Typed, Stored
<1>2. mem \in Journals
  BY <1>1, JournalEdits DEF Snapshotted
<1>3. /\ mem.transitions = transitions /\ mem.from = op.mem.from /\ mem.to = op.mem.to
      /\ mem.started = op.mem.started /\ mem.there = op.mem.there
      /\ mem.committed = op.mem.committed
  BY <1>1 DEF Journals, Snapshotted
<1>4. journal = op.mem /\ Undecided /\ journal.started = 0 /\ Whole(backup, journal.from)
  BY DEF IInv, Located, Snapshot, At
<1>5. OldAfter(0, journal.from)
  BY <1>4 DEF IInv, Undoable
<1>6. /\ Typed'
      /\ op'.mem = mem /\ op'.pc = "mark" /\ op'.i = 1 /\ journal' = mem
      /\ UNCHANGED <<artifact, transitions, books, marks, backup, torn>>
  <2>1. 1 \in 0 .. 5
    OBVIOUS
  <2> QED
    BY <1>1, <1>2, <2>1, Whereabouts, JournalStep DEF Snapshot
<1> QED
  BY <1>3, <1>4, <1>5, <1>6
  DEF IInv, AllOrNothing, Undoable, Located, Holding, NewUpTo, Agree, Whole, Undecided, OldAfter

(* The journal says which store comes next before it is written.           *)
LEMMA MarkStep == IInv /\ Mark => IInv'
<1> SUFFICES ASSUME IInv, Mark PROVE IInv'
  OBVIOUS
<1> DEFINE mem == [op.mem EXCEPT !.started = op.i]
<1>1. op.mem \in Journals /\ op.i \in 0 .. 5
  BY OpEdits DEF IInv, Typed
<1>2. mem \in Journals
  BY <1>1, JournalEdits
<1>3. /\ mem.transitions = op.mem.transitions /\ mem.from = op.mem.from /\ mem.to = op.mem.to
      /\ mem.started = op.i /\ mem.there = op.mem.there /\ mem.committed = op.mem.committed
  BY <1>1 DEF Journals
<1>4. /\ journal = op.mem /\ Undecided /\ op.i >= 1
      /\ NewUpTo(op.i - 1, journal.to) /\ OldAfter(op.i, journal.from)
      /\ OldAfter(op.i - 1, journal.from) /\ journal.transitions = journal.from
      /\ Whole(backup, journal.from)
  BY DEF IInv, Located, Holding, Undoable, Mark, At
<1>5. /\ Typed'
      /\ op'.mem = mem /\ op'.pc = "write" /\ op'.i = op.i /\ journal' = mem
      /\ UNCHANGED <<artifact, transitions, books, marks, backup, torn>>
  BY <1>1, <1>2, Whereabouts, JournalStep DEF Mark, MarkStarted
<1>6. NewUpTo(op.i - 1, journal.to)' /\ OldAfter(op.i, journal.from)'
      /\ OldAfter(op.i - 1, journal.from)'
  BY <1>3, <1>4, <1>5 DEF NewUpTo, OldAfter, Whole
<1> QED
  BY <1>1, <1>3, <1>4, <1>5, <1>6
  DEF IInv, AllOrNothing, Undoable, Located, Holding, Whole, Undecided

(* What a store's write leaves: its own structure is the new one.          *)
LEMMA WriteStoreType ==
  ASSUME IInv, WriteStore, op.i \in 1 .. 5
  PROVE  /\ artifact' \in Structures \union {Partial} /\ transitions' \in Structures
         /\ books' \in Structures /\ marks' \in [Kinds -> [Users -> Marks]]
         /\ backup' = backup
<1>1. Stored /\ op.mem \in Journals /\ op.mem.to \in Structures /\ op.mem.from \in Structures
  BY OpEdits, JournalEdits DEF IInv, Typed
<1>2. \A s \in Kinds : Remapped(s) \in [Kinds -> [Users -> Marks]]
  <2> SUFFICES ASSUME NEW s \in Kinds PROVE Remapped(s) \in [Kinds -> [Users -> Marks]]
    OBVIOUS
  <2> DEFINE new(m) == IF m.id = 0 THEN m
                       ELSE [m EXCEPT !.key = op.mem.to, !.sound = @ /\ m.key = op.mem.from]
  <2>1. marks \in [Kinds -> [Users -> Marks]]
    BY <1>1 DEF Stored
  <2>2. \A m \in Marks : new(m) \in Marks
    BY <1>1 DEF Marks
  <2>3. [u \in Users |-> new(marks[s][u])] \in [Users -> Marks]
    BY <2>1, <2>2
  <2>4. Remapped(s) = [marks EXCEPT ![s] = [u \in Users |-> new(marks[s][u])]]
    BY DEF Remapped, Current
  <2> QED
    BY <2>1, <2>3, <2>4
<1>3. marks' \in [Kinds -> [Users -> Marks]]
  BY <1>1, <1>2 DEF WriteStore, Kinds, Stored
<1> QED
  BY <1>1, <1>3 DEF WriteStore, Stored

(* A store is written after the journal says so.                           *)
LEMMA WriteStep == IInv /\ Write => IInv'
<1> SUFFICES ASSUME IInv, Write PROVE IInv'
  OBVIOUS
<1>1. Stored /\ op \in Ops /\ op.mem \in Journals /\ op.i \in 0 .. 5
      /\ budget \in [Events -> Nat]
  BY OpEdits DEF IInv, Typed
<1>2. /\ journal = op.mem /\ Undecided /\ journal.started = op.i /\ op.i >= 1
      /\ NewUpTo(op.i - 1, journal.to) /\ OldAfter(op.i, journal.from)
      /\ Whole(backup, journal.from) /\ journal.transitions = journal.from
  BY DEF IInv, Located, Holding, Undoable, Write, At
<1>3. op.i \in 1 .. 5
  BY <1>1, <1>2
<1>4. /\ UNCHANGED <<journal, up, acked, exposed, torn, budget, backup>>
      /\ artifact' = IF op.i = 1 THEN op.mem.to ELSE artifact
      /\ transitions' = IF op.i = 2 THEN op.mem.to ELSE transitions
      /\ books' = IF op.i = 3 THEN op.mem.to ELSE books
  BY DEF Write, WriteStore, ghosts
<1>5. /\ op' \in Ops /\ op'.mem = op.mem
      /\ IF op.i = 5 THEN op'.pc = "commit" ELSE op'.pc = "mark" /\ op'.i = op.i + 1
  <2>1. CASE op.i = 5
    BY <1>1, <2>1, Whereabouts DEF Write, Ops
  <2>2. CASE op.i # 5
    <3>1. op.i + 1 \in 0 .. 5
      BY <1>3, <2>2
    <3> QED
      BY <1>1, <2>2, <3>1, Whereabouts DEF Write, Ops
  <2> QED
    BY <2>1, <2>2
<1>6. Typed'
  BY <1>1, <1>3, <1>4, <1>5, WriteStoreType DEF Typed, Stored, Write
<1> QED
  BY <1>2, <1>3, <1>4, <1>5, <1>6
  DEF IInv, AllOrNothing, Undoable, Located, Holding, NewUpTo, Agree, Whole, Undecided, OldAfter

(* The last store was written: the commit finds all of them new.           *)
LEMMA CommitStep == IInv /\ Commit => IInv'
<1> SUFFICES ASSUME IInv, Commit PROVE IInv'
  OBVIOUS
<1> DEFINE mem == [op.mem EXCEPT !.committed = TRUE]
<1>1. op.mem \in Journals
  BY OpEdits DEF IInv, Typed
<1>2. mem \in Journals
  BY <1>1, JournalEdits
<1>3. mem.to = op.mem.to /\ mem.there = op.mem.there /\ mem.committed
  BY <1>1 DEF Journals
<1>4. journal = op.mem /\ Undecided /\ Agree(journal.to)
  BY DEF IInv, Located, Commit, At
<1>5. /\ Typed'
      /\ op'.mem = mem /\ op'.pc = "audio" /\ op'.i = 5 /\ journal' = mem
      /\ UNCHANGED <<artifact, transitions, books, marks, backup, torn>>
  <2>1. 5 \in 0 .. 5
    OBVIOUS
  <2> QED
    BY <1>2, <2>1, Whereabouts, JournalStep DEF Commit
<1> QED
  BY <1>3, <1>4, <1>5 DEF IInv, AllOrNothing, Undoable, Located, Agree, Whole, Undecided

(* Audio is moved beside the stores.                                       *)
LEMMA AudioStep == IInv /\ Audio => IInv'
<1> SUFFICES ASSUME IInv, Audio PROVE IInv'
  OBVIOUS
<1>1. Stored /\ op \in Ops /\ budget \in [Events -> Nat]
  BY DEF IInv, Typed
<1>2. UNCHANGED <<artifact, transitions, books, marks, backup, journal, up, acked, exposed, torn, budget>>
  BY DEF Audio, kept, ghosts
<1>3. op' \in Ops /\ op'.pc = "audited" /\ op'.mem = op.mem
  BY <1>1, Whereabouts DEF Audio, Goto, Ops
<1>4. Typed'
  BY <1>1, <1>2, <1>3 DEF Typed, Stored
<1>5. journal = op.mem /\ journal.there /\ journal.committed
  BY DEF IInv, Located, Audio, At
<1> QED
  BY <1>2, <1>3, <1>4, <1>5
  DEF IInv, AllOrNothing, Undoable, Located, Agree, Whole, Undecided, OldAfter

LEMMA AuditedStep == IInv /\ Audited => IInv'
<1> SUFFICES ASSUME IInv, Audited PROVE IInv'
  OBVIOUS
<1> DEFINE mem == [op.mem EXCEPT !.audio = TRUE]
<1>1. op.mem \in Journals
  BY OpEdits DEF IInv, Typed
<1>2. mem \in Journals
  BY <1>1, JournalEdits
<1>3. mem.to = op.mem.to /\ mem.there = op.mem.there /\ mem.committed = op.mem.committed
  BY <1>1 DEF Journals
<1>4. journal = op.mem /\ journal.there /\ journal.committed
  BY DEF IInv, Located, Audited, At
<1>5. /\ Typed'
      /\ op'.mem = mem /\ op'.pc = "cleanup" /\ op'.i = 5 /\ journal' = mem
      /\ UNCHANGED <<artifact, transitions, books, marks, backup, torn>>
  <2>1. 5 \in 0 .. 5
    OBVIOUS
  <2> QED
    BY <1>2, <2>1, Whereabouts, JournalStep DEF Audited
<1> QED
  BY <1>3, <1>4, <1>5 DEF IInv, AllOrNothing, Undoable, Located, Agree, Whole, Undecided

-----------------------------------------------------------------------------
(* Failures, crashes and the surroundings. *)

(* Nothing is left of the operation, and a copy may be cut short: what is  *)
(* durable still says how to go on.                                        *)
LEMMA Dropped ==
  ASSUME IInv, op' = Idle, Copying, up' \in BOOLEAN, budget' \in [Events -> Nat],
         UNCHANGED journal
  PROVE  IInv'
<1>1. Stored /\ op \in Ops /\ journal \in Journals /\ journal.started \in 0 .. 5
      /\ op.mem.started \in 0 .. 5 /\ op.i \in 0 .. 5
  BY OpEdits, JournalEdits DEF IInv, Typed, Stored
<1>2. /\ artifact' \in {artifact} \union (IF At("undo") /\ op.i = 1 THEN {backup, Partial} ELSE {})
      /\ backup' \in {backup} \union (IF At("backup") THEN {artifact, Partial} ELSE {})
      /\ torn' = \/ torn
                 \/ artifact' = Partial /\ journal.started = 0
                 \/ backup' = Partial /\ Undecided /\ journal.started >= 1
      /\ UNCHANGED <<transitions, books, marks, acked, exposed>>
  BY DEF Copying
<1>3. Typed'
  BY <1>1, <1>2, IdleType DEF Typed, Stored
<1>4. op'.pc = "off"
  BY IdleType
<1>5. torn => torn'
  BY <1>2
<1>6. Undecided /\ journal.started >= 1 => Whole(backup, journal.from)'
  <2> SUFFICES ASSUME Undecided, journal.started >= 1 PROVE Whole(backup, journal.from)'
    OBVIOUS
  <2>1. Whole(backup, journal.from)
    BY DEF IInv, Undoable
  <2>2. At("backup") => Whole(artifact, journal.from)
    BY DEF IInv, Located, At, Clean, Agree, Whole
  <2> QED
    BY <1>2, <1>5, <2>1, <2>2 DEF Whole
<1>7. CASE artifact' = artifact
  BY <1>2, <1>3, <1>4, <1>5, <1>6, <1>7
  DEF IInv, AllOrNothing, Undoable, Located, Agree, Whole, Undecided, OldAfter
<1>8. CASE artifact' # artifact
  <2>1. At("undo") /\ op.i = 1 /\ artifact' \in {backup, Partial} /\ backup' = backup
    BY <1>2, <1>8 DEF At
  <2>2. Undecided /\ op.mem.started >= 1 /\ Whole(backup, journal.from)
    BY <1>1, <2>1 DEF IInv, Located, At
  <2>3. journal.started = 0 => Whole(artifact, journal.from)'
    BY <1>2, <1>5, <2>1, <2>2 DEF Whole
  <2>4. OldAfter(journal.started, journal.from)'
    BY <1>1, <1>2, <2>2, <2>3 DEF IInv, Undoable, OldAfter
  <2>5. Undoable'
    BY <1>1, <1>2, <1>6, <2>2, <2>4 DEF IInv, Undoable, Undecided
  <2> QED
    BY <1>3, <1>4, <2>2, <2>5 DEF IInv, AllOrNothing, Located, Undecided
<1> QED
  BY <1>7, <1>8

LEMMA SpentElsewhere ==
  ASSUME IInv, NEW e \in Events, Spend(e)
  PROVE  budget' \in [Events -> Nat]
  BY SpendType DEF IInv, Typed

LEMMA CrashStep == IInv /\ Crash => IInv'
<1> SUFFICES ASSUME IInv, Crash PROVE IInv'
  OBVIOUS
<1>1. budget' \in [Events -> Nat]
  BY SpentElsewhere DEF Crash, Events
<1> QED
  BY <1>1, Dropped DEF Crash

(* A rebuild that fails before it committed undoes what it began.          *)
LEMMA UndoBegins ==
  ASSUME IInv, op.pc \in {"mark", "write"},
         op' = [op EXCEPT !.pc = "undo", !.mem.started = op.i],
         \/ UNCHANGED kept
         \/ op.pc = "write" /\ WriteStore,
         \/ UNCHANGED journal
         \/ op.pc = "mark" /\ journal' = op'.mem,
         budget' \in [Events -> Nat],
         UNCHANGED <<up, ghosts>>
  PROVE  IInv'
<1>1. Stored /\ op \in Ops /\ op.mem \in Journals /\ op.i \in 0 .. 5
      /\ op.mem.started \in 0 .. 5
  BY OpEdits, JournalEdits DEF IInv, Typed
<1> DEFINE mem == [op.mem EXCEPT !.started = op.i]
<1>2. mem \in Journals
  BY <1>1, JournalEdits
<1>3. /\ mem.transitions = op.mem.transitions /\ mem.from = op.mem.from
      /\ mem.started = op.i /\ mem.there = op.mem.there /\ mem.committed = op.mem.committed
  BY <1>1 DEF Journals
<1>4. op' \in Ops /\ op'.pc = "undo" /\ op'.mem = mem /\ op'.i = op.i
  BY <1>1, <1>2, Whereabouts DEF Ops
<1>5. /\ journal = op.mem /\ Undecided /\ OldAfter(op.i, journal.from)
      /\ Whole(backup, journal.from) /\ journal.transitions = journal.from
      /\ journal.started <= op.i /\ op.i \in 1 .. 5
  <2>1. CASE op.pc = "mark"
    BY <1>1, <2>1 DEF IInv, Located, Holding, Undoable
  <2>2. CASE op.pc = "write"
    BY <1>1, <2>2 DEF IInv, Located, Holding, Undoable
  <2> QED
    BY <2>1, <2>2
<1>6. /\ artifact' \in Structures \union {Partial} /\ transitions' \in Structures
      /\ books' \in Structures /\ marks' \in [Kinds -> [Users -> Marks]]
      /\ backup' = backup
  <2>1. CASE UNCHANGED kept
    BY <1>1, <2>1 DEF kept, Stored
  <2>2. CASE op.pc = "write" /\ WriteStore
    BY <1>5, <2>2, WriteStoreType DEF WriteStore
  <2> QED
    BY <2>1, <2>2
<1>7. /\ op.i < 2 => transitions' = transitions
      /\ op.i < 3 => books' = books
      /\ torn' = torn
  BY <1>5 DEF WriteStore, kept, ghosts
<1>8. /\ journal' \in Journals /\ journal'.from = journal.from /\ Undecided'
      /\ journal'.transitions = journal.transitions
      /\ journal'.started <= op.i
      /\ journal'.started = op.i \/ UNCHANGED journal
  <2>1. CASE UNCHANGED journal
    BY <1>1, <1>5, <2>1 DEF Stored, Undecided
  <2>2. CASE journal' = mem
    BY <1>1, <1>2, <1>3, <1>5, <2>2 DEF Undecided
  <2> QED
    BY <1>4, <2>1, <2>2
<1>9. Typed'
  BY <1>1, <1>4, <1>6, <1>8 DEF Typed, Stored, ghosts
<1>10. /\ op.i < 2 => transitions' = journal'.from
       /\ op.i < 3 => books' = journal'.from
  BY <1>1, <1>5, <1>7, <1>8 DEF OldAfter
<1>11. journal'.started \in 0 .. 5
  BY <1>8, JournalEdits
<1>12. OldAfter(journal.started, journal.from)'
  <2>1. CASE UNCHANGED kept /\ UNCHANGED journal
    BY <1>5, <1>7, <2>1 DEF IInv, Undoable, OldAfter, Whole, kept
  <2>2. CASE journal'.started = op.i
    BY <1>5, <1>10, <2>2 DEF OldAfter
  <2>3. CASE op.pc = "write" /\ UNCHANGED journal
    <3>1. journal'.started = op.i
      BY <2>3 DEF IInv, Located
    <3> QED
      BY <2>2, <3>1
  <2> QED
    BY <1>8, <2>1, <2>2, <2>3
<1>13. Whole(backup, journal.from)'
  BY <1>5, <1>6, <1>7, <1>8 DEF Whole
<1>14. AllOrNothing' /\ Undoable'
  BY <1>1, <1>5, <1>8, <1>11, <1>12, <1>13 DEF AllOrNothing, Undoable, Undecided
<1>15. Located'
  <2>1. /\ op'.mem.started = op.i /\ op'.mem.from = journal'.from /\ ~op'.mem.committed
        /\ op'.mem.transitions = journal'.from
    BY <1>3, <1>4, <1>5, <1>8 DEF Undecided
  <2>2. OldAfter(op.mem.started, journal.from)'
    BY <1>5, <2>1, <1>10 DEF OldAfter
  <2> QED
    BY <1>1, <1>4, <1>5, <1>8, <1>10, <1>13, <2>1, <2>2 DEF Located
<1> QED
  BY <1>9, <1>14, <1>15 DEF IInv

(* The snapshot fails: nothing was begun.                                  *)
LEMMA SnapshotUndoes ==
  ASSUME IInv, op.pc = "snapshot",
         op' = [op EXCEPT !.pc = "undo", !.mem = Snapshotted],
         journal' \in {journal, Snapshotted}, budget' \in [Events -> Nat],
         UNCHANGED <<kept, up, ghosts>>
  PROVE  IInv'
<1>1. Stored /\ op \in Ops /\ op.mem \in Journals
      /\ transitions \in Structures /\ marks \in [Kinds -> [Users -> Marks]]
  BY OpEdits DEF IInv, Typed, Stored
<1>2. /\ Snapshotted \in Journals /\ Snapshotted.from = op.mem.from
      /\ Snapshotted.started = op.mem.started /\ Snapshotted.there = op.mem.there
      /\ Snapshotted.committed = op.mem.committed
  BY <1>1, JournalEdits DEF Journals, Snapshotted
<1>3. op' \in Ops /\ op'.pc = "undo" /\ op'.mem = Snapshotted /\ op'.i = op.i
  BY <1>1, <1>2, Whereabouts DEF Ops
<1>4. journal = op.mem /\ Undecided /\ journal.started = 0 /\ op.i = 0
  BY DEF IInv, Located
<1>5. OldAfter(0, journal.from)
  BY <1>4 DEF IInv, Undoable
<1>6. /\ journal' \in Journals /\ journal'.from = journal.from /\ journal'.started = 0
      /\ journal'.there /\ ~journal'.committed
  BY <1>1, <1>2, <1>4 DEF Stored, Undecided
<1>7. UNCHANGED <<artifact, transitions, books, marks, backup, up, acked, exposed, torn>>
  BY DEF kept, ghosts
<1>8. Typed'
  BY <1>1, <1>3, <1>6, <1>7 DEF Typed, Stored
<1> QED
  BY <1>2, <1>3, <1>4, <1>5, <1>6, <1>7, <1>8
  DEF IInv, AllOrNothing, Undoable, Located, Whole, Undecided, OldAfter

(* The new journal is there, but its writer hears of a failure.            *)
LEMMA PrepareFails ==
  ASSUME IInv, op.pc = "prepare", Throws, Copying, journal' = op.mem,
         budget' \in [Events -> Nat]
  PROVE  IInv'
<1>1. Stored /\ op.mem \in Journals /\ Clean /\ Fresh
  BY OpEdits DEF IInv, Typed, Located
<1>2. /\ UNCHANGED <<artifact, transitions, books, marks, backup, acked, exposed, up>>
      /\ torn' \in BOOLEAN /\ (torn => torn')
  BY <1>1 DEF Copying, At, Throws, Stored
<1>3. op' = Idle /\ op'.pc = "off"
  BY IdleType DEF Throws
<1>4. Typed'
  BY <1>1, <1>2, <1>3, IdleType DEF Typed, Stored
<1> QED
  BY <1>1, <1>2, <1>3, <1>4
  DEF IInv, AllOrNothing, Undoable, Located, Clean, Fresh, Agree, Whole, Undecided, OldAfter

(* The commit fails after it took effect, and the rebuild is decided.      *)
LEMMA CommitFails ==
  ASSUME IInv, op.pc = "commit", Ends, UNCHANGED <<kept, ghosts>>,
         journal' = [op.mem EXCEPT !.committed = TRUE], budget' \in [Events -> Nat]
  PROVE  IInv'
<1>1. Stored /\ op.mem \in Journals
  BY OpEdits DEF IInv, Typed
<1>2. journal = op.mem /\ Undecided /\ Agree(journal.to)
  BY DEF IInv, Located
<1>3. journal' \in Journals /\ journal'.committed /\ journal'.to = journal.to /\ journal'.there
  BY <1>1, <1>2, JournalEdits DEF Journals, Undecided
<1>4. /\ op' = Idle /\ op'.pc = "off" /\ up' = TRUE
      /\ UNCHANGED <<artifact, transitions, books, marks, backup, acked, exposed, torn>>
  BY IdleType DEF Ends, kept, ghosts
<1>5. Typed'
  BY <1>1, <1>3, <1>4, IdleType DEF Typed, Stored
<1> QED
  BY <1>2, <1>3, <1>4, <1>5
  DEF IInv, AllOrNothing, Undoable, Located, Agree, Whole, Undecided

(* The operation is over, and where no copy was under way nothing changed. *)
LEMMA Stopped ==
  ASSUME IInv, op.pc \notin {"backup", "undo"}, op' = Idle, up' \in BOOLEAN,
         budget' \in [Events -> Nat], UNCHANGED <<kept, journal, ghosts>>
  PROVE  IInv'
<1>1. UNCHANGED <<artifact, transitions, books, marks, backup, acked, exposed, torn>>
  BY DEF kept, ghosts
<1>2. Typed'
  BY <1>1, IdleType DEF IInv, Typed, Stored
<1>3. op'.pc = "off"
  BY IdleType
<1> QED
  BY <1>1, <1>2, <1>3
  DEF IInv, AllOrNothing, Undoable, Located, Agree, Whole, Undecided, OldAfter

LEMMA FailStep == IInv /\ Fail => IInv'
<1> SUFFICES ASSUME IInv, Fail PROVE IInv'
  OBVIOUS
<1>1. budget' \in [Events -> Nat]
  BY SpentElsewhere DEF Fail, Events
<1>2. up \in BOOLEAN /\ Idle.pc = "off" /\ Idle \in Ops
  BY IdleType DEF IInv, Typed, Stored
<1>3. CASE Throws /\ Copying /\ UNCHANGED journal
  BY <1>1, <1>2, <1>3, Dropped DEF Throws
<1>4. CASE op.pc = "prepare" /\ Throws /\ Copying /\ journal' = op.mem
  BY <1>1, <1>4, PrepareFails
<1>5. CASE /\ op.pc = "snapshot"
           /\ op' = [op EXCEPT !.pc = "undo", !.mem = Snapshotted]
           /\ journal' \in {journal, Snapshotted}
           /\ UNCHANGED <<kept, up, ghosts>>
  BY <1>1, <1>5, SnapshotUndoes
<1>6. CASE /\ op.pc \in {"mark", "write"}
           /\ op' = [op EXCEPT !.pc = "undo", !.mem.started = op.i]
           /\ \/ UNCHANGED kept
              \/ op.pc = "write" /\ WriteStore
           /\ \/ UNCHANGED journal
              \/ op.pc = "mark" /\ journal' = op'.mem
           /\ UNCHANGED <<up, ghosts>>
  BY <1>1, <1>6, UndoBegins
<1>7. CASE op.pc \in {"commit", "audio", "audited"} /\ Ends /\ UNCHANGED <<kept, journal, ghosts>>
  BY <1>1, <1>7, Stopped DEF Ends
<1>8. CASE /\ op.pc = "commit" /\ Ends /\ journal' = [op.mem EXCEPT !.committed = TRUE]
           /\ UNCHANGED <<kept, ghosts>>
  BY <1>1, <1>8, CommitFails
<1>9. CASE /\ op.pc = "cleanup" /\ (Ends \/ Throws) /\ journal' \in {journal, NoJournal}
           /\ UNCHANGED <<kept, ghosts>>
  BY <1>1, <1>2, <1>9, JournalRemoved DEF Ends, Throws, At
<1> QED
  BY <1>3, <1>4, <1>5, <1>6, <1>7, <1>8, <1>9 DEF Fail

(* A rebuild, a visit or a start begins.                                   *)
LEMMA StartStep ==
  ASSUME IInv, NEW kind \in {"rebuild", "visit", "startup"}, Start(kind) PROVE IInv'
<1>1. Stored /\ budget \in [Events -> Nat]
  BY DEF IInv, Typed
<1>2. /\ op' = [Idle EXCEPT !.kind = kind, !.pc = "recover"]
      /\ UNCHANGED <<artifact, transitions, books, marks, backup, journal, up, acked, exposed, torn>>
  BY DEF Start, kept, ghosts
<1>3. op' \in Ops /\ op'.pc = "recover"
  BY <1>2, IdleType DEF Ops
<1>4. budget' \in [Events -> Nat]
  <2>1. CASE kind = "rebuild"
    BY <2>1, SpentElsewhere DEF Start, Events
  <2>2. CASE kind # "rebuild"
    BY <1>1, <2>2 DEF Start
  <2> QED
    BY <2>1, <2>2
<1>5. Typed'
  BY <1>1, <1>2, <1>3, <1>4 DEF Typed, Stored
<1> QED
  BY <1>2, <1>3, <1>4, <1>5
  DEF IInv, AllOrNothing, Undoable, Located, Agree, Whole, Undecided, OldAfter

(* Positions and bookmarks are no part of what the stores agree upon.      *)
LEMMA MarksStep ==
  ASSUME IInv, marks' \in [Kinds -> [Users -> Marks]], acked' \in [Kinds -> [Users -> Nat]],
         exposed' \subseteq {"write", "merge"}, NEW e \in Events, Spend(e),
         UNCHANGED <<artifact, transitions, books, backup, journal, op, up, torn>>
  PROVE  IInv'
<1>1. budget' \in [Events -> Nat]
  BY SpentElsewhere
<1>2. Typed'
  BY <1>1 DEF IInv, Typed, Stored
<1>3. AllOrNothing' /\ Undoable'
  BY DEF IInv, AllOrNothing, Undoable, Agree, Whole, Undecided, OldAfter
<1>4. Located'
  BY DEF IInv, Located, Clean, Fresh, Holding, NewUpTo, Agree, Whole, Undecided, OldAfter
<1> QED
  BY <1>1, <1>2, <1>3, <1>4 DEF IInv

LEMMA ListenStep ==
  ASSUME IInv, NEW s \in Kinds, NEW u \in Users, Listen(s, u) PROVE IInv'
<1>1. Stored
  BY DEF IInv, Typed
<1> DEFINE id == acked[s][u] + 1
<1>2. id \in Nat /\ [id |-> id, key |-> books, sound |-> TRUE] \in Marks
  BY <1>1 DEF Stored, Marks
<1>3. marks' = [marks EXCEPT ![s][u] = [id |-> id, key |-> books, sound |-> TRUE]]
      /\ acked' = [acked EXCEPT ![s][u] = id]
  BY DEF Listen
<1>4. marks' \in [Kinds -> [Users -> Marks]] /\ acked' \in [Kinds -> [Users -> Nat]]
  BY <1>1, <1>2, <1>3 DEF Stored
<1>5. exposed' \subseteq {"write", "merge"} /\ "write" \in Events
  BY <1>1 DEF Listen, Stored, Events
<1> QED
  BY <1>4, <1>5, MarksStep DEF Listen

LEMMA MergeStep ==
  ASSUME IInv, NEW u \in Users, NEW v \in Users, Merge(u, v) PROVE IInv'
<1>1. Stored /\ "positions" \in Kinds
  BY DEF IInv, Typed, Kinds
<1>2. marks["positions"][u] \in Marks /\ marks["positions"][u].id \in Nat
  BY <1>1 DEF Stored, Marks
<1>3. marks' = [marks EXCEPT !["positions"][v] = marks["positions"][u]]
      /\ acked' = [acked EXCEPT !["positions"][v] = marks["positions"][u].id]
  BY DEF Merge
<1>4. marks' \in [Kinds -> [Users -> Marks]] /\ acked' \in [Kinds -> [Users -> Nat]]
  BY <1>1, <1>2, <1>3 DEF Stored
<1>5. exposed' \subseteq {"write", "merge"} /\ "merge" \in Events
  BY <1>1 DEF Merge, Stored, Events
<1> QED
  BY <1>4, <1>5, MarksStep DEF Merge

-----------------------------------------------------------------------------
LEMMA Initially == Init => IInv
<1> SUFFICES ASSUME Init PROVE IInv
  OBVIOUS
<1>1. ~journal.there /\ op.pc = "off"
  BY Nothing, IdleType DEF Init
<1> QED
  BY <1>1, TypeInit DEF Init, IInv, AllOrNothing, Undoable, Located, Agree, Whole, Undecided

LEMMA Inductive == IInv /\ [Next]_vars => IInv'
<1> SUFFICES ASSUME IInv, [Next]_vars PROVE IInv'
  OBVIOUS
<1>1. CASE UNCHANGED vars
  BY <1>1
  DEF vars, IInv, Typed, Stored, AllOrNothing, Undoable, Located, Clean, Fresh, Holding,
      NewUpTo, Agree, Whole, Undecided, OldAfter
<1>2. CASE Works
  BY <1>2, RecoverStep, UndoStep, CleanupStep, PlanStep, BackupStep, PrepareStep, SnapshotStep,
     MarkStep, WriteStep, CommitStep, AudioStep, AuditedStep
  DEF Works
<1>3. CASE Next /\ ~Works
  BY <1>3, FailStep, CrashStep, StartStep, ListenStep, MergeStep DEF Next
<1> QED
  BY <1>1, <1>2, <1>3

(* The stores of a rebuild keep their types.                               *)
THEOREM RebuildTypeOK == Spec => []TypeOK
<1>1. Init => IInv
  BY Initially
<1>2. IInv => TypeOK
  BY TypeParts DEF IInv
<1> QED
  BY <1>1, <1>2, Inductive, PTL DEF Spec

(* Whatever fails and whenever the server dies, without a journal the      *)
(* artifact, the catalog and the transition record are of one structure,   *)
(* and a committed journal finds them at the new one; only the artifact    *)
(* may be a torn copy instead, once a copy was cut short that the durable  *)
(* journal does not know of.                                               *)
THEOREM RebuildIsAtomic == Spec => []AllOrNothing
<1>1. Init => IInv
  BY Initially
<1>2. IInv => AllOrNothing
  BY DEF IInv
<1> QED
  BY <1>1, <1>2, Inductive, PTL DEF Spec

-----------------------------------------------------------------------------
(* ChapterRebuild: a rebuild keeps what listeners did.                     *)

(* All marks of a store that are there are meant in structure n.           *)
As(s, n)   == \A u \in Users : marks[s][u].id # 0 => marks[s][u].key = n /\ marks[s][u].sound
Both(n)    == As("positions", n) /\ As("bookmarks", n)

(* The stores of marks after the store k, and those up to it.              *)
AsOf(k, n)  == (k < 4 => As("positions", n)) /\ (k < 5 => As("bookmarks", n))
Since(k, n) == (k >= 4 => As("positions", n)) /\ (k >= 5 => As("bookmarks", n))

(* The journal holds a snapshot that may be restored.                      *)
Snapped == Undecided /\ \/ journal.started >= 1
                        \/ op.pc = "mark"
                        \/ op.pc = "undo" /\ op.mem.started >= 1

(* What would be restored is what was acknowledged last.                   *)
Acknowledged ==
  "write" \notin exposed =>
    /\ \A s \in Kinds, u \in Users : marks[s][u].id = acked[s][u]
    /\ Snapped => \A s \in Kinds, u \in Users : journal.marks[s][u].id \in {0, acked[s][u]}

(* What would be restored is meant in the old structure, and is there      *)
(* exactly where a mark is.                                                *)
SnapshotFits ==
  Snapped => \A s \in Kinds, u \in Users :
    /\ journal.marks[s][u].id = 0 <=> marks[s][u].id = 0
    /\ journal.marks[s][u].id # 0 =>
         journal.marks[s][u].key = journal.from /\ journal.marks[s][u].sound

(* What the marks of both stores are meant in, whatever the operation      *)
(* does, and at each of its places.                                        *)
MeantThere ==
  /\ ~Undecided => Both(books)
  /\ Undecided => AsOf(journal.started, journal.from)
MeantHere ==
  /\ op.pc \in {"plan", "backup", "prepare"} => Both(books)
  /\ op.pc \in {"mark", "write"} => AsOf(op.i - 1, journal.from) /\ Since(op.i - 1, journal.to)
  /\ op.pc = "commit" => Both(journal.to)
  /\ op.pc = "undo" => AsOf(op.i, journal.from)
  /\ op.pc = "cleanup" /\ Undecided => Both(journal.from)

(* An undoing restores the durable snapshot.                               *)
Carried == op.pc = "undo" /\ op.mem.started >= 1 => op.mem.marks = journal.marks

MInv == IInv /\ Acknowledged /\ (exposed = {} => SnapshotFits /\ MeantThere /\ MeantHere) /\ Carried

-----------------------------------------------------------------------------
(* Steps that touch neither the journal nor what listeners have.           *)
LEMMA Moved ==
  ASSUME MInv, IInv', UNCHANGED <<books, marks, journal, acked, exposed>>,
         Snapped' => Snapped, Carried', exposed = {} => MeantHere'
  PROVE  MInv'
<1>1. Undecided' <=> Undecided
  BY DEF Undecided
<1>2. Snapped' => Snapped
  OBVIOUS
<1>3. Acknowledged'
  BY <1>2 DEF MInv, Acknowledged
<1>4. exposed = {} => SnapshotFits'
  BY <1>2 DEF MInv, SnapshotFits
<1>5. exposed = {} => MeantThere'
  BY <1>1 DEF MInv, MeantThere, Both, AsOf, As
<1> QED
  BY <1>3, <1>4, <1>5 DEF MInv

(* Then the operation is over.                                             *)
LEMMA Over ==
  ASSUME MInv, IInv', UNCHANGED <<books, marks, journal, acked, exposed>>, op' = Idle
  PROVE  MInv'
<1>1. op'.pc = "off"
  BY IdleType
<1> QED
  BY <1>1, Moved DEF Carried, MeantHere, Snapped, Undecided

(* The operation goes on elsewhere, and neither marks nor undoes.          *)
LEMMA Passed ==
  ASSUME MInv, IInv', UNCHANGED <<books, marks, journal, acked, exposed>>,
         op'.pc \notin {"mark", "undo"}, exposed = {} => MeantHere'
  PROVE  MInv'
  BY Moved DEF Carried, Snapped, Undecided

LEMMA RecoverMarks == MInv /\ Recover => MInv'
<1> SUFFICES ASSUME MInv, Recover PROVE MInv'
  OBVIOUS
<1>1. op \in Ops /\ IInv' /\ UNCHANGED <<books, marks, journal, acked, exposed>>
  BY RecoverStep DEF MInv, IInv, Typed, Recover, kept, ghosts
<1>2. CASE ~journal.there /\ op.kind # "rebuild"
  BY <1>1, <1>2, Over DEF Recover, Recovered, Ends
<1>3. CASE ~journal.there /\ op.kind = "rebuild"
  <2>1. op'.pc = "plan"
    BY <1>1, <1>3 DEF Recover, Recovered, Goto, Ops
  <2>2. exposed = {} => Both(books)'
    BY <1>1, <1>3 DEF MInv, MeantThere, Undecided, Both, As
  <2> QED
    BY <1>1, <2>1, <2>2, Passed DEF MeantHere
<1>4. CASE journal.there
  <2>1. /\ op'.mem = journal /\ op'.i = journal.started
        /\ op'.pc \in {"undo", "cleanup", "audio"}
        /\ op'.pc \in {"undo"} <=> ~journal.committed
    BY <1>1, <1>4 DEF Recover, Undone, Ops
  <2>2. Carried'
    BY <1>1, <2>1 DEF Carried
  <2>3. exposed = {} => MeantHere'
    BY <1>1, <1>4, <2>1 DEF MInv, MeantThere, MeantHere, Undecided, AsOf, As
  <2>4. Snapped' => Snapped
    BY <1>1, <2>1 DEF Snapped, Undecided
  <2> QED
    BY <1>1, <2>2, <2>3, <2>4, Moved
<1> QED
  BY <1>2, <1>3, <1>4

(* The marks are restored from the durable snapshot.                       *)
LEMMA UndoMarks == MInv /\ Undo => MInv'
<1> SUFFICES ASSUME MInv, Undo PROVE MInv'
  OBVIOUS
<1>1. /\ op \in Ops /\ IInv /\ IInv' /\ Stored /\ op.i \in 0 .. 5 /\ op.mem.started \in 0 .. 5
      /\ UNCHANGED <<journal, acked, exposed>> /\ op.pc = "undo"
  BY UndoStep, OpEdits, JournalEdits DEF MInv, IInv, Typed, Undo, At, ghosts
<1>2. CASE op.i = 0
  <2>1. UNCHANGED <<books, marks>> /\ op'.pc = "cleanup"
    BY <1>1, <1>2 DEF Undo, Goto, Ops
  <2>2. exposed = {} => MeantHere'
    BY <1>1, <1>2, <2>1 DEF MInv, MeantHere, AsOf, Both, As
  <2> QED
    BY <1>1, <2>1, <2>2, Passed
<1>3. CASE op.i # 0
  <2>1. /\ op'.pc = "undo" /\ op'.mem = op.mem /\ op'.i = op.i - 1
        /\ marks' = CASE op.i = 4 -> Restored(op.mem, "positions")
                      [] op.i = 5 -> Restored(op.mem, "bookmarks")
                      [] OTHER    -> marks
    BY <1>1, <1>3 DEF Undo, Ops
  <2>2. Undecided /\ op.mem.started >= 1 /\ op.mem.marks = journal.marks /\ Snapped
        /\ Undecided' /\ Snapped'
    BY <1>1, <1>3, <2>1 DEF IInv, Located, MInv, Carried, Snapped, Undecided
  <2>3. Carried'
    BY <1>1, <2>1, <2>2 DEF Carried
  <2>4. marks \in [Kinds -> [Users -> Marks]]
    BY <1>1 DEF Stored
  <2>5. \A s \in Kinds, u \in Users :
          marks'[s][u] = marks[s][u] \/ (marks'[s][u] = journal.marks[s][u] /\ journal.marks[s][u].id # 0)
    BY <2>1, <2>2, <2>4 DEF Restored, Kinds
  <2>6. Acknowledged'
    BY <1>1, <2>2, <2>5 DEF MInv, Acknowledged
  <2>7. exposed = {} => SnapshotFits'
    BY <1>1, <2>2, <2>5 DEF MInv, SnapshotFits
  <2>8. \A n : \A s \in Kinds : As(s, n) /\ n = journal.from /\ exposed = {} => As(s, n)'
    BY <2>2, <2>5 DEF MInv, SnapshotFits, As
  <2>9. exposed = {} /\ op.i = 4 => As("positions", journal.from)'
    BY <2>1, <2>2, <2>4, <1>1 DEF MInv, SnapshotFits, As, Restored, Kinds
  <2>10. exposed = {} /\ op.i = 5 => As("bookmarks", journal.from)'
    BY <2>1, <2>2, <2>4, <1>1 DEF MInv, SnapshotFits, As, Restored, Kinds
  <2>11. exposed = {} => MeantThere'
    BY <1>1, <2>2, <2>8 DEF MInv, MeantThere, AsOf, Kinds
  <2>12. exposed = {} => /\ op.i - 1 < 4 => As("positions", journal.from)'
                         /\ op.i - 1 < 5 => As("bookmarks", journal.from)'
    <3> SUFFICES ASSUME exposed = {}
                 PROVE  /\ op.i - 1 < 4 => As("positions", journal.from)'
                        /\ op.i - 1 < 5 => As("bookmarks", journal.from)'
      OBVIOUS
    <3>1. AsOf(op.i, journal.from)
      BY <1>1 DEF MInv, MeantHere
    <3>2. op.i - 1 < 4 => As("positions", journal.from)'
      <4>1. CASE op.i < 4
        BY <1>1, <2>8, <3>1, <4>1 DEF AsOf, Kinds
      <4>2. CASE op.i = 4
        BY <4>2, <2>9
      <4> QED
        BY <1>1, <4>1, <4>2
    <3>3. op.i - 1 < 5 => As("bookmarks", journal.from)'
      <4>1. CASE op.i < 5
        BY <1>1, <2>8, <3>1, <4>1 DEF AsOf, Kinds
      <4>2. CASE op.i = 5
        BY <4>2, <2>10
      <4> QED
        BY <1>1, <4>1, <4>2
    <3> QED
      BY <3>2, <3>3
  <2>13. exposed = {} => MeantHere'
    <3>1. op'.i = op.i - 1 /\ UNCHANGED <<journal, exposed>> /\ op.i \in 0 .. 5
      BY <1>1, <2>1
    <3>2. exposed = {} => AsOf(op.i, journal.from)'
      BY <2>12, <3>1 DEF AsOf, As
    <3> QED
      BY <2>1, <3>2 DEF MeantHere
  <2> QED
    BY <1>1, <2>3, <2>6, <2>7, <2>11, <2>13 DEF MInv
<1> QED
  BY <1>2, <1>3

(* Once the journal is gone the marks are meant in the book's structure.   *)
LEMMA CleanupMarks == MInv /\ Cleanup => MInv'
<1> SUFFICES ASSUME MInv, Cleanup PROVE MInv'
  OBVIOUS
<1>1. /\ op \in Ops /\ IInv /\ IInv' /\ UNCHANGED <<books, marks, acked, exposed>>
      /\ op.pc = "cleanup"
  BY CleanupStep DEF MInv, IInv, Typed, Cleanup, At, kept, ghosts
<1>2. op'.pc \in {"plan", "off"}
  BY <1>1, IdleType DEF Cleanup, Recovered, Ends, Throws, Goto, Ops
<1>3. exposed = {} => Both(books)
  <2>1. Undecided => books = journal.from
    BY <1>1 DEF IInv, Located, Agree
  <2> QED
    BY <1>1, <2>1 DEF MInv, MeantThere, MeantHere
<1>4. exposed = {} => MeantHere'
  BY <1>1, <1>2, <1>3 DEF MeantHere, Both, As
<1>5. CASE UNCHANGED journal
  BY <1>1, <1>2, <1>4, <1>5, Passed
<1>6. CASE journal' = NoJournal
  <2>1. ~Undecided' /\ ~Snapped'
    BY <1>6, Nothing DEF Undecided, Snapped
  <2>2. Acknowledged'
    BY <1>1, <2>1 DEF MInv, Acknowledged
  <2>3. exposed = {} => SnapshotFits' /\ MeantThere'
    BY <1>1, <1>3, <2>1 DEF SnapshotFits, MeantThere, Both, As
  <2> QED
    BY <1>1, <1>2, <1>4, <2>2, <2>3 DEF MInv, Carried
<1> QED
  BY <1>5, <1>6 DEF Cleanup

LEMMA PlanMarks == MInv /\ Plan => MInv'
<1> SUFFICES ASSUME MInv, Plan PROVE MInv'
  OBVIOUS
<1>1. /\ op \in Ops /\ IInv' /\ UNCHANGED <<books, marks, journal, acked, exposed>>
      /\ op.pc = "plan"
  BY PlanStep DEF MInv, IInv, Typed, Plan, At, kept, ghosts
<1>2. op'.pc \in {"backup", "off"}
  BY <1>1, IdleType DEF Plan, Ends, Ops
<1>3. exposed = {} => MeantHere'
  BY <1>1, <1>2 DEF MInv, MeantHere, Both, As
<1> QED
  BY <1>1, <1>2, <1>3, Passed

LEMMA BackupMarks == MInv /\ Backup => MInv'
<1> SUFFICES ASSUME MInv, Backup PROVE MInv'
  OBVIOUS
<1>1. /\ op \in Ops /\ IInv' /\ UNCHANGED <<books, marks, journal, acked, exposed>>
      /\ op.pc = "backup"
  BY BackupStep DEF MInv, IInv, Typed, Backup, At, ghosts
<1>2. op'.pc = "prepare"
  BY <1>1 DEF Backup, Goto, Ops
<1>3. exposed = {} => MeantHere'
  BY <1>1, <1>2 DEF MInv, MeantHere, Both, As
<1> QED
  BY <1>1, <1>2, <1>3, Passed

-----------------------------------------------------------------------------
(* Steps that write the journal. *)

LEMMA PrepareMarks == MInv /\ Prepare => MInv'
<1> SUFFICES ASSUME MInv, Prepare PROVE MInv'
  OBVIOUS
<1>1. /\ op \in Ops /\ IInv /\ IInv' /\ UNCHANGED <<books, marks, acked, exposed>>
      /\ op.pc = "prepare" /\ journal' = op.mem
  BY PrepareStep DEF MInv, IInv, Typed, Prepare, Journal, At, kept, ghosts
<1>2. op'.pc = "snapshot"
  BY <1>1 DEF Prepare, Journal, Ops
<1>3. Undecided' /\ journal'.started = 0 /\ journal'.from = books /\ ~Snapped'
  BY <1>1, <1>2 DEF IInv, Located, Fresh, Undecided, Snapped
<1>4. Acknowledged'
  BY <1>1, <1>3 DEF MInv, Acknowledged
<1>5. exposed = {} => SnapshotFits' /\ MeantThere' /\ MeantHere'
  BY <1>1, <1>2, <1>3 DEF MInv, SnapshotFits, MeantThere, MeantHere, Both, AsOf, As
<1> QED
  BY <1>1, <1>2, <1>4, <1>5 DEF MInv, Carried

LEMMA SnapshotMarks == MInv /\ Snapshot => MInv'
<1> SUFFICES ASSUME MInv, Snapshot PROVE MInv'
  OBVIOUS
<1>1. /\ op \in Ops /\ IInv /\ IInv' /\ UNCHANGED <<books, marks, acked, exposed>>
      /\ op.mem \in Journals
      /\ journal' = [op.mem EXCEPT !.transitions = transitions, !.marks = marks]
      /\ journal = op.mem /\ Undecided /\ journal.started = 0
  BY SnapshotStep, OpEdits
  DEF Snapshotted, MInv, IInv, Typed, Located, Snapshot, Journal, At, kept, ghosts
<1>2. op'.pc = "mark" /\ op'.i = 1
  BY <1>1 DEF Snapshot, Journal, Ops
<1>3. Undecided' /\ journal'.started = 0 /\ journal'.from = journal.from /\ journal'.marks = marks
  BY <1>1 DEF Undecided, Journals
<1>4. Acknowledged'
  BY <1>1, <1>3 DEF MInv, Acknowledged
<1>5. exposed = {} => Both(journal.from)
  BY <1>1 DEF MInv, MeantThere, AsOf, Both
<1>6. exposed = {} => SnapshotFits'
  BY <1>1, <1>3, <1>5 DEF SnapshotFits, Both, As, Kinds
<1>7. exposed = {} => MeantThere' /\ MeantHere'
  BY <1>1, <1>2, <1>3, <1>5 DEF MeantThere, MeantHere, Both, AsOf, As, Since
<1> QED
  BY <1>1, <1>2, <1>4, <1>6, <1>7 DEF MInv, Carried

LEMMA MarkMarks == MInv /\ Mark => MInv'
<1> SUFFICES ASSUME MInv, Mark PROVE MInv'
  OBVIOUS
<1>1. /\ op \in Ops /\ IInv /\ IInv' /\ UNCHANGED <<books, marks, acked, exposed>>
      /\ op.mem \in Journals /\ op.i \in 0 .. 5 /\ op.pc = "mark"
      /\ journal' = [op.mem EXCEPT !.started = op.i]
      /\ journal = op.mem /\ Undecided
  BY MarkStep, OpEdits
  DEF MInv, IInv, Typed, Located, Holding, Mark, MarkStarted, Journal, At, kept, ghosts
<1>2. op'.pc = "write" /\ op'.i = op.i
  BY <1>1 DEF Mark, Journal, Ops
<1>3. /\ Undecided' /\ journal'.started = op.i /\ journal'.from = journal.from
      /\ journal'.to = journal.to /\ journal'.marks = journal.marks
  BY <1>1 DEF Undecided, Journals
<1>4. Snapped
  BY <1>1 DEF Snapped
<1>5. Acknowledged'
  BY <1>1, <1>3, <1>4 DEF MInv, Acknowledged
<1>6. exposed = {} => SnapshotFits'
  BY <1>1, <1>3, <1>4 DEF MInv, SnapshotFits
<1>7. exposed = {} => MeantThere' /\ MeantHere'
  BY <1>1, <1>2, <1>3 DEF MInv, MeantThere, MeantHere, Both, AsOf, As, Since
<1> QED
  BY <1>1, <1>2, <1>5, <1>6, <1>7 DEF MInv, Carried

-----------------------------------------------------------------------------
(* What the write of a store does to the marks: they are mapped, or stay.  *)
Written(s) == (s = "positions" /\ op.i = 4) \/ (s = "bookmarks" /\ op.i = 5)

LEMMA Mapped ==
  ASSUME IInv, WriteStore, op.pc = "write"
  PROVE  /\ op.i \in 1 .. 5
         /\ \A s \in Kinds, u \in Users :
              /\ marks'[s][u].id = marks[s][u].id
              /\ ~Written(s) => marks'[s][u] = marks[s][u]
              /\ Written(s) /\ marks[s][u].id # 0 /\ marks[s][u].sound
                 /\ marks[s][u].key = op.mem.from =>
                   marks'[s][u].key = op.mem.to /\ marks'[s][u].sound
<1>1. op \in Ops /\ marks \in [Kinds -> [Users -> Marks]] /\ op.i \in 1 .. 5
  <2>1. op.i \in 0 .. 5 /\ op.i >= 1
    BY OpEdits DEF IInv, Typed, Located
  <2> QED
    BY <2>1 DEF IInv, Typed, Stored
<1>2. marks' = CASE op.i = 4 -> Remapped("positions")
                 [] op.i = 5 -> Remapped("bookmarks")
                 [] OTHER    -> marks
  BY DEF WriteStore
<1>3. \A s \in Kinds, u \in Users : marks[s][u] \in Marks
  BY <1>1
<1>4. \A s \in Kinds :
        /\ \A r \in Kinds : r # s => Remapped(s)[r] = marks[r]
        /\ \A u \in Users :
             IF marks[s][u].id = 0 THEN Remapped(s)[s][u] = marks[s][u]
             ELSE Remapped(s)[s][u] = [marks[s][u] EXCEPT !.key = op.mem.to,
                                         !.sound = @ /\ marks[s][u].key = op.mem.from]
  BY <1>1 DEF Remapped, Current
<1>5. \A s \in Kinds, u \in Users :
        /\ Remapped(s)[s][u].id = marks[s][u].id
        /\ marks[s][u].id # 0 /\ marks[s][u].sound /\ marks[s][u].key = op.mem.from =>
             Remapped(s)[s][u].key = op.mem.to /\ Remapped(s)[s][u].sound
  <2> SUFFICES ASSUME NEW s \in Kinds, NEW u \in Users
               PROVE  /\ Remapped(s)[s][u].id = marks[s][u].id
                      /\ marks[s][u].id # 0 /\ marks[s][u].sound /\ marks[s][u].key = op.mem.from =>
                           Remapped(s)[s][u].key = op.mem.to /\ Remapped(s)[s][u].sound
    OBVIOUS
  <2> DEFINE m == marks[s][u]
  <2>1. m \in Marks
    BY <1>3
  <2>2. CASE m.id = 0
    BY <1>4, <2>2
  <2>3. CASE m.id # 0
    <3>1. Remapped(s)[s][u]
          = [m EXCEPT !.key = op.mem.to, !.sound = m.sound /\ m.key = op.mem.from]
      BY <1>4, <2>3
    <3>2. Remapped(s)[s][u]
          = [id |-> m.id, key |-> op.mem.to, sound |-> (m.sound /\ m.key = op.mem.from)]
      BY <2>1, <3>1 DEF Marks
    <3>3. /\ Remapped(s)[s][u].id = m.id /\ Remapped(s)[s][u].key = op.mem.to
          /\ Remapped(s)[s][u].sound = (m.sound /\ m.key = op.mem.from)
      BY <3>2
    <3> QED
      BY <3>3
  <2> QED
    BY <2>2, <2>3
<1>6. CASE op.i = 4
  <2>1. marks' = Remapped("positions") /\ "positions" \in Kinds
    BY <1>2, <1>6 DEF Kinds
  <2>2. \A s : Written(s) <=> s = "positions"
    BY <1>6 DEF Written
  <2>3. \A r \in Kinds : ~Written(r) => marks'[r] = marks[r]
    BY <1>4, <2>1, <2>2
  <2> QED
    BY <1>1, <1>5, <2>1, <2>2, <2>3
<1>7. CASE op.i = 5
  <2>1. marks' = Remapped("bookmarks") /\ "bookmarks" \in Kinds
    BY <1>2, <1>7 DEF Kinds
  <2>2. \A s : Written(s) <=> s = "bookmarks"
    BY <1>7 DEF Written
  <2>3. \A r \in Kinds : ~Written(r) => marks'[r] = marks[r]
    BY <1>4, <2>1, <2>2
  <2> QED
    BY <1>1, <1>5, <2>1, <2>2, <2>3
<1>8. CASE op.i # 4 /\ op.i # 5
  <2>1. marks' = marks
    BY <1>2, <1>8
  <2> QED
    BY <1>1, <1>8, <2>1 DEF Written
<1> QED
  BY <1>6, <1>7, <1>8

LEMMA WriteMarks == MInv /\ Write => MInv'
<1> SUFFICES ASSUME MInv, Write PROVE MInv'
  OBVIOUS
<1>1. /\ op \in Ops /\ IInv /\ IInv' /\ UNCHANGED <<journal, acked, exposed>>
      /\ op.pc = "write" /\ WriteStore /\ journal = op.mem /\ Undecided /\ journal.started = op.i
  BY WriteStep DEF MInv, IInv, Typed, Located, Holding, Write, At, ghosts
<1>2. /\ op.i \in 1 .. 5
      /\ \A s \in Kinds, u \in Users :
           /\ marks'[s][u].id = marks[s][u].id
           /\ ~Written(s) => marks'[s][u] = marks[s][u]
           /\ Written(s) /\ marks[s][u].id # 0 /\ marks[s][u].sound
              /\ marks[s][u].key = op.mem.from =>
                marks'[s][u].key = op.mem.to /\ marks'[s][u].sound
  BY <1>1, Mapped
<1>3. IF op.i = 5 THEN op'.pc = "commit" ELSE op'.pc = "mark" /\ op'.i = op.i + 1
  BY <1>1, <1>2 DEF Write, Ops
<1>4. Snapped /\ Undecided'
  BY <1>1, <1>2 DEF Snapped, Undecided
<1>5. Acknowledged'
  BY <1>1, <1>2, <1>4 DEF MInv, Acknowledged
<1>6. exposed = {} => SnapshotFits'
  BY <1>1, <1>2, <1>4 DEF MInv, SnapshotFits
<1>7. exposed = {} => MeantThere' /\ MeantHere'
  <2> SUFFICES ASSUME exposed = {} PROVE MeantThere' /\ MeantHere'
    OBVIOUS
  <2>1. AsOf(op.i - 1, journal.from) /\ Since(op.i - 1, journal.to)
    BY <1>1 DEF MInv, MeantHere
  <2>2. op.i < 4 => As("positions", journal.from)'
    BY <1>1, <1>2, <2>1 DEF AsOf, As, Written, Kinds
  <2>3. op.i < 5 => As("bookmarks", journal.from)'
    BY <1>1, <1>2, <2>1 DEF AsOf, As, Written, Kinds
  <2>4. op.i >= 4 => As("positions", journal.to)'
    BY <1>1, <1>2, <2>1 DEF AsOf, Since, As, Written, Kinds
  <2>5. op.i >= 5 => As("bookmarks", journal.to)'
    BY <1>1, <1>2, <2>1 DEF AsOf, Since, As, Written, Kinds
  <2> QED
    BY <1>1, <1>2, <1>3, <1>4, <2>2, <2>3, <2>4, <2>5
    DEF MeantThere, MeantHere, AsOf, Since, Both
<1> QED
  BY <1>1, <1>3, <1>5, <1>6, <1>7 DEF MInv, Carried

LEMMA CommitMarks == MInv /\ Commit => MInv'
<1> SUFFICES ASSUME MInv, Commit PROVE MInv'
  OBVIOUS
<1>1. /\ op \in Ops /\ IInv /\ IInv' /\ UNCHANGED <<books, marks, acked, exposed>>
      /\ op.mem \in Journals /\ journal' = [op.mem EXCEPT !.committed = TRUE]
      /\ op.pc = "commit" /\ journal = op.mem /\ Agree(journal.to)
  BY CommitStep, OpEdits DEF MInv, IInv, Typed, Located, Commit, Journal, At, kept, ghosts
<1>2. op'.pc = "audio" /\ ~Undecided' /\ ~Snapped'
  BY <1>1 DEF Commit, Journal, Ops, Journals, Undecided, Snapped
<1>3. Acknowledged'
  BY <1>1, <1>2 DEF MInv, Acknowledged
<1>4. exposed = {} => SnapshotFits' /\ MeantThere' /\ MeantHere'
  BY <1>1, <1>2 DEF MInv, SnapshotFits, MeantThere, MeantHere, Both, As, Agree
<1> QED
  BY <1>1, <1>2, <1>3, <1>4 DEF MInv, Carried

LEMMA AudioMarks == MInv /\ (Audio \/ Audited) => MInv'
<1> SUFFICES ASSUME MInv, Audio \/ Audited PROVE MInv'
  OBVIOUS
<1>1. /\ op \in Ops /\ IInv /\ IInv' /\ UNCHANGED <<books, marks, acked, exposed>>
      /\ op.mem \in Journals /\ journal = op.mem /\ ~Undecided
  BY AudioStep, AuditedStep, OpEdits
  DEF MInv, IInv, Typed, Located, Audio, Audited, Journal, At, Undecided, kept, ghosts
<1>2. op'.pc \in {"audited", "cleanup"}
  BY <1>1 DEF Audio, Audited, Goto, Journal, Ops
<1>3. ~Undecided' /\ ~Snapped'
  BY <1>1 DEF Audio, Audited, Journal, Journals, Undecided, Snapped
<1>4. Acknowledged'
  BY <1>1, <1>3 DEF MInv, Acknowledged
<1>5. exposed = {} => SnapshotFits' /\ MeantThere' /\ MeantHere'
  BY <1>1, <1>2, <1>3 DEF MInv, SnapshotFits, MeantThere, MeantHere, Both, As
<1> QED
  BY <1>1, <1>2, <1>4, <1>5 DEF MInv, Carried

-----------------------------------------------------------------------------
(* Failures, crashes and the surroundings. *)

(* A failure in the middle: the snapshot that is undone with is durable.   *)
LEMMA UndoBeginsMarks ==
  ASSUME MInv, IInv', op.pc \in {"mark", "write"},
         op' = [op EXCEPT !.pc = "undo", !.mem.started = op.i],
         \/ UNCHANGED kept
         \/ op.pc = "write" /\ WriteStore,
         \/ UNCHANGED journal
         \/ op.pc = "mark" /\ journal' = op'.mem,
         UNCHANGED ghosts
  PROVE  MInv'
<1> DEFINE mem == [op.mem EXCEPT !.started = op.i]
<1>1. /\ op \in Ops /\ IInv /\ op.mem \in Journals /\ op.i \in 0 .. 5 /\ Undecided
      /\ journal = op.mem /\ UNCHANGED <<acked, exposed>>
      /\ op.pc = "mark" => journal.started = op.i - 1 /\ op.i >= 1
      /\ op.pc = "write" => journal.started = op.i /\ op.i >= 1
  BY OpEdits DEF MInv, IInv, Typed, Located, Holding, ghosts
<1>2. /\ mem.from = op.mem.from /\ mem.marks = op.mem.marks /\ mem.started = op.i
      /\ mem.there = op.mem.there /\ mem.committed = op.mem.committed
  BY <1>1 DEF Journals
<1>3. op'.pc = "undo" /\ op'.mem = mem /\ op'.i = op.i
  BY <1>1 DEF Ops
<1>4. /\ journal'.from = journal.from /\ journal'.marks = journal.marks /\ Undecided'
      /\ journal'.started = journal.started \/ (op.pc = "mark" /\ journal'.started = op.i)
  BY <1>1, <1>2, <1>3 DEF Undecided
<1>5. Snapped' => Snapped
  BY <1>1, <1>3, <1>4 DEF Snapped
<1>6. /\ \A s \in Kinds, u \in Users : marks'[s][u].id = marks[s][u].id
      /\ \/ marks' = marks
         \/ op.pc = "write" /\ \A s \in Kinds, u \in Users : ~Written(s) => marks'[s][u] = marks[s][u]
  <2>1. CASE UNCHANGED kept
    BY <2>1 DEF kept
  <2>2. CASE op.pc = "write" /\ WriteStore
    BY <1>1, <2>2, Mapped
  <2> QED
    BY <2>1, <2>2
<1>7. Acknowledged'
  BY <1>1, <1>4, <1>5, <1>6 DEF MInv, Acknowledged
<1>8. exposed = {} => SnapshotFits'
  BY <1>1, <1>4, <1>5, <1>6 DEF MInv, SnapshotFits
<1>9. exposed = {} => /\ op.i < 4 => As("positions", journal.from)'
                      /\ op.i < 5 => As("bookmarks", journal.from)'
  <2> SUFFICES ASSUME exposed = {}
               PROVE  /\ op.i < 4 => As("positions", journal.from)'
                      /\ op.i < 5 => As("bookmarks", journal.from)'
    OBVIOUS
  <2>1. AsOf(op.i, journal.from)
    BY <1>1 DEF MInv, MeantThere, MeantHere, AsOf
  <2>2. ~Written("positions") \/ op.i = 4
    BY DEF Written
  <2>3. ~Written("bookmarks") \/ op.i = 5
    BY DEF Written
  <2> QED
    BY <1>1, <1>4, <1>6, <2>1, <2>2, <2>3 DEF AsOf, As, Kinds
<1>10. exposed = {} => MeantHere'
  BY <1>1, <1>3, <1>9 DEF MeantHere, AsOf, As
<1>11. exposed = {} => MeantThere'
  <2> SUFFICES ASSUME exposed = {} PROVE MeantThere'
    OBVIOUS
  <2>1. AsOf(journal.started, journal.from)
    BY <1>1 DEF MInv, MeantThere
  <2>2. AsOf(journal.started, journal.from)'
    <3>1. CASE journal'.started = op.i
      BY <1>1, <1>9, <3>1 DEF AsOf, As
    <3>2. CASE journal'.started # op.i
      <4>1. marks' = marks /\ journal'.started = journal.started
        BY <1>1, <1>4, <1>6, <3>2
      <4> QED
        BY <1>4, <2>1, <4>1 DEF AsOf, As
    <3> QED
      BY <3>1, <3>2
  <2> QED
    BY <1>4, <2>2 DEF MeantThere
<1>12. Carried'
  BY <1>1, <1>2, <1>3, <1>4 DEF Carried
<1> QED
  BY <1>1, <1>7, <1>8, <1>10, <1>11, <1>12 DEF MInv

(* The snapshot fails: nothing was begun, and nothing will be restored.    *)
LEMMA SnapshotUndoesMarks ==
  ASSUME MInv, IInv', op.pc = "snapshot",
         op' = [op EXCEPT !.pc = "undo", !.mem = Snapshotted],
         journal' \in {journal, Snapshotted}, UNCHANGED <<kept, ghosts>>
  PROVE  MInv'
<1>1. /\ op \in Ops /\ IInv /\ op.mem \in Journals /\ Undecided /\ journal = op.mem
      /\ journal.started = 0 /\ op.i = 0
      /\ UNCHANGED <<books, marks, acked, exposed>>
  BY OpEdits DEF MInv, IInv, Typed, Located, kept, ghosts
<1>2. /\ Snapshotted.from = journal.from /\ Snapshotted.started = 0
      /\ Snapshotted.there = journal.there /\ Snapshotted.committed = journal.committed
  BY <1>1 DEF Snapshotted, Journals
<1>3. op'.pc = "undo" /\ op'.mem = Snapshotted /\ op'.i = 0
  BY <1>1 DEF Ops
<1>4. Undecided' /\ journal'.started = 0 /\ journal'.from = journal.from
  BY <1>1, <1>2 DEF Undecided
<1>5. ~Snapped' /\ Carried'
  BY <1>2, <1>3, <1>4 DEF Snapped, Carried
<1>6. Acknowledged'
  BY <1>1, <1>5 DEF MInv, Acknowledged
<1>7. exposed = {} => SnapshotFits' /\ MeantThere' /\ MeantHere'
  BY <1>1, <1>3, <1>4, <1>5 DEF MInv, SnapshotFits, MeantThere, MeantHere, AsOf, As
<1> QED
  BY <1>1, <1>5, <1>6, <1>7 DEF MInv

LEMMA FailMarks == MInv /\ Fail => MInv'
<1> SUFFICES ASSUME MInv, Fail PROVE MInv'
  OBVIOUS
<1>1. IInv /\ IInv'
  BY FailStep DEF MInv
<1>2. CASE op' = Idle /\ UNCHANGED <<books, marks, journal, acked, exposed>>
  BY <1>1, <1>2, Over
<1>3. CASE /\ op.pc \in {"mark", "write"}
           /\ op' = [op EXCEPT !.pc = "undo", !.mem.started = op.i]
           /\ \/ UNCHANGED kept
              \/ op.pc = "write" /\ WriteStore
           /\ \/ UNCHANGED journal
              \/ op.pc = "mark" /\ journal' = op'.mem
           /\ UNCHANGED ghosts
  BY <1>1, <1>3, UndoBeginsMarks
<1>4. CASE /\ op.pc = "commit" /\ op' = Idle /\ UNCHANGED <<books, marks, acked, exposed>>
           /\ journal' = [op.mem EXCEPT !.committed = TRUE]
  <2>1. op.mem \in Journals /\ Agree(journal.to) /\ journal = op.mem
    BY <1>1, <1>4, OpEdits DEF IInv, Typed, Located
  <2>2. ~Undecided' /\ ~Snapped' /\ op'.pc = "off"
    BY <1>4, <2>1, IdleType DEF Undecided, Snapped, Journals
  <2>3. Acknowledged'
    BY <1>4, <2>2 DEF MInv, Acknowledged
  <2>4. exposed = {} => SnapshotFits' /\ MeantThere' /\ MeantHere'
    BY <1>4, <2>1, <2>2 DEF MInv, SnapshotFits, MeantThere, MeantHere, Both, As, Agree
  <2> QED
    BY <1>1, <1>4, <2>2, <2>3, <2>4 DEF MInv, Carried
<1>5. CASE op.pc = "prepare" /\ Throws /\ Copying /\ journal' = op.mem
  <2>1. UNCHANGED <<books, marks, acked, exposed>> /\ op' = Idle /\ op'.pc = "off"
    BY <1>5, IdleType DEF Copying, Throws
  <2>2. Undecided' /\ journal'.started = 0 /\ journal'.from = books /\ ~Snapped'
    BY <1>1, <1>5, <2>1 DEF IInv, Located, Fresh, Undecided, Snapped
  <2>3. Acknowledged'
    BY <2>1, <2>2 DEF MInv, Acknowledged
  <2>4. exposed = {} => SnapshotFits' /\ MeantThere' /\ MeantHere'
    BY <1>5, <2>1, <2>2 DEF MInv, SnapshotFits, MeantThere, MeantHere, Both, AsOf, As
  <2> QED
    BY <1>1, <2>1, <2>3, <2>4 DEF MInv, Carried
<1>6. CASE /\ op.pc = "snapshot"
           /\ op' = [op EXCEPT !.pc = "undo", !.mem = Snapshotted]
           /\ journal' \in {journal, Snapshotted}
           /\ UNCHANGED <<kept, up, ghosts>>
  BY <1>1, <1>6, SnapshotUndoesMarks
<1>7. CASE /\ op.pc = "cleanup" /\ op' = Idle /\ journal' = NoJournal
           /\ UNCHANGED <<books, marks, acked, exposed>>
  <2>1. ~Undecided' /\ ~Snapped' /\ op'.pc = "off"
    BY <1>7, Nothing, IdleType DEF Undecided, Snapped
  <2>2. Acknowledged'
    BY <1>7, <2>1 DEF MInv, Acknowledged
  <2>3. exposed = {} => Both(books)
    <3>1. Undecided => books = journal.from
      BY <1>1, <1>7 DEF IInv, Located, Agree
    <3> QED
      BY <1>7, <3>1 DEF MInv, MeantThere, MeantHere
  <2>4. exposed = {} => SnapshotFits' /\ MeantThere' /\ MeantHere'
    BY <1>7, <2>1, <2>3 DEF SnapshotFits, MeantThere, MeantHere, Both, As
  <2> QED
    BY <1>1, <1>7, <2>1, <2>2, <2>4 DEF MInv, Carried
<1> QED
  BY <1>2, <1>3, <1>4, <1>5, <1>6, <1>7 DEF Fail, Throws, Ends, Copying, kept, ghosts

LEMMA StartMarks ==
  ASSUME MInv, NEW kind \in {"rebuild", "visit", "startup"}, Start(kind) PROVE MInv'
<1>1. IInv' /\ UNCHANGED <<books, marks, journal, acked, exposed>>
  BY StartStep DEF MInv, Start, kept, ghosts
<1>2. op'.pc = "recover"
  <2>1. op' = [Idle EXCEPT !.kind = kind, !.pc = "recover"] /\ Idle \in Ops
    BY IdleType DEF Start
  <2> QED
    BY <2>1 DEF Ops
<1> QED
  BY <1>1, <1>2, Passed DEF MeantHere

(* A listener's write: it is meant in the structure of the book, and while *)
(* an undecided journal lies there it is exposed.                          *)
LEMMA ListenMarks ==
  ASSUME MInv, NEW s \in Kinds, NEW u \in Users, Listen(s, u) PROVE MInv'
<1> DEFINE id == acked[s][u] + 1
<1>1. IInv' /\ Stored /\ UNCHANGED <<books, journal, op>> /\ op.pc = "off"
  BY ListenStep DEF MInv, IInv, Typed, Listen, At
<1>2. /\ marks' = [marks EXCEPT ![s][u] = [id |-> id, key |-> books, sound |-> TRUE]]
      /\ acked' = [acked EXCEPT ![s][u] = id]
      /\ exposed' = IF Undecided THEN exposed \union {"write"} ELSE exposed
  BY DEF Listen
<1>3. /\ marks'[s][u] = [id |-> id, key |-> books, sound |-> TRUE] /\ acked'[s][u] = id
      /\ \A r \in Kinds, v \in Users : r # s \/ v # u =>
           marks'[r][v] = marks[r][v] /\ acked'[r][v] = acked[r][v]
  BY <1>1, <1>2 DEF Stored
<1>4. (Undecided' <=> Undecided) /\ (Snapped' => Undecided)
  BY <1>1 DEF Undecided, Snapped
<1>5. Acknowledged'
  BY <1>2, <1>3, <1>4 DEF MInv, Acknowledged
<1>6. exposed' = {} => ~Undecided /\ exposed = {}
  BY <1>2
<1>7. exposed' = {} => Both(books)'
  BY <1>1, <1>3, <1>6 DEF MInv, MeantThere, Both, As, Kinds
<1>8. exposed' = {} => SnapshotFits' /\ MeantThere' /\ MeantHere'
  BY <1>1, <1>4, <1>6, <1>7 DEF SnapshotFits, MeantThere, MeantHere
<1> QED
  BY <1>1, <1>5, <1>8 DEF MInv, Carried

LEMMA MergeMarks ==
  ASSUME MInv, NEW u \in Users, NEW v \in Users, Merge(u, v) PROVE MInv'
<1> DEFINE m == marks["positions"][u]
<1>1. IInv' /\ Stored /\ UNCHANGED <<books, journal, op>> /\ "positions" \in Kinds
  BY MergeStep DEF MInv, IInv, Typed, Merge, Kinds
<1>2. /\ marks' = [marks EXCEPT !["positions"][v] = m]
      /\ acked' = [acked EXCEPT !["positions"][v] = m.id]
      /\ exposed' = IF Undecided THEN exposed \union {"merge"} ELSE exposed
      /\ m.id # 0 /\ marks["positions"][v].id = 0
  BY DEF Merge
<1>3. /\ marks'["positions"][v] = m /\ acked'["positions"][v] = m.id
      /\ \A r \in Kinds, w \in Users : r # "positions" \/ w # v =>
           marks'[r][w] = marks[r][w] /\ acked'[r][w] = acked[r][w]
  BY <1>1, <1>2 DEF Stored
<1>4. (Undecided' <=> Undecided) /\ (Snapped' <=> Snapped)
  BY <1>1 DEF Undecided, Snapped
<1>5. "write" \in exposed' <=> "write" \in exposed
  BY <1>2
<1>6. Acknowledged'
  <2> SUFFICES ASSUME "write" \notin exposed PROVE Acknowledged'
    BY <1>5 DEF Acknowledged
  <2>1. \A s \in Kinds, w \in Users : marks'[s][w].id = acked'[s][w]
    BY <1>3 DEF MInv, Acknowledged
  <2>2. Snapped => journal.marks["positions"][v].id = 0
    BY <1>1, <1>2 DEF MInv, Acknowledged
  <2>3. Snapped' => \A s \in Kinds, w \in Users : journal'.marks[s][w].id \in {0, acked'[s][w]}
    BY <1>1, <1>3, <1>4, <2>2 DEF MInv, Acknowledged
  <2> QED
    BY <2>1, <2>3 DEF Acknowledged
<1>7. exposed' = {} => ~Undecided /\ exposed = {}
  BY <1>2
<1>8. exposed' = {} => Both(books)'
  BY <1>1, <1>3, <1>7 DEF MInv, MeantThere, Both, As, Kinds
<1>9. ~Undecided => op.pc \notin {"mark", "write", "commit", "undo"}
  BY DEF MInv, IInv, Located, Holding
<1>10. exposed' = {} => SnapshotFits' /\ MeantThere' /\ MeantHere'
  BY <1>1, <1>4, <1>7, <1>8, <1>9 DEF SnapshotFits, MeantThere, MeantHere, Snapped
<1> QED
  BY <1>1, <1>6, <1>10 DEF MInv, Carried

-----------------------------------------------------------------------------
LEMMA MarksInitially == Init => MInv
<1> SUFFICES ASSUME Init PROVE MInv
  OBVIOUS
<1>1. ~Undecided /\ ~Snapped /\ op.pc = "off" /\ IInv
  BY Initially, Nothing, IdleType DEF Init, Undecided, Snapped
<1>2. \A s \in Kinds, u \in Users : marks[s][u].id = 0 /\ acked[s][u] = 0
  BY DEF Init, NoMark
<1> QED
  BY <1>1, <1>2
  DEF MInv, Acknowledged, SnapshotFits, MeantThere, MeantHere, Carried, Both, As, Kinds

LEMMA MarksInductive == MInv /\ [Next]_vars => MInv'
<1> SUFFICES ASSUME MInv, [Next]_vars PROVE MInv'
  OBVIOUS
<1>1. CASE UNCHANGED vars
  <2>1. IInv'
    BY <1>1, Inductive DEF MInv
  <2> QED
    BY <1>1, <2>1, Moved
    DEF vars, MInv, Carried, Snapped, MeantHere, Both, AsOf, Since, As, Undecided
<1>2. CASE Works
  BY <1>2, RecoverMarks, UndoMarks, CleanupMarks, PlanMarks, BackupMarks, PrepareMarks,
     SnapshotMarks, MarkMarks, WriteMarks, CommitMarks, AudioMarks
  DEF Works
<1>3. CASE Crash
  BY <1>3, CrashStep, Over DEF MInv, Crash, Copying
<1>4. CASE Next /\ ~Works /\ ~Crash
  BY <1>4, FailMarks, StartMarks, ListenMarks, MergeMarks DEF Next
<1> QED
  BY <1>1, <1>2, <1>3, <1>4

(* Whatever fails and whenever the server dies, a rebuild loses no         *)
(* acknowledged position or bookmark, and leaves each labelled with the    *)
(* structure of its book and meant in it.                                  *)
THEOREM ListenersAreKept == Spec => []ListenersKept
<1>1. Init => MInv
  BY MarksInitially
<1>2. MInv => ListenersKept
  <2> SUFFICES ASSUME MInv PROVE ListenersKept
    OBVIOUS
  <2>1. TypeOK
    BY TypeParts DEF MInv, IInv
  <2>2. ProgressKept
    BY DEF MInv, Acknowledged, ProgressKept
  <2>3. MarksReadable
    BY DEF MInv, MeantThere, Both, As, MarksReadable, Kinds
  <2> QED
    BY <2>1, <2>2, <2>3 DEF ListenersKept
<1> QED
  BY <1>1, <1>2, MarksInductive, PTL DEF Spec

-----------------------------------------------------------------------------
(* ChapterAudio: the audio of rebuilt chapters.                            *)

Texts == [text : Chapters \union {0}, new : BOOLEAN]

AudioTypeOK ==
  /\ plan \in Plans /\ had \subseteq Chapters
  /\ file \in [Parts -> [Chapters -> Texts]] /\ stage \in [Items -> Texts]
  /\ manifest \in [there : BOOLEAN, items : SUBSET Items, promoting : BOOLEAN]
  /\ at \in {"plan", "stage", "remove", "promote", "done", "failed"} \union Clearing
  /\ spoilt \in BOOLEAN /\ littered \in BOOLEAN

Shifted == {m \in plan.moves : m[1] # m[2]}

(* Once audio was given up, nothing is moved any more.                     *)
GivenUp ==
  spoilt => /\ manifest.items = {}
            /\ \A p \in Parts : \A c \in plan.affected : file[p][c] \in {None, Says(c)}
Complete ==
  /\ at = "failed" => spoilt
  /\ at = "done" => manifest.items = {} /\ ~manifest.there /\ ~manifest.promoting

(* The items of the manifest: both files of the chapters that move and had *)
(* them.                                                                   *)
ItemsRight ==
  \A i \in manifest.items :
    /\ <<i.from, i.to>> \in Shifted /\ i.from \in had /\ i.part \in Parts
    /\ i.from \in plan.affected /\ i.to \in plan.affected
    /\ i \in Items
ItemsAll ==
  ~spoilt /\ manifest.there =>
    \A m \in Shifted : \A p \in Parts :
      m[1] \in had => [from |-> m[1], to |-> m[2], part |-> p] \in manifest.items

(* Before the manifest: the files are those of the old chapters.           *)
Original ==
  ~spoilt /\ ~manifest.there /\ at # "done" =>
    /\ at = "plan" /\ ~manifest.promoting
    /\ \A c \in Chapters : c \in had => \A p \in Parts : file[p][c] = Old(c)
    /\ \A c \in Chapters : c \notin had => file["marker"][c] = None
    /\ \A i \in Items : stage[i] = None

(* What is to be moved is in its stage, or where the phase says.           *)
Kept ==
  \A i \in manifest.items :
    \/ stage[i] = Old(i.from)
    \/ /\ stage[i] = None
       /\ IF manifest.promoting THEN Target(i) = Old(i.from) ELSE Source(i) = Old(i.from)
Phases ==
  /\ at = "remove" => Missing = {}
  /\ at = "promote" => manifest.promoting

(* While stages are consumed, no affected chapter has other files.         *)
Promised ==
  manifest.promoting /\ ~spoilt =>
    \A p \in Parts : \A c \in plan.affected :
      file[p][c] # None =>
        \E i \in manifest.items : i.to = c /\ i.part = p /\ file[p][c] = Old(i.from)

Stable == ~spoilt => \A c \in had : c \notin plan.affected => file["audio"][c] = Old(c)
Emptied == spoilt /\ at = "promote" => \A p \in Parts : \A c \in plan.affected : file[p][c] = None

(* What holds as long as every error has been cleaned up after.            *)
Unlittered == ~littered /\ at \notin Clearing
AudioClean ==
  /\ AudioTypeOK /\ Unlittered
  /\ GivenUp /\ Complete /\ ItemsRight /\ ItemsAll /\ Original /\ Kept
  /\ Phases /\ Promised /\ Stable /\ Emptied
  /\ RightAudio /\ ReuseKept

AudioInv ==
  /\ AudioTypeOK
  /\ Unlittered => AudioClean
  /\ at \in Clearing \/ littered => spoilt
  /\ at = "clear" /\ ~littered => manifest = NoManifest

(* What a plan's moves say.                                                *)
LEMMA MoveFacts ==
  ASSUME AudioTypeOK, NEW m \in plan.moves
  PROVE  /\ m = <<m[1], m[2]>> /\ m[1] \in Chapters /\ m[2] \in Chapters
         /\ \A n \in plan.moves : m[1] = n[1] <=> m[2] = n[2]
         /\ m[1] # m[2] <=> m[1] \in plan.affected
         /\ m[1] # m[2] <=> m[2] \in plan.affected
         /\ Says(m[2]) = Old(m[1])
<1>1. plan \in Plans
  BY DEF AudioTypeOK
<1>2. m \in Chapters \X Chapters
  BY <1>1, AudioAssumption
<1>3. /\ \A n \in plan.moves : m[1] = n[1] <=> m[2] = n[2]
      /\ m[1] # m[2] <=> m[1] \in plan.affected
      /\ m[1] # m[2] <=> m[2] \in plan.affected
  BY <1>1, AudioAssumption
<1> DEFINE c == m[2]
           n == CHOOSE x \in plan.moves : x[2] = c
<1>4. n \in plan.moves /\ n[2] = c
  OBVIOUS
<1>5. Says(c) = Old(n[1])
  BY DEF Says
<1> HIDE DEF n
<1> QED BY <1>2, <1>3, <1>4, <1>5

LEMMA TextFacts ==
  /\ None \in Texts
  /\ \A c \in Chapters : Old(c) \in Texts /\ Old(c) # None
  /\ \A c, e \in Chapters : Old(c) = Old(e) => c = e
  BY AudioAssumption DEF None, Old, Texts

LEMMA SaysFacts ==
  ASSUME AudioTypeOK
  PROVE  /\ plan.affected \subseteq Chapters
         /\ \A c \in Chapters : Says(c) \in Texts /\ Says(c) # None
         /\ \A c \in plan.affected : Says(c) # Old(c)
<1>1. plan.affected \subseteq Chapters
  BY AudioAssumption DEF AudioTypeOK
<1>2. ASSUME NEW c \in Chapters
      PROVE  Says(c) \in Texts /\ Says(c) # None /\ (c \in plan.affected => Says(c) # Old(c))
  <2>1. CASE \E m \in plan.moves : m[2] = c
    <3>1. PICK m \in plan.moves : m[2] = c
      BY <2>1
    <3>2. Says(c) = Old(m[1]) /\ m[1] \in Chapters /\ (c \in plan.affected => m[1] # c)
      BY <3>1, MoveFacts
    <3> QED BY <3>2, TextFacts
  <2>2. CASE ~\E m \in plan.moves : m[2] = c
    <3>1. Says(c) = IF c \in plan.affected THEN [text |-> c, new |-> TRUE] ELSE Old(c)
      BY <2>2 DEF Says
    <3>2. [text |-> c, new |-> TRUE] \in Texts
      BY DEF Texts
    <3>3. [text |-> c, new |-> TRUE] # None /\ [text |-> c, new |-> TRUE] # Old(c)
      <4>1. [text |-> c, new |-> TRUE].new = TRUE /\ None.new = FALSE /\ Old(c).new = FALSE
        BY DEF None, Old
      <4> QED BY <4>1
    <3> QED BY <3>1, <3>2, <3>3, TextFacts
  <2> QED BY <2>1, <2>2
<1> QED BY <1>1, <1>2

(* An item of the manifest: its fields, and what its target says.          *)
LEMMA ItemFacts ==
  ASSUME AudioTypeOK, ItemsRight, NEW i \in manifest.items
  PROVE  /\ i \in Items /\ i.from \in Chapters /\ i.to \in Chapters /\ i.part \in Parts
         /\ i.from \in had /\ i.from \in plan.affected /\ i.to \in plan.affected
         /\ Says(i.to) = Old(i.from) /\ Old(i.from) # None /\ Old(i.from) \in Texts
         /\ \A j \in manifest.items : j.to = i.to /\ j.part = i.part => j = i
<1> DEFINE m == <<i.from, i.to>>
<1>1. /\ m \in plan.moves /\ i \in Items /\ i.from \in had /\ i.part \in Parts
      /\ i.from \in plan.affected /\ i.to \in plan.affected
  BY DEF ItemsRight, Shifted
<1>2. m[1] = i.from /\ m[2] = i.to
  OBVIOUS
<1> HIDE DEF m
<1>3. /\ i.from \in Chapters /\ i.to \in Chapters /\ Says(i.to) = Old(i.from)
      /\ \A n \in plan.moves : i.from = n[1] <=> i.to = n[2]
  BY <1>1, <1>2, MoveFacts
<1>4. ASSUME NEW j \in manifest.items, j.to = i.to, j.part = i.part PROVE j = i
  <2>1. <<j.from, j.to>> \in plan.moves /\ j \in Items
    BY DEF ItemsRight, Shifted
  <2>2. i.from = j.from
    BY <1>3, <1>4, <2>1
  <2> QED BY <1>1, <1>4, <2>1, <2>2 DEF Items
<1> QED BY <1>1, <1>3, <1>4, TextFacts

(* What holds of a state that is staging: each missing file is where the   *)
(* phase says.                                                             *)
LEMMA CopiedRight ==
  ASSUME AudioTypeOK, ItemsRight, Kept, NEW i \in Missing
  PROVE  Copied(i) = Old(i.from)
<1>1. i \in manifest.items /\ stage[i] = None
  BY DEF Missing
<1>2. CASE manifest.promoting
  BY <1>1, <1>2, ItemFacts DEF Kept, Copied, Promoting
<1>3. CASE ~manifest.promoting
  <2>1. \A j \in Missing : Source(j) # None /\ Source(j) = Old(j.from)
    BY <1>3, ItemFacts DEF Kept, Missing
  <2>2. ~Promoting
    BY <1>3, <2>1 DEF Promoting
  <2> QED BY <2>1, <2>2 DEF Copied
<1> QED BY <1>2, <1>3

LEMMA ChooseKeeps ==
  ASSUME AudioClean, Choose
  PROVE  AudioClean'
<1> USE DEF AudioClean
<1>1. at = "plan" /\ at' = "stage" /\ UNCHANGED <<plan, had, file, stage, trouble, spoilt, littered>>
  BY DEF Choose
<1>2. Texts' = Texts /\ Shifted' = Shifted /\ \A c : Says(c)' = Says(c)
  BY <1>1 DEF Texts, Shifted, Says
<1>3. CASE manifest.there
  <2>1. manifest' = manifest
    BY <1>3 DEF Choose
  <2>2. AudioTypeOK' /\ GivenUp' /\ Unlittered' /\ Complete' /\ ItemsRight' /\ ItemsAll' /\ Original'
    BY <1>1, <1>2, <1>3, <2>1
       DEF AudioTypeOK, GivenUp, Unlittered, Clearing, Complete, ItemsRight, ItemsAll, Original, Shifted
  <2>3. Kept' /\ Phases' /\ Promised' /\ Stable' /\ Emptied' /\ RightAudio' /\ ReuseKept'
    BY <1>1, <1>2, <2>1
       DEF Kept, Target, Source, Phases, Promised, Stable, Emptied, RightAudio, ReuseKept
  <2> QED BY <2>2, <2>3
<1>4. CASE ~manifest.there
  <2> DEFINE items == Chosen
  <2>1. manifest' = [NoManifest EXCEPT !.there = TRUE, !.items = items]
    BY <1>4 DEF Choose
  <2>2. ASSUME NEW j \in items
        PROVE  \E m \in Shifted, p \in Parts :
                 /\ Reusable(m) /\ j = [from |-> m[1], to |-> m[2], part |-> p]
    BY DEF Shifted, Chosen
  <2>3. ASSUME NEW m \in Shifted, NEW p \in Parts, Reusable(m)
        PROVE  [from |-> m[1], to |-> m[2], part |-> p] \in items
    BY <2>3 DEF Shifted, Chosen
  <2> HIDE DEF items
  <2>4. ASSUME NEW m \in Shifted
        PROVE  /\ m = <<m[1], m[2]>> /\ m[1] \in Chapters /\ m[2] \in Chapters
               /\ m[1] \in plan.affected /\ m[2] \in plan.affected
               /\ Says(m[2]) = Old(m[1])
    BY MoveFacts DEF Shifted
  <2>5. ASSUME NEW m \in Shifted, spoilt PROVE ~Reusable(m)
    <3>1. file["marker"][m[1]] \in {None, Says(m[1])}
      BY <2>4, <2>5 DEF GivenUp, Parts
    <3>2. Says(m[1]) # Old(m[1]) /\ Says(m[2]) = Old(m[1])
      BY <2>4, SaysFacts
    <3> QED BY <3>1, <3>2 DEF Reusable
  <2>6. ~spoilt => /\ ~manifest.promoting
                   /\ \A c \in Chapters : c \in had => \A p \in Parts : file[p][c] = Old(c)
                   /\ \A c \in Chapters : c \notin had => file["marker"][c] = None
                   /\ \A j \in Items : stage[j] = None
    BY <1>1, <1>4 DEF Original
  <2>7. ASSUME NEW m \in Shifted, ~spoilt PROVE Reusable(m) <=> m[1] \in had
    <3>1. CASE m[1] \in had
      <4>1. \A p \in Parts : file[p][m[1]] = Old(m[1])
        BY <2>4, <2>6, <2>7, <3>1
      <4>2. file["audio"][m[1]] = Old(m[1]) /\ file["marker"][m[1]] = Old(m[1])
        BY <4>1 DEF Parts
      <4> QED BY <2>4, <3>1, <4>2, TextFacts DEF Reusable
    <3>2. CASE m[1] \notin had
      BY <2>4, <2>6, <2>7, <3>2 DEF Reusable
    <3> QED BY <3>1, <3>2
  <2>8. ASSUME NEW j \in items
        PROVE  /\ j \in Items /\ ~spoilt /\ <<j.from, j.to>> \in Shifted /\ j.from \in had
               /\ j.part \in Parts /\ j.from \in plan.affected /\ j.to \in plan.affected
               /\ stage[j] = None /\ file[j.part][j.from] = Old(j.from)
    <3>1. PICK m \in Shifted, p \in Parts :
            Reusable(m) /\ j = [from |-> m[1], to |-> m[2], part |-> p]
      BY <2>2
    <3>2. j.from = m[1] /\ j.to = m[2] /\ j.part = p
      BY <3>1
    <3>3. ~spoilt
      BY <2>5, <3>1
    <3>4. m[1] \in had
      BY <2>7, <3>1, <3>3
    <3>5. j \in Items
      BY <2>4, <3>1 DEF Items
    <3>6. stage[j] = None /\ file[p][m[1]] = Old(m[1])
      BY <2>4, <2>6, <3>3, <3>4, <3>5
    <3>7. <<j.from, j.to>> \in Shifted
      BY <2>4, <3>2
    <3> QED BY <2>4, <3>2, <3>3, <3>4, <3>5, <3>6, <3>7
  <2>9. items \subseteq Items
    BY <2>8
  <2>10. /\ manifest'.there /\ manifest'.items = items /\ ~manifest'.promoting
         /\ manifest' = [there |-> TRUE, items |-> items, promoting |-> FALSE]
    BY <2>1 DEF NoManifest
  <2>11. AudioTypeOK'
    BY <1>1, <1>2, <2>9, <2>10 DEF AudioTypeOK
  <2>12. GivenUp'
    <3>1. spoilt => items = {}
      BY <2>8
    <3> QED BY <1>1, <1>2, <2>10, <3>1 DEF GivenUp
  <2>13. ItemsRight'
    BY <1>1, <1>2, <2>8, <2>10 DEF ItemsRight
  <2>14. ItemsAll'
    BY <1>1, <1>2, <2>3, <2>7, <2>10 DEF ItemsAll
  <2>15. Kept'
    BY <1>1, <2>8, <2>10 DEF Kept, Source
  <2>16. Unlittered' /\ Complete' /\ Original' /\ Phases' /\ Promised' /\ Stable' /\ Emptied' /\ RightAudio' /\ ReuseKept'
    BY <1>1, <2>10 DEF Unlittered, Clearing, Complete, Original, Phases, Promised, Stable, Emptied, RightAudio, ReuseKept
  <2> QED BY <2>11, <2>12, <2>13, <2>14, <2>15, <2>16
<1> QED BY <1>3, <1>4

LEMMA StageKeeps ==
  ASSUME AudioClean, NEW i \in Items, Stage(i)
  PROVE  AudioClean'
<1> USE DEF AudioClean
<1>1. /\ at = "stage" /\ i \in Missing
      /\ stage' = [stage EXCEPT ![i] = Copied(i)]
      /\ UNCHANGED <<plan, had, file, manifest, at, trouble, spoilt, littered>>
  BY DEF Stage
<1>2. Shifted' = Shifted /\ \A c : Says(c)' = Says(c)
  BY <1>1 DEF Shifted, Says
<1>3. i \in manifest.items /\ Copied(i) = Old(i.from) /\ Old(i.from) \in Texts
  BY <1>1, CopiedRight, ItemFacts DEF Missing
<1>4. stage'[i] = Old(i.from) /\ \A j \in Items : j # i => stage'[j] = stage[j]
  BY <1>1, <1>3 DEF AudioTypeOK
<1>5. AudioTypeOK'
  BY <1>1, <1>3 DEF AudioTypeOK, Texts
<1>6. Kept'
  BY <1>1, <1>4 DEF Kept, Source, Target, ItemsRight
<1>7. Original'
  BY <1>1 DEF Original
<1>8. GivenUp' /\ Unlittered' /\ Complete' /\ ItemsRight' /\ ItemsAll'
  BY <1>1, <1>2 DEF GivenUp, Unlittered, Clearing, Complete, ItemsRight, ItemsAll
<1>9. Phases' /\ Promised' /\ Stable' /\ Emptied' /\ RightAudio' /\ ReuseKept'
  BY <1>1, <1>2 DEF Phases, Promised, Stable, Emptied, RightAudio, ReuseKept
<1> QED BY <1>5, <1>6, <1>7, <1>8, <1>9

LEMMA StagedKeeps ==
  ASSUME AudioClean, Staged
  PROVE  AudioClean'
<1> USE DEF AudioClean
<1>1. /\ at = "stage" /\ Missing = {} /\ at' = "remove"
      /\ UNCHANGED <<plan, had, file, stage, manifest, trouble, spoilt, littered>>
  BY DEF Staged, AllStaged
<1>2. Shifted' = Shifted /\ Missing' = Missing /\ \A c : Says(c)' = Says(c)
  BY <1>1 DEF Shifted, Says, Missing
<1>3. AudioTypeOK' /\ GivenUp' /\ Unlittered' /\ Complete' /\ ItemsRight' /\ ItemsAll' /\ Original'
  BY <1>1, <1>2 DEF AudioTypeOK, Texts, GivenUp, Unlittered, Clearing, Complete, ItemsRight, ItemsAll, Original
<1>4. Kept' /\ Phases' /\ Promised' /\ Stable' /\ Emptied' /\ RightAudio' /\ ReuseKept'
  BY <1>1, <1>2 DEF Kept, Target, Source, Phases, Promised, Stable, Emptied, RightAudio, ReuseKept
<1> QED BY <1>3, <1>4

LEMMA RemoveKeeps ==
  ASSUME AudioClean, NEW p \in Parts, NEW c \in Chapters, RemoveArtifact(p, c)
  PROVE  AudioClean'
<1> USE DEF AudioClean
<1>1. /\ at = "remove" /\ c \in plan.affected
      /\ file' = [file EXCEPT ![p][c] = None]
      /\ UNCHANGED <<plan, had, stage, manifest, at, trouble, spoilt, littered>>
  BY DEF RemoveArtifact, Unlittered, Clearing
<1>2. Shifted' = Shifted /\ Missing' = Missing /\ \A e : Says(e)' = Says(e)
  BY <1>1 DEF Shifted, Says, Missing
<1>3. AudioTypeOK'
  BY <1>1, TextFacts DEF AudioTypeOK, Texts
<1>4. /\ file'[p][c] = None
      /\ \A q \in Parts, e \in Chapters : q # p \/ e # c => file'[q][e] = file[q][e]
  BY <1>1 DEF AudioTypeOK
<1>5. plan.affected \subseteq Chapters /\ had \subseteq Chapters
  BY SaysFacts DEF AudioTypeOK
<1>6. GivenUp' /\ Promised'
  BY <1>1, <1>2, <1>4, <1>5 DEF GivenUp, Promised
<1>7. Kept'
  <2>1. \A i \in manifest.items : stage[i] # None
    BY <1>1 DEF Phases, Missing
  <2> QED BY <1>1, <2>1 DEF Kept
<1>8. Stable'
  BY <1>1, <1>4, <1>5 DEF Stable, Parts
<1>9. Original' /\ Unlittered' /\ Complete' /\ Phases' /\ Emptied' /\ RightAudio' /\ ReuseKept'
  BY <1>1, <1>2 DEF Original, Unlittered, Clearing, Complete, Phases, Emptied, RightAudio, ReuseKept
<1>10. ItemsRight' /\ ItemsAll'
  BY <1>1, <1>2 DEF ItemsRight, ItemsAll
<1> QED BY <1>3, <1>6, <1>7, <1>8, <1>9, <1>10

LEMMA RemovedKeeps ==
  ASSUME AudioClean, Removed
  PROVE  AudioClean'
<1> USE DEF AudioClean
<1>1. /\ at = "remove" /\ \A p \in Parts, c \in plan.affected : file[p][c] = None
      /\ manifest' = [manifest EXCEPT !.promoting = TRUE] /\ at' = "promote"
      /\ UNCHANGED <<plan, had, file, stage, trouble, spoilt, littered>>
  BY DEF Removed, Unaffected
<1>2. Shifted' = Shifted /\ \A e : Says(e)' = Says(e)
  BY <1>1 DEF Shifted, Says
<1>3. /\ manifest'.promoting /\ manifest'.items = manifest.items /\ manifest'.there = manifest.there
  BY <1>1 DEF AudioTypeOK
<1>4. AudioTypeOK'
  BY <1>1 DEF AudioTypeOK, Texts
<1>5. GivenUp' /\ Promised' /\ Emptied'
  BY <1>1, <1>2, <1>3 DEF GivenUp, Promised, Emptied
<1>6. Kept'
  <2>1. \A i \in manifest.items : stage[i] = Old(i.from)
    BY <1>1 DEF Phases, Missing, Kept
  <2> QED BY <1>1, <1>3, <2>1 DEF Kept
<1>7. Stable' /\ Original' /\ Unlittered' /\ Complete' /\ Phases' /\ RightAudio' /\ ReuseKept'
  BY <1>1, <1>3 DEF Stable, Original, Unlittered, Clearing, Complete, Phases, RightAudio, ReuseKept
<1>8. ItemsRight' /\ ItemsAll'
  BY <1>1, <1>2, <1>3 DEF ItemsRight, ItemsAll
<1> QED BY <1>4, <1>5, <1>6, <1>7, <1>8

LEMMA PromoteKeeps ==
  ASSUME AudioClean, NEW i \in Items, Promote(i)
  PROVE  AudioClean'
<1> USE DEF AudioClean
<1>1. /\ at = "promote" /\ i \in manifest.items /\ stage[i] # None
      /\ file' = [file EXCEPT ![i.part][i.to] = stage[i]]
      /\ stage' = [stage EXCEPT ![i] = None]
      /\ UNCHANGED <<plan, had, manifest, at, trouble, spoilt, littered>>
  BY DEF Promote
<1>2. Shifted' = Shifted /\ \A e : Says(e)' = Says(e)
  BY <1>1 DEF Shifted, Says
<1>3. stage[i] = Old(i.from) /\ manifest.promoting /\ ~spoilt
  BY <1>1 DEF Kept, Phases, GivenUp
<1>4. /\ i.from \in Chapters /\ i.to \in Chapters /\ i.part \in Parts /\ i.to \in plan.affected
      /\ Old(i.from) \in Texts /\ Old(i.from) # None
      /\ \A j \in manifest.items : j.to = i.to /\ j.part = i.part => j = i
  BY <1>1, ItemFacts
<1>5. AudioTypeOK'
  BY <1>1, <1>3, <1>4, TextFacts DEF AudioTypeOK, Texts
<1>6. /\ file'[i.part][i.to] = Old(i.from)
      /\ \A q \in Parts, e \in Chapters : q # i.part \/ e # i.to => file'[q][e] = file[q][e]
      /\ stage'[i] = None /\ \A j \in Items : j # i => stage'[j] = stage[j]
  BY <1>1, <1>3, <1>4 DEF AudioTypeOK
<1>7. plan.affected \subseteq Chapters /\ had \subseteq Chapters
  BY SaysFacts DEF AudioTypeOK
<1>8. Kept'
  <2> SUFFICES ASSUME NEW j \in manifest.items
               PROVE  \/ stage'[j] = Old(j.from)
                      \/ stage'[j] = None /\ file'[j.part][j.to] = Old(j.from)
    BY <1>1, <1>3 DEF Kept, Target
  <2>1. CASE j = i
    BY <2>1, <1>6
  <2>2. CASE j # i
    <3>1. j \in Items /\ j.part \in Parts /\ j.to \in Chapters /\ ~(j.to = i.to /\ j.part = i.part)
      BY <1>4, <2>2, ItemFacts
    <3>2. stage'[j] = stage[j] /\ file'[j.part][j.to] = file[j.part][j.to]
      BY <1>6, <2>2, <3>1
    <3> QED BY <1>3, <3>2 DEF Kept, Target
  <2> QED BY <2>1, <2>2
<1>9. Promised'
  <2> SUFFICES ASSUME NEW p \in Parts, NEW c \in plan.affected, file'[p][c] # None
               PROVE  \E j \in manifest.items : j.to = c /\ j.part = p /\ file'[p][c] = Old(j.from)
    BY <1>1 DEF Promised
  <2>1. CASE p = i.part /\ c = i.to
    BY <1>1, <1>6, <2>1
  <2>2. CASE ~(p = i.part /\ c = i.to)
    <3>1. file'[p][c] = file[p][c]
      BY <1>6, <1>7, <2>2
    <3> QED BY <1>3, <3>1 DEF Promised
  <2> QED BY <2>1, <2>2
<1>10. Stable'
  BY <1>1, <1>4, <1>6, <1>7 DEF Stable, Parts
<1>11. GivenUp' /\ Emptied' /\ Unlittered' /\ Complete' /\ Phases' /\ RightAudio' /\ ReuseKept' /\ Original'
  BY <1>1, <1>3 DEF GivenUp, Emptied, Unlittered, Clearing, Complete, Phases, RightAudio, ReuseKept, Original
<1>12. ItemsRight' /\ ItemsAll'
  BY <1>1, <1>2 DEF ItemsRight, ItemsAll
<1> QED BY <1>5, <1>8, <1>9, <1>10, <1>11, <1>12

(* The end of a run: every item is at its target.                          *)
LEMMA PromotedKeeps ==
  ASSUME AudioClean, Promoted
  PROVE  AudioClean'
<1> USE DEF AudioClean
<1>1. /\ at = "promote" /\ \A i \in manifest.items : stage[i] = None
      /\ manifest' = NoManifest /\ at' = "done"
      /\ UNCHANGED <<plan, had, file, stage, trouble, spoilt, littered>>
  BY DEF Promoted
<1>2. Shifted' = Shifted /\ \A e : Says(e)' = Says(e)
  BY <1>1 DEF Shifted, Says
<1>3. manifest'.items = {} /\ ~manifest'.promoting /\ ~manifest'.there /\ manifest.promoting
  BY <1>1 DEF NoManifest, Phases
<1>4. plan.affected \subseteq Chapters /\ had \subseteq Chapters
  BY SaysFacts DEF AudioTypeOK
<1>5. \A i \in manifest.items : file[i.part][i.to] = Old(i.from)
  <2>1. \A i \in manifest.items : i.from \in Chapters
    BY ItemFacts
  <2> QED BY <1>1, <1>3, <2>1, TextFacts DEF Kept, Target
<1>6. AudioTypeOK'
  BY <1>1 DEF AudioTypeOK, NoManifest, Texts
<1>7. RightAudio'
  <2> SUFFICES ASSUME NEW c \in plan.affected
               PROVE  /\ file["audio"][c] \in {None, Says(c)}
                      /\ file["marker"][c] \in {None, file["audio"][c]}
    BY <1>1, <1>2 DEF RightAudio
  <2>1. CASE spoilt
    BY <1>1, <2>1 DEF Emptied, Parts
  <2>2. CASE ~spoilt
    <3>1. ASSUME NEW p \in Parts, file[p][c] # None
          PROVE  file[p][c] = Says(c) /\ \A q \in Parts : file[q][c] = file[p][c]
      <4>1. PICK i \in manifest.items : i.to = c /\ i.part = p /\ file[p][c] = Old(i.from)
        BY <1>3, <2>2, <3>1 DEF Promised
      <4>2. Says(c) = Old(i.from) /\ i.from \in had /\ <<i.from, i.to>> \in Shifted
        BY <4>1, ItemFacts DEF ItemsRight
      <4>3. ASSUME NEW q \in Parts PROVE file[q][c] = Old(i.from)
        <5> DEFINE m == <<i.from, i.to>>
        <5>1. m \in Shifted /\ m[1] = i.from /\ m[2] = c
          BY <4>1, <4>2
        <5>2. manifest.there
          BY <1>1, <2>2 DEF Original
        <5> HIDE DEF m
        <5>3. [from |-> i.from, to |-> c, part |-> q] \in manifest.items
          BY <2>2, <4>2, <5>1, <5>2 DEF ItemsAll
        <5> QED BY <1>5, <5>3
      <4> QED BY <4>1, <4>2, <4>3
    <3> QED BY <3>1 DEF Parts
  <2> QED BY <2>1, <2>2
<1>8. ReuseKept'
  <2> SUFFICES ASSUME ~spoilt, NEW m \in plan.moves, m[1] \in had
               PROVE  file["audio"][m[2]] = Old(m[1])
    BY <1>1 DEF ReuseKept
  <2>1. CASE m[1] = m[2]
    BY <2>1, MoveFacts DEF Stable
  <2>2. CASE m[1] # m[2]
    <3>1. manifest.there
      BY <1>1 DEF Original
    <3>2. [from |-> m[1], to |-> m[2], part |-> "audio"] \in manifest.items
      BY <2>2, <3>1 DEF ItemsAll, Shifted, Parts
    <3> QED BY <1>5, <3>2
  <2> QED BY <2>1, <2>2
<1>9. GivenUp' /\ Unlittered' /\ Complete' /\ Kept' /\ Phases' /\ Emptied' /\ Promised' /\ Stable' /\ Original'
  BY <1>1, <1>2, <1>3 DEF GivenUp, Unlittered, Clearing, Complete, Kept, Phases, Emptied, Promised, Stable, Original
<1>10. ItemsRight' /\ ItemsAll'
  BY <1>3 DEF ItemsRight, ItemsAll
<1> QED BY <1>6, <1>7, <1>8, <1>9, <1>10

(* The end of an error: all affected files are gone, and nothing is moved  *)
(* any more.                                                               *)
LEMMA ClearedKeeps ==
  ASSUME AudioTypeOK, spoilt, manifest = NoManifest, Cleared, ~littered'
  PROVE  AudioClean'
<1>1. /\ at' = "failed" /\ Unaffected
      /\ UNCHANGED <<plan, had, file, stage, manifest, spoilt>> /\ littered' = FALSE
  BY DEF Cleared, AudioTypeOK
<1>2. Shifted' = Shifted /\ \A e : Says(e)' = Says(e)
  BY <1>1 DEF Shifted, Says
<1>3. plan.affected \subseteq Chapters /\ \A p \in Parts, c \in plan.affected : file'[p][c] = None
  BY <1>1, SaysFacts DEF Unaffected
<1>4. manifest'.items = {} /\ ~manifest'.promoting /\ spoilt'
  BY <1>1 DEF NoManifest
<1>5. AudioTypeOK' /\ Unlittered'
  BY <1>1 DEF AudioTypeOK, Texts, Unlittered, Clearing, Cleared
<1>6. GivenUp' /\ Complete' /\ RightAudio'
  BY <1>1, <1>3, <1>4 DEF GivenUp, Complete, RightAudio, Parts
<1>7. ItemsRight' /\ ItemsAll' /\ Kept' /\ Phases' /\ Promised' /\ Stable' /\ Emptied'
      /\ Original' /\ ReuseKept'
  BY <1>1, <1>4 DEF ItemsRight, ItemsAll, Kept, Phases, Promised, Stable, Emptied, Original, ReuseKept
<1> QED BY <1>5, <1>6, <1>7 DEF AudioClean

LEMMA CrashKeeps ==
  ASSUME AudioClean, AudioCrash
  PROVE  AudioClean'
<1> USE DEF AudioClean
<1>1. /\ at \notin {"done", "failed"} /\ at' = "plan"
      /\ UNCHANGED <<plan, had, file, stage, manifest, spoilt, littered>>
  BY DEF AudioCrash, Unlittered, AudioTypeOK
<1>2. Shifted' = Shifted /\ \A e : Says(e)' = Says(e)
  BY <1>1 DEF Shifted, Says
<1>3. AudioTypeOK' /\ GivenUp' /\ Unlittered' /\ Complete' /\ ItemsRight' /\ ItemsAll' /\ Original'
  BY <1>1, <1>2 DEF AudioTypeOK, Texts, GivenUp, Unlittered, Clearing, Complete, ItemsRight, ItemsAll, Original
<1>4. Kept' /\ Phases' /\ Promised' /\ Stable' /\ Emptied' /\ RightAudio' /\ ReuseKept'
  BY <1>1, <1>2 DEF Kept, Target, Source, Phases, Promised, Stable, Emptied, RightAudio, ReuseKept
<1> QED BY <1>3, <1>4

LEMMA RenderKeeps ==
  ASSUME AudioClean, NEW c \in Chapters, Render(c)
  PROVE  AudioClean'
<1> USE DEF AudioClean
<1>1. /\ at = "failed" /\ spoilt
      /\ file' = [p \in Parts |-> [file[p] EXCEPT ![c] = Says(c)]]
      /\ UNCHANGED <<plan, had, stage, manifest, at, trouble, spoilt, littered>>
  BY DEF Render, Unlittered, Clearing, Complete
<1>2. Shifted' = Shifted /\ \A e : Says(e)' = Says(e)
  BY <1>1 DEF Shifted, Says
<1>3. Says(c) \in Texts /\ plan.affected \subseteq Chapters
  BY SaysFacts
<1>4. AudioTypeOK'
  BY <1>1, <1>3 DEF AudioTypeOK, Texts
<1>5. \A p \in Parts, e \in Chapters : file'[p][e] = IF e = c THEN Says(c) ELSE file[p][e]
  BY <1>1 DEF AudioTypeOK
<1>6. GivenUp'
  BY <1>1, <1>2, <1>3, <1>5 DEF GivenUp
<1>7. Unlittered' /\ Complete' /\ RightAudio'
  <2> SUFFICES ASSUME NEW e \in plan.affected
               PROVE  /\ file'["audio"][e] \in {None, Says(e)}
                      /\ file'["marker"][e] \in {None, file'["audio"][e]}
    BY <1>1, <1>2 DEF Unlittered, Clearing, Complete, RightAudio
  <2>1. /\ file["audio"][e] \in {None, Says(e)}
        /\ file["marker"][e] \in {None, file["audio"][e]}
    BY <1>1 DEF RightAudio, Unlittered
  <2> QED BY <1>3, <1>5, <2>1 DEF Parts
<1>8. ItemsRight' /\ ItemsAll' /\ Kept'
  BY <1>1, <1>2 DEF GivenUp, ItemsRight, ItemsAll, Kept
<1>9. Phases' /\ Promised' /\ Stable' /\ Emptied' /\ Original' /\ ReuseKept'
  BY <1>1 DEF Phases, Promised, Stable, Emptied, Original, ReuseKept
<1> QED BY <1>4, <1>6, <1>7, <1>8, <1>9

(* The next visit finds the files of the last one right.                   *)
LEMMA AgainKeeps ==
  ASSUME AudioClean, Again
  PROVE  AudioClean'
<1> USE DEF AudioClean
<1>1. /\ at \in {"failed", "done"} /\ at' = "plan" /\ spoilt' = TRUE
      /\ UNCHANGED <<plan, had, file, stage, manifest, littered>>
  BY DEF Again
<1>2. Shifted' = Shifted /\ \A e : Says(e)' = Says(e)
  BY <1>1 DEF Shifted, Says
<1>3. manifest.items = {} /\ \A p \in Parts : \A c \in plan.affected : file[p][c] \in {None, Says(c)}
  BY <1>1 DEF RightAudio, Parts, GivenUp, Unlittered, Clearing, Complete
<1>4. AudioTypeOK' /\ GivenUp' /\ Unlittered' /\ Complete' /\ ItemsRight' /\ ItemsAll' /\ Original'
  BY <1>1, <1>2, <1>3 DEF AudioTypeOK, Texts, GivenUp, Unlittered, Clearing, Complete, ItemsRight, ItemsAll, Original
<1>5. Kept' /\ Phases' /\ Promised' /\ Stable' /\ Emptied' /\ RightAudio' /\ ReuseKept'
  BY <1>1, <1>3 DEF Kept, Phases, Promised, Stable, Emptied, RightAudio, ReuseKept
<1> QED BY <1>4, <1>5

LEMMA AudioStarts ==
  ASSUME AudioInit
  PROVE  AudioClean
<1>1. PICK audio \in SUBSET Chapters :
        /\ had \in SUBSET audio
        /\ file = [p \in Parts |-> [c \in Chapters |->
             IF c \in (IF p = "audio" THEN audio ELSE had) THEN Old(c) ELSE None]]
  BY DEF AudioInit
<1>2. /\ plan \in Plans /\ stage = [i \in Items |-> None] /\ manifest = NoManifest
      /\ at = "plan" /\ spoilt = FALSE /\ littered = FALSE
  BY DEF AudioInit
<1>3. file \in [Parts -> [Chapters -> Texts]]
  BY <1>1, TextFacts
<1>4. /\ \A c \in Chapters : c \in had => \A p \in Parts : file[p][c] = Old(c)
      /\ \A c \in Chapters : c \notin had => file["marker"][c] = None
  BY <1>1 DEF Parts
<1>5. had \subseteq Chapters
  BY <1>1
<1>6. AudioTypeOK
  BY <1>2, <1>3, <1>5, TextFacts DEF AudioTypeOK, NoManifest
<1>7. Original /\ Stable
  BY <1>2, <1>4, <1>5 DEF Original, NoManifest, Stable, Parts
<1>8. /\ Unlittered /\ GivenUp /\ Complete /\ ItemsRight /\ ItemsAll /\ Kept /\ Phases /\ Promised
      /\ Emptied /\ RightAudio /\ ReuseKept
  BY <1>2 DEF NoManifest, GivenUp, Unlittered, Clearing, Complete, ItemsRight, ItemsAll, Kept, Phases, Promised,
              Emptied, RightAudio, ReuseKept
<1> QED BY <1>6, <1>7, <1>8 DEF AudioClean

(* Types need no history.                                                  *)
LEMMA AudioTyped ==
  ASSUME AudioTypeOK, AudioNext
  PROVE  AudioTypeOK'
<1> USE DEF AudioTypeOK
<1>1. Texts' = Texts /\ \A e : Says(e)' = Says(e)
  BY DEF Texts, Says, AudioNext, AudioSteps, Choose, Staged, Removed, Promoted, Discarded,
         UnlinkManifest, Cleared, Stage, Promote, DiscardStage, RemoveArtifact, Err, AudioCrash,
         Render, Again
<1>2. CASE Choose
  <2>1. Chosen \subseteq Items
    <3> SUFFICES ASSUME NEW i \in Chosen PROVE i \in Items
      OBVIOUS
    <3>1. PICK m \in plan.moves, p \in Parts : i = [from |-> m[1], to |-> m[2], part |-> p]
      BY DEF Chosen
    <3>2. m \in Chapters \X Chapters
      BY MoveFacts
    <3> QED BY <3>1, <3>2 DEF Items
  <2> HIDE DEF Chosen
  <2>2. manifest' = manifest \/ manifest' = [there |-> TRUE, items |-> Chosen, promoting |-> FALSE]
    BY <1>2 DEF Choose, NoManifest
  <2> QED BY <1>1, <1>2, <2>1, <2>2 DEF Choose
<1>3. CASE Staged \/ Removed \/ Promoted \/ Discarded \/ UnlinkManifest \/ Cleared
  <2>1. /\ UNCHANGED <<plan, had, file, stage>>
        /\ at' \in {"remove", "promote", "done", "unlink", "clear", "failed"}
        /\ spoilt' \in BOOLEAN /\ littered' \in BOOLEAN
    BY <1>3 DEF Staged, Removed, Promoted, Discarded, UnlinkManifest, Cleared
  <2>2. manifest' \in [there : BOOLEAN, items : SUBSET Items, promoting : BOOLEAN]
    <3>1. \/ manifest' = manifest \/ manifest' = NoManifest
          \/ manifest' = [manifest EXCEPT !.promoting = TRUE]
      BY <1>3 DEF Staged, Removed, Promoted, Discarded, UnlinkManifest, Cleared
    <3>2. manifest \in [there : BOOLEAN, items : SUBSET Items, promoting : BOOLEAN]
      OBVIOUS
    <3>3. NoManifest \in [there : BOOLEAN, items : SUBSET Items, promoting : BOOLEAN]
      BY DEF NoManifest
    <3> HIDE DEF AudioTypeOK
    <3>4. [manifest EXCEPT !.promoting = TRUE]
            \in [there : BOOLEAN, items : SUBSET Items, promoting : BOOLEAN]
      BY <3>2
    <3> QED BY <3>1, <3>2, <3>3, <3>4
  <2> QED BY <2>1, <2>2 DEF Texts, Clearing
<1>4. ASSUME NEW i \in Items, Stage(i) \/ Promote(i) \/ DiscardStage(i)
      PROVE  AudioTypeOK'
  <2>1. i.part \in Parts /\ i.from \in Chapters /\ i.to \in Chapters
    BY DEF Items
  <2>2. Source(i) \in Texts /\ Target(i) \in Texts /\ stage[i] \in Texts /\ None \in Texts
    BY <2>1, TextFacts DEF Source, Target
  <2>3. Copied(i) \in Texts
    BY <2>2 DEF Copied
  <2>4. CASE Stage(i) \/ DiscardStage(i)
    <3>1. stage' = [stage EXCEPT ![i] = Copied(i)] \/ stage' = [stage EXCEPT ![i] = None]
      BY <2>4 DEF Stage, DiscardStage
    <3>2. stage' \in [Items -> Texts]
      BY <2>2, <2>3, <3>1
    <3> QED BY <1>1, <2>4, <3>2 DEF Stage, DiscardStage, Texts
  <2>5. CASE Promote(i)
    BY <1>1, <2>1, <2>2, <2>5 DEF Promote, Texts
  <2> QED BY <1>4, <2>4, <2>5
<1>5. ASSUME NEW p \in Parts, NEW c \in Chapters, RemoveArtifact(p, c)
      PROVE  AudioTypeOK'
  BY <1>1, <1>5, TextFacts DEF RemoveArtifact
<1>6. CASE Err \/ AudioCrash \/ Again
  <2>1. /\ UNCHANGED <<plan, had, file, stage, manifest>>
        /\ at' \in {"discard", "unlink", "plan"} /\ spoilt' \in BOOLEAN /\ littered' \in BOOLEAN
    BY <1>6 DEF Err, AudioCrash, Again
  <2> QED BY <2>1 DEF Texts, Clearing
<1>7. ASSUME NEW c \in Chapters, Render(c)
      PROVE  AudioTypeOK'
  BY <1>1, <1>7, SaysFacts DEF Render
<1> QED BY <1>2, <1>3, <1>4, <1>5, <1>6, <1>7 DEF AudioNext, AudioSteps

(* A run that fails is cleaned up after, or something is left behind.      *)
LEMMA AudioSafe ==
  ASSUME AudioInv, AudioNext, Unlittered'
  PROVE  AudioClean'
<1>1. AudioTypeOK /\ ~littered
  BY DEF AudioInv, Unlittered, AudioNext, AudioSteps, Choose, Staged, Removed, Promoted, Discarded,
         UnlinkManifest, Cleared, Stage, Promote, DiscardStage, RemoveArtifact, Err, AudioCrash,
         Render, Again, AudioTypeOK
<1>2. CASE at \in Clearing
  <2>1. ~littered' /\ at' \notin Clearing
    BY DEF Unlittered
  <2>2. ~AudioCrash
    BY <1>2, <2>1 DEF AudioCrash
  <2>3. CASE Cleared
    <3>1. at = "clear"
      BY <2>3 DEF Cleared
    <3> QED BY <1>1, <1>2, <2>1, <2>3, <3>1, ClearedKeeps DEF AudioInv
  <2>4. CASE ~Cleared
    BY <1>2, <2>1, <2>2, <2>4
       DEF Clearing, AudioNext, AudioSteps, Choose, Staged, Removed, Promoted, Discarded, UnlinkManifest,
           Stage, Promote, DiscardStage, RemoveArtifact, Err, Render, Again
  <2> QED BY <2>3, <2>4
<1>3. CASE at \notin Clearing
  <2>1. AudioClean
    BY <1>1, <1>3 DEF AudioInv, Unlittered
  <2>2. ~(Discarded \/ UnlinkManifest \/ Cleared \/ Err \/ \E i \in Items : DiscardStage(i))
    BY <1>3 DEF Unlittered, Clearing, Discarded, UnlinkManifest, Cleared, Err, DiscardStage
  <2> QED BY <2>1, <2>2, ChooseKeeps, StageKeeps, StagedKeeps, RemoveKeeps, RemovedKeeps,
             PromoteKeeps, PromotedKeeps, CrashKeeps, RenderKeeps, AgainKeeps DEF AudioNext, AudioSteps
<1> QED BY <1>2, <1>3

LEMMA AudioInvStep ==
  ASSUME AudioInv, AudioNext
  PROVE  AudioInv'
<1>1. AudioTypeOK'
  BY AudioTyped DEF AudioInv
<1>2. at' \in Clearing \/ littered' => spoilt'
  BY DEF AudioInv, Clearing, AudioNext, AudioSteps, Choose, Staged, Removed, Promoted, Discarded,
         UnlinkManifest, Cleared, Stage, Promote, DiscardStage, RemoveArtifact, Err, AudioCrash,
         Render, Again
<1>3. at' = "clear" /\ ~littered' => manifest' = NoManifest
  <2> SUFFICES ASSUME at' = "clear", ~littered' PROVE manifest' = NoManifest
    OBVIOUS
  <2>1. UnlinkManifest \/ (at = "clear" /\ ~littered /\ manifest' = manifest)
    BY DEF AudioNext, AudioSteps, Choose, Staged, Removed, Promoted, Discarded, Cleared, Stage,
           Promote, DiscardStage, RemoveArtifact, Err, AudioCrash, Render, Again
  <2> QED BY <2>1 DEF UnlinkManifest, AudioInv, NoManifest
<1> QED BY <1>1, <1>2, <1>3, AudioSafe DEF AudioInv

(* ChapterAudio: audio that is kept belongs to its chapter, and nothing    *)
(* that could be kept is lost, for any chapters and moves, and however     *)
(* often the process dies or a run fails, unless the removals that follow  *)
(* a failure fail as well or are cut short.                                *)
THEOREM AudioIsKept == AudioSpec => []AudioKept
<1>1. AudioInit => AudioInv
  <2> SUFFICES ASSUME AudioInit PROVE AudioInv
    OBVIOUS
  <2>1. AudioClean
    BY AudioStarts
  <2>2. at = "plan"
    BY DEF AudioInit
  <2> QED BY <2>1, <2>2 DEF AudioInv, AudioClean, Unlittered, Clearing
<1>2. AudioInv /\ [AudioNext]_audioVars => AudioInv'
  <2> SUFFICES ASSUME AudioInv, [AudioNext]_audioVars PROVE AudioInv'
    OBVIOUS
  <2>1. CASE UNCHANGED audioVars
    <3> USE <2>1 DEF audioVars, AudioInv
    <3>1. Shifted' = Shifted /\ Missing' = Missing /\ \A e : Says(e)' = Says(e)
      BY DEF Shifted, Says, Missing
    <3>2. AudioTypeOK' /\ Unlittered' = Unlittered
      BY <3>1 DEF AudioTypeOK, Texts, Unlittered
    <3>3. CASE ~Unlittered
      BY <3>2, <3>3
    <3>4. CASE Unlittered
      <4> USE <3>4 DEF AudioClean
      <4>1. GivenUp' /\ Complete' /\ ItemsRight' /\ ItemsAll' /\ Original'
        BY <3>1 DEF GivenUp, Complete, ItemsRight, ItemsAll, Original
      <4>2. Kept' /\ Phases' /\ Promised' /\ Stable' /\ Emptied' /\ RightAudio' /\ ReuseKept'
        BY <3>1 DEF Kept, Target, Source, Phases, Promised, Stable, Emptied, RightAudio, ReuseKept
      <4> QED BY <3>2, <4>1, <4>2
    <3> QED BY <3>3, <3>4
  <2>2. CASE AudioNext
    BY <2>2, AudioInvStep
  <2> QED BY <2>1, <2>2
<1>3. AudioInv => AudioKept
  <2> SUFFICES ASSUME AudioInv PROVE AudioKept
    OBVIOUS
  <2>1. CASE Unlittered
    <3>1. AudioClean
      BY <2>1 DEF AudioInv
    <3>2. CopyThere
      BY <3>1, CopiedRight, ItemFacts DEF AudioClean, CopyThere, Gone, Missing
    <3> QED BY <3>1, <3>2 DEF AudioClean, AudioKept
  <2>2. CASE ~Unlittered
    <3>1. RightAudio /\ ReuseKept /\ CopyThere
      BY <2>2 DEF AudioInv, Unlittered, Clearing, RightAudio, ReuseKept, CopyThere, Gone
    <3> QED BY <3>1 DEF AudioKept
  <2> QED BY <2>1, <2>2
<1> QED
  BY <1>1, <1>2, <1>3, PTL DEF AudioSpec

-----------------------------------------------------------------------------
(* PositionSync: positions of several devices.                             *)

Spots == Places \union {0}
Stamp == [at : Nat, place : Spots]
Save  == [at : Nat, place : Spots, dev : Devices, back : BOOLEAN]
Mail  == [save : Save, kind : {"save", "beacon", "flush"}, pc : {"sent", "answered"}]

PosTypeOK ==
  /\ record \in Stamp /\ checkpoint \in [Devices -> Stamp]
  /\ player \in [Devices -> [pc : {"closed", "asking", "playing"}, place : Spots, read : Stamp]]
  /\ made \subseteq Save /\ IsFiniteSet(made)
  /\ handled \subseteq Save /\ mail \subseteq Mail
  /\ queue \in [Devices -> Seq(Save)]
  /\ flush \in [Devices -> [on : BOOLEAN, items : Seq(Save)]]

(* The device holds the save in its queue.                                 *)
Queued(s) == \E i \in DOMAIN queue[s.dev] : queue[s.dev][i] = s

(* A save that needs no request any more.                                  *)
Safe(s) == s \in handled \/ s \in gone \/ Queued(s)

(* Whom nobody waits for, or who is retried, is safe without the request.  *)
Retried == \A m \in mail : m.kind # "save" => Safe(m.save)
Decided == \A m \in mail : m.pc = "answered" => m.save \in handled

(* A flush sends safe saves of its own device, one at a time.              *)
FlushSafe == \A d \in Devices : \A i \in DOMAIN flush[d].items :
              flush[d].items[i].dev = d /\ Safe(flush[d].items[i])
OneByOne == \A m \in mail : m.kind = "flush" =>
              /\ flush[m.save.dev].on /\ flush[m.save.dev].items # <<>>
              /\ \A n \in mail : n.kind = "flush" /\ n.save.dev = m.save.dev => n = m
Own == \A d \in Devices : \A i \in DOMAIN queue[d] : queue[d][i].dev = d

PosInv ==
  /\ PosTypeOK /\ RewindStands /\ NothingLost
  /\ Retried /\ Decided /\ FlushSafe /\ OneByOne /\ Own

LEMMA TailRest ==
  ASSUME NEW S, NEW q \in Seq(S), q # <<>>
  PROVE  /\ Tail(q) \in Seq(S)
         /\ \A i \in DOMAIN Tail(q) : \E j \in DOMAIN q : Tail(q)[i] = q[j]
  OBVIOUS

LEMMA HeadIs ==
  ASSUME NEW S, NEW q \in Seq(S), q # <<>>
  PROVE  Head(q) \in S /\ \E j \in DOMAIN q : Head(q) = q[j]
  OBVIOUS

LEMMA RemoveAtRest ==
  ASSUME NEW S, NEW q \in Seq(S), NEW k \in DOMAIN q
  PROVE  /\ RemoveAt(q, k) \in Seq(S)
         /\ \A i \in DOMAIN RemoveAt(q, k) : \E j \in DOMAIN q : RemoveAt(q, k)[i] = q[j]
         /\ \A j \in DOMAIN q : j # k => \E i \in DOMAIN RemoveAt(q, k) : RemoveAt(q, k)[i] = q[j]
<1> DEFINE a == SubSeq(q, 1, k - 1)
           b == SubSeq(q, k + 1, Len(q))
<1>1. a \in Seq(S) /\ Len(a) = k - 1 /\ \A i \in 1 .. k - 1 : a[i] = q[i]
  OBVIOUS
<1>2. b \in Seq(S) /\ Len(b) = Len(q) - k /\ \A i \in 1 .. Len(q) - k : b[i] = q[k + i]
  OBVIOUS
<1>3. RemoveAt(q, k) = a \o b
  BY DEF RemoveAt
<1> HIDE DEF a, b
<1>4. a \o b \in Seq(S) /\ Len(a \o b) = Len(q) - 1
  BY <1>1, <1>2
<1>5. \A i \in 1 .. Len(q) - 1 : (a \o b)[i] = IF i < k THEN q[i] ELSE q[i + 1]
  BY <1>1, <1>2
<1>6. \A j \in DOMAIN q : j # k => \E i \in 1 .. Len(q) - 1 : (a \o b)[i] = q[j]
  <2> SUFFICES ASSUME NEW j \in DOMAIN q, j # k
               PROVE  \E i \in 1 .. Len(q) - 1 : (a \o b)[i] = q[j]
    OBVIOUS
  <2>0. j \in 1 .. Len(q) /\ k \in 1 .. Len(q) /\ Len(q) \in Nat
    OBVIOUS
  <2>1. CASE j < k
    <3> j \in 1 .. Len(q) - 1
      BY <2>1
    <3> QED BY <2>1, <1>5
  <2>2. CASE j > k
    <3>2. j - 1 \in 1 .. Len(q) - 1 /\ ~(j - 1 < k) /\ (j - 1) + 1 = j
      BY <2>0, <2>2
    <3>3. (a \o b)[j - 1] = q[j]
      BY <3>2, <1>5
    <3> QED BY <3>2, <3>3
  <2>3. j < k \/ j > k
    BY <2>0
  <2> QED BY <2>1, <2>2, <2>3
<1>7. DOMAIN (a \o b) = 1 .. Len(q) - 1
  BY <1>4
<1>8. \A i \in 1 .. Len(q) - 1 : \E j \in DOMAIN q : (a \o b)[i] = q[j]
  <2> TAKE i \in 1 .. Len(q) - 1
  <2>1. i \in DOMAIN q /\ i + 1 \in DOMAIN q
    OBVIOUS
  <2> QED BY <2>1, <1>5
<1> QED
  BY <1>3, <1>4, <1>6, <1>7, <1>8

LEMMA NatMin ==
  ASSUME NEW T, T \subseteq Nat, T # {}
  PROVE  \E x \in T : \A y \in T : x <= y
<1> DEFINE R == OpToRel(<, Nat)
<1>1. IsWellFoundedOn(R, Nat)
  BY NatLessThanWellFounded
<1>2. \A x, y \in Nat : <<y, x>> \in R <=> y < x
  BY DEF OpToRel
<1> HIDE DEF R
<1>3. PICK x \in T : \A y \in T : ~(<<y, x>> \in R)
  BY <1>1, WFMin
<1>4. \A y \in T : y \in Nat
  OBVIOUS
<1>5. ASSUME NEW y \in T PROVE x <= y
  <2>1. y \in Nat /\ x \in Nat /\ ~(<<y, x>> \in R)
    BY <1>3, <1>4
  <2>2. ~(y < x)
    BY <1>2, <2>1
  <2> QED
    BY <2>1, <2>2
<1> QED
  BY <1>5

LEMMA RemoveFirstRest ==
  ASSUME NEW S, NEW q \in Seq(S), NEW e
  PROVE  /\ RemoveFirst(q, e) \in Seq(S)
         /\ \A i \in DOMAIN RemoveFirst(q, e) : \E j \in DOMAIN q : RemoveFirst(q, e)[i] = q[j]
         /\ \A j \in DOMAIN q : q[j] # e => \E i \in DOMAIN RemoveFirst(q, e) : RemoveFirst(q, e)[i] = q[j]
<1>1. CASE ~\E i \in 1 .. Len(q) : q[i] = e
  BY <1>1 DEF RemoveFirst
<1>2. CASE \E i \in 1 .. Len(q) : q[i] = e
  <2> DEFINE I == {i \in 1 .. Len(q) : q[i] = e}
             k == Min(I)
  <2>1. RemoveFirst(q, e) = RemoveAt(q, k)
    BY <1>2 DEF RemoveFirst, SelectInSeq
  <2>2. \E x \in I : \A y \in I : x <= y
    <3> I \subseteq Nat /\ I # {}
      BY <1>2
    <3> HIDE DEF I
    <3> QED BY NatMin
  <2>3. k \in I
    BY <2>2 DEF Min
  <2>4. k \in DOMAIN q /\ q[k] = e
    BY <2>3
  <2> HIDE DEF k
  <2>5. \A j \in DOMAIN q : q[j] # e => j # k
    BY <2>4
  <2>6. /\ RemoveAt(q, k) \in Seq(S)
        /\ \A i \in DOMAIN RemoveAt(q, k) : \E j \in DOMAIN q : RemoveAt(q, k)[i] = q[j]
        /\ \A j \in DOMAIN q : j # k => \E i \in DOMAIN RemoveAt(q, k) : RemoveAt(q, k)[i] = q[j]
    BY <2>4, RemoveAtRest
  <2> HIDE DEF I
  <2> QED BY <2>1, <2>5, <2>6
<1> QED BY <1>1, <1>2

Players == [Devices -> [pc : {"closed", "asking", "playing"}, place : Spots, read : Stamp]]

(* What is safe stays so while no queue loses an entry.                    *)
LEMMA SafeStays ==
  ASSUME handled \subseteq handled', gone \subseteq gone', NEW s,
         \A i \in DOMAIN queue[s.dev] :
           queue[s.dev][i] = s => \E j \in DOMAIN queue'[s.dev] : queue'[s.dev][j] = s,
         Safe(s)
  PROVE  Safe(s)'
  BY DEF Safe, Queued

(* A save of the player.                                                   *)
LEMMA SavesKeep ==
  ASSUME PosInv, NEW d \in Devices, NEW place \in Spots, NEW back \in BOOLEAN,
         NEW kind \in {"save", "beacon"}, Saves(d, place, back, kind),
         UNCHANGED <<record, queue, flush, handled>>, player' \in Players
  PROVE  PosInv'
<1> DEFINE save == [at |-> Now, place |-> place, dev |-> d, back |-> back]
           sent == [save |-> save, kind |-> kind, pc |-> "sent"]
<1>1. Now \in Nat
  BY FS_CardinalityType DEF PosInv, PosTypeOK, Now
<1>2. save \in Save /\ sent \in Mail
  BY <1>1 DEF Save, Mail
<1>3. /\ checkpoint' = [checkpoint EXCEPT ![d] = [at |-> Now, place |-> place]]
      /\ made' = made \union {save} /\ mail' = mail \union {sent}
      /\ gone' = IF kind = "beacon" THEN gone \union {save} ELSE gone
  BY DEF Saves
<1>4. gone \subseteq gone' /\ (kind = "beacon" => save \in gone')
  BY <1>3
<1>5. sent.save = save /\ sent.kind = kind /\ sent.pc = "sent" /\ save.dev = d
  OBVIOUS
<1>6. IsFiniteSet(made')
  BY <1>3, FS_AddElement DEF PosInv, PosTypeOK
<1> HIDE DEF save, sent
<1>7. PosTypeOK'
  <2>1. [at |-> Now, place |-> place] \in Stamp
    BY <1>1 DEF Stamp
  <2>2. checkpoint' \in [Devices -> Stamp]
    BY <1>3, <2>1 DEF PosInv, PosTypeOK
  <2>3. made' \subseteq Save /\ mail' \subseteq Mail
    BY <1>2, <1>3 DEF PosInv, PosTypeOK
  <2> QED BY <1>6, <2>2, <2>3 DEF PosInv, PosTypeOK, Players
<1>8. ASSUME NEW s, Safe(s) PROVE Safe(s)'
  BY <1>4, <1>8, SafeStays
<1>9. RewindStands'
  BY DEF PosInv, RewindStands
<1>10. NothingLost'
  <2> SUFFICES ASSUME NEW s \in made', s \notin handled', s \notin gone'
               PROVE  (\E m \in mail' : m.save = s) \/ Queued(s)'
    BY DEF NothingLost, Queued
  <2>1. CASE s = save
    BY <2>1, <1>3, <1>5
  <2>2. CASE s # save
    <3>1. s \in made \ (handled \union gone)
      BY <2>2, <1>3, <1>4
    <3>2. (\E m \in mail : m.save = s) \/ Queued(s)
      BY <3>1 DEF PosInv, NothingLost, Queued
    <3> QED BY <3>2, <1>3 DEF Queued
  <2> QED BY <2>1, <2>2
<1>11. Retried'
  <2> SUFFICES ASSUME NEW m \in mail', m.kind # "save" PROVE Safe(m.save)'
    BY DEF Retried
  <2>1. CASE m \in mail
    BY <2>1, <1>8 DEF PosInv, Retried
  <2>2. CASE m = sent
    BY <2>2, <1>4, <1>5 DEF Safe
  <2> QED BY <2>1, <2>2, <1>3
<1>12. Decided'
  BY <1>3, <1>5 DEF PosInv, Decided
<1>13. FlushSafe'
  BY <1>8 DEF PosInv, FlushSafe
<1>14. OneByOne'
  BY <1>3, <1>5 DEF PosInv, OneByOne
<1>15. Own'
  BY DEF PosInv, Own
<1> QED
  BY <1>7, <1>9, <1>10, <1>11, <1>12, <1>13, <1>14, <1>15 DEF PosInv

(* A step of the player that saves nothing.                                *)
LEMMA PlayerKeeps ==
  ASSUME PosInv, UNCHANGED <<record, checkpoint, mail, queue, flush, made, handled, gone>>,
         player' \in Players
  PROVE  PosInv'
  BY DEF PosInv, PosTypeOK, Players, RewindStands, NothingLost, Retried, Safe, Queued,
         Decided, FlushSafe, OneByOne, Own

LEMMA ListeningKeeps ==
  ASSUME PosInv, NEW d \in Devices,
         HearOn(d) \/ Ask(d) \/ Open(d) \/ Beacon(d) \/ \E place \in Places : Rewind(d, place)
  PROVE  PosInv'
<1>1. CASE HearOn(d)
  <2>1. player[d].place + 1 \in Spots /\ player' \in Players
    BY <1>1 DEF HearOn, PosInv, PosTypeOK, Players, Spots
  <2> QED BY <1>1, <2>1, SavesKeep DEF HearOn
<1>2. CASE \E place \in Places : Rewind(d, place)
  <2>1. PICK place \in Places : Rewind(d, place)
    BY <1>2
  <2>2. place \in Spots /\ player' \in Players
    BY <2>1 DEF Rewind, PosInv, PosTypeOK, Players, Spots
  <2> QED BY <2>1, <2>2, SavesKeep DEF Rewind
<1>3. CASE Ask(d)
  <2>1. PICK read \in {record, Never} :
          player' = [player EXCEPT ![d] = [Closed EXCEPT !.pc = "asking", !.read = read]]
    BY <1>3 DEF Ask
  <2>2. read \in Stamp
    BY DEF Never, PosInv, PosTypeOK, Spots, Stamp
  <2>3. player' \in Players
    BY <2>1, <2>2 DEF Closed, PosInv, PosTypeOK, Players, Spots
  <2> QED BY <1>3, <2>3, PlayerKeeps DEF Ask
<1>4. CASE Open(d)
  <2> DEFINE read  == player[d].read
             local == checkpoint[d]
             best  == IF local.at >= read.at THEN local ELSE read
  <2>1. best.place \in Spots
    BY DEF PosInv, PosTypeOK, Stamp
  <2>2. player' = [player EXCEPT ![d] = [Closed EXCEPT !.pc = "playing", !.place = best.place]]
    BY <1>4 DEF Open
  <2>3. \/ Saves(d, best.place, TRUE, "save")
        \/ UNCHANGED <<checkpoint, mail, made, gone>>
    BY <1>4 DEF Open
  <2>4. UNCHANGED <<record, queue, flush, handled>>
    BY <1>4 DEF Open
  <2> HIDE DEF best
  <2>5. player' \in Players
    BY <2>1, <2>2 DEF Closed, Never, PosInv, PosTypeOK, Players, Spots, Stamp
  <2>6. CASE Saves(d, best.place, TRUE, "save")
    BY <2>1, <2>4, <2>5, <2>6, SavesKeep
  <2>7. CASE UNCHANGED <<checkpoint, mail, made, gone>>
    BY <2>4, <2>5, <2>7, PlayerKeeps
  <2> QED BY <2>3, <2>6, <2>7
<1>5. CASE Beacon(d)
  <2>1. player[d].place \in Spots /\ player' \in Players
    BY <1>5 DEF Beacon, Closed, Never, PosInv, PosTypeOK, Players, Spots, Stamp
  <2> QED BY <1>5, <2>1, SavesKeep DEF Beacon
<1> QED BY <1>1, <1>2, <1>3, <1>4, <1>5

(* The page dies.                                                          *)
LEMMA KillKeeps ==
  ASSUME PosInv, NEW d \in Devices, Kill(d)
  PROVE  PosInv'
<1> DEFINE Orphan(m) == [m EXCEPT !.kind = "beacon"]
<1>1. /\ player' \in Players
      /\ flush' = [flush EXCEPT ![d] = NoFlush]
      /\ UNCHANGED <<record, checkpoint, queue, made, handled>>
  BY DEF Kill, Closed, Never, PosInv, PosTypeOK, Players, Spots, Stamp
<1>2. /\ gone \subseteq gone'
      /\ \A m \in mail : m.save.dev = d /\ m.kind = "save" => m.save \in gone'
  BY DEF Kill
<1>3. ASSUME NEW m \in mail'
      PROVE  \/ m \in mail /\ m.save.dev # d
             \/ \E n \in mail : n.save.dev = d /\ n.pc = "sent" /\ m = Orphan(n)
  BY DEF Kill
<1>4. \A m \in mail : m.save.dev # d => m \in mail'
  BY DEF Kill
<1>5. ASSUME NEW n \in mail
      PROVE  /\ Orphan(n) \in Mail
             /\ Orphan(n).save = n.save /\ Orphan(n).kind = "beacon" /\ Orphan(n).pc = n.pc
  BY DEF PosInv, PosTypeOK, Mail
<1> HIDE DEF Orphan
<1>6. ASSUME NEW s, Safe(s) PROVE Safe(s)'
  BY <1>1, <1>2, <1>6, SafeStays
<1>7. PosTypeOK'
  <2>1. flush' \in [Devices -> [on : BOOLEAN, items : Seq(Save)]]
    BY <1>1 DEF NoFlush, PosInv, PosTypeOK
  <2>2. mail' \subseteq Mail
    BY <1>3, <1>5 DEF PosInv, PosTypeOK
  <2> QED BY <1>1, <2>1, <2>2 DEF PosInv, PosTypeOK, Players
<1>8. ASSUME NEW m \in mail, m.save.dev = d PROVE Safe(m.save)'
  BY <1>2, <1>6, <1>8 DEF Safe, PosInv, Retried
<1>9. RewindStands'
  BY <1>1 DEF PosInv, RewindStands
<1>10. NothingLost'
  <2> SUFFICES ASSUME NEW s \in made', ~Safe(s)'
               PROVE  \E m \in mail' : m.save = s
    BY DEF NothingLost, Safe, Queued
  <2>1. \E m \in mail : m.save = s
    BY <1>1, <1>6 DEF PosInv, NothingLost, Safe, Queued
  <2> QED BY <1>4, <1>8, <2>1
<1>11. Retried'
  BY <1>3, <1>5, <1>6, <1>8 DEF PosInv, Retried
<1>12. Decided'
  BY <1>1, <1>3, <1>5 DEF PosInv, Decided
<1>13. FlushSafe'
  BY <1>1, <1>6 DEF NoFlush, PosInv, PosTypeOK, FlushSafe
<1>14. OneByOne'
  <2>1. ASSUME NEW m \in mail', m.kind = "flush" PROVE m \in mail /\ m.save.dev # d
    BY <1>3, <1>5, <2>1
  <2>2. ASSUME NEW m \in mail', m.kind = "flush" PROVE m.save.dev \in Devices
    BY <2>1, <2>2 DEF PosInv, PosTypeOK, Mail, Save
  <2> QED BY <1>1, <2>1, <2>2 DEF PosInv, PosTypeOK, OneByOne
<1>15. Own'
  BY <1>1 DEF PosInv, Own
<1> QED
  BY <1>7, <1>9, <1>10, <1>11, <1>12, <1>13, <1>14, <1>15 DEF PosInv

(* The server decides.                                                     *)
LEMMA HandleKeeps ==
  ASSUME PosInv, NEW m \in mail, Handle(m)
  PROVE  PosInv'
<1> DEFINE told == [m EXCEPT !.pc = "answered"]
<1>1. /\ told \in Mail /\ told.save = m.save /\ told.kind = m.kind /\ told.pc = "answered"
      /\ m.save \in Save
  BY DEF PosInv, PosTypeOK, Mail
<1>2. mail' = (mail \ {m}) \union (IF m.kind = "beacon" THEN {} ELSE {told})
  BY DEF Handle
<1>3. /\ handled' = handled \union {m.save}
      /\ record' = IF Ignored(m) THEN record ELSE [at |-> m.save.at, place |-> m.save.place]
      /\ UNCHANGED <<player, checkpoint, queue, flush, made, gone>>
  BY DEF Handle
<1> HIDE DEF told
<1>4. ASSUME NEW s, Safe(s) PROVE Safe(s)'
  BY <1>3, <1>4, SafeStays
<1>5. Safe(m.save)'
  BY <1>3 DEF Safe
<1>6. PosTypeOK'
  <2>1. record' \in Stamp
    BY <1>1, <1>3 DEF PosInv, PosTypeOK, Stamp, Save
  <2>2. mail' \subseteq Mail /\ handled' \subseteq Save
    BY <1>1, <1>2, <1>3 DEF PosInv, PosTypeOK
  <2> QED BY <1>3, <2>1, <2>2 DEF PosInv, PosTypeOK
<1>7. RewindStands'
  <2> SUFFICES ASSUME NEW s \in handled', s.back PROVE record'.at >= s.at
    BY DEF RewindStands
  <2>1. record.at \in Nat /\ m.save.at \in Nat /\ s.at \in Nat
    BY <1>1, <1>3 DEF PosInv, PosTypeOK, Stamp, Save
  <2>2. record'.at >= record.at
    BY <1>3, <2>1 DEF Ignored, Older
  <2>3. CASE s = m.save
    BY <1>3, <2>1, <2>3 DEF Ignored, Older
  <2>4. CASE s \in handled
    <3>1. record.at >= s.at
      BY <2>4 DEF PosInv, RewindStands
    <3>2. record'.at \in Nat
      BY <1>6 DEF PosTypeOK, Stamp
    <3> QED BY <2>1, <2>2, <3>1, <3>2
  <2> QED BY <1>3, <2>3, <2>4
<1>8. NothingLost'
  BY <1>1, <1>2, <1>3 DEF PosInv, NothingLost
<1>9. Retried'
  BY <1>1, <1>2, <1>4, <1>5 DEF PosInv, Retried
<1>10. Decided'
  BY <1>1, <1>2, <1>3 DEF PosInv, Decided
<1>11. FlushSafe'
  BY <1>3, <1>4 DEF PosInv, FlushSafe
<1>12. OneByOne'
  BY <1>1, <1>2, <1>3 DEF PosInv, OneByOne
<1>13. Own'
  BY <1>3 DEF PosInv, Own
<1> QED
  BY <1>6, <1>7, <1>8, <1>9, <1>10, <1>11, <1>12, <1>13 DEF PosInv

(* A flush goes on: what is left of its snapshot.                          *)
LEMMA RestOfFlush ==
  ASSUME PosInv, NEW m \in mail, m.kind = "flush"
  PROVE  LET d == m.save.dev
         IN /\ d \in Devices /\ Rest(d) \in [Devices -> [on : BOOLEAN, items : Seq(Save)]]
            /\ Rest(d)[d].on = flush[d].on
            /\ \A e \in Devices : e # d => Rest(d)[e] = flush[e]
            /\ \A i \in DOMAIN Rest(d)[d].items :
                 \E j \in DOMAIN flush[d].items : Rest(d)[d].items[i] = flush[d].items[j]
<1> DEFINE d == m.save.dev
           items == flush[d].items
<1>1. d \in Devices /\ flush[d] \in [on : BOOLEAN, items : Seq(Save)]
  BY DEF PosInv, PosTypeOK, Mail, Save
<1>2. items \in Seq(Save) /\ items # <<>>
  BY <1>1 DEF PosInv, OneByOne
<1> HIDE DEF d, items
<1>3. /\ Tail(items) \in Seq(Save)
      /\ \A i \in DOMAIN Tail(items) : \E j \in DOMAIN items : Tail(items)[i] = items[j]
  BY <1>2, TailRest
<1>4. Rest(d) = [flush EXCEPT ![d] = [@ EXCEPT !.items = Tail(items)]]
  BY DEF Rest, items
<1>5. Rest(d)[d] = [flush[d] EXCEPT !.items = Tail(items)]
  BY <1>1, <1>4 DEF PosInv, PosTypeOK
<1>9. Rest(d)[d].items = Tail(items)
  BY <1>1, <1>5
<1>6. Rest(d) \in [Devices -> [on : BOOLEAN, items : Seq(Save)]]
  BY <1>1, <1>3, <1>4 DEF PosInv, PosTypeOK
<1>7. \A e \in Devices : e # d => Rest(d)[e] = flush[e]
  BY <1>4 DEF PosInv, PosTypeOK
<1>8. Rest(d)[d].on = flush[d].on
  BY <1>1, <1>5
<1> QED
  BY <1>1, <1>3, <1>9, <1>6, <1>7, <1>8 DEF d, items

(* What is left of the snapshots is safe, and no other flush is disturbed. *)
LEMMA RestKeeps ==
  ASSUME PosInv, NEW m \in mail, m.kind = "flush", mail' = mail \ {m},
         flush' = Rest(m.save.dev), \A s : Safe(s) => Safe(s)'
  PROVE  FlushSafe' /\ OneByOne'
<1> DEFINE d == m.save.dev
<1>1. FlushSafe'
  <2> SUFFICES ASSUME NEW e \in Devices, NEW i \in DOMAIN flush'[e].items,
                      NEW s, s = flush'[e].items[i]
               PROVE  s.dev = e /\ Safe(s)'
    BY DEF FlushSafe, Safe, Queued
  <2>1. \E j \in DOMAIN flush[e].items : s = flush[e].items[j]
    <3>1. CASE e = d
      BY <3>1, RestOfFlush
    <3>2. CASE e # d
      BY <3>2, RestOfFlush
    <3> QED BY <3>1, <3>2
  <2> QED BY <2>1 DEF PosInv, FlushSafe
<1>2. OneByOne'
  <2> SUFFICES ASSUME NEW n \in mail', n.kind = "flush"
               PROVE  /\ flush'[n.save.dev] = flush[n.save.dev]
    BY DEF PosInv, OneByOne
  <2>1. n.save.dev # d
    BY DEF PosInv, OneByOne
  <2>2. n.save.dev \in Devices
    BY DEF PosInv, PosTypeOK, Mail, Save
  <2> QED BY <2>1, <2>2, RestOfFlush
<1> QED BY <1>1, <1>2

LEMMA AnswerKeeps ==
  ASSUME PosInv, NEW m \in mail, Answer(m)
  PROVE  PosInv'
<1> DEFINE d == m.save.dev
<1>1. /\ m.pc = "answered" /\ mail' = mail \ {m} /\ m.save \in handled /\ d \in Devices
      /\ UNCHANGED <<record, player, checkpoint, made, handled, gone>>
  BY DEF Answer, PosInv, PosTypeOK, Decided, Mail, Save
<1>2. CASE m.kind # "flush"
  <2>1. UNCHANGED <<queue, flush>>
    BY <1>2 DEF Answer
  <2>2. \A s : Safe(s)' <=> Safe(s)
    BY <1>1, <2>1 DEF Safe, Queued
  <2>3. PosTypeOK' /\ RewindStands' /\ Decided' /\ Own'
    BY <1>1, <2>1 DEF PosInv, PosTypeOK, RewindStands, Decided, Own
  <2>4. NothingLost'
    BY <1>1, <2>1 DEF PosInv, NothingLost
  <2>5. Retried'
    BY <1>1, <2>2 DEF PosInv, Retried
  <2>6. FlushSafe'
    BY <2>1, <2>2 DEF PosInv, FlushSafe
  <2>7. OneByOne'
    BY <1>1, <2>1 DEF PosInv, OneByOne
  <2> QED
    BY <2>3, <2>4, <2>5, <2>6, <2>7 DEF PosInv
<1>3. CASE m.kind = "flush"
  <2>1. flush' = Rest(d) /\ queue' = [queue EXCEPT ![d] = Left(d, m.save)]
    BY <1>3 DEF Answer
  <2>2. /\ Left(d, m.save) \in Seq(Save)
        /\ \A i \in DOMAIN Left(d, m.save) : \E j \in DOMAIN queue[d] : Left(d, m.save)[i] = queue[d][j]
        /\ \A j \in DOMAIN queue[d] :
             queue[d][j] # m.save => \E i \in DOMAIN Left(d, m.save) : Left(d, m.save)[i] = queue[d][j]
    <3> queue[d] \in Seq(Save)
      BY <1>1 DEF PosInv, PosTypeOK
    <3> HIDE DEF d
    <3> QED BY RemoveFirstRest DEF Left
  <2>3. queue' \in [Devices -> Seq(Save)]
    BY <1>1, <2>1, <2>2 DEF PosInv, PosTypeOK
  <2>4. queue'[d] = Left(d, m.save) /\ \A e \in Devices : e # d => queue'[e] = queue[e]
    BY <1>1, <2>1 DEF PosInv, PosTypeOK
  <2>5. ASSUME NEW s, Safe(s), ~Safe(s)' PROVE FALSE
    <3>1. Queued(s) /\ s \notin handled /\ s \notin gone
      BY <1>1, <2>5 DEF Safe
    <3>2. s # m.save
      BY <1>1, <3>1
    <3>3. s.dev # d => s.dev \notin Devices
      BY <2>4, <2>5, <3>1 DEF Safe, Queued
    <3>4. s.dev \in Devices => FALSE
      BY <2>2, <2>4, <2>5, <3>1, <3>2, <3>3 DEF Safe, Queued
    <3>5. queue' [s.dev] = queue[s.dev]
      BY <1>1, <2>1, <3>4 DEF PosInv, PosTypeOK
    <3> QED BY <2>5, <3>1, <3>5 DEF Safe, Queued
  <2>6. FlushSafe' /\ OneByOne'
    BY <1>1, <1>3, <2>1, <2>5, RestKeeps
  <2>7. PosTypeOK'
    BY <1>1, <1>3, <2>1, <2>3, RestOfFlush DEF PosInv, PosTypeOK
  <2>8. RewindStands' /\ Decided'
    BY <1>1 DEF PosInv, RewindStands, Decided
  <2>9. NothingLost'
    <3> SUFFICES ASSUME NEW s \in made', ~Safe(s)'
                 PROVE  \E n \in mail' : n.save = s
      BY DEF NothingLost, Safe, Queued
    <3>1. ~Safe(s) /\ s # m.save
      BY <1>1, <2>5 DEF Safe
    <3> QED BY <1>1, <3>1 DEF PosInv, NothingLost, Safe, Queued
  <2>10. Retried'
    BY <1>1, <2>5 DEF PosInv, Retried
  <2>11. Own'
    BY <2>2, <2>4 DEF PosInv, Own
  <2> QED
    BY <2>6, <2>7, <2>8, <2>9, <2>10, <2>11 DEF PosInv
<1> QED BY <1>2, <1>3

LEMMA LoseKeeps ==
  ASSUME PosInv, NEW m \in mail, Lose(m)
  PROVE  PosInv'
<1> DEFINE d == m.save.dev
<1>1. /\ mail' = mail \ {m} /\ m.save \in Save /\ d \in Devices
      /\ flush' = (IF m.kind = "flush" THEN Rest(d) ELSE flush)
      /\ queue' = (IF m.kind = "save" THEN [queue EXCEPT ![d] = Append(@, m.save)] ELSE queue)
      /\ UNCHANGED <<record, player, checkpoint, made, handled, gone>>
  BY DEF Lose, PosInv, PosTypeOK, Mail, Save
<1>2. /\ Append(queue[d], m.save) \in Seq(Save)
      /\ \A i \in DOMAIN Append(queue[d], m.save) :
           \/ Append(queue[d], m.save)[i] = m.save
           \/ \E j \in DOMAIN queue[d] : Append(queue[d], m.save)[i] = queue[d][j]
      /\ \A j \in DOMAIN queue[d] :
           \E i \in DOMAIN Append(queue[d], m.save) : Append(queue[d], m.save)[i] = queue[d][j]
      /\ \E i \in DOMAIN Append(queue[d], m.save) : Append(queue[d], m.save)[i] = m.save
  <2> DEFINE q == queue[d]
             save == m.save
  <2>1. q \in Seq(Save) /\ save \in Save
    BY <1>1 DEF PosInv, PosTypeOK
  <2> HIDE DEF q, save
  <2>2. Append(q, save) \in Seq(Save) /\ Len(Append(q, save)) = Len(q) + 1
    BY <2>1
  <2>3. /\ \A i \in 1 .. Len(q) : Append(q, save)[i] = q[i]
        /\ Append(q, save)[Len(q) + 1] = save
    BY <2>1
  <2>4. DOMAIN q = 1 .. Len(q) /\ DOMAIN Append(q, save) = 1 .. Len(q) + 1 /\ Len(q) \in Nat
    BY <2>1, <2>2
  <2>5. Len(q) + 1 \in DOMAIN Append(q, save) /\ DOMAIN q \subseteq DOMAIN Append(q, save)
    BY <2>4
  <2>6. ASSUME NEW i \in DOMAIN Append(q, save) PROVE i = Len(q) + 1 \/ i \in DOMAIN q
    BY <2>4
  <2> QED BY <2>2, <2>3, <2>4, <2>5, <2>6 DEF q, save
<1>3. /\ queue' \in [Devices -> Seq(Save)]
      /\ \A e \in Devices : e # d => queue'[e] = queue[e]
      /\ queue'[d] = queue[d] \/ queue'[d] = Append(queue[d], m.save)
      /\ m.kind = "save" => queue'[d] = Append(queue[d], m.save)
  BY <1>1, <1>2 DEF PosInv, PosTypeOK
<1>4. ASSUME NEW s, Safe(s) PROVE Safe(s)'
  <2>1. CASE s.dev = d
    <3>1. CASE Queued(s)
      <4> DEFINE old == queue[d]
                 new == queue'[d]
      <4>1. \A j \in DOMAIN old : \E i \in DOMAIN new : new[i] = old[j]
        BY <1>2, <1>3
      <4>2. \E j \in DOMAIN old : old[j] = s
        BY <2>1, <3>1 DEF Queued
      <4>3. \E i \in DOMAIN new : new[i] = s
        BY <4>1, <4>2
      <4> QED BY <2>1, <4>3 DEF Safe, Queued
    <3>2. CASE ~Queued(s)
      BY <1>1, <1>4, <3>2 DEF Safe
    <3> QED BY <3>1, <3>2
  <2>2. CASE s.dev # d
    <3>1. queue'[s.dev] = queue[s.dev]
      BY <1>1, <2>2 DEF PosInv, PosTypeOK
    <3> QED BY <1>1, <1>4, <3>1 DEF Safe, Queued
  <2> QED BY <2>1, <2>2
<1>5. Safe(m.save)'
  <2>1. CASE m.kind = "save"
    BY <1>2, <1>3, <2>1 DEF Safe, Queued
  <2>2. CASE m.kind # "save"
    BY <1>4, <2>2 DEF PosInv, Retried
  <2> QED BY <2>1, <2>2
<1>6. FlushSafe' /\ OneByOne'
  <2>1. CASE m.kind = "flush"
    BY <1>1, <1>4, <2>1, RestKeeps
  <2>2. CASE m.kind # "flush"
    BY <1>1, <1>4, <2>2 DEF PosInv, FlushSafe, OneByOne
  <2> QED BY <2>1, <2>2
<1>7. PosTypeOK'
  <2>1. flush' \in [Devices -> [on : BOOLEAN, items : Seq(Save)]]
    BY <1>1, RestOfFlush DEF PosInv, PosTypeOK
  <2> QED BY <1>1, <1>3, <2>1 DEF PosInv, PosTypeOK
<1>8. RewindStands' /\ Decided'
  BY <1>1 DEF PosInv, RewindStands, Decided
<1>9. NothingLost'
  <2> SUFFICES ASSUME NEW s \in made', ~Safe(s)'
               PROVE  \E n \in mail' : n.save = s
    BY DEF NothingLost, Safe, Queued
  <2>1. ~Safe(s) /\ s # m.save
    BY <1>4, <1>5
  <2> QED BY <1>1, <2>1 DEF PosInv, NothingLost, Safe, Queued
<1>10. Retried'
  BY <1>1, <1>4 DEF PosInv, Retried
<1>11. Own'
  <2> SUFFICES ASSUME NEW e \in Devices, NEW i \in DOMAIN queue'[e] PROVE queue'[e][i].dev = e
    BY DEF Own
  <2>1. CASE queue'[e] = queue[e]
    BY <2>1 DEF PosInv, Own
  <2>2. CASE e = d /\ queue'[d] = Append(queue[d], m.save)
    BY <1>2, <2>2 DEF PosInv, Own
  <2> QED BY <1>3, <2>1, <2>2
<1> QED
  BY <1>6, <1>7, <1>8, <1>9, <1>10, <1>11 DEF PosInv

LEMMA FlushKeeps ==
  ASSUME PosInv, NEW d \in Devices, Flush(d)
  PROVE  PosInv'
<1>1. /\ ~flush[d].on
      /\ flush' = [flush EXCEPT ![d] = [on |-> TRUE, items |-> queue[d]]]
      /\ UNCHANGED <<record, player, checkpoint, mail, queue, made, handled, gone>>
  BY DEF Flush
<1>2. /\ flush' \in [Devices -> [on : BOOLEAN, items : Seq(Save)]]
      /\ flush'[d].items = queue[d] /\ \A e \in Devices : e # d => flush'[e] = flush[e]
  BY <1>1 DEF PosInv, PosTypeOK
<1>3. \A s : Safe(s)' <=> Safe(s)
  BY <1>1 DEF Safe, Queued
<1>4. \A i \in DOMAIN queue[d] : queue[d][i].dev = d /\ Safe(queue[d][i])
  BY DEF PosInv, Own, Safe, Queued
<1>5. FlushSafe'
  BY <1>1, <1>2, <1>3, <1>4 DEF PosInv, FlushSafe
<1>6. OneByOne'
  <2>1. \A m \in mail : m.kind = "flush" => m.save.dev \in Devices /\ m.save.dev # d
    BY <1>1 DEF PosInv, PosTypeOK, OneByOne, Mail, Save
  <2> QED BY <1>1, <1>2, <2>1 DEF PosInv, OneByOne
<1> QED
  BY <1>1, <1>2, <1>3, <1>5, <1>6
     DEF PosInv, PosTypeOK, RewindStands, NothingLost, Retried, Decided, Own

LEMMA FlushNextKeeps ==
  ASSUME PosInv, NEW d \in Devices, FlushNext(d)
  PROVE  PosInv'
<1>1. /\ flush[d].on /\ ~Sending(d)
      /\ UNCHANGED <<record, player, checkpoint, queue, made, handled, gone>>
  BY DEF FlushNext
<1>2. \A s : Safe(s)' <=> Safe(s)
  BY <1>1 DEF Safe, Queued
<1>3. \A m \in mail : m.kind = "flush" => m.save.dev \in Devices /\ m.save.dev # d
  BY <1>1 DEF Sending, PosInv, PosTypeOK, Mail, Save
<1>4. CASE flush[d].items = <<>>
  <2>1. flush' = [flush EXCEPT ![d] = NoFlush] /\ mail' = mail
    BY <1>4 DEF FlushNext
  <2>2. /\ flush' \in [Devices -> [on : BOOLEAN, items : Seq(Save)]]
        /\ flush'[d].items = <<>> /\ \A e \in Devices : e # d => flush'[e] = flush[e]
    BY <2>1 DEF NoFlush, PosInv, PosTypeOK
  <2>3. FlushSafe' /\ OneByOne'
    BY <1>2, <1>3, <2>1, <2>2 DEF PosInv, FlushSafe, OneByOne
  <2> QED
    BY <1>1, <1>2, <2>1, <2>2, <2>3
       DEF PosInv, PosTypeOK, RewindStands, NothingLost, Retried, Decided, Own
<1>5. CASE flush[d].items # <<>>
  <2> DEFINE head == Head(flush[d].items)
             sent == [save |-> head, kind |-> "flush", pc |-> "sent"]
  <2>1. mail' = mail \union {sent} /\ flush' = flush
    BY <1>5 DEF FlushNext
  <2>2. flush[d].items \in Seq(Save)
    BY DEF PosInv, PosTypeOK
  <2>3. head \in Save /\ \E j \in DOMAIN flush[d].items : head = flush[d].items[j]
    BY <1>5, <2>2, HeadIs
  <2> HIDE DEF head
  <2>4. head.dev = d /\ Safe(head) /\ sent \in Mail
    BY <2>3 DEF PosInv, FlushSafe, Mail
  <2>5. sent.save = head /\ sent.kind = "flush" /\ sent.pc = "sent"
    OBVIOUS
  <2> HIDE DEF sent
  <2>6. PosTypeOK'
    BY <1>1, <2>1, <2>4 DEF PosInv, PosTypeOK
  <2>7. NothingLost' /\ RewindStands'
    BY <1>1, <2>1 DEF PosInv, NothingLost, RewindStands
  <2>8. Retried' /\ Decided'
    BY <1>1, <1>2, <2>1, <2>4, <2>5 DEF PosInv, Retried, Decided
  <2>9. FlushSafe' /\ Own'
    BY <1>1, <1>2, <2>1 DEF PosInv, FlushSafe, Own
  <2>10. OneByOne'
    BY <1>1, <1>3, <1>5, <2>1, <2>4, <2>5 DEF PosInv, OneByOne
  <2> QED
    BY <2>6, <2>7, <2>8, <2>9, <2>10 DEF PosInv
<1> QED BY <1>4, <1>5

(* PositionSync: kept.  *)
THEOREM PositionsAreKept == PosSpec => []PositionsKept
<1>1. PosInit => PosInv
  <2> SUFFICES ASSUME PosInit PROVE PosInv
    OBVIOUS
  <2>1. /\ mail = {} /\ made = {} /\ handled = {} /\ IsFiniteSet(made)
        /\ \A d \in Devices : queue[d] = <<>> /\ flush[d].items = <<>>
    BY FS_EmptySet DEF PosInit, NoFlush
  <2>2. PosTypeOK
    BY <2>1 DEF PosInit, PosTypeOK, Never, Closed, NoFlush, Stamp, Spots
  <2> QED
    BY <2>1, <2>2 DEF PosInv, RewindStands, NothingLost, Retried, Decided, FlushSafe, OneByOne, Own
<1>2. PosInv /\ [PosNext]_posVars => PosInv'
  <2> SUFFICES ASSUME PosInv, [PosNext]_posVars PROVE PosInv'
    OBVIOUS
  <2>1. CASE UNCHANGED posVars
    BY <2>1, PlayerKeeps DEF posVars, PosInv, PosTypeOK, Players
  <2>2. CASE PosNext
    BY <2>2, ListeningKeeps, KillKeeps, HandleKeeps, AnswerKeeps, LoseKeeps, FlushKeeps,
       FlushNextKeeps DEF PosNext
  <2> QED BY <2>1, <2>2
<1>3. PosInv => PositionsKept
  BY DEF PosInv, PositionsKept
<1> QED
  BY <1>1, <1>2, <1>3, PTL DEF PosSpec

-----------------------------------------------------------------------------
(* BookLifecycle: imports, deletions and the files of books.               *)

(* What commands and their candidates are.                                 *)
LEMMA CandidateFacts ==
  ASSUME NEW c \in Commands
  PROVE  /\ Len(c) \in Nat /\ Len(c) > 0 /\ c \in Seq(Books)
         /\ \A k \in 1 .. Len(c) : c[k] \in Books /\ c[k] \in CandidateIds(c)
         /\ CandidateIds(c) \subseteq Books
<1>1. c \in Seq(Books) /\ Len(c) > 0
  BY LifecycleAssumption
<1>2. Len(c) \in Nat /\ \A k \in 1 .. Len(c) : c[k] \in Books
  BY <1>1
<1> QED
  BY <1>1, <1>2 DEF CandidateIds

LEMMA NobodyElse ==
  /\ Nobody \notin Books /\ Nobody \notin Importers /\ Nobody \notin Deletions
  /\ \A i \in Importers : i \notin Deletions
  BY LifecycleAssumption

ImportPhases == {"idle", "acquire", "judge", "persist", "finish", "fail"}
MaybeCommands == Commands \union {<<>>}
MaybeBooks == Books \union {Nobody}
Holdings == SUBSET Books
Imports == [pc : ImportPhases, cmd : MaybeCommands, k : Nat, best : MaybeBooks, good : BOOLEAN,
            own : Holdings]

(* An import's state: it owns what it acquired and may keep.               *)
Good(r) ==
  /\ r \in Imports /\ r.k <= Len(r.cmd) + 1
  /\ r.pc # "idle" => r.cmd \in Commands
  /\ r.pc \in {"acquire", "judge"} => r.k \in 1 .. Len(r.cmd)
  /\ r.best = Nobody => r.good = FALSE
  /\ r.best # Nobody => \E j \in 1 .. Len(r.cmd) : j < r.k /\ r.cmd[j] = r.best
  /\ r.pc = "judge" => r.cmd[r.k] \in r.own /\ r.cmd[r.k] # r.best
  /\ r.pc \in {"acquire", "judge", "persist"} /\ r.best # Nobody => r.best \in r.own
  /\ r.pc \in {"persist", "finish"} => r.best # Nobody
  /\ r.pc \in {"idle", "finish"} => r.own = {}
  /\ r.own \subseteq CandidateIds(r.cmd)

Imported == imp \in [Importers -> Imports] /\ \A i \in Importers : Good(imp[i])

(* Locks: an import holds all its candidates, a deletion its book.         *)
Locked ==
  /\ \A i \in Importers : imp[i].pc # "idle" =>
       \A b \in CandidateIds(imp[i].cmd) : owner[b] = i
  /\ \A n \in Deletions : del[n].pc \in {"remove", "commit", "remember", "cleanup", "refs"} =>
       del[n].book \in Books /\ owner[del[n].book] = n
  /\ \A n \in Deletions : \A b \in Books : owner[b] = n =>
       /\ del[n].book = b
       /\ del[n].pc \in {"remove", "commit", "remember", "cleanup", "refs"}

(* Where a book stands in the catalogue while it is worked on.             *)
Listed ==
  /\ \A i \in Importers : imp[i].pc = "finish" => imp[i].best \in catalog
  /\ \A n \in Deletions : del[n].pc \in {"commit", "remember", "cleanup", "refs"} =>
       del[n].book \notin catalog

Counted == \A n \in Deletions : sweep[n].pc # "none" => sweep[n].left > 0

(* Where no removal failed, an import owns the best candidate and the one  *)
(* it judges, and no others.                                               *)
Neat(r, b) ==
  b \in r.own =>
    /\ r.pc = "judge" => b \in {r.best, r.cmd[r.k]}
    /\ r.pc \in {"acquire", "persist"} => b = r.best

(* Whose files there may be of a book that is not in the library.          *)
Tidy(b) ==
  b \notin catalog =>
    /\ owner[b] = Nobody => b \notin files /\ b \notin refs
    /\ \A i \in Importers : owner[b] = i =>
         b \notin refs /\ (b \in files => b \in imp[i].own) /\ Neat(imp[i], b)
    /\ \A n \in Deletions : owner[b] = n =>
         /\ del[n].pc = "remove" => b \notin files /\ b \notin refs
         /\ del[n].pc = "refs" => b \notin files
Full == room = [faults |-> MaxFaults, crashes |-> MaxCrashes]
Tidied == Full => \A b \in Books : Tidy(b)

LifeInv == LifeTypeOK /\ Imported /\ Locked /\ Listed /\ Counted /\ Tidied

(* Nothing is spent where nothing had been.                                *)
LEMMA Spending ==
  ASSUME LifeTypeOK, NEW what \in {"faults", "crashes"}, SpendRoom(what)
  PROVE  room' \in [faults : 0 .. MaxFaults, crashes : 0 .. MaxCrashes] /\ ~Full'
<1>1. MaxFaults \in Nat /\ MaxCrashes \in Nat
  BY LifecycleAssumption
<1>2. room \in [faults : 0 .. MaxFaults, crashes : 0 .. MaxCrashes]
  BY DEF LifeTypeOK
<1>3. room[what] > 0 /\ room' = [room EXCEPT ![what] = @ - 1]
  BY DEF SpendRoom
<1>4. CASE what = "faults"
  <2>1. room.faults > 0 /\ room' = [room EXCEPT !.faults = @ - 1]
    BY <1>3, <1>4
  <2>2. room'.faults = room.faults - 1 /\ room.faults - 1 # MaxFaults
    BY <1>1, <1>2, <2>1
  <2> QED BY <1>1, <1>2, <2>1, <2>2 DEF Full
<1>5. CASE what = "crashes"
  <2>1. room.crashes > 0 /\ room' = [room EXCEPT !.crashes = @ - 1]
    BY <1>3, <1>5
  <2>2. room'.crashes = room.crashes - 1 /\ room.crashes - 1 # MaxCrashes
    BY <1>1, <1>2, <2>1
  <2> QED BY <1>1, <1>2, <2>1, <2>2 DEF Full
<1> QED BY <1>4, <1>5

LEMMA OnwardGood ==
  ASSUME NEW r \in Imports, r.cmd \in Commands, r.k \in 1 .. Len(r.cmd),
         r.best = Nobody => r.good = FALSE,
         r.best # Nobody => \E j \in 1 .. Len(r.cmd) : j < r.k + 1 /\ r.cmd[j] = r.best,
         r.own \subseteq CandidateIds(r.cmd), r.best # Nobody => r.best \in r.own
  PROVE  /\ Good(Onward(r)) /\ Onward(r).cmd = r.cmd /\ Onward(r).own = r.own
         /\ Onward(r).best = r.best /\ Onward(r).pc \in {"fail", "persist", "acquire"}
         /\ Onward(r).k = r.k + 1
<1> DEFINE pc == IF r.best = Nobody /\ r.k >= Len(r.cmd) THEN "fail"
                 ELSE IF r.good \/ r.k >= Len(r.cmd) THEN "persist" ELSE "acquire"
           q  == [r EXCEPT !.pc = pc, !.k = r.k + 1]
<1>1. Onward(r) = q
  BY DEF Onward
<1>2. /\ Len(r.cmd) \in Nat /\ r.k \in Nat /\ CandidateIds(r.cmd) \subseteq Books
      /\ \A j \in 1 .. Len(r.cmd) : r.cmd[j] \in CandidateIds(r.cmd)
  BY CandidateFacts
<1>3. /\ pc \in {"fail", "persist", "acquire"}
      /\ pc = "persist" => r.best # Nobody
      /\ pc = "acquire" => r.k + 1 \in 1 .. Len(r.cmd)
  BY <1>2 DEF Imports
<1> HIDE DEF pc
<1>4. /\ q \in Imports /\ q.pc = pc /\ q.k = r.k + 1 /\ q.cmd = r.cmd /\ q.best = r.best
      /\ q.good = r.good /\ q.own = r.own
  <2>1. r.k + 1 \in Nat /\ pc \in ImportPhases
    BY <1>2, <1>3 DEF ImportPhases
  <2> QED BY <2>1 DEF Imports
<1> HIDE DEF q
<1>6. q.k <= Len(q.cmd) + 1
  BY <1>2, <1>4
<1>7. Good(q)
  BY <1>3, <1>4, <1>6 DEF Good
<1> QED BY <1>1, <1>3, <1>4, <1>7

(* A step of an import that stays with its candidates.                     *)
LEMMA ImportKeeps ==
  ASSUME LifeInv, NEW i \in Importers, NEW r, Good(r), imp[i].pc # "idle", r.pc # "idle",
         r.cmd = imp[i].cmd, imp' = [imp EXCEPT ![i] = r],
         UNCHANGED <<refs, pending, revision, published, tombstones, owner, del, sweep, feed,
                     removedBy>>,
         room' \in [faults : 0 .. MaxFaults, crashes : 0 .. MaxCrashes], Full' => Full,
         spoiled' \subseteq Books,
         catalog' \subseteq Books, files' \subseteq Books, catalog \subseteq catalog',
         \A b \in Books : owner[b] # i =>
           (b \in files' <=> b \in files) /\ (b \in catalog' <=> b \in catalog),
         r.pc = "finish" => r.best \in catalog',
         Full' => \A b \in Books :
           owner[b] = i /\ b \notin catalog' /\ (b \in files => b \in imp[i].own)
             /\ Neat(imp[i], b)
           => (b \in files' => b \in r.own) /\ Neat(r, b)
  PROVE  LifeInv'
<1>1. /\ imp' \in [Importers -> Imports]
      /\ imp'[i] = r /\ \A k \in Importers : k # i => imp'[k] = imp[k]
  BY DEF LifeInv, Imported, Good
<1>2. Imported'
  BY <1>1 DEF LifeInv, Imported
<1>3. LifeTypeOK'
  BY <1>1, <1>2 DEF LifeInv, LifeTypeOK, Imported, Imports, Good, ImportPhases, MaybeCommands, MaybeBooks,
     Holdings
<1>4. Locked'
  BY <1>1 DEF LifeInv, Locked
<1>5. Listed'
  <2>1. \A n \in Deletions : n # i
    BY NobodyElse
  <2> QED BY <1>1, <2>1 DEF LifeInv, Listed, Locked
<1>6. Counted'
  BY DEF LifeInv, Counted
<1>7. Tidied'
  <2> SUFFICES ASSUME Full', NEW b \in Books, b \notin catalog'
      PROVE  /\ owner'[b] = Nobody => b \notin files' /\ b \notin refs'
             /\ \A k \in Importers : owner'[b] = k =>
                  b \notin refs' /\ (b \in files' => b \in imp'[k].own) /\ Neat(imp'[k], b)
             /\ \A n \in Deletions : owner'[b] = n =>
                  /\ del'[n].pc = "remove" => b \notin files' /\ b \notin refs'
                  /\ del'[n].pc = "refs" => b \notin files'
    BY DEF Tidied, Tidy
  <2>1. Full /\ b \notin catalog
    OBVIOUS
  <2>2. Tidy(b)
    BY <2>1 DEF LifeInv, Tidied
  <2>3. i # Nobody /\ \A n \in Deletions : n # i
    BY NobodyElse
  <2> QED BY <1>1, <2>1, <2>2, <2>3 DEF Tidy
<1> QED BY <1>2, <1>3, <1>4, <1>5, <1>6, <1>7 DEF LifeInv

(* What an import's steps that spend nothing leave of the types.           *)
LEMMA NothingSpent ==
  ASSUME LifeInv, UNCHANGED room
  PROVE  room' \in [faults : 0 .. MaxFaults, crashes : 0 .. MaxCrashes] /\ (Full' => Full)
BY DEF LifeInv, LifeTypeOK, Full

(* What a working import has, said of its fields.                          *)
LEMMA AtWork ==
  ASSUME LifeInv, NEW i \in Importers, imp[i].pc # "idle"
  PROVE  /\ Good(imp[i]) /\ imp[i] \in Imports /\ imp[i].cmd \in Commands
         /\ imp[i].cmd \in Commands /\ CandidateIds(imp[i].cmd) \subseteq Books
         /\ \A b \in CandidateIds(imp[i].cmd) : owner[b] = i
         /\ Len(imp[i].cmd) \in Nat
         /\ imp[i].pc \in {"acquire", "judge"} =>
              imp[i].k \in 1 .. Len(imp[i].cmd) /\ Candidate(i) \in CandidateIds(imp[i].cmd)
         /\ imp[i].best # Nobody => imp[i].best \in CandidateIds(imp[i].cmd)
         /\ Nobody \notin CandidateIds(imp[i].cmd)
         /\ files \subseteq Books /\ catalog \subseteq Books
<1>1. Good(imp[i]) /\ imp[i] \in Imports /\ imp[i].cmd \in Commands
  BY DEF LifeInv, Imported, Good
<1>2. /\ CandidateIds(imp[i].cmd) \subseteq Books /\ Len(imp[i].cmd) \in Nat
      /\ \A k \in 1 .. Len(imp[i].cmd) : imp[i].cmd[k] \in CandidateIds(imp[i].cmd)
  BY <1>1, CandidateFacts
<1>3. \A b \in CandidateIds(imp[i].cmd) : owner[b] = i
  BY DEF LifeInv, Locked
<1>4. files \subseteq Books /\ catalog \subseteq Books
  BY DEF LifeInv, LifeTypeOK
<1> QED BY <1>1, <1>2, <1>3, <1>4, NobodyElse DEF Good, Candidate

LEMMA AcquireKeeps ==
  ASSUME LifeInv, NEW i \in Importers, Acquire(i)
  PROVE  LifeInv'
<1>1. imp[i].pc = "acquire" /\ imp[i].k <= Len(imp[i].cmd) /\ Available(i)
      /\ files' = files \union {Candidate(i)} /\ spoiled' = spoiled \ {Candidate(i)}
      /\ imp' = [imp EXCEPT ![i].pc = "judge", ![i].own = @ \union {Candidate(i)}]
      /\ UNCHANGED <<catalog, refs, pending, revision, published, tombstones, owner, del, sweep,
                     feed, removedBy, room>>
  BY DEF Acquire, stores
<1>2. imp[i].pc # "idle"
  BY <1>1
<1> DEFINE own == imp[i].own \union {Candidate(i)}
           r == [imp[i] EXCEPT !.pc = "judge", !.own = own]
<1>3. imp' = [imp EXCEPT ![i] = r]
  BY <1>1
<1>4. /\ Good(imp[i]) /\ imp[i] \in Imports /\ CandidateIds(imp[i].cmd) \subseteq Books
      /\ imp[i].k \in 1 .. Len(imp[i].cmd) /\ Candidate(i) \in CandidateIds(imp[i].cmd)
      /\ owner[Candidate(i)] = i
  BY <1>1, <1>2, AtWork
<1>5. own \in Holdings /\ "judge" \in ImportPhases
  BY <1>4 DEF Imports, Holdings, ImportPhases
<1> HIDE DEF own
<1>6. /\ r \in Imports /\ r.pc = "judge" /\ r.own = own /\ r.cmd = imp[i].cmd /\ r.k = imp[i].k
      /\ r.best = imp[i].best /\ r.good = imp[i].good
  BY <1>4, <1>5 DEF Imports
<1> HIDE DEF r
<1>7. Candidate(i) # imp[i].best
  BY <1>1, <1>4, NobodyElse DEF Good, Available, Candidate
<1>8. Good(r)
  BY <1>1, <1>4, <1>6, <1>7 DEF Good, Candidate, own
<1>9. files' \subseteq Books /\ spoiled' \subseteq Books
  BY <1>1, <1>4 DEF LifeInv, LifeTypeOK
<1>10. \A b \in Books : owner[b] # i => (b \in files' <=> b \in files)
  BY <1>1, <1>4
<1>11. \A b \in Books : (b \in files => b \in imp[i].own) /\ Neat(imp[i], b)
         => (b \in files' => b \in r.own) /\ Neat(r, b)
  BY <1>1, <1>6 DEF own, Neat, Candidate
<1>12. catalog' = catalog /\ catalog' \subseteq Books /\ r.pc # "finish" /\ r.pc # "idle"
  BY <1>1, <1>6 DEF LifeInv, LifeTypeOK
<1> QED
  BY <1>1, <1>2, <1>3, <1>6, <1>8, <1>9, <1>10, <1>11, <1>12, NothingSpent, ImportKeeps

LEMMA PassOverKeeps ==
  ASSUME LifeInv, NEW i \in Importers, PassOver(i)
  PROVE  LifeInv'
<1>1. /\ imp[i].pc = "acquire"
      /\ imp' = [imp EXCEPT ![i] = IF imp[i].k = 1 THEN [imp[i] EXCEPT !.pc = "fail"]
                                   ELSE Onward(imp[i])]
      /\ UNCHANGED <<catalog, files, refs, pending, revision, published, tombstones, owner, del,
                     sweep, feed, removedBy, spoiled, room>>
  BY DEF PassOver, stores
<1>2. imp[i].pc # "idle"
  BY <1>1
<1>3. /\ Good(imp[i]) /\ imp[i] \in Imports /\ imp[i].cmd \in Commands
      /\ imp[i].k \in 1 .. Len(imp[i].cmd) /\ Len(imp[i].cmd) \in Nat
      /\ files \subseteq Books /\ catalog \subseteq Books
  BY <1>1, <1>2, AtWork
<1> DEFINE q == [imp[i] EXCEPT !.pc = "fail"]
           r == IF imp[i].k = 1 THEN q ELSE Onward(imp[i])
<1>4. /\ q \in Imports /\ q.pc = "fail" /\ q.own = imp[i].own /\ q.cmd = imp[i].cmd
      /\ q.k = imp[i].k /\ q.best = imp[i].best /\ q.good = imp[i].good
  BY <1>3 DEF Imports, ImportPhases
<1>5. imp' = [imp EXCEPT ![i] = r]
  BY <1>1
<1> HIDE DEF q
<1>6. Good(q)
  BY <1>1, <1>3, <1>4 DEF Good
<1>7. /\ imp[i].best = Nobody => imp[i].good = FALSE
      /\ imp[i].own \subseteq CandidateIds(imp[i].cmd)
      /\ imp[i].best # Nobody => imp[i].best \in imp[i].own
      /\ imp[i].best # Nobody =>
           \E j \in 1 .. Len(imp[i].cmd) : j < imp[i].k + 1 /\ imp[i].cmd[j] = imp[i].best
  BY <1>1, <1>3 DEF Good
<1>8. /\ Good(Onward(imp[i])) /\ Onward(imp[i]).cmd = imp[i].cmd
      /\ Onward(imp[i]).own = imp[i].own /\ Onward(imp[i]).pc \in {"fail", "persist", "acquire"}
      /\ Onward(imp[i]).best = imp[i].best
  BY <1>3, <1>7, OnwardGood
<1>9. Good(r) /\ r.cmd = imp[i].cmd /\ r.own = imp[i].own /\ r.pc \in {"fail", "persist", "acquire"}
      /\ r.best = imp[i].best
  BY <1>4, <1>6, <1>8
<1> HIDE DEF r
<1>10. \A b \in Books : Neat(imp[i], b) => Neat(r, b)
  BY <1>1, <1>9 DEF Neat
<1>11. spoiled' \subseteq Books
  BY <1>1 DEF LifeInv, LifeTypeOK
<1> QED
  BY <1>1, <1>2, <1>3, <1>5, <1>9, <1>10, <1>11, NothingSpent, ImportKeeps

(* A candidate's file is dropped and the search goes on.                   *)
LEMMA DropKeeps ==
  ASSUME LifeInv, NEW i \in Importers, imp[i].pc = "judge",
         NEW S, S \subseteq MaybeBooks, Drop(i, S),
         NEW r, r \in Imports, r.pc = "judge", r.cmd = imp[i].cmd, r.k = imp[i].k,
         r.own = imp[i].own \ S,
         \/ r.best = imp[i].best /\ r.good = imp[i].good /\ S = {Candidate(i)}
         \/ r.best = Candidate(i) /\ S = {imp[i].best},
         NEW q, q = Onward(r), imp' = [imp EXCEPT ![i] = q]
  PROVE  LifeInv'
<1>1. /\ files' = files \ (S \intersect imp[i].own)
      /\ spoiled' = spoiled \union (S \intersect imp[i].own \intersect Refreshed(i))
      /\ UNCHANGED <<catalog, refs, pending, revision, published, tombstones, owner, del, sweep,
                     feed, removedBy, room>>
  BY DEF Drop, TakeAway, stores
<1>2. imp[i].pc # "idle"
  OBVIOUS
<1>3. /\ Good(imp[i]) /\ imp[i] \in Imports /\ imp[i].cmd \in Commands
      /\ imp[i].k \in 1 .. Len(imp[i].cmd) /\ Len(imp[i].cmd) \in Nat
      /\ Candidate(i) \in CandidateIds(imp[i].cmd) /\ CandidateIds(imp[i].cmd) \subseteq Books
      /\ \A b \in CandidateIds(imp[i].cmd) : owner[b] = i
      /\ files \subseteq Books /\ catalog \subseteq Books
  BY <1>2, AtWork
<1>4. /\ Candidate(i) = imp[i].cmd[imp[i].k] /\ Candidate(i) # imp[i].best /\ Candidate(i) # Nobody
      /\ Candidate(i) \in imp[i].own
      /\ (imp[i].best # Nobody => imp[i].best \in imp[i].own)
      /\ imp[i].own \subseteq CandidateIds(imp[i].cmd)
      /\ (imp[i].best = Nobody => imp[i].good = FALSE)
      /\ (imp[i].best # Nobody =>
            \E j \in 1 .. Len(imp[i].cmd) : j < imp[i].k /\ imp[i].cmd[j] = imp[i].best)
  BY <1>3, NobodyElse DEF Good, Candidate
<1>7. /\ (r.best = Nobody => r.good = FALSE)
      /\ r.own \subseteq CandidateIds(r.cmd) /\ (r.best # Nobody => r.best \in r.own)
  BY <1>4
<1>8. r.best # Nobody => \E j \in 1 .. Len(r.cmd) : j < r.k + 1 /\ r.cmd[j] = r.best
  BY <1>3, <1>4
<1>9. r.cmd \in Commands /\ r.k \in 1 .. Len(r.cmd)
  BY <1>3
<1>10. /\ Good(Onward(r)) /\ Onward(r).cmd = imp[i].cmd /\ Onward(r).own = imp[i].own \ S
       /\ Onward(r).pc \in {"fail", "persist", "acquire"} /\ Onward(r).best = r.best
  BY <1>7, <1>8, <1>9, OnwardGood
<1>11. /\ files' \subseteq Books /\ catalog' \subseteq Books /\ catalog' = catalog
       /\ spoiled' \subseteq Books
       /\ \A b \in Books : owner[b] # i => (b \in files' <=> b \in files)
       /\ \A b \in Books : (b \in files => b \in imp[i].own) => (b \in files' => b \in imp[i].own \ S)
  BY <1>1, <1>3, <1>4 DEF Refreshed, LifeInv, LifeTypeOK
<1>12. Good(q) /\ q.cmd = imp[i].cmd /\ q.own = imp[i].own \ S /\ q.pc # "idle" /\ q.pc # "finish"
       /\ imp' = [imp EXCEPT ![i] = q] /\ q.best = r.best /\ q.pc \in {"fail", "persist", "acquire"}
  BY <1>10
<1>13. \A b \in Books : Neat(imp[i], b) => Neat(q, b)
  <2> SUFFICES ASSUME NEW b \in Books, Neat(imp[i], b), b \in q.own, q.pc # "fail"
      PROVE  b = q.best
    BY <1>12 DEF Neat
  <2>1. b \in imp[i].own /\ b \notin S
    BY <1>12
  <2>2. b \in {imp[i].best, Candidate(i)}
    BY <1>4, <2>1 DEF Neat
  <2> QED BY <1>12, <2>1, <2>2
<1> QED
  BY <1>1, <1>2, <1>11, <1>12, <1>13, NothingSpent, ImportKeeps

LEMMA RejectKeeps ==
  ASSUME LifeInv, NEW i \in Importers, Reject(i)
  PROVE  LifeInv'
<1> DEFINE r == [imp[i] EXCEPT !.own = imp[i].own \ {Candidate(i)}]
           q == Onward(r)
<1>1. /\ imp[i].pc = "judge" /\ Drop(i, {Candidate(i)}) /\ imp' = [imp EXCEPT ![i] = q]
  BY DEF Reject
<1>2. q = Onward(r)
  OBVIOUS
<1> HIDE DEF q
<1>3. imp[i] \in Imports /\ {Candidate(i)} \subseteq MaybeBooks
  BY <1>1, AtWork DEF MaybeBooks
<1>4. imp[i].own \ {Candidate(i)} \in Holdings
  BY <1>3 DEF Imports, Holdings
<1>5. /\ r \in Imports /\ r.pc = "judge" /\ r.cmd = imp[i].cmd /\ r.k = imp[i].k
      /\ r.own = imp[i].own \ {Candidate(i)} /\ r.best = imp[i].best /\ r.good = imp[i].good
  BY <1>1, <1>3, <1>4 DEF Imports
<1> HIDE DEF r
<1> QED
  BY <1>1, <1>2, <1>3, <1>5, DropKeeps

LEMMA PreferKeeps ==
  ASSUME LifeInv, NEW i \in Importers, Prefer(i)
  PROVE  LifeInv'
<1>1. imp[i].pc = "judge"
  BY DEF Prefer
<1>2. PICK good \in BOOLEAN :
        /\ Drop(i, {imp[i].best})
        /\ imp' = [imp EXCEPT ![i] = Onward([imp[i] EXCEPT !.own = imp[i].own \ {imp[i].best},
                                                         !.best = Candidate(i), !.good = good])]
  BY DEF Prefer
<1> DEFINE r == [imp[i] EXCEPT !.own = imp[i].own \ {imp[i].best}, !.best = Candidate(i),
                              !.good = good]
           q == Onward(r)
<1>3. imp' = [imp EXCEPT ![i] = q] /\ q = Onward(r)
  BY <1>2
<1> HIDE DEF q
<1>4. /\ imp[i] \in Imports /\ {imp[i].best} \subseteq MaybeBooks
  BY <1>1, AtWork DEF Imports
<1>5. imp[i].own \ {imp[i].best} \in Holdings /\ Candidate(i) \in MaybeBooks
  BY <1>1, <1>4, AtWork DEF Imports, Holdings, MaybeBooks
<1>6. /\ r \in Imports /\ r.pc = "judge" /\ r.cmd = imp[i].cmd /\ r.k = imp[i].k
      /\ r.own = imp[i].own \ {imp[i].best} /\ r.best = Candidate(i)
  BY <1>1, <1>4, <1>5 DEF Imports
<1> HIDE DEF r
<1> QED
  BY <1>1, <1>2, <1>3, <1>4, <1>6, DropKeeps

LEMMA PersistKeeps ==
  ASSUME LifeInv, NEW i \in Importers, Persist(i)
  PROVE  LifeInv'
<1> DEFINE r == [imp[i] EXCEPT !.pc = "finish", !.own = {}]
<1>1. /\ imp[i].pc = "persist" /\ catalog' = catalog \union {imp[i].best}
      /\ imp' = [imp EXCEPT ![i] = r]
      /\ UNCHANGED <<files, refs, pending, revision, published, tombstones, owner, del, sweep,
                     feed, removedBy, spoiled, room>>
  BY DEF Persist
<1>2. imp[i].pc # "idle"
  BY <1>1
<1>3. /\ Good(imp[i]) /\ imp[i] \in Imports
      /\ imp[i].best \in Books /\ owner[imp[i].best] = i
      /\ files \subseteq Books /\ catalog \subseteq Books
  <2>1. /\ Good(imp[i]) /\ imp[i] \in Imports /\ imp[i].best # Nobody
        /\ files \subseteq Books /\ catalog \subseteq Books
    BY <1>1, <1>2, AtWork DEF Good
  <2>2. imp[i].best \in CandidateIds(imp[i].cmd) /\ CandidateIds(imp[i].cmd) \subseteq Books
    BY <1>2, <2>1, AtWork
  <2>3. \A b \in CandidateIds(imp[i].cmd) : owner[b] = i
    BY <1>2, AtWork
  <2> QED BY <2>1, <2>2, <2>3
<1>4. /\ r \in Imports /\ r.pc = "finish" /\ r.own = {} /\ r.cmd = imp[i].cmd
      /\ r.k = imp[i].k /\ r.best = imp[i].best /\ r.good = imp[i].good
  BY <1>3 DEF Imports, ImportPhases, Holdings
<1> HIDE DEF r
<1>5. Good(r)
  BY <1>1, <1>3, <1>4 DEF Good
<1>6. /\ catalog' \subseteq Books /\ files' \subseteq Books /\ catalog \subseteq catalog'
      /\ \A b \in Books : owner[b] # i =>
           (b \in files' <=> b \in files) /\ (b \in catalog' <=> b \in catalog)
      /\ r.best \in catalog'
  BY <1>1, <1>3, <1>4
<1>7. \A b \in Books :
        owner[b] = i /\ b \notin catalog' /\ (b \in files => b \in imp[i].own) /\ Neat(imp[i], b)
        => (b \in files' => b \in r.own) /\ Neat(r, b)
  BY <1>1, <1>4 DEF Neat
<1>8. spoiled' \subseteq Books
  BY <1>1 DEF LifeInv, LifeTypeOK
<1> QED
  BY <1>1, <1>2, <1>4, <1>5, <1>6, <1>7, <1>8, NothingSpent, ImportKeeps

(* A removal that fails leaves the candidate owned, and something spent.   *)
LEMMA RemovalFailsKeeps ==
  ASSUME LifeInv, NEW i \in Importers, RemovalFails(i)
  PROVE  LifeInv'
<1> DEFINE f == [imp[i] EXCEPT !.pc = "fail"]
           o == Onward(imp[i])
           r == IF imp[i].k = 1 THEN f ELSE o
<1>1. /\ imp[i].pc = "judge" /\ SpendRoom("faults") /\ imp' = [imp EXCEPT ![i] = r]
      /\ UNCHANGED <<catalog, files, refs, pending, revision, published, tombstones, owner, del,
                     sweep, feed, removedBy, spoiled>>
  BY DEF RemovalFails, stores
<1>2. /\ Good(imp[i]) /\ imp[i] \in Imports /\ imp[i].cmd \in Commands
      /\ imp[i].k \in 1 .. Len(imp[i].cmd) /\ files \subseteq Books /\ catalog \subseteq Books
  BY <1>1, AtWork
<1>3. /\ f \in Imports /\ f.pc = "fail" /\ f.own = imp[i].own /\ f.cmd = imp[i].cmd
      /\ f.k = imp[i].k /\ f.best = imp[i].best /\ f.good = imp[i].good
  BY <1>2 DEF Imports, ImportPhases
<1> HIDE DEF f
<1>4. Good(f)
  BY <1>1, <1>2, <1>3 DEF Good
<1>5. /\ imp[i].best = Nobody => imp[i].good = FALSE
      /\ imp[i].own \subseteq CandidateIds(imp[i].cmd)
      /\ imp[i].best # Nobody => imp[i].best \in imp[i].own
      /\ imp[i].best # Nobody =>
           \E j \in 1 .. Len(imp[i].cmd) : j < imp[i].k + 1 /\ imp[i].cmd[j] = imp[i].best
  BY <1>1, <1>2 DEF Good
<1>6. Good(o) /\ o.cmd = imp[i].cmd /\ o.pc \in {"fail", "persist", "acquire"}
  BY <1>2, <1>5, OnwardGood
<1> HIDE DEF o
<1>7. Good(r) /\ r.cmd = imp[i].cmd /\ r.pc \in {"fail", "persist", "acquire"}
  BY <1>3, <1>4, <1>6
<1> HIDE DEF r
<1>8. /\ room' \in [faults : 0 .. MaxFaults, crashes : 0 .. MaxCrashes] /\ ~Full'
      /\ spoiled' \subseteq Books
  BY <1>1, Spending DEF LifeInv, LifeTypeOK
<1> QED BY <1>1, <1>2, <1>7, <1>8, ImportKeeps

LEMMA ImportErrorKeeps ==
  ASSUME LifeInv, NEW i \in Importers, ImportError(i)
  PROVE  LifeInv'
<1> DEFINE r == [imp[i] EXCEPT !.pc = "fail"]
<1>1. /\ imp[i].pc \in {"persist", "judge"} /\ imp' = [imp EXCEPT ![i] = r]
      /\ UNCHANGED <<catalog, files, refs, pending, revision, published, tombstones, owner, del,
                     sweep, feed, removedBy, spoiled, room>>
  BY DEF ImportError, stores
<1>2. imp[i].pc # "idle"
  BY <1>1
<1>3. /\ Good(imp[i]) /\ imp[i] \in Imports
      /\ files \subseteq Books /\ catalog \subseteq Books
  BY <1>1, <1>2, AtWork
<1>4. /\ r \in Imports /\ r.pc = "fail" /\ r.own = imp[i].own /\ r.cmd = imp[i].cmd
      /\ r.k = imp[i].k /\ r.best = imp[i].best /\ r.good = imp[i].good
  BY <1>3 DEF Imports, ImportPhases
<1> HIDE DEF r
<1>5. Good(r)
  BY <1>1, <1>3, <1>4 DEF Good
<1>6. (\A b \in Books : Neat(r, b)) /\ spoiled' \subseteq Books
  BY <1>1, <1>4 DEF Neat, LifeInv, LifeTypeOK
<1> QED
  BY <1>1, <1>2, <1>3, <1>4, <1>5, <1>6, NothingSpent, ImportKeeps

(* An import begins with the locks of all its candidates.                  *)
LEMMA IdleGood == Good(IdleImport) /\ IdleImport \in Imports
<1>1. IdleImport \in Imports
  BY DEF Imports, IdleImport, ImportPhases, MaybeCommands, MaybeBooks, Holdings
<1>2. Len(<<>>) = 0
  OBVIOUS
<1> QED BY <1>1, <1>2 DEF Good, IdleImport

LEMMA IdleOwns ==
  ASSUME LifeInv, NEW i \in Importers, imp[i].pc = "idle"
  PROVE  imp[i].own = {}
  BY DEF LifeInv, Imported, Good

LEMMA ImportStartKeeps ==
  ASSUME LifeInv, NEW i \in Importers, NEW c \in Commands, ImportStart(i, c)
  PROVE  LifeInv'
<1> DEFINE r == [IdleImport EXCEPT !.pc = "acquire", !.cmd = c, !.k = 1]
<1>1. /\ imp[i].pc = "idle" /\ \A b \in CandidateIds(c) : owner[b] = Nobody
      /\ owner' = [b \in Books |-> IF b \in CandidateIds(c) THEN i ELSE owner[b]]
      /\ tombstones' = tombstones \ {c[1]}
      /\ imp' = [imp EXCEPT ![i] = r]
      /\ UNCHANGED <<catalog, refs, pending, revision, published, files, del, sweep, feed,
                     removedBy, spoiled, room>>
  BY DEF ImportStart, stores
<1>2. Len(c) \in Nat /\ Len(c) > 0 /\ CandidateIds(c) \subseteq Books
  BY CandidateFacts
<1>3. /\ r \in Imports /\ r.pc = "acquire" /\ r.own = {} /\ r.cmd = c
      /\ r.k = 1 /\ r.best = Nobody /\ r.good = FALSE
  BY DEF Imports, IdleImport, ImportPhases, MaybeCommands, MaybeBooks, Holdings
<1> HIDE DEF r
<1>4. Good(r)
  BY <1>2, <1>3 DEF Good
<1>5. /\ imp' \in [Importers -> Imports]
      /\ imp'[i] = r /\ \A k \in Importers : k # i => imp'[k] = imp[k]
  BY <1>1, <1>3 DEF LifeInv, Imported
<1>6. Imported'
  BY <1>4, <1>5 DEF LifeInv, Imported
<1>7. owner' \in [Books -> Importers \union Deletions \union {Nobody}]
  BY <1>1 DEF LifeInv, LifeTypeOK
<1>8. LifeTypeOK'
  BY <1>1, <1>5, <1>6, <1>7 DEF LifeInv, LifeTypeOK, Imported, Imports, Good, ImportPhases, MaybeCommands,
     MaybeBooks, Holdings
<1>9. i # Nobody /\ \A n \in Deletions : n # i /\ n # Nobody
  BY NobodyElse
<1>10. \A b \in Books : owner'[b] = IF b \in CandidateIds(c) THEN i ELSE owner[b]
  BY <1>1
<1>11. \A k \in Importers : k # Nobody
  BY NobodyElse
<1>12. Locked'
  <2>1. \A k \in Importers : imp'[k].pc # "idle" =>
          \A b \in CandidateIds(imp'[k].cmd) : owner'[b] = k
    <3> SUFFICES ASSUME NEW k \in Importers, imp'[k].pc # "idle", NEW b \in CandidateIds(imp'[k].cmd)
        PROVE  owner'[b] = k
      OBVIOUS
    <3>1. CASE k = i
      BY <1>2, <1>3, <1>5, <1>10, <3>1
    <3>2. CASE k # i
      <4>1. imp[k].pc # "idle" /\ b \in CandidateIds(imp[k].cmd)
        BY <1>5, <3>2
      <4>2. owner[b] = k /\ b \in Books
        BY <4>1, AtWork
      <4> QED BY <1>1, <1>10, <1>11, <4>2
    <3> QED BY <3>1, <3>2
  <2>2. \A n \in Deletions : del'[n] = del[n]
    BY <1>1
  <2> QED BY <1>1, <1>9, <1>10, <2>1, <2>2 DEF LifeInv, Locked
<1>13. Listed'
  BY <1>1, <1>3, <1>5 DEF LifeInv, Listed
<1>14. Counted'
  BY <1>1 DEF LifeInv, Counted
<1>15. Tidied'
  <2> SUFFICES ASSUME Full', NEW b \in Books, b \notin catalog'
      PROVE  /\ owner'[b] = Nobody => b \notin files' /\ b \notin refs'
             /\ \A k \in Importers : owner'[b] = k =>
                  b \notin refs' /\ (b \in files' => b \in imp'[k].own) /\ Neat(imp'[k], b)
             /\ \A n \in Deletions : owner'[b] = n =>
                  /\ del'[n].pc = "remove" => b \notin files' /\ b \notin refs'
                  /\ del'[n].pc = "refs" => b \notin files'
    BY DEF Tidied, Tidy
  <2>1. Full /\ b \notin catalog
    BY <1>1 DEF Full
  <2>2. Tidy(b)
    BY <2>1 DEF LifeInv, Tidied
  <2>3. CASE b \in CandidateIds(c)
    BY <1>1, <1>3, <1>5, <1>9, <1>10, <2>1, <2>2, <2>3 DEF Tidy, Neat
  <2>4. CASE b \notin CandidateIds(c)
    <3>1. owner'[b] = owner[b]
      BY <1>10, <2>4
    <3>2. owner[b] = i => b \notin files
      BY <1>1, <2>1, <2>2, IdleOwns DEF Tidy
    <3>3. Neat(r, b)
      BY <1>3 DEF Neat
    <3> QED BY <1>1, <1>5, <2>1, <2>2, <3>1, <3>2, <3>3 DEF Tidy
  <2> QED BY <2>3, <2>4
<1> QED BY <1>6, <1>8, <1>12, <1>13, <1>14, <1>15 DEF LifeInv

(* An import ends, and gives its candidates back.                          *)
LEMMA Released ==
  ASSUME LifeInv, NEW x \in Importers \union Deletions, Release(x)
  PROVE  /\ owner' \in [Books -> Importers \union Deletions \union {Nobody}]
         /\ \A b \in Books : owner'[b] = IF owner[b] = x THEN Nobody ELSE owner[b]
         /\ x # Nobody
  BY NobodyElse DEF LifeInv, LifeTypeOK, Release

LEMMA ImportEnds ==
  ASSUME LifeInv, NEW i \in Importers, imp[i].pc # "idle",
         imp' = [imp EXCEPT ![i] = IdleImport], Release(i),
         UNCHANGED <<catalog, pending, revision, published, del, sweep, feed, removedBy>>,
         spoiled' \subseteq Books, tombstones' \subseteq Books, refs' \subseteq Books, files' \subseteq Books,
         room' \in [faults : 0 .. MaxFaults, crashes : 0 .. MaxCrashes],
         Full' => Full,
         Full' => \A b \in Books \ catalog :
           /\ b \in refs' => b \in refs
           /\ b \in files' => b \in files /\ b \notin imp[i].own
  PROVE  LifeInv'
<1>1. /\ imp' \in [Importers -> Imports]
      /\ imp'[i] = IdleImport /\ \A k \in Importers : k # i => imp'[k] = imp[k]
  BY IdleGood DEF LifeInv, Imported
<1>2. Imported'
  BY <1>1, IdleGood DEF LifeInv, Imported
<1>3. /\ owner' \in [Books -> Importers \union Deletions \union {Nobody}]
      /\ \A b \in Books : owner'[b] = IF owner[b] = i THEN Nobody ELSE owner[b]
      /\ i # Nobody
  BY Released
<1>4. IdleImport.pc = "idle" /\ \A n \in Deletions : n # i /\ n # Nobody
  BY NobodyElse DEF IdleImport
<1>5. LifeTypeOK'
  BY <1>1, <1>2, <1>3 DEF LifeInv, LifeTypeOK, Imported, Imports, Good, ImportPhases, MaybeCommands,
     MaybeBooks, Holdings
<1>6. Locked'
  <2>1. \A k \in Importers : imp'[k].pc # "idle" =>
          \A b \in CandidateIds(imp'[k].cmd) : owner'[b] = k
    <3> SUFFICES ASSUME NEW k \in Importers, imp'[k].pc # "idle", NEW b \in CandidateIds(imp'[k].cmd)
        PROVE  owner'[b] = k
      OBVIOUS
    <3>1. k # i /\ imp'[k] = imp[k]
      BY <1>1, <1>4
    <3>2. owner[b] = k /\ b \in Books
      BY <3>1, AtWork
    <3> QED BY <1>3, <3>1, <3>2
  <2> QED BY <1>3, <1>4, <2>1 DEF LifeInv, Locked
<1>7. Listed'
  BY <1>1, <1>4 DEF LifeInv, Listed
<1>8. Counted'
  BY DEF LifeInv, Counted
<1>9. Tidied'
  <2> SUFFICES ASSUME Full', NEW b \in Books, b \notin catalog'
      PROVE  /\ owner'[b] = Nobody => b \notin files' /\ b \notin refs'
             /\ \A k \in Importers : owner'[b] = k =>
                  b \notin refs' /\ (b \in files' => b \in imp'[k].own) /\ Neat(imp'[k], b)
             /\ \A n \in Deletions : owner'[b] = n =>
                  /\ del'[n].pc = "remove" => b \notin files' /\ b \notin refs'
                  /\ del'[n].pc = "refs" => b \notin files'
    BY DEF Tidied, Tidy
  <2>1. Full /\ b \notin catalog /\ (b \in refs' => b \in refs)
        /\ (b \in files' => b \in files /\ b \notin imp[i].own)
    OBVIOUS
  <2>2. Tidy(b)
    BY <2>1 DEF LifeInv, Tidied
  <2>3. \A k \in Importers : k # Nobody
    BY NobodyElse
  <2>4. CASE owner[b] = i
    BY <1>3, <1>4, <2>1, <2>2, <2>3, <2>4 DEF Tidy
  <2>5. CASE owner[b] # i
    BY <1>1, <1>3, <1>4, <2>1, <2>2, <2>3, <2>5 DEF Tidy
  <2> QED BY <2>4, <2>5
<1> QED BY <1>2, <1>5, <1>6, <1>7, <1>8, <1>9 DEF LifeInv

LEMMA ImportFailKeeps ==
  ASSUME LifeInv, NEW i \in Importers, ImportFail(i)
  PROVE  LifeInv'
<1>1. /\ imp[i].pc # "idle" /\ imp' = [imp EXCEPT ![i] = IdleImport] /\ Release(i)
      /\ UNCHANGED <<catalog, refs, pending, revision, published, tombstones, del, sweep, feed,
                     removedBy>>
      /\ \/ files' = files \ imp[i].own /\ UNCHANGED room
         \/ SpendRoom("faults") /\ UNCHANGED files
      /\ spoiled' \subseteq spoiled \union catalog
  BY DEF ImportFail, TakeAway, Refreshed, stores
<1>2. /\ room' \in [faults : 0 .. MaxFaults, crashes : 0 .. MaxCrashes]
      /\ Full' => Full /\ files' = files \ imp[i].own
  BY <1>1, Spending DEF LifeInv, LifeTypeOK, Full
<1>3. /\ tombstones' \subseteq Books /\ refs' \subseteq Books /\ files' \subseteq Books
      /\ spoiled' \subseteq Books
  BY <1>1 DEF LifeInv, LifeTypeOK
<1> QED BY <1>1, <1>2, <1>3, ImportEnds

LEMMA ImportFinishKeeps ==
  ASSUME LifeInv, NEW i \in Importers, ImportFinish(i)
  PROVE  LifeInv'
<1>1. /\ imp[i].pc = "finish" /\ imp' = [imp EXCEPT ![i] = IdleImport] /\ Release(i)
      /\ tombstones' = tombstones \ {imp[i].best} /\ refs' = refs \union {imp[i].best}
      /\ UNCHANGED <<catalog, files, pending, revision, published, del, sweep, feed, removedBy, spoiled, room>>
  BY DEF ImportFinish
<1>2. imp[i].pc # "idle"
  BY <1>1
<1>3. imp[i].best \in catalog /\ imp[i].own = {} /\ catalog \subseteq Books
  BY <1>1 DEF LifeInv, Listed, Imported, Good, LifeTypeOK
<1>4. room' \in [faults : 0 .. MaxFaults, crashes : 0 .. MaxCrashes] /\ (Full' => Full)
  BY <1>1 DEF LifeInv, LifeTypeOK, Full
<1>5. /\ tombstones' \subseteq Books /\ refs' \subseteq Books /\ files' \subseteq Books
      /\ spoiled' \subseteq Books
  BY <1>1, <1>3 DEF LifeInv, LifeTypeOK
<1>6. Full' => \A b \in Books \ catalog :
        /\ b \in refs' => b \in refs
        /\ b \in files' => b \in files /\ b \notin imp[i].own
  BY <1>1, <1>3
<1>7. /\ imp' = [imp EXCEPT ![i] = IdleImport] /\ Release(i)
      /\ UNCHANGED <<catalog, pending, revision, published, del, sweep, feed, removedBy>>
  BY <1>1
<1> QED BY <1>2, <1>4, <1>5, <1>6, <1>7, ImportEnds

(* A deletion that goes on holds its book.                                 *)
Working == {"remove", "commit", "remember", "cleanup", "refs"}

LEMMA AtDeletion ==
  ASSUME LifeInv, NEW n \in Deletions, del[n].pc \in Working
  PROVE  /\ del[n].book \in Books /\ owner[del[n].book] = n
         /\ del[n].pc # "remove" => del[n].book \notin catalog
  BY DEF LifeInv, Locked, Listed, Working

DelPcs == {"none", "remove", "commit", "remember", "cleanup", "refs", "deleted", "ended"}

LEMMA StepTo ==
  ASSUME LifeInv, NEW n \in Deletions, NEW pc \in DelPcs, Step(n, pc)
  PROVE  /\ del' \in [Deletions -> [pc : DelPcs, book : MaybeBooks]]
         /\ del'[n].pc = pc /\ del'[n].book = del[n].book
         /\ \A m \in Deletions : m # n => del'[m] = del[m]
<1>1. /\ del \in [Deletions -> [pc : DelPcs, book : MaybeBooks]]
      /\ del' = [del EXCEPT ![n].pc = pc]
  BY DEF LifeInv, LifeTypeOK, Step, DelPcs, MaybeBooks
<1> QED BY <1>1

LEMMA DeletionKeeps ==
  ASSUME LifeInv, NEW n \in Deletions, del[n].pc \in Working, NEW pc \in Working \ {"remove"},
         Step(n, pc), UNCHANGED <<owner, imp, feed, spoiled>>,
         catalog' \subseteq Books, files' \subseteq Books, refs' \subseteq Books,
         tombstones' \subseteq Books, pending' \subseteq Deletions, revision' \in Nat,
         published' \in [Books -> [n : 0 .. MaxDeletes, rev : Nat]],
         sweep' \in [Deletions -> [pc : {"none", "armed", "checking", "removing"}, left : 0 .. Sweeps]],
         Counted', removedBy' \in [Books -> 0 .. MaxDeletes],
         room' \in [faults : 0 .. MaxFaults, crashes : 0 .. MaxCrashes],
         del[n].book \notin catalog', \A b \in Books \ {del[n].book} : b \in catalog' <=> b \in catalog,
         Full' => Full,
         Full' => \A b \in Books \ {del[n].book} :
                   (b \in files' => b \in files) /\ (b \in refs' => b \in refs),
         Full' => (pc = "refs" => del[n].book \notin files')
  PROVE  LifeInv'
<1>1. del[n].book \in Books /\ owner[del[n].book] = n
  BY AtDeletion
<1>2. /\ del' \in [Deletions -> [pc : DelPcs, book : MaybeBooks]]
      /\ del'[n].pc = pc /\ del'[n].book = del[n].book
      /\ \A m \in Deletions : m # n => del'[m] = del[m]
  BY StepTo DEF Working, DelPcs
<1>3. Imported'
  BY DEF LifeInv, Imported
<1>4. LifeTypeOK'
  BY <1>2 DEF LifeInv, LifeTypeOK, DelPcs, MaybeBooks
<1>5. Locked'
  <2>1. \A k \in Importers : imp'[k].pc # "idle" =>
          \A b \in CandidateIds(imp'[k].cmd) : owner'[b] = k
    BY DEF LifeInv, Locked
  <2>2. \A m \in Deletions : del'[m].pc \in Working => del'[m].book \in Books /\ owner'[del'[m].book] = m
    BY <1>1, <1>2 DEF LifeInv, Locked, Working
  <2>3. \A m \in Deletions : \A b \in Books : owner'[b] = m => del'[m].book = b /\ del'[m].pc \in Working
    BY <1>1, <1>2 DEF LifeInv, Locked, Working
  <2> QED BY <2>1, <2>2, <2>3 DEF Locked, Working
<1>6. Listed'
  <2>1. \A k \in Importers : imp[k].pc = "finish" => imp[k].best \in Books \ {del[n].book}
    <3> SUFFICES ASSUME NEW k \in Importers, imp[k].pc = "finish"
        PROVE  imp[k].best \in Books \ {del[n].book}
      OBVIOUS
    <3>1. imp[k].pc # "idle" /\ imp[k].best # Nobody
      BY AtWork DEF Good
    <3>2. imp[k].best \in Books /\ owner[imp[k].best] = k
      BY <3>1, AtWork
    <3> QED BY <1>1, <3>2, NobodyElse
  <2>2. \A m \in Deletions : m # n /\ del[m].pc \in Working => del[m].book \in Books \ {del[n].book}
    BY <1>1, AtDeletion
  <2> QED BY <1>1, <1>2, <2>1, <2>2 DEF LifeInv, Listed, Working
<1>7. Tidied'
  <2> SUFFICES ASSUME Full', NEW b \in Books, b \notin catalog'
      PROVE  /\ owner'[b] = Nobody => b \notin files' /\ b \notin refs'
             /\ \A k \in Importers : owner'[b] = k =>
                  b \notin refs' /\ (b \in files' => b \in imp'[k].own) /\ Neat(imp'[k], b)
             /\ \A m \in Deletions : owner'[b] = m =>
                  /\ del'[m].pc = "remove" => b \notin files' /\ b \notin refs'
                  /\ del'[m].pc = "refs" => b \notin files'
    BY DEF Tidied, Tidy
  <2>1. CASE b = del[n].book
    BY <1>1, <1>2, <2>1, NobodyElse DEF Working
  <2>2. CASE b # del[n].book
    <3>1. Tidy(b) /\ b \notin catalog /\ (b \in files' => b \in files) /\ (b \in refs' => b \in refs)
      BY <2>2 DEF LifeInv, Tidied
    <3>2. owner[b] # n
      BY <2>2 DEF LifeInv, Locked
    <3> QED BY <1>2, <3>1, <3>2 DEF Tidy
  <2> QED BY <2>1, <2>2
<1> QED BY <1>3, <1>4, <1>5, <1>6, <1>7 DEF LifeInv

LEMMA DeleteRemoveKeeps ==
  ASSUME LifeInv, NEW n \in Deletions, DeleteRemove(n)
  PROVE  LifeInv'
<1>1. /\ del[n].pc = "remove" /\ del[n].book \in catalog
      /\ catalog' = catalog \ {del[n].book}
      /\ removedBy' = [removedBy EXCEPT ![del[n].book] = n] /\ Step(n, "commit")
      /\ UNCHANGED <<refs, pending, revision, published, files, tombstones, owner, imp, sweep, feed,
                     spoiled, room>>
  BY DEF DeleteRemove
<1>2. del[n].pc \in Working /\ "commit" \in Working \ {"remove"}
  BY <1>1 DEF Working
<1>3. removedBy' \in [Books -> 0 .. MaxDeletes]
  BY <1>1 DEF LifeInv, LifeTypeOK, Deletions
<1>4. Counted' /\ (Full' => Full)
  BY <1>1 DEF LifeInv, Counted, Full
<1> QED BY <1>1, <1>2, <1>3, <1>4, DeletionKeeps DEF LifeInv, LifeTypeOK

LEMMA DeleteCommitKeeps ==
  ASSUME LifeInv, NEW n \in Deletions, DeleteCommit(n) \/ DeleteCommitFails(n)
  PROVE  LifeInv'
<1>1. /\ del[n].pc = "commit" /\ Step(n, "remember")
      /\ \/ (IF n \in pending THEN Publish(del[n].book, n) ELSE UNCHANGED <<revision, published>>)
             /\ pending' = pending \ {n} /\ UNCHANGED room
         \/ SpendRoom("faults") /\ UNCHANGED <<revision, published, pending>>
      /\ UNCHANGED <<catalog, refs, files, tombstones, owner, imp, sweep, feed, removedBy, spoiled>>
  BY DEF DeleteCommit, DeleteCommitFails, stores
<1>2. del[n].pc \in Working /\ "remember" \in Working \ {"remove"}
  BY <1>1 DEF Working
<1>3. del[n].book \in Books /\ del[n].book \notin catalog
  BY <1>1, <1>2, AtDeletion
<1>4. /\ revision' \in Nat /\ pending' \subseteq Deletions
      /\ published' \in [Books -> [n : 0 .. MaxDeletes, rev : Nat]]
  <2>0. /\ Publish(del[n].book, n) \/ UNCHANGED <<revision, published>>
        /\ pending' \subseteq pending
    BY <1>1
  <2>1. revision \in Nat /\ published \in [Books -> [n : 0 .. MaxDeletes, rev : Nat]]
        /\ n \in 0 .. MaxDeletes /\ pending \subseteq Deletions
    BY DEF LifeInv, LifeTypeOK, Deletions
  <2>2. CASE Publish(del[n].book, n)
    <3>1. revision' = revision + 1
          /\ published' = [published EXCEPT ![del[n].book] = [n |-> n, rev |-> revision']]
      BY <2>2 DEF Publish
    <3> QED BY <1>3, <2>0, <2>1, <3>1
  <2>3. CASE UNCHANGED <<revision, published>>
    BY <2>0, <2>1, <2>3
  <2> QED BY <2>0, <2>2, <2>3
<1>5. room' \in [faults : 0 .. MaxFaults, crashes : 0 .. MaxCrashes] /\ (Full' => Full)
  BY <1>1, Spending DEF LifeInv, LifeTypeOK, Full
<1>6. Counted'
  BY <1>1 DEF LifeInv, Counted
<1>7. /\ catalog' \subseteq Books /\ files' \subseteq Books /\ refs' \subseteq Books
      /\ tombstones' \subseteq Books /\ removedBy' \in [Books -> 0 .. MaxDeletes]
      /\ sweep' \in [Deletions -> [pc : {"none", "armed", "checking", "removing"}, left : 0 .. Sweeps]]
  BY <1>1 DEF LifeInv, LifeTypeOK
<1> QED BY <1>1, <1>2, <1>3, <1>4, <1>5, <1>6, <1>7, DeletionKeeps

LEMMA DeleteRememberKeeps ==
  ASSUME LifeInv, NEW n \in Deletions, DeleteRemember(n)
  PROVE  LifeInv'
<1>1. /\ del[n].pc = "remember" /\ Step(n, "cleanup")
      /\ tombstones' = tombstones \union {del[n].book}
      /\ UNCHANGED <<catalog, refs, pending, revision, published, files, owner, imp, sweep, feed,
                     removedBy, spoiled, room>>
  BY DEF DeleteRemember, stores
<1>2. del[n].pc \in Working /\ "cleanup" \in Working \ {"remove"}
  BY <1>1 DEF Working
<1>3. del[n].book \in Books /\ del[n].book \notin catalog
  BY <1>1, <1>2, AtDeletion
<1>4. Counted' /\ (Full' => Full)
  BY <1>1 DEF LifeInv, Counted, Full
<1>5. tombstones' \subseteq Books
  BY <1>1, <1>3 DEF LifeInv, LifeTypeOK
<1> QED BY <1>1, <1>2, <1>3, <1>4, <1>5, DeletionKeeps DEF LifeInv, LifeTypeOK

(* Sweeps are armed once for each of their delays.                         *)
LEMMA Armed ==
  ASSUME LifeInv, NEW n \in Deletions, ArmSweeps(n)
  PROVE  /\ sweep' \in [Deletions -> [pc : {"none", "armed", "checking", "removing"}, left : 0 .. Sweeps]]
         /\ Counted'
<1> DEFINE s == IF Sweeps = 0 THEN NoSweep ELSE [pc |-> "armed", left |-> Sweeps]
<1>1. Sweeps \in Nat
  BY LifecycleAssumption
<1>2. /\ s \in [pc : {"none", "armed", "checking", "removing"}, left : 0 .. Sweeps]
      /\ s.pc # "none" => s.left > 0
  BY <1>1 DEF NoSweep
<1>3. sweep' = [sweep EXCEPT ![n] = s]
  BY DEF ArmSweeps
<1> HIDE DEF s
<1> QED BY <1>2, <1>3 DEF LifeInv, LifeTypeOK, Counted

LEMMA DeleteCleanupKeeps ==
  ASSUME LifeInv, NEW n \in Deletions, DeleteCleanup(n)
  PROVE  LifeInv'
<1>1. /\ del[n].pc = "cleanup" /\ Step(n, "refs") /\ ArmSweeps(n)
      /\ \/ files' = files \ {del[n].book} /\ UNCHANGED room
         \/ SpendRoom("faults") /\ UNCHANGED files
      /\ UNCHANGED <<catalog, refs, pending, revision, published, tombstones, owner, imp, feed,
                     removedBy, spoiled>>
  BY DEF DeleteCleanup, stores
<1>2. del[n].pc \in Working /\ "refs" \in Working \ {"remove"}
  BY <1>1 DEF Working
<1>3. del[n].book \in Books /\ del[n].book \notin catalog
  BY <1>1, <1>2, AtDeletion
<1>4. /\ sweep' \in [Deletions -> [pc : {"none", "armed", "checking", "removing"}, left : 0 .. Sweeps]]
      /\ Counted'
  BY <1>1, Armed
<1>5. /\ room' \in [faults : 0 .. MaxFaults, crashes : 0 .. MaxCrashes]
      /\ Full' => Full /\ files' = files \ {del[n].book}
  BY <1>1, Spending DEF LifeInv, LifeTypeOK, Full
<1>6. /\ catalog' \subseteq Books /\ files' \subseteq Books /\ refs' \subseteq Books
      /\ tombstones' \subseteq Books /\ pending' \subseteq Deletions /\ revision' \in Nat
      /\ published' \in [Books -> [n : 0 .. MaxDeletes, rev : Nat]]
      /\ removedBy' \in [Books -> 0 .. MaxDeletes]
  BY <1>1 DEF LifeInv, LifeTypeOK
<1>7. Full' => \A b \in Books \ {del[n].book} :
                   (b \in files' => b \in files) /\ (b \in refs' => b \in refs)
  BY <1>1, <1>5
<1>8. Full' => ("refs" = "refs" => del[n].book \notin files')
  BY <1>5
<1> QED BY <1>1, <1>2, <1>3, <1>4, <1>5, <1>6, <1>7, <1>8, DeletionKeeps

(* A deletion ends, and gives its book back.                               *)
LEMMA DeletionEnds ==
  ASSUME LifeInv, NEW n \in Deletions, del[n].pc \in Working, NEW pc \in {"deleted", "ended"},
         Step(n, pc), Release(n),
         UNCHANGED <<catalog, revision, published, files, tombstones, imp, sweep, feed, removedBy, spoiled>>,
         pending' \subseteq Deletions, refs' \subseteq refs,
         room' \in [faults : 0 .. MaxFaults, crashes : 0 .. MaxCrashes],
         Full' => Full,
         Full' => (del[n].book \notin catalog => del[n].book \notin files /\ del[n].book \notin refs')
  PROVE  LifeInv'
<1>1. del[n].book \in Books /\ owner[del[n].book] = n
  BY AtDeletion
<1>2. /\ del' \in [Deletions -> [pc : DelPcs, book : MaybeBooks]]
      /\ del'[n].pc = pc /\ del'[n].book = del[n].book
      /\ \A m \in Deletions : m # n => del'[m] = del[m]
  BY StepTo DEF DelPcs
<1>3. /\ owner' \in [Books -> Importers \union Deletions \union {Nobody}]
      /\ \A b \in Books : owner'[b] = IF owner[b] = n THEN Nobody ELSE owner[b]
      /\ n # Nobody
  BY Released
<1>4. Imported'
  BY DEF LifeInv, Imported
<1>5. LifeTypeOK'
  BY <1>2, <1>3 DEF LifeInv, LifeTypeOK, DelPcs, MaybeBooks
<1>6. \A k \in Importers : k # n /\ k # Nobody
  BY NobodyElse
<1>7. \A m \in Deletions : m # Nobody
  BY NobodyElse
<1>8. Locked'
  <2>1. \A k \in Importers : imp'[k].pc # "idle" =>
          \A b \in CandidateIds(imp'[k].cmd) : owner'[b] = k
    <3> SUFFICES ASSUME NEW k \in Importers, imp[k].pc # "idle", NEW b \in CandidateIds(imp[k].cmd)
        PROVE  owner'[b] = k
      OBVIOUS
    <3>1. owner[b] = k /\ b \in Books
      BY AtWork
    <3> QED BY <1>3, <1>6, <3>1
  <2>2. \A m \in Deletions : del'[m].pc \in Working => del'[m].book \in Books /\ owner'[del'[m].book] = m
    BY <1>2, <1>3, AtDeletion DEF Working
  <2>3. \A m \in Deletions : \A b \in Books : owner'[b] = m => del'[m].book = b /\ del'[m].pc \in Working
    BY <1>2, <1>3, <1>7 DEF LifeInv, Locked, Working
  <2> QED BY <2>1, <2>2, <2>3 DEF Locked, Working
<1>9. Listed'
  BY <1>2 DEF LifeInv, Listed
<1>10. Counted'
  BY DEF LifeInv, Counted
<1>11. Tidied'
  <2> SUFFICES ASSUME Full', NEW b \in Books, b \notin catalog'
      PROVE  /\ owner'[b] = Nobody => b \notin files' /\ b \notin refs'
             /\ \A k \in Importers : owner'[b] = k =>
                  b \notin refs' /\ (b \in files' => b \in imp'[k].own) /\ Neat(imp'[k], b)
             /\ \A m \in Deletions : owner'[b] = m =>
                  /\ del'[m].pc = "remove" => b \notin files' /\ b \notin refs'
                  /\ del'[m].pc = "refs" => b \notin files'
    BY DEF Tidied, Tidy
  <2>1. Full /\ b \notin catalog
    OBVIOUS
  <2>2. Tidy(b)
    BY <2>1 DEF LifeInv, Tidied
  <2>3. CASE owner[b] = n
    <3>1. b = del[n].book
      BY <2>3 DEF LifeInv, Locked
    <3> QED BY <1>3, <1>6, <1>7, <2>1, <2>3, <3>1
  <2>4. CASE owner[b] # n
    BY <1>2, <1>3, <1>6, <1>7, <2>1, <2>2, <2>4 DEF Tidy
  <2> QED BY <2>3, <2>4
<1> QED BY <1>4, <1>5, <1>8, <1>9, <1>10, <1>11 DEF LifeInv

LEMMA DeleteAbortKeeps ==
  ASSUME LifeInv, NEW n \in Deletions, DeleteAbort(n)
  PROVE  LifeInv'
<1>1. /\ del[n].pc = "remove" /\ Step(n, "ended") /\ Release(n)
      /\ \/ pending' = pending \ {n} /\ UNCHANGED room
         \/ SpendRoom("faults") /\ UNCHANGED pending
      /\ UNCHANGED <<catalog, refs, revision, published, files, tombstones, imp, sweep, feed, removedBy, spoiled>>
  BY DEF DeleteAbort
<1>2. del[n].pc \in Working
  BY <1>1 DEF Working
<1>3. del[n].book \in Books /\ owner[del[n].book] = n
  BY <1>2, AtDeletion
<1>4. room' \in [faults : 0 .. MaxFaults, crashes : 0 .. MaxCrashes] /\ (Full' => Full)
  BY <1>1, Spending DEF LifeInv, LifeTypeOK, Full
<1>5. pending' \subseteq Deletions
  BY <1>1 DEF LifeInv, LifeTypeOK
<1>6. Full' => (del[n].book \notin catalog => del[n].book \notin files /\ del[n].book \notin refs')
  BY <1>1, <1>3, <1>4 DEF LifeInv, Tidied, Tidy
<1> QED BY <1>1, <1>2, <1>4, <1>5, <1>6, DeletionEnds

LEMMA DeleteRefsKeeps ==
  ASSUME LifeInv, NEW n \in Deletions, DeleteRefs(n)
  PROVE  LifeInv'
<1>1. /\ del[n].pc = "refs" /\ Step(n, "deleted") /\ Release(n)
      /\ refs' = refs \ {del[n].book}
      /\ UNCHANGED <<catalog, pending, revision, published, files, tombstones, imp, sweep, feed,
                     removedBy, spoiled, room>>
  BY DEF DeleteRefs
<1>2. del[n].pc \in Working
  BY <1>1 DEF Working
<1>3. del[n].book \in Books /\ owner[del[n].book] = n
  BY <1>2, AtDeletion
<1>4. room' \in [faults : 0 .. MaxFaults, crashes : 0 .. MaxCrashes] /\ (Full' => Full)
  BY <1>1 DEF LifeInv, LifeTypeOK, Full
<1>5. pending' \subseteq Deletions /\ refs' \subseteq refs
  BY <1>1 DEF LifeInv, LifeTypeOK
<1>6. Full' => (del[n].book \notin catalog => del[n].book \notin files /\ del[n].book \notin refs')
  BY <1>1, <1>3, <1>4 DEF LifeInv, Tidied, Tidy
<1> QED BY <1>1, <1>2, <1>4, <1>5, <1>6, DeletionEnds

LEMMA DeleteThrowsKeeps ==
  ASSUME LifeInv, NEW n \in Deletions, DeleteThrows(n)
  PROVE  LifeInv'
<1>1. /\ del[n].pc \in Working /\ Step(n, "ended") /\ Release(n) /\ SpendRoom("faults")
      /\ UNCHANGED <<catalog, refs, pending, revision, published, files, tombstones, imp, sweep, feed,
                     removedBy, spoiled>>
  BY DEF DeleteThrows, stores, Working
<1>2. room' \in [faults : 0 .. MaxFaults, crashes : 0 .. MaxCrashes] /\ ~Full'
  BY <1>1, Spending DEF LifeInv
<1>3. pending' \subseteq Deletions /\ refs' \subseteq refs
  BY <1>1 DEF LifeInv, LifeTypeOK
<1> QED BY <1>1, <1>2, <1>3, DeletionEnds

LEMMA DeleteBeginKeeps ==
  ASSUME LifeInv, NEW n \in Deletions, NEW b \in Books, DeleteBegin(n, b)
  PROVE  LifeInv'
<1> DEFINE d == [pc |-> "remove", book |-> b]
<1>1. /\ del[n].pc = "none" /\ owner[b] = Nobody /\ owner' = [owner EXCEPT ![b] = n]
      /\ pending' = pending \union {n} /\ del' = [del EXCEPT ![n] = d]
      /\ UNCHANGED <<catalog, refs, revision, published, files, tombstones, imp, sweep, feed,
                     removedBy, spoiled, room>>
  BY DEF DeleteBegin
<1>2. d \in [pc : DelPcs, book : MaybeBooks] /\ d.pc = "remove" /\ d.book = b
  BY DEF DelPcs, MaybeBooks
<1> HIDE DEF d
<1>3. /\ del' \in [Deletions -> [pc : DelPcs, book : MaybeBooks]]
      /\ del'[n] = d /\ \A m \in Deletions : m # n => del'[m] = del[m]
  BY <1>1, <1>2 DEF LifeInv, LifeTypeOK, DelPcs, MaybeBooks
<1>4. /\ owner' \in [Books -> Importers \union Deletions \union {Nobody}]
      /\ owner'[b] = n /\ \A x \in Books : x # b => owner'[x] = owner[x]
  BY <1>1 DEF LifeInv, LifeTypeOK
<1>5. \A k \in Importers : k # n /\ k # Nobody
  BY NobodyElse
<1>6. \A m \in Deletions : m # Nobody
  BY NobodyElse
<1>7. Imported'
  BY <1>1 DEF LifeInv, Imported
<1>8. LifeTypeOK'
  BY <1>1, <1>3, <1>4 DEF LifeInv, LifeTypeOK, DelPcs, MaybeBooks
<1>9. Locked'
  <2>1. \A k \in Importers : imp'[k].pc # "idle" =>
          \A x \in CandidateIds(imp'[k].cmd) : owner'[x] = k
    <3> SUFFICES ASSUME NEW k \in Importers, imp[k].pc # "idle", NEW x \in CandidateIds(imp[k].cmd)
        PROVE  owner'[x] = k
      BY <1>1
    <3>1. owner[x] = k /\ x \in Books
      BY AtWork
    <3> QED BY <1>1, <1>4, <1>5, <3>1
  <2>2. \A m \in Deletions : del'[m].pc \in Working => del'[m].book \in Books /\ owner'[del'[m].book] = m
    <3> SUFFICES ASSUME NEW m \in Deletions, del'[m].pc \in Working
        PROVE  del'[m].book \in Books /\ owner'[del'[m].book] = m
      OBVIOUS
    <3>1. CASE m = n
      BY <1>2, <1>3, <1>4, <3>1
    <3>2. CASE m # n
      <4>1. del[m].book \in Books /\ owner[del[m].book] = m
        BY <1>3, <3>2, AtDeletion
      <4> QED BY <1>1, <1>3, <1>4, <1>6, <3>2, <4>1
    <3> QED BY <3>1, <3>2
  <2>3. \A m \in Deletions : \A x \in Books : owner'[x] = m => del'[m].book = x /\ del'[m].pc \in Working
    BY <1>1, <1>2, <1>3, <1>4, <1>6 DEF LifeInv, Locked, Working
  <2> QED BY <2>1, <2>2, <2>3 DEF Locked, Working
<1>10. Listed'
  BY <1>1, <1>2, <1>3 DEF LifeInv, Listed
<1>11. Counted'
  BY <1>1 DEF LifeInv, Counted
<1>12. Tidied'
  <2> SUFFICES ASSUME Full', NEW x \in Books, x \notin catalog'
      PROVE  /\ owner'[x] = Nobody => x \notin files' /\ x \notin refs'
             /\ \A k \in Importers : owner'[x] = k =>
                  x \notin refs' /\ (x \in files' => x \in imp'[k].own) /\ Neat(imp'[k], x)
             /\ \A m \in Deletions : owner'[x] = m =>
                  /\ del'[m].pc = "remove" => x \notin files' /\ x \notin refs'
                  /\ del'[m].pc = "refs" => x \notin files'
    BY DEF Tidied, Tidy
  <2>1. Full /\ x \notin catalog
    BY <1>1 DEF Full
  <2>2. Tidy(x)
    BY <2>1 DEF LifeInv, Tidied
  <2>3. CASE x = b
    BY <1>1, <1>4, <1>5, <1>6, <2>1, <2>2, <2>3 DEF Tidy
  <2>4. CASE x # b
    <3>1. owner'[x] = owner[x]
      BY <1>4, <2>4
    <3>2. owner[x] # n
      BY <1>1 DEF LifeInv, Locked
    <3> QED BY <1>1, <1>3, <2>1, <2>2, <3>1, <3>2 DEF Tidy
  <2> QED BY <2>3, <2>4
<1> QED BY <1>7, <1>8, <1>9, <1>10, <1>11, <1>12 DEF LifeInv

(* What leaves the work on books alone and adds no files keeps it all.     *)
LEMMA AsideKeeps ==
  ASSUME LifeInv, UNCHANGED <<catalog, refs, owner, imp, del, removedBy>>,
         spoiled' \subseteq Books, files' \subseteq Books, tombstones' \subseteq Books, pending' \subseteq Deletions,
         revision' \in Nat, published' \in [Books -> [n : 0 .. MaxDeletes, rev : Nat]],
         sweep' \in [Deletions -> [pc : {"none", "armed", "checking", "removing"}, left : 0 .. Sweeps]],
         Counted', feed' \in [pc : {"idle", "reconcile"}, seen : SUBSET Books],
         room' \in [faults : 0 .. MaxFaults, crashes : 0 .. MaxCrashes],
         Full' => Full /\ files' \subseteq files
  PROVE  LifeInv'
<1>1. Imported' /\ Locked' /\ Listed'
  BY DEF LifeInv, Imported, Locked, Listed
<1>2. LifeTypeOK'
  BY DEF LifeInv, LifeTypeOK
<1>3. Tidied'
  <2> SUFFICES ASSUME Full', NEW b \in Books
      PROVE  Tidy(b)'
    BY DEF Tidied
  <2>1. Tidy(b) /\ files' \subseteq files
    BY DEF LifeInv, Tidied
  <2> QED BY <2>1 DEF Tidy
<1> QED BY <1>1, <1>2, <1>3 DEF LifeInv

LEMMA SweepEnds ==
  ASSUME LifeInv, NEW n \in Deletions, sweep[n].pc # "none", SweepEnd(n)
  PROVE  /\ sweep' \in [Deletions -> [pc : {"none", "armed", "checking", "removing"}, left : 0 .. Sweeps]]
         /\ Counted' /\ tombstones' \subseteq Books
<1> DEFINE s == [pc |-> IF sweep[n].left = 1 THEN "none" ELSE "armed", left |-> sweep[n].left - 1]
<1>1. sweep' = [sweep EXCEPT ![n] = s]
  BY DEF SweepEnd
<1>2. Sweeps \in Nat /\ sweep[n].left \in 0 .. Sweeps /\ sweep[n].left > 0
  BY LifecycleAssumption DEF LifeInv, LifeTypeOK, Counted
<1>3. s.pc \in {"none", "armed"} /\ s.left = sweep[n].left - 1 /\ (s.pc # "none" => s.left > 0)
  BY <1>2
<1>4. s \in [pc : {"none", "armed", "checking", "removing"}, left : 0 .. Sweeps]
  BY <1>2
<1> HIDE DEF s
<1>5. tombstones' \subseteq Books
  BY DEF SweepEnd, LifeInv, LifeTypeOK
<1> QED BY <1>1, <1>3, <1>4, <1>5 DEF LifeInv, LifeTypeOK, Counted

LEMMA Needs == LifeInv => Needed \subseteq Books
<1> SUFFICES ASSUME LifeInv
    PROVE  Needed \subseteq Books
  OBVIOUS
<1>1. \A i \in Importers : imp[i].own \subseteq Books
  BY DEF LifeInv, Imported, Imports, Holdings
<1> QED BY <1>1 DEF Needed, LifeInv, LifeTypeOK

LEMMA SweepKeeps ==
  ASSUME LifeInv, NEW n \in Deletions, SweepStep(n)
  PROVE  LifeInv'
<1>1. /\ UNCHANGED <<catalog, refs, pending, revision, published, owner, imp, del, feed, removedBy>>
      /\ spoiled' = spoiled \/ spoiled' = spoiled \union ({del[n].book} \intersect Needed)
      /\ UNCHANGED files \/ files' = files \ {del[n].book}
      /\ UNCHANGED room \/ SpendRoom("faults")
      /\ sweep[n].pc \in {"armed", "checking", "removing"}
      /\ \/ SweepEnd(n)
         \/ /\ \E pc \in {"checking", "removing"} : sweep' = [sweep EXCEPT ![n].pc = pc]
            /\ UNCHANGED tombstones
  BY DEF SweepStep, SweepStart, SweepCheck, SweepRemove, stores
<1>a. sweep[n].pc # "none"
  BY <1>1
<1>2. /\ sweep' \in [Deletions -> [pc : {"none", "armed", "checking", "removing"}, left : 0 .. Sweeps]]
      /\ Counted' /\ tombstones' \subseteq Books
  <2>1. CASE SweepEnd(n)
    BY <1>a, <2>1, SweepEnds
  <2>2. ASSUME NEW pc \in {"checking", "removing"}, sweep' = [sweep EXCEPT ![n].pc = pc],
               UNCHANGED tombstones
        PROVE  /\ sweep' \in [Deletions -> [pc : {"none", "armed", "checking", "removing"}, left : 0 .. Sweeps]]
               /\ Counted' /\ tombstones' \subseteq Books
    <3>1. /\ sweep \in [Deletions -> [pc : {"none", "armed", "checking", "removing"}, left : 0 .. Sweeps]]
          /\ sweep[n].left > 0 /\ \A m \in Deletions : sweep[m].pc # "none" => sweep[m].left > 0
      BY <1>a DEF LifeInv, LifeTypeOK, Counted
    <3>2. sweep' \in [Deletions -> [pc : {"none", "armed", "checking", "removing"}, left : 0 .. Sweeps]]
          /\ \A m \in Deletions : sweep'[m].left = sweep[m].left /\ (m # n => sweep'[m] = sweep[m])
      BY <2>2, <3>1
    <3> QED BY <2>2, <3>1, <3>2 DEF LifeInv, LifeTypeOK, Counted
  <2> QED BY <1>1, <2>1, <2>2
<1>3. room' \in [faults : 0 .. MaxFaults, crashes : 0 .. MaxCrashes] /\ (Full' => Full)
  BY <1>1, Spending DEF LifeInv, LifeTypeOK, Full
<1>4. spoiled' \subseteq Books
  BY <1>1, Needs DEF LifeInv, LifeTypeOK
<1>5. /\ files' \subseteq Books /\ files' \subseteq files /\ pending' \subseteq Deletions
      /\ revision' \in Nat /\ published' \in [Books -> [n : 0 .. MaxDeletes, rev : Nat]]
      /\ feed' \in [pc : {"idle", "reconcile"}, seen : SUBSET Books]
  BY <1>1 DEF LifeInv, LifeTypeOK
<1> QED BY <1>1, <1>2, <1>3, <1>4, <1>5, AsideKeeps

LEMMA LateWriteKeeps ==
  ASSUME LifeInv, NEW b \in Books, LateWrite(b)
  PROVE  LifeInv'
<1>1. /\ SpendRoom("faults") /\ files' = files \union {b}
      /\ UNCHANGED <<catalog, refs, pending, revision, published, tombstones, owner, imp, del, sweep,
                     feed, removedBy, spoiled>>
  BY DEF LateWrite, stores
<1>2. room' \in [faults : 0 .. MaxFaults, crashes : 0 .. MaxCrashes] /\ ~Full'
  BY <1>1, Spending DEF LifeInv
<1>3. /\ spoiled' \subseteq Books
      /\ files' \subseteq Books /\ tombstones' \subseteq Books /\ pending' \subseteq Deletions
      /\ revision' \in Nat /\ published' \in [Books -> [n : 0 .. MaxDeletes, rev : Nat]]
      /\ sweep' \in [Deletions -> [pc : {"none", "armed", "checking", "removing"}, left : 0 .. Sweeps]]
      /\ feed' \in [pc : {"idle", "reconcile"}, seen : SUBSET Books]
      /\ Counted'
  BY <1>1 DEF LifeInv, LifeTypeOK, Counted
<1> QED BY <1>1, <1>2, <1>3, AsideKeeps

LEMMA FeedLoadKeeps ==
  ASSUME LifeInv, FeedLoad
  PROVE  LifeInv'
<1>1. /\ feed' = [pc |-> "reconcile", seen |-> catalog]
      /\ UNCHANGED <<catalog, files, refs, pending, revision, published, tombstones, owner, imp, del,
                     sweep, removedBy, spoiled, room>>
  BY DEF FeedLoad, stores
<1>2. feed' \in [pc : {"idle", "reconcile"}, seen : SUBSET Books]
  BY <1>1 DEF LifeInv, LifeTypeOK
<1>3. /\ spoiled' \subseteq Books
      /\ files' \subseteq Books /\ tombstones' \subseteq Books /\ pending' \subseteq Deletions
      /\ revision' \in Nat /\ published' \in [Books -> [n : 0 .. MaxDeletes, rev : Nat]]
      /\ sweep' \in [Deletions -> [pc : {"none", "armed", "checking", "removing"}, left : 0 .. Sweeps]]
      /\ room' \in [faults : 0 .. MaxFaults, crashes : 0 .. MaxCrashes]
      /\ Counted' /\ (Full' => Full) /\ files' \subseteq files
  BY <1>1 DEF LifeInv, LifeTypeOK, Counted, Full
<1> QED BY <1>1, <1>2, <1>3, AsideKeeps

(* The feed publishes each deletion that is gone above the log's revision. *)
LEMMA Reconciled ==
  ASSUME LifeTypeOK, FeedReconcile
  PROVE  /\ revision' \in Nat
         /\ published' \in [Books -> [n : 0 .. MaxDeletes, rev : Nat]]
         /\ \A b \in Books : published'[b] = published[b] \/ published'[b].rev > revision
<1> DEFINE lost == {n \in pending : del[n].book \notin feed.seen}
           place(n) == Cardinality({m \in lost : m <= n})
           last(b) == {n \in lost : del[n].book = b /\ \A m \in lost : del[m].book = b => m <= n}
           rec(b) == IF last(b) = {} THEN published[b]
                     ELSE LET n == CHOOSE n \in last(b) : TRUE IN [n |-> n, rev |-> revision + place(n)]
<1>1. /\ revision' = revision + Cardinality(lost)
      /\ published' = [b \in Books |-> rec(b)]
  BY DEF FeedReconcile
<1>2. /\ revision \in Nat /\ MaxDeletes \in Nat /\ lost \subseteq Deletions
      /\ published \in [Books -> [n : 0 .. MaxDeletes, rev : Nat]]
  BY LifecycleAssumption DEF LifeTypeOK
<1>3. IsFiniteSet(Deletions)
  BY <1>2, FS_Interval DEF Deletions
<1>4. IsFiniteSet(lost) /\ Cardinality(lost) \in Nat
  BY <1>2, <1>3, FS_Subset, FS_CardinalityType
<1>5. ASSUME NEW n \in lost
      PROVE  place(n) \in Nat /\ place(n) > 0
  <2> DEFINE S == {m \in lost : m <= n}
  <2>1. n \in S
    BY <1>2 DEF Deletions
  <2>2. S \subseteq lost
    OBVIOUS
  <2> HIDE DEF S
  <2>3. IsFiniteSet(S)
    BY <1>4, <2>2, FS_Subset
  <2>4. Cardinality(S) \in Nat /\ Cardinality(S) # 0
    BY <2>1, <2>3, FS_CardinalityType, FS_EmptySet
  <2> QED BY <2>4 DEF S
<1>6. ASSUME NEW b \in Books
      PROVE  /\ rec(b) \in [n : 0 .. MaxDeletes, rev : Nat]
             /\ rec(b) = published[b] \/ rec(b).rev > revision
  <2>1. CASE last(b) = {}
    BY <1>2, <2>1
  <2>2. CASE last(b) # {}
    <3> DEFINE n == CHOOSE n \in last(b) : TRUE
    <3>1. n \in lost
      BY <2>2
    <3>2. rec(b) = [n |-> n, rev |-> revision + place(n)]
      BY <2>2
    <3> HIDE DEF n
    <3>3. place(n) \in Nat /\ place(n) > 0 /\ n \in 0 .. MaxDeletes
      BY <1>2, <1>5, <3>1 DEF Deletions
    <3> HIDE DEF place, rec
    <3> QED BY <1>2, <3>2, <3>3
  <2> QED BY <2>1, <2>2
<1> HIDE DEF lost, rec
<1> QED BY <1>1, <1>2, <1>4, <1>6

LEMMA FeedReconcileKeeps ==
  ASSUME LifeInv, FeedReconcile
  PROVE  LifeInv'
<1>1. /\ pending' = {} /\ feed' = NoFeed
      /\ UNCHANGED <<catalog, refs, files, tombstones, owner, imp, del, sweep, removedBy, spoiled, room>>
  BY DEF FeedReconcile
<1>2. revision' \in Nat /\ published' \in [Books -> [n : 0 .. MaxDeletes, rev : Nat]]
  BY Reconciled DEF LifeInv
<1>3. /\ spoiled' \subseteq Books
      /\ files' \subseteq Books /\ tombstones' \subseteq Books /\ pending' \subseteq Deletions
      /\ sweep' \in [Deletions -> [pc : {"none", "armed", "checking", "removing"}, left : 0 .. Sweeps]]
      /\ room' \in [faults : 0 .. MaxFaults, crashes : 0 .. MaxCrashes]
      /\ feed' \in [pc : {"idle", "reconcile"}, seen : SUBSET Books]
      /\ Counted' /\ (Full' => Full) /\ files' \subseteq files
  BY <1>1 DEF LifeInv, LifeTypeOK, Counted, Full, NoFeed
<1> QED BY <1>1, <1>2, <1>3, AsideKeeps

LEMMA RestartKeeps ==
  ASSUME LifeInv, Restart
  PROVE  LifeInv'
<1>1. /\ SpendRoom("crashes") /\ tombstones' = {}
      /\ owner' = [b \in Books |-> Nobody]
      /\ imp' = [i \in Importers |-> IdleImport]
      /\ sweep' = [n \in Deletions |-> NoSweep] /\ feed' = NoFeed
      /\ UNCHANGED <<catalog, refs, pending, revision, published, files, removedBy, spoiled>>
  BY DEF Restart, stores
<1>2. room' \in [faults : 0 .. MaxFaults, crashes : 0 .. MaxCrashes] /\ ~Full'
  BY <1>1, Spending DEF LifeInv
<1>3. del \in [Deletions -> [pc : DelPcs, book : MaybeBooks]]
  BY DEF LifeInv, LifeTypeOK, DelPcs, MaybeBooks
<1>4. /\ del' \in [Deletions -> [pc : DelPcs, book : MaybeBooks]]
      /\ \A n \in Deletions : del'[n].pc \in {"none", "deleted", "ended"}
  <2> DEFINE d(n) == IF del[n].pc \in {"none", "deleted"} THEN del[n] ELSE [del[n] EXCEPT !.pc = "ended"]
  <2>1. del' = [n \in Deletions |-> d(n)]
    BY DEF Restart
  <2>2. \A n \in Deletions : d(n) \in [pc : DelPcs, book : MaybeBooks]
                           /\ d(n).pc \in {"none", "deleted", "ended"}
    BY <1>3 DEF DelPcs
  <2> HIDE DEF d
  <2> QED BY <2>1, <2>2
<1>5. Imported'
  BY <1>1, IdleGood DEF Imported
<1>6. \A i \in Importers : imp'[i].pc = "idle"
  BY <1>1 DEF IdleImport
<1>7. Sweeps \in Nat
  BY LifecycleAssumption
<1>8. sweep' \in [Deletions -> [pc : {"none", "armed", "checking", "removing"}, left : 0 .. Sweeps]]
  BY <1>1, <1>7 DEF NoSweep
<1>9. Counted'
  BY <1>1 DEF Counted, NoSweep
<1>10. \A i \in Importers : imp'[i].k <= Len(imp'[i].cmd) + 1
  BY <1>5 DEF Imported, Good
<1>11. /\ imp' \in [Importers -> [pc : {"idle", "acquire", "judge", "persist", "finish", "fail"},
                            cmd : Commands \union {<<>>}, k : Nat,
                            best : Books \union {Nobody}, good : BOOLEAN, own : SUBSET Books]]
  BY <1>5 DEF Imported, Imports, ImportPhases, MaybeCommands, MaybeBooks, Holdings
<1>12. /\ owner' \in [Books -> Importers \union Deletions \union {Nobody}]
       /\ feed' \in [pc : {"idle", "reconcile"}, seen : SUBSET Books]
       /\ tombstones' \subseteq Books
  BY <1>1 DEF NoFeed
<1>13. LifeTypeOK'
  BY <1>1, <1>2, <1>4, <1>8, <1>10, <1>11, <1>12 DEF LifeInv, LifeTypeOK, DelPcs, MaybeBooks
<1>14. Locked'
  <2>1. \A b \in Books : \A n \in Deletions : owner'[b] # n
    BY <1>1, NobodyElse
  <2> QED BY <1>4, <1>6, <2>1 DEF Locked
<1>15. Listed'
  BY <1>4, <1>6 DEF Listed
<1>16. Tidied'
  BY <1>2 DEF Tidied
<1> QED BY <1>5, <1>9, <1>13, <1>14, <1>15, <1>16 DEF LifeInv

LEMMA LifeBegins ==
  ASSUME LifeInit
  PROVE  LifeInv
<1>1. /\ MaxDeletes \in Nat /\ Sweeps \in Nat /\ MaxFaults \in Nat /\ MaxCrashes \in Nat
  BY LifecycleAssumption
<1>2. /\ catalog \subseteq Books /\ files = catalog /\ refs = catalog
  BY DEF LifeInit
<1>3. imp = [i \in Importers |-> IdleImport]
  BY DEF LifeInit
<1>4. Imported
  BY <1>3, IdleGood DEF Imported
<1>5. /\ imp \in [Importers -> [pc : {"idle", "acquire", "judge", "persist", "finish", "fail"},
                            cmd : Commands \union {<<>>}, k : Nat,
                            best : Books \union {Nobody}, good : BOOLEAN, own : SUBSET Books]]
      /\ \A i \in Importers : imp[i].k <= Len(imp[i].cmd) + 1
  BY <1>4 DEF Imported, Good, Imports, ImportPhases, MaybeCommands, MaybeBooks, Holdings
<1>6. /\ owner = [b \in Books |-> Nobody] /\ del = [n \in Deletions |-> NoDeletion]
      /\ sweep = [n \in Deletions |-> NoSweep] /\ feed = NoFeed
  BY DEF LifeInit
<1>7. /\ published \in [Books -> [n : 0 .. MaxDeletes, rev : Nat]]
      /\ removedBy \in [Books -> 0 .. MaxDeletes] /\ pending \subseteq Deletions /\ revision \in Nat
      /\ tombstones \subseteq Books /\ spoiled \subseteq Books
      /\ room \in [faults : 0 .. MaxFaults, crashes : 0 .. MaxCrashes]
  BY <1>1 DEF LifeInit
<1>8. del \in [Deletions -> [pc : {"none", "remove", "commit", "remember", "cleanup",
                                  "refs", "deleted", "ended"},
                            book : Books \union {Nobody}]]
  BY <1>6 DEF NoDeletion
<1>9. /\ sweep \in [Deletions -> [pc : {"none", "armed", "checking", "removing"}, left : 0 .. Sweeps]]
      /\ feed \in [pc : {"idle", "reconcile"}, seen : SUBSET Books] /\ Counted
  BY <1>1, <1>6 DEF NoSweep, NoFeed, Counted
<1>10. owner \in [Books -> Importers \union Deletions \union {Nobody}]
  BY <1>6
<1>11. LifeTypeOK
  BY <1>2, <1>5, <1>7, <1>8, <1>9, <1>10 DEF LifeTypeOK
<1>12. \A b \in Books : \A n \in Deletions : owner[b] # n
  BY <1>6, NobodyElse
<1>13. \A b \in Books : \A i \in Importers : owner[b] # i
  BY <1>6, NobodyElse
<1>14. Locked /\ Listed
  BY <1>3, <1>6, <1>12 DEF Locked, Listed, IdleImport, NoDeletion
<1>15. Tidied
  BY <1>2, <1>12, <1>13 DEF Tidied, Tidy
<1> QED BY <1>4, <1>9, <1>11, <1>14, <1>15 DEF LifeInv

LEMMA LifeGoesOn ==
  ASSUME LifeInv, [LifeNext]_lifeVars
  PROVE  LifeInv'
<1>1. ASSUME NEW i \in Importers, NEW c \in Commands, ImportStart(i, c)
      PROVE  LifeInv'
  BY <1>1, ImportStartKeeps
<1>2. ASSUME NEW i \in Importers, ImportStep(i)
      PROVE  LifeInv'
  BY <1>2, AcquireKeeps, PassOverKeeps, RejectKeeps, PreferKeeps, RemovalFailsKeeps, PersistKeeps, ImportErrorKeeps,
     ImportFailKeeps, ImportFinishKeeps DEF ImportStep
<1>3. ASSUME NEW n \in Deletions, NEW b \in Books, DeleteBegin(n, b)
      PROVE  LifeInv'
  BY <1>3, DeleteBeginKeeps
<1>4. ASSUME NEW n \in Deletions, DeleteStep(n)
      PROVE  LifeInv'
  BY <1>4, DeleteAbortKeeps, DeleteRemoveKeeps, DeleteCommitKeeps, DeleteRememberKeeps,
     DeleteCleanupKeeps, DeleteRefsKeeps, DeleteThrowsKeeps DEF DeleteStep
<1>5. ASSUME NEW n \in Deletions, SweepStep(n)
      PROVE  LifeInv'
  BY <1>5, SweepKeeps
<1>6. ASSUME NEW b \in Books, LateWrite(b)
      PROVE  LifeInv'
  BY <1>6, LateWriteKeeps
<1>7. CASE FeedLoad \/ FeedReconcile \/ Restart
  BY <1>7, FeedLoadKeeps, FeedReconcileKeeps, RestartKeeps
<1>8. CASE UNCHANGED lifeVars
  <2>1. UNCHANGED <<catalog, refs, pending, revision, published, files, tombstones, owner, imp, del,
                    sweep, feed, removedBy, spoiled, room>>
    BY <1>8 DEF lifeVars, stores
  <2>2. /\ spoiled' \subseteq Books
        /\ files' \subseteq Books /\ tombstones' \subseteq Books /\ pending' \subseteq Deletions
        /\ revision' \in Nat /\ published' \in [Books -> [n : 0 .. MaxDeletes, rev : Nat]]
        /\ sweep' \in [Deletions -> [pc : {"none", "armed", "checking", "removing"}, left : 0 .. Sweeps]]
        /\ feed' \in [pc : {"idle", "reconcile"}, seen : SUBSET Books]
        /\ room' \in [faults : 0 .. MaxFaults, crashes : 0 .. MaxCrashes]
        /\ Counted' /\ (Full' => Full) /\ files' \subseteq files
    BY <2>1 DEF LifeInv, LifeTypeOK, Counted, Full
  <2> QED BY <2>1, <2>2, AsideKeeps
<1> QED
  BY <1>1, <1>2, <1>3, <1>4, <1>5, <1>6, <1>7, <1>8 DEF LifeNext

(* What imports hold and own, what deletions and sweeps have done, and     *)
(* that nothing lies there for nobody, in every reachable state.           *)
LEMMA LifeHolds == LifeSpec => []LifeInv
<1>1. LifeInit => LifeInv
  BY LifeBegins
<1>2. LifeInv /\ [LifeNext]_lifeVars => LifeInv'
  BY LifeGoesOn
<1> QED BY <1>1, <1>2, PTL DEF LifeSpec

(* book-importer.js, book-deletion.js: unless a removal or update failed   *)
(* or the process restarted, a book that is not in the library and that    *)
(* nobody works on has neither files nor references.                       *)
THEOREM NothingIsLeftBehind == LifeSpec => [](LifeTypeOK /\ NothingLeftBehind)
<1>1. LifeInv => LifeTypeOK /\ NothingLeftBehind
  BY DEF LifeInv, Tidied, Full, Tidy, NothingLeftBehind
<1> QED BY <1>1, LifeHolds, PTL

(* book-deletion-log.js: a record of a deletion that changes gets a        *)
(* revision above every earlier one, so a device's cursor misses none.     *)
THEOREM CursorIsSound == LifeSpec => CursorSound
<1>1. ASSUME LifeInv, [LifeNext]_lifeVars
      PROVE  [\A b \in Books : published'[b] # published[b] => published'[b].rev > revision]_lifeVars
  <2> SUFFICES ASSUME LifeNext, NEW b \in Books, published'[b] # published[b]
      PROVE  published'[b].rev > revision
    BY <1>1 DEF lifeVars
  <2>1. CASE FeedReconcile
    BY <1>1, <2>1, Reconciled DEF LifeInv
  <2>2. ASSUME NEW n \in Deletions, DeleteCommit(n)
        PROVE  published'[b].rev > revision
    <3>1. Publish(del[n].book, n)
      BY <2>2 DEF DeleteCommit
    <3>2. del[n].book \in Books /\ revision \in Nat
          /\ published \in [Books -> [n : 0 .. MaxDeletes, rev : Nat]]
      BY <1>1, <2>2, AtDeletion DEF DeleteCommit, Working, LifeInv, LifeTypeOK
    <3>3. revision' = revision + 1
          /\ published' = [published EXCEPT ![del[n].book] = [n |-> n, rev |-> revision']]
      BY <3>1 DEF Publish
    <3> QED BY <3>2, <3>3
  <2>3. ASSUME NEW i \in Importers, NEW c \in Commands, ImportStart(i, c)
        PROVE  UNCHANGED published
    BY <2>3 DEF ImportStart, stores
  <2>4. ASSUME NEW i \in Importers, ImportStep(i)
        PROVE  UNCHANGED published
    BY <2>4 DEF ImportStep, Acquire, PassOver, Reject, Prefer, RemovalFails, Drop, Persist, ImportError, ImportFail,
       ImportFinish, stores
  <2>5. ASSUME NEW n \in Deletions, NEW x \in Books, DeleteBegin(n, x)
        PROVE  UNCHANGED published
    BY <2>5 DEF DeleteBegin
  <2>6. ASSUME NEW n \in Deletions, DeleteStep(n), ~DeleteCommit(n)
        PROVE  UNCHANGED published
    BY <2>6 DEF DeleteStep, DeleteAbort, DeleteRemove, DeleteCommitFails, DeleteRemember, DeleteCleanup,
       DeleteRefs, DeleteThrows, stores
  <2>7. ASSUME NEW n \in Deletions, SweepStep(n)
        PROVE  UNCHANGED published
    BY <2>7 DEF SweepStep, SweepStart, SweepCheck, SweepRemove, stores
  <2>8. ASSUME NEW x \in Books, LateWrite(x)
        PROVE  UNCHANGED published
    BY <2>8 DEF LateWrite, stores
  <2>9. CASE FeedLoad \/ Restart
    BY <2>9 DEF FeedLoad, Restart, stores
  <2> QED BY <2>1, <2>2, <2>3, <2>4, <2>5, <2>6, <2>7, <2>8, <2>9 DEF LifeNext
<1> QED BY <1>1, LifeHolds, PTL DEF LifeSpec, CursorSound

(* What a book of the library and an import rest on.  An import may own a  *)
(* book of the library only if it was asked for that very book.            *)
Backed ==
  /\ catalog \ spoiled \subseteq files
  /\ \A i \in Importers :
       /\ imp[i].own \ spoiled \subseteq files
       /\ imp[i].own \intersect catalog \subseteq {imp[i].cmd[1]}

LEMMA Owns ==
  ASSUME LifeInv, NEW i \in Importers
  PROVE  \A b \in imp[i].own : b \in Books /\ owner[b] = i
<1>1. CASE imp[i].pc = "idle"
  BY <1>1, IdleOwns
<1>2. CASE imp[i].pc # "idle"
  <2>1. imp[i].own \subseteq CandidateIds(imp[i].cmd) /\ imp[i].cmd \in Commands
    BY <1>2, AtWork DEF Good
  <2>2. CandidateIds(imp[i].cmd) \subseteq Books /\ \A b \in CandidateIds(imp[i].cmd) : owner[b] = i
    BY <1>2, AtWork
  <2> QED BY <2>1, <2>2
<1> QED BY <1>1, <1>2

LEMMA BackedByImport ==
  ASSUME LifeInv, Backed, NEW i \in Importers, NEW r, imp' = [imp EXCEPT ![i] = r],
         catalog' \ spoiled' \subseteq files', r.own \ spoiled' \subseteq files',
         r.own \intersect catalog' \subseteq {r.cmd[1]},
         \A b \in Books : owner[b] # i =>
           (b \in files \union spoiled => b \in files' \union spoiled')
             /\ (b \in catalog' => b \in catalog)
  PROVE  Backed'
<1>1. imp'[i] = r /\ \A k \in Importers : k # i => imp'[k] = imp[k]
  BY DEF LifeInv, Imported
<1>2. ASSUME NEW k \in Importers, k # i
      PROVE  /\ imp[k].own \ spoiled' \subseteq files'
             /\ imp[k].own \intersect catalog' \subseteq {imp[k].cmd[1]}
  <2>1. /\ imp[k].own \ spoiled \subseteq files
        /\ imp[k].own \intersect catalog \subseteq {imp[k].cmd[1]}
    BY DEF Backed
  <2>2. \A b \in imp[k].own : b \in Books /\ owner[b] # i
    BY <1>2, Owns
  <2> QED BY <2>1, <2>2
<1> QED BY <1>1, <1>2 DEF Backed

LEMMA BackedAside ==
  ASSUME Backed, UNCHANGED imp, catalog' \subseteq catalog, spoiled \subseteq spoiled',
         \A b \in files \ files' :
           b \in spoiled' \/ (b \notin catalog /\ \A i \in Importers : b \notin imp[i].own)
  PROVE  Backed'
<1>1. ASSUME NEW k \in Importers
      PROVE  /\ imp[k].own \ spoiled' \subseteq files'
             /\ imp[k].own \intersect catalog' \subseteq {imp[k].cmd[1]}
  BY DEF Backed
<1> QED BY <1>1 DEF Backed

LEMMA BackedDrop ==
  ASSUME LifeInv, Backed, NEW i \in Importers, NEW S, TakeAway(i, S), UNCHANGED catalog,
         NEW q, imp' = [imp EXCEPT ![i] = q], q.own \subseteq imp[i].own \ S,
         q.cmd = imp[i].cmd \/ q.own = {}
  PROVE  Backed'
<1>1. /\ files' = files \ (S \intersect imp[i].own) /\ catalog' = catalog
      /\ spoiled' = spoiled \union (S \intersect imp[i].own \intersect Refreshed(i))
  BY DEF TakeAway
<1>2. /\ catalog \ spoiled \subseteq files /\ imp[i].own \ spoiled \subseteq files
      /\ imp[i].own \intersect catalog \subseteq Refreshed(i)
      /\ imp[i].own \intersect catalog \subseteq {imp[i].cmd[1]}
  BY DEF Backed, Refreshed
<1>3. \A b \in imp[i].own : owner[b] = i
  BY Owns
<1>4. catalog' \ spoiled' \subseteq files' /\ q.own \ spoiled' \subseteq files'
  BY <1>1, <1>2
<1>5. /\ q.own \intersect catalog' \subseteq {q.cmd[1]}
      /\ \A b \in Books : owner[b] # i =>
           (b \in files \union spoiled => b \in files' \union spoiled')
             /\ (b \in catalog' => b \in catalog)
  BY <1>1, <1>2, <1>3
<1> QED BY <1>4, <1>5, BackedByImport

(* A step of an import that moves no file and writes no record.            *)
LEMMA BackedStill ==
  ASSUME LifeInv, Backed, NEW i \in Importers, NEW r, imp' = [imp EXCEPT ![i] = r],
         UNCHANGED <<files, catalog, spoiled>>, r.own \subseteq imp[i].own,
         r.cmd = imp[i].cmd \/ r.own = {}
  PROVE  Backed'
<1>1. /\ catalog \ spoiled \subseteq files /\ imp[i].own \ spoiled \subseteq files
      /\ imp[i].own \intersect catalog \subseteq {imp[i].cmd[1]}
  BY DEF Backed
<1>2. catalog' \ spoiled' \subseteq files' /\ r.own \ spoiled' \subseteq files'
  BY <1>1
<1>3. r.own \intersect catalog' \subseteq {r.cmd[1]}
  BY <1>1
<1> QED BY <1>2, <1>3, BackedByImport

LEMMA BackedOnImport ==
  ASSUME LifeInv, Backed, NEW i \in Importers,
         ImportStep(i) \/ \E c \in Commands : ImportStart(i, c)
  PROVE  Backed'
<1>a. /\ catalog \ spoiled \subseteq files /\ imp[i].own \ spoiled \subseteq files
      /\ imp[i].own \intersect catalog \subseteq {imp[i].cmd[1]}
      /\ catalog \subseteq Books /\ files \subseteq Books
  BY DEF Backed, LifeInv, LifeTypeOK
<1>b. \A b \in imp[i].own : b \in Books /\ owner[b] = i
  BY Owns
<1>1. ASSUME NEW c \in Commands, ImportStart(i, c)
      PROVE  Backed'
  <2> DEFINE r == [IdleImport EXCEPT !.pc = "acquire", !.cmd = c, !.k = 1]
  <2>1. imp' = [imp EXCEPT ![i] = r] /\ UNCHANGED <<files, catalog, spoiled>>
    BY <1>1 DEF ImportStart, stores
  <2>2. r.own = {}
    BY DEF IdleImport
  <2> HIDE DEF r
  <2> QED BY <2>1, <2>2, BackedStill
<1>2. CASE Acquire(i)
  <2> DEFINE own == imp[i].own \union {Candidate(i)}
             r == [imp[i] EXCEPT !.pc = "judge", !.own = own]
  <2>1. /\ imp' = [imp EXCEPT ![i] = r] /\ files' = files \union {Candidate(i)} /\ catalog' = catalog
        /\ spoiled' = spoiled \ {Candidate(i)} /\ imp[i].pc = "acquire" /\ Available(i)
    BY <1>2 DEF Acquire, stores
  <2>2. imp[i] \in Imports
    BY <2>1, AtWork
  <2>3. r.own = own /\ r.cmd = imp[i].cmd
    BY <2>2 DEF Imports
  <2>4. Candidate(i) \notin catalog \/ Candidate(i) = imp[i].cmd[1]
    BY <2>1 DEF Available, Candidate
  <2> HIDE DEF r
  <2>5. /\ catalog' \ spoiled' \subseteq files' /\ r.own \ spoiled' \subseteq files'
        /\ r.own \intersect catalog' \subseteq {r.cmd[1]}
    BY <1>a, <2>1, <2>3, <2>4
  <2>6. \A b \in Books : owner[b] # i =>
          (b \in files \union spoiled => b \in files' \union spoiled') /\ (b \in catalog' => b \in catalog)
    BY <2>1
  <2> HIDE DEF own
  <2> QED BY <2>1, <2>5, <2>6, BackedByImport
<1>3. CASE PassOver(i) \/ RemovalFails(i)
  <2> DEFINE f == [imp[i] EXCEPT !.pc = "fail"]
             o == Onward(imp[i])
             r == IF imp[i].k = 1 THEN f ELSE o
  <2>1. /\ imp' = [imp EXCEPT ![i] = r] /\ UNCHANGED <<files, catalog, spoiled>>
        /\ imp[i].pc # "idle"
    BY <1>3 DEF PassOver, RemovalFails, stores
  <2>2. imp[i] \in Imports
    BY <2>1, AtWork
  <2>3. f.own = imp[i].own /\ f.cmd = imp[i].cmd /\ o.own = imp[i].own /\ o.cmd = imp[i].cmd
    BY <2>2 DEF Imports, Onward
  <2> HIDE DEF f, o
  <2>4. r.own = imp[i].own /\ r.cmd = imp[i].cmd
    BY <2>3
  <2> HIDE DEF r
  <2> QED BY <2>1, <2>4, BackedStill
<1>4. CASE Reject(i)
  <2> DEFINE r == [imp[i] EXCEPT !.own = imp[i].own \ {Candidate(i)}]
             q == Onward(r)
  <2>1. /\ imp[i].pc = "judge" /\ TakeAway(i, {Candidate(i)}) /\ UNCHANGED catalog
        /\ imp' = [imp EXCEPT ![i] = q]
    BY <1>4 DEF Reject, Drop, stores
  <2>2. imp[i] \in Imports
    BY <2>1, AtWork
  <2>3. imp[i].own \ {Candidate(i)} \in Holdings
    BY <2>2 DEF Imports, Holdings
  <2>4. r \in Imports /\ r.cmd = imp[i].cmd /\ r.own = imp[i].own \ {Candidate(i)}
    BY <2>2, <2>3 DEF Imports
  <2> HIDE DEF r
  <2>5. q.own = imp[i].own \ {Candidate(i)} /\ q.cmd = imp[i].cmd
    BY <2>4 DEF Onward, Imports
  <2> HIDE DEF q
  <2> QED BY <2>1, <2>5, BackedDrop
<1>5. CASE Prefer(i)
  <2>1. PICK good \in BOOLEAN :
          /\ Drop(i, {imp[i].best})
          /\ imp' = [imp EXCEPT ![i] = Onward([imp[i] EXCEPT !.own = imp[i].own \ {imp[i].best},
                                                           !.best = Candidate(i), !.good = good])]
    BY <1>5 DEF Prefer
  <2> DEFINE r == [imp[i] EXCEPT !.own = imp[i].own \ {imp[i].best}, !.best = Candidate(i),
                                !.good = good]
             q == Onward(r)
  <2>2. /\ imp[i].pc = "judge" /\ imp' = [imp EXCEPT ![i] = q]
        /\ TakeAway(i, {imp[i].best}) /\ UNCHANGED catalog
    BY <1>5, <2>1 DEF Prefer, Drop, stores
  <2>3. imp[i] \in Imports
    BY <2>2, AtWork
  <2>4. imp[i].own \ {imp[i].best} \in Holdings /\ Candidate(i) \in MaybeBooks
    BY <2>2, <2>3, AtWork DEF Imports, Holdings, MaybeBooks
  <2>5. r \in Imports /\ r.cmd = imp[i].cmd /\ r.own = imp[i].own \ {imp[i].best}
    BY <2>3, <2>4 DEF Imports
  <2> HIDE DEF r
  <2>6. q.own = imp[i].own \ {imp[i].best} /\ q.cmd = imp[i].cmd
    BY <2>5 DEF Onward, Imports
  <2> HIDE DEF q
  <2> QED BY <2>2, <2>6, BackedDrop
<1>6. CASE Persist(i)
  <2> DEFINE r == [imp[i] EXCEPT !.pc = "finish", !.own = {}]
  <2>1. /\ imp' = [imp EXCEPT ![i] = r] /\ UNCHANGED <<files, spoiled>>
        /\ catalog' = catalog \union {imp[i].best} /\ imp[i].pc = "persist"
    BY <1>6 DEF Persist
  <2>2. imp[i] \in Imports /\ imp[i].best \in imp[i].own
    BY <2>1, AtWork DEF Good
  <2>3. r.own = {}
    BY <2>2 DEF Imports
  <2> HIDE DEF r
  <2>4. /\ catalog' \ spoiled' \subseteq files' /\ r.own \ spoiled' \subseteq files'
        /\ r.own \intersect catalog' \subseteq {r.cmd[1]}
        /\ \A b \in Books : owner[b] # i =>
             (b \in files \union spoiled => b \in files' \union spoiled')
               /\ (b \in catalog' => b \in catalog)
    BY <1>a, <1>b, <2>1, <2>2, <2>3
  <2> QED BY <2>1, <2>4, BackedByImport
<1>7. CASE ImportError(i)
  <2> DEFINE r == [imp[i] EXCEPT !.pc = "fail"]
  <2>1. /\ imp' = [imp EXCEPT ![i] = r] /\ UNCHANGED <<files, catalog, spoiled>>
        /\ imp[i].pc # "idle"
    BY <1>7 DEF ImportError, stores
  <2>2. imp[i] \in Imports
    BY <2>1, AtWork
  <2>3. r.own = imp[i].own /\ r.cmd = imp[i].cmd
    BY <2>2 DEF Imports
  <2> HIDE DEF r
  <2> QED BY <2>1, <2>3, BackedStill
<1>8. CASE ImportFail(i) \/ ImportFinish(i)
  <2>1. /\ imp' = [imp EXCEPT ![i] = IdleImport] /\ UNCHANGED catalog
        /\ TakeAway(i, imp[i].own) \/ UNCHANGED <<files, spoiled>>
    BY <1>8 DEF ImportFail, ImportFinish, stores
  <2>2. IdleImport.own = {}
    BY DEF IdleImport
  <2> QED BY <2>1, <2>2, BackedDrop, BackedStill
<1> QED
  BY <1>1, <1>2, <1>3, <1>4, <1>5, <1>6, <1>7, <1>8 DEF ImportStep

LEMMA BackedOn ==
  ASSUME LifeInv, Backed, [LifeNext]_lifeVars
  PROVE  Backed'
<1>1. CASE \E i \in Importers : (\E c \in Commands : ImportStart(i, c)) \/ ImportStep(i)
  BY <1>1, BackedOnImport
<1>2. ASSUME NEW n \in Deletions, (\E b \in Books : DeleteBegin(n, b)) \/ DeleteStep(n)
      PROVE  Backed'
  <2>1. /\ UNCHANGED <<imp, spoiled>> /\ catalog' \subseteq catalog
        /\ \/ files' = files
           \/ del[n].pc = "cleanup" /\ files' = files \ {del[n].book}
    BY <1>2 DEF DeleteBegin, DeleteStep, DeleteAbort, DeleteRemove, DeleteCommit, DeleteCommitFails,
       DeleteRemember, DeleteCleanup, DeleteRefs, DeleteThrows, stores
  <2>2. del[n].pc = "cleanup" => del[n].book \notin catalog /\ owner[del[n].book] \notin Importers
    BY AtDeletion, NobodyElse DEF Working
  <2>3. \A b \in files \ files' : b \notin catalog /\ \A i \in Importers : b \notin imp[i].own
    BY <2>1, <2>2, Owns
  <2> QED BY <2>1, <2>3, BackedAside
<1>3. ASSUME NEW n \in Deletions, SweepStep(n)
      PROVE  Backed'
  <2>1. /\ UNCHANGED <<imp, catalog>>
        /\ \/ UNCHANGED <<files, spoiled>>
           \/ /\ files' = files \ {del[n].book}
              /\ spoiled' = spoiled \union ({del[n].book} \intersect Needed)
    BY <1>3 DEF SweepStep, SweepStart, SweepCheck, SweepRemove, stores
  <2>2. spoiled \subseteq spoiled' /\ \A b \in files \ files' : b \in spoiled' \/ b \notin Needed
    BY <2>1
  <2>3. \A b : b \notin Needed => b \notin catalog /\ \A i \in Importers : b \notin imp[i].own
    BY DEF Needed
  <2> QED BY <2>1, <2>2, <2>3, BackedAside
<1>4. CASE (\E b \in Books : LateWrite(b)) \/ FeedLoad \/ FeedReconcile
  <2>1. UNCHANGED <<imp, spoiled>> /\ catalog' = catalog /\ files \subseteq files'
    BY <1>4 DEF LateWrite, FeedLoad, FeedReconcile, stores
  <2> QED BY <2>1, BackedAside
<1>5. CASE Restart
  <2>1. /\ \A i \in Importers : imp'[i] = IdleImport
        /\ UNCHANGED <<catalog, files, spoiled>>
    BY <1>5 DEF Restart, stores
  <2> QED BY <2>1 DEF Backed, IdleImport
<1>6. CASE UNCHANGED lifeVars
  BY <1>6 DEF Backed, lifeVars, stores
<1> QED BY <1>1, <1>2, <1>3, <1>4, <1>5, <1>6 DEF LifeNext

(* book-importer.js, book-deletion.js: unless a sweep of a deletion met    *)
(* it, or a refresh of that very book took its files, a book of the        *)
(* library has its files, whatever is imported, rejected, refreshed and    *)
(* deleted beside it and wherever the process stops; and what was rejected *)
(* or deleted leaves none.                                                 *)
THEOREM FilesAreKept == LifeSpec => []FilesFollowLibrary
<1>1. LifeInit => Backed
  BY DEF LifeInit, Backed, IdleImport
<1>2. LifeInv /\ Backed /\ [LifeNext]_lifeVars => Backed'
  BY BackedOn
<1>3. LifeInv /\ Backed => FilesFollowLibrary
  BY DEF LifeInv, Tidied, Full, Tidy, NothingLeftBehind, Backed, LiveBookIntact, FilesFollowLibrary
<1> QED BY <1>1, <1>2, <1>3, LifeHolds, PTL DEF LifeSpec
===============================================================================
