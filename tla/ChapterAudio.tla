----------------------------- MODULE ChapterAudio -----------------------------
(***************************************************************************)
(* lib/chapter-audio-reconcile.js: after a chapter rebuild has committed,  *)
(* audio of chapters whose text is unchanged moves to their new indexes,   *)
(* and audio of all other affected chapters goes.  Moves may overlap: one  *)
(* chapter's target is another one's source.  Every file is copied to a    *)
(* stage first; a manifest tells a later run what was to be moved and      *)
(* whether it has begun to.                                                *)
(*                                                                         *)
(* The rebuild's journal (ChapterRebuild) calls reconcile again until it   *)
(* has recorded that one succeeded: at once after a restart, or at a later *)
(* visit after an error, when chapters may have been rendered meanwhile.   *)
(* An audio file and its marker are two files with a content each, which   *)
(* stands for the fingerprint of text, voice and settings.                 *)
(***************************************************************************)
EXTENDS Naturals, FiniteSets

CONSTANTS
  Chapters,    \* indexes before and after, counted from one
  Plans,       \* transitions: [moves: pairs of indexes, affected: indexes]
  MaxTrouble   \* bound: how many crashes and errors there may be

(* reusableAudio maps an index to one other, and targets of several are    *)
(* dropped; every index that does not keep its chapter is affected.        *)
ASSUME AudioAssumption ==
  /\ Chapters \subseteq Nat \ {0}
  /\ Plans \subseteq [moves : SUBSET (Chapters \X Chapters), affected : SUBSET Chapters]
  /\ \A p \in Plans : \A m \in p.moves :
       /\ \A n \in p.moves : m[1] = n[1] <=> m[2] = n[2]
       /\ m[1] # m[2] <=> m[1] \in p.affected
       /\ m[1] # m[2] <=> m[2] \in p.affected

VARIABLES
  plan,      \* the transition
  had,       \* the chapters that had audio with a valid marker before
  file,      \* file[p][c]: what the audio file or marker of c holds
  stage,     \* stage[i]: the staged copy of item i
  manifest,  \* the durable manifest
  at,        \* where reconcile is
  trouble,
  spoilt,    \* audio was given up: an error, or a run after the last one
  littered   \* what an error should have removed may still be there

audioVars == <<plan, had, file, stage, manifest, at, trouble, spoilt, littered>>

Parts == {"audio", "marker"}
None  == [text |-> 0, new |-> FALSE]
Old(c) == [text |-> c, new |-> FALSE]

(* What chapter c says after the rebuild.                                  *)
Says(c) == IF \E m \in plan.moves : m[2] = c THEN Old((CHOOSE m \in plan.moves : m[2] = c)[1])
           ELSE IF c \in plan.affected THEN [text |-> c, new |-> TRUE] ELSE Old(c)

Items == {[from |-> m[1], to |-> m[2], part |-> p] : m \in Chapters \X Chapters, p \in Parts}
NoManifest == [there |-> FALSE, items |-> {}, promoting |-> FALSE]

AudioInit ==
  /\ plan \in Plans
  /\ \E audio \in SUBSET Chapters :
       /\ had \in SUBSET audio
       /\ file = [p \in Parts |-> [c \in Chapters |->
            IF c \in (IF p = "audio" THEN audio ELSE had) THEN Old(c) ELSE None]]
  /\ stage = [i \in Items |-> None] /\ manifest = NoManifest
  /\ at = "plan" /\ trouble = 0 /\ spoilt = FALSE /\ littered = FALSE

-----------------------------------------------------------------------------
Reusable(m) ==
  file["audio"][m[1]] # None /\ file["marker"][m[1]] # None /\ file["marker"][m[1]] = Says(m[2])

Chosen ==
  {[from |-> m[1], to |-> m[2], part |-> p] :
     m \in {x \in plan.moves : x[1] # x[2] /\ Reusable(x)}, p \in Parts}

(* The manifest of an earlier run stands; without one the moves are chosen.*)
Choose ==
  /\ at = "plan" /\ at' = "stage"
  /\ manifest' = IF manifest.there THEN manifest
                 ELSE [NoManifest EXCEPT !.there = TRUE, !.items = Chosen]
  /\ UNCHANGED <<plan, had, file, stage, trouble, spoilt, littered>>

Source(i) == file[i.part][i.from]
Target(i) == file[i.part][i.to]
Missing   == {i \in manifest.items : stage[i] = None}

(* A stage that was consumed proves that the promotion had begun.          *)
Promoting ==
  manifest.promoting \/ \E i \in Missing : Source(i) = None /\ Target(i) # None

Copied(i) == IF Promoting THEN Target(i) ELSE IF Source(i) # None THEN Source(i) ELSE Target(i)

Stage(i) ==
  /\ at = "stage" /\ i \in Missing /\ Copied(i) # None
  /\ stage' = [stage EXCEPT ![i] = Copied(i)]
  /\ UNCHANGED <<plan, had, file, manifest, at, trouble, spoilt, littered>>

(* Fault: old files go while copies are still being made.                  *)
AllStaged_Not == TRUE
AllStaged == Missing = {}

Staged ==
  /\ at = "stage" /\ AllStaged /\ at' = "remove"
  /\ UNCHANGED <<plan, had, file, stage, manifest, trouble, spoilt, littered>>

(* removeArtifacts: the files of the affected chapters go one by one, also *)
(* after an error.                                                         *)
RemoveArtifact(p, c) ==
  /\ at \in {"remove", "clear"} /\ c \in plan.affected /\ file[p][c] # None
  /\ file' = [file EXCEPT ![p][c] = None]
  /\ UNCHANGED <<plan, had, stage, manifest, at, trouble, spoilt, littered>>

Unaffected == \A p \in Parts, c \in plan.affected : file[p][c] = None

Removed ==
  /\ at = "remove" /\ Unaffected
  /\ manifest' = [manifest EXCEPT !.promoting = TRUE] /\ at' = "promote"
  /\ UNCHANGED <<plan, had, file, stage, trouble, spoilt, littered>>

Promote(i) ==
  /\ at = "promote" /\ i \in manifest.items /\ stage[i] # None
  /\ file' = [file EXCEPT ![i.part][i.to] = stage[i]]
  /\ stage' = [stage EXCEPT ![i] = None]
  /\ UNCHANGED <<plan, had, manifest, at, trouble, spoilt, littered>>

Promoted ==
  /\ at = "promote" /\ \A i \in manifest.items : stage[i] = None
  /\ manifest' = NoManifest /\ at' = "done"
  /\ UNCHANGED <<plan, had, file, stage, trouble, spoilt, littered>>

-----------------------------------------------------------------------------
(* An error, such as a copy that is nowhere any more, removes the stages   *)
(* of a manifest that was read, the manifest, and all affected audio, in   *)
(* this order.  Each removal may fail, or be the last step of the process. *)
(* The rebuild's journal stays, and a later visit runs reconcile again.    *)
Troubled == trouble < MaxTrouble /\ trouble' = trouble + 1
Gone     == at = "stage" /\ \E i \in Missing : Copied(i) = None
Clearing == {"discard", "unlink", "clear"}

Err ==
  /\ at \notin Clearing \union {"done", "failed"}
  /\ Troubled \/ (Gone /\ UNCHANGED trouble)
  /\ at' = "discard" \/ (at = "plan" /\ at' = "unlink")
  /\ spoilt' = TRUE
  /\ UNCHANGED <<plan, had, file, stage, manifest, littered>>

DiscardStage(i) ==
  /\ at = "discard" /\ i \in manifest.items /\ stage[i] # None
  /\ stage' = [stage EXCEPT ![i] = None]
  /\ UNCHANGED <<plan, had, file, manifest, at, trouble, spoilt, littered>>

Discarded ==
  /\ at = "discard" /\ at' = "unlink"
  /\ (Missing = manifest.items /\ UNCHANGED trouble) \/ Troubled
  /\ UNCHANGED <<plan, had, file, stage, manifest, spoilt, littered>>

UnlinkManifest ==
  /\ at = "unlink" /\ at' = "clear"
  /\ \/ manifest' = NoManifest /\ UNCHANGED <<trouble, littered>>
     \/ manifest.there /\ Troubled /\ littered' = TRUE /\ UNCHANGED manifest
  /\ UNCHANGED <<plan, had, file, stage, spoilt>>

Cleared ==
  /\ at = "clear" /\ at' = "failed"
  /\ \/ Unaffected /\ UNCHANGED <<trouble, littered>>
     \/ ~Unaffected /\ Troubled /\ littered' = TRUE
  /\ UNCHANGED <<plan, had, file, stage, manifest, spoilt>>

AudioCrash ==
  /\ at \notin {"done", "failed"} /\ Troubled /\ at' = "plan"
  /\ littered' = (littered \/ at \in Clearing)
  /\ UNCHANGED <<plan, had, file, stage, manifest, spoilt>>

(* A chapter is rendered while the journal waits.                          *)
Render(c) ==
  /\ at = "failed" /\ (file["audio"][c] = None \/ file["marker"][c] # Says(c))
  /\ file' = [p \in Parts |-> [file[p] EXCEPT ![c] = Says(c)]]
  /\ UNCHANGED <<plan, had, stage, manifest, at, trouble, spoilt, littered>>

(* The next visit; also after a success that was not recorded.             *)
Again ==
  /\ at \in {"failed", "done"} /\ Troubled
  /\ at' = "plan" /\ spoilt' = TRUE
  /\ UNCHANGED <<plan, had, file, stage, manifest, littered>>

AudioSteps ==
  \/ Choose \/ Staged \/ Removed \/ Promoted \/ Discarded \/ UnlinkManifest \/ Cleared
  \/ \E i \in Items : Stage(i) \/ Promote(i) \/ DiscardStage(i)
  \/ \E p \in Parts, c \in Chapters : RemoveArtifact(p, c)
AudioNext == AudioSteps \/ Err \/ AudioCrash \/ Again \/ \E c \in Chapters : Render(c)
AudioSpec == AudioInit /\ [][AudioNext]_audioVars

-----------------------------------------------------------------------------
(* Once reconcile has ended, no affected chapter has audio of another      *)
(* text, and no marker belongs to other audio.  After an error that left   *)
(* something behind, the next run may take a copy that is gone for one     *)
(* that was promoted, and move what lies at its target.                    *)
RightAudio ==
  at \in {"done", "failed"} /\ ~littered =>
    \A c \in plan.affected :
      /\ file["audio"][c] \in {None, Says(c)}
      /\ file["marker"][c] \in {None, file["audio"][c]}

(* A crash anywhere loses no audio that could be reused: "the manifest     *)
(* makes every step repeatable after a process crash".                     *)
ReuseKept ==
  at = "done" /\ ~spoilt =>
    \A m \in plan.moves : m[1] \in had => file["audio"][m[2]] = Old(m[1])

(* A run finds both the staged copy of a file and what it was copied from  *)
(* gone only after an error that left something behind.                    *)
CopyThere == Gone => littered

(* Audio that is kept belongs to its chapter's text, and none is lost that *)
(* could be kept, whenever the process dies.                               *)
AudioKept == RightAudio /\ ReuseKept /\ CopyThere
=============================================================================
