----------------------------- MODULE PositionSync -----------------------------
(***************************************************************************)
(* Where a listener is in a book, told by several devices to one server:   *)
(* the client's savePosition, its queue of saves that failed and the flush *)
(* of that queue (public/app.js, public/js/features/offline.js), and       *)
(* recordPosition (lib/user-library-state.js), which decides by the time a *)
(* save was made and by whether it may move backward.                      *)
(*                                                                         *)
(* A request may be lost before the server sees it or after; either way    *)
(* the client hears of a failure and queues the save.  A beacon is sent    *)
(* and forgotten.  A page may be killed at any time; checkpoint and queue  *)
(* are in the browser's storage.                                           *)
(*                                                                         *)
(* One book and one account.  Clocks agree, and time is the number of      *)
(* saves so far.  A place stands for chapter, chunk and offset.            *)
(***************************************************************************)
EXTENDS Naturals, Sequences, FiniteSets, SequencesExt

CONSTANTS
  Devices,
  Places,     \* 0 .. n, in reading order
  Trips       \* bound: how often each event may come

Happenings == {"save", "rewind", "beacon", "open", "loss", "kill"}

VARIABLES
  record,     \* the server's position: when it was made and where
  player,     \* player[d]: closed, asking the server, or playing at a place
  checkpoint, \* checkpoint[d]: the last position, kept by the device
  mail,       \* requests on their way, and answers
  queue,      \* queue[d]: the saves that failed
  flush,      \* flush[d]: what is left of the flush's snapshot
  made,       \* saves so far
  handled,    \* the saves the server has decided
  gone,       \* beacons, and saves whose page was killed before it heard of them
  trips

posVars == <<record, player, checkpoint, mail, queue, flush, made, handled, gone, trips>>

Never   == [at |-> 0, place |-> 0]
Closed  == [pc |-> "closed", place |-> 0, read |-> Never]
NoFlush == [on |-> FALSE, items |-> <<>>]

PosInit ==
  /\ record = Never /\ player = [d \in Devices |-> Closed]
  /\ checkpoint = [d \in Devices |-> Never]
  /\ mail = {} /\ queue = [d \in Devices |-> <<>>] /\ flush = [d \in Devices |-> NoFlush]
  /\ made = {} /\ handled = {} /\ gone = {} /\ trips \in Trips

Spends(e) == trips[e] > 0 /\ trips' = [trips EXCEPT ![e] = @ - 1]
Now == Cardinality(made) + 1

-----------------------------------------------------------------------------
(* The player. *)

(* savePosition and beaconSavePosition: the checkpoint is kept, the save   *)
(* is sent.                                                                *)
Saves(d, place, back, kind) ==
  LET save == [at |-> Now, place |-> place, dev |-> d, back |-> back]
  IN /\ checkpoint' = [checkpoint EXCEPT ![d] = [at |-> Now, place |-> place]]
     /\ made' = made \union {save}
     /\ gone' = IF kind = "beacon" THEN gone \union {save} ELSE gone
     /\ mail' = mail \union {[save |-> save, kind |-> kind, pc |-> "sent"]}

Playing(d) == player[d].pc = "playing"

(* The listener hears on, and the player saves.                            *)
HearOn(d) ==
  /\ Playing(d) /\ player[d].place + 1 \in Places /\ Spends("save")
  /\ player' = [player EXCEPT ![d].place = @ + 1]
  /\ Saves(d, player[d].place + 1, FALSE, "save")
  /\ UNCHANGED <<record, queue, flush, handled>>

(* The listener goes back.                                                 *)
Rewind(d, place) ==
  /\ Playing(d) /\ place < player[d].place /\ Spends("rewind")
  /\ player' = [player EXCEPT ![d].place = place]
  /\ Saves(d, place, TRUE, "save")
  /\ UNCHANGED <<record, queue, flush, handled>>

(* openBook asks for the server's position; the answer may come too late.  *)
Ask(d) ==
  /\ player[d].pc = "closed" /\ Spends("open")
  /\ \E read \in {record, Never} :
       player' = [player EXCEPT ![d] = [Closed EXCEPT !.pc = "asking", !.read = read]]
  /\ UNCHANGED <<record, checkpoint, mail, queue, flush, made, handled, gone>>

(* chooseFreshestPosition and shouldAllowBackwardReconciliation            *)
Open(d) ==
  LET read  == player[d].read
      local == checkpoint[d]
      best  == IF local.at >= read.at THEN local ELSE read
  IN /\ player[d].pc = "asking"
     /\ player' = [player EXCEPT ![d] = [Closed EXCEPT !.pc = "playing", !.place = best.place]]
     /\ IF read.at # 0 /\ local.at >= read.at /\ local.place < read.place
        THEN Saves(d, best.place, TRUE, "save")
        ELSE UNCHANGED <<checkpoint, mail, made, gone>>
     /\ UNCHANGED <<record, queue, flush, handled, trips>>

(* The page is hidden or left: a beacon.                                   *)
Beacon(d) ==
  /\ Playing(d) /\ Spends("beacon")
  /\ Saves(d, player[d].place, FALSE, "beacon")
  /\ player' = [player EXCEPT ![d] = Closed]
  /\ UNCHANGED <<record, queue, flush, handled>>

(* The page dies; its requests go on, but nobody waits for them.           *)
Kill(d) ==
  /\ Spends("kill")
  /\ LET orphans == {m \in mail : m.save.dev = d}
     IN /\ gone' = gone \union {m.save : m \in {x \in orphans : x.kind = "save"}}
        /\ mail' = (mail \ orphans) \union
                   {[m EXCEPT !.kind = "beacon"] : m \in {x \in orphans : x.pc = "sent"}}
  /\ player' = [player EXCEPT ![d] = Closed] /\ flush' = [flush EXCEPT ![d] = NoFlush]
  /\ UNCHANGED <<record, checkpoint, queue, made, handled>>

-----------------------------------------------------------------------------
(* The server. *)

Older(m) == m.save.at < record.at
Behind(m) == m.save.place < record.place

(* Fault: who is further on wins.                                          *)
Ignored_Furthest(m) == Behind(m) /\ ~m.save.back
Ignored(m) == Older(m) \/ (Behind(m) /\ ~m.save.back)

Handle(m) ==
  /\ m.pc = "sent"
  /\ record' = IF Ignored(m) THEN record ELSE [at |-> m.save.at, place |-> m.save.place]
  /\ handled' = handled \union {m.save}
  /\ mail' = (mail \ {m}) \union
             (IF m.kind = "beacon" THEN {} ELSE {[m EXCEPT !.pc = "answered"]})
  /\ UNCHANGED <<player, checkpoint, queue, flush, made, gone, trips>>

-----------------------------------------------------------------------------
(* The answers, the queue and its flush. *)

Rest(d) == [flush EXCEPT ![d].items = Tail(@)]

(* By the id of the entry: a save is queued once.                          *)
Left(d, save) == RemoveFirst(queue[d], save)

Answer(m) ==
  LET d == m.save.dev
  IN /\ m.pc = "answered" /\ mail' = mail \ {m}
     /\ IF m.kind = "flush"
        THEN flush' = Rest(d) /\ queue' = [queue EXCEPT ![d] = Left(d, m.save)]
        ELSE UNCHANGED <<queue, flush>>
     /\ UNCHANGED <<record, player, checkpoint, made, handled, gone, trips>>

(* The request or its answer is lost.                                      *)
Lose(m) ==
  LET d == m.save.dev
  IN /\ mail' = mail \ {m} /\ Spends("loss")
     /\ flush' = IF m.kind = "flush" THEN Rest(d) ELSE flush
     /\ queue' = IF m.kind = "save" THEN [queue EXCEPT ![d] = Append(@, m.save)] ELSE queue
     /\ UNCHANGED <<record, player, checkpoint, made, handled, gone>>

(* The device is online again, or the app starts.                          *)
Flush(d) ==
  /\ ~flush[d].on /\ queue[d] # <<>>
  /\ flush' = [flush EXCEPT ![d] = [on |-> TRUE, items |-> queue[d]]]
  /\ UNCHANGED <<record, player, checkpoint, mail, queue, made, handled, gone, trips>>

Sending(d) == \E m \in mail : m.kind = "flush" /\ m.save.dev = d

FlushNext(d) ==
  /\ flush[d].on /\ ~Sending(d)
  /\ IF flush[d].items = <<>>
     THEN flush' = [flush EXCEPT ![d] = NoFlush] /\ UNCHANGED mail
     ELSE /\ mail' = mail \union {[save |-> Head(flush[d].items), kind |-> "flush", pc |-> "sent"]}
          /\ UNCHANGED flush
  /\ UNCHANGED <<record, player, checkpoint, queue, made, handled, gone, trips>>

PosNext ==
  \/ \E d \in Devices :
       \/ HearOn(d) \/ Ask(d) \/ Open(d) \/ Beacon(d) \/ Kill(d) \/ Flush(d) \/ FlushNext(d)
       \/ \E place \in Places : Rewind(d, place)
  \/ \E m \in mail : Handle(m) \/ Answer(m) \/ Lose(m)
PosSpec == PosInit /\ [][PosNext]_posVars

-----------------------------------------------------------------------------
(* A rewind that reached the server is not undone by a save that was made  *)
(* before it, nor one that is older put over newer progress ("a queued     *)
(* rewind from an older session must not replace newer listening           *)
(* progress").                                                             *)
RewindStands == \A s \in handled : s.back => record.at >= s.at

(* A save is on its way, decided or queued until it is: none is lost by a  *)
(* failure, by a flush that overlaps it, or by one that is interrupted     *)
(* ("failed and aborted requests remain durable for a later retry").       *)
NothingLost ==
  \A s \in made \ (handled \union gone) :
    \/ \E m \in mail : m.save = s
    \/ \E i \in DOMAIN queue[s.dev] : queue[s.dev][i] = s

PositionsKept == RewindStands /\ NothingLost
=============================================================================
