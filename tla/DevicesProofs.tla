---------------------------- MODULE DevicesProofs ----------------------------
(***************************************************************************)
(* Proofs about what MCDevices composes for the devices of listeners.      *)
(*                                                                         *)
(* Offline preparation: a device whose request was accepted stays an       *)
(* owner, for any number of books, devices, concurrent requests and        *)
(* concurrent cancellations.  The invariant is OInv.  Manned: who works is *)
(* active and fits in the capacity.  Orderly: the chain is a lock, and a   *)
(* worker in a save is in it once.  Stamped: whatever stands is newer, in  *)
(* the epochs a cancellation will compare, than every cancellation that    *)
(* could take it.  Kept: what stands is in the record.                     *)
(* And a device that left owns nothing, unless the cancellation of another *)
(* device has renewed its retired request.  The invariant is Farewell, on  *)
(* top of OInv: who left has only retired requests, a newer cancellation   *)
(* of its own awaits them, and what it still owns such a one will take.    *)
(*                                                                         *)
(* HLS transports: the work of transports that were started stays within   *)
(* the permits, an owner has one transport, and what another client does   *)
(* never ends a wait.  The invariant is HlsInv, further down.              *)
(***************************************************************************)
EXTENDS OfflinePreparation, HlsSessions, FiniteSetTheorems, TLAPS

-----------------------------------------------------------------------------
(* Offline preparation.                                                    *)

Saving == {"mark", "boundary", "final", "error"}
Schedules == [pending : Seq(Books), active : SUBSET Books, rerun : SUBSET Books]
Workers == [pc : {"off", "load", "chapter", "mark", "prepare", "boundary", "self", "publish",
                  "final", "error"},
            id : Nat, identity : Nat, was : BOOLEAN, repair : BOOLEAN, next : 0 .. Chapters]
Ops == ({"admit"} \X Slots) \union ({"cancel"} \X Cancels) \union ({"save"} \X Books)

(* What no worker's end and no new worker changes. *)
Manned(s, w) ==
  /\ s \in Schedules /\ w \in [Books -> Workers]
  /\ s.active = {b \in Books : w[b].pc # "off"}
  /\ IsFiniteSet(s.active) /\ Cardinality(s.active) <= Capacity
  /\ \A b \in Books : w[b].pc \in {"mark", "prepare"} => w[b].next < Chapters

Fits(s) == s \in Schedules /\ IsFiniteSet(s.active) /\ Cardinality(s.active) <= Capacity

LEMMA DrainedFits ==
  ASSUME NEW s, Fits(s)
  PROVE  Fits(Drained(s)) /\ s.active \subseteq Drained(s).active
<1> DEFINE room == Capacity - Cardinality(s.active)
           n == IF Len(s.pending) < room THEN Len(s.pending) ELSE room
           new == {s.pending[i] : i \in 1 .. n}
<1>1. s.pending \in Seq(Books) /\ Len(s.pending) \in Nat /\ Cardinality(s.active) \in Nat
  BY FS_CardinalityType DEF Fits, Schedules
<1>2. Capacity \in Nat
  BY OfflineAssumption DEF OfflineAssumption
<1>3. n \in Nat /\ n <= room /\ n <= Len(s.pending)
  BY <1>1, <1>2 DEF Fits
<1>4. new \subseteq Books
  BY <1>1, <1>3
<1>5. IsFiniteSet(1 .. n) /\ Cardinality(1 .. n) = n
  BY <1>3, FS_Interval
<1>6. IsFiniteSet(new) /\ Cardinality(new) <= n
  <2> DEFINE f == [i \in 1 .. n |-> s.pending[i]]
  <2>1. f \in Surjection(1 .. n, new)
    BY DEF Surjection
  <2> QED BY <1>5, <2>1, FS_Surjection
<1>7. IsFiniteSet(s.active \union new) /\ Cardinality(s.active \union new) <= Capacity
  <2>1. Cardinality(s.active \union new) = Cardinality(s.active) + Cardinality(new) - Cardinality(s.active \intersect new)
    BY <1>6, FS_Union DEF Fits
  <2>2. IsFiniteSet(s.active \union new) /\ IsFiniteSet(s.active \intersect new)
    BY <1>6, FS_Union, FS_Intersection DEF Fits
  <2>3. Cardinality(s.active \intersect new) \in Nat /\ Cardinality(new) \in Nat
    BY <2>2, <1>6, FS_CardinalityType
  <2> QED BY <2>1, <2>2, <2>3, <1>1, <1>2, <1>3, <1>6
<1>8. SubSeq(s.pending, n + 1, Len(s.pending)) \in Seq(Books)
  BY <1>1, <1>3
<1>9. Drained(s) = [s EXCEPT !.active = @ \union new,
                             !.pending = SubSeq(s.pending, n + 1, Len(s.pending))]
  BY DEF Drained
<1> HIDE DEF room, n, new
<1> QED BY <1>4, <1>7, <1>8, <1>9 DEF Fits, Schedules

LEMMA ScheduledFits ==
  ASSUME NEW s, Fits(s), NEW b \in Books, NEW afresh \in BOOLEAN
  PROVE  Fits(Scheduled(s, b, afresh)) /\ s.active \subseteq Scheduled(s, b, afresh).active
<1>1. CASE Has(s, b)
  BY <1>1 DEF Scheduled, Fits, Schedules
<1>2. CASE ~Has(s, b)
  <2> DEFINE t == [s EXCEPT !.pending = Append(@, b)]
  <2>1. Fits(t) /\ t.active = s.active
    <3>1. t = [pending |-> Append(s.pending, b), active |-> s.active, rerun |-> s.rerun]
      BY DEF Fits, Schedules
    <3>2. Append(s.pending, b) \in Seq(Books)
      BY DEF Fits, Schedules
    <3> QED BY <3>1, <3>2 DEF Fits, Schedules
  <2>2. Scheduled(s, b, afresh) = Drained(t)
    BY <1>2 DEF Scheduled
  <2> HIDE DEF t
  <2> QED BY <2>1, <2>2, DrainedFits
<1> QED BY <1>1, <1>2

(* Who works on, who begins and who ends. *)
Relieved(ended) ==
  \A c \in Books : \/ c \notin ended /\ worker'[c] = worker[c]
                   \/ c \in ended /\ worker'[c].pc \in {"off", "load"}
                   \/ worker[c].pc = "off" /\ worker'[c].pc = "load"

LEMMA BeginMans ==
  ASSUME Manned(sched, worker), NEW ended \in SUBSET Books, NEW s, Fits(s),
         sched.active \ ended \subseteq s.active, Begin(s, ended)
  PROVE  Manned(sched, worker)' /\ Relieved(ended)
<1> DEFINE begun == s.active \ (sched.active \ ended)
<1>1. /\ sched' = s
      /\ worker' = [b \in Books |-> IF b \in begun THEN [NoWorker EXCEPT !.pc = "load"]
                                    ELSE IF b \in ended THEN NoWorker ELSE worker[b]]
  BY DEF Begin
<1>2. NoWorker \in Workers /\ [NoWorker EXCEPT !.pc = "load"] \in Workers
  <2>1. 0 \in 0 .. Chapters
    BY OfflineAssumption DEF OfflineAssumption
  <2>2. NoWorker \in Workers
    BY <2>1 DEF NoWorker, Workers
  <2> QED BY <2>2 DEF Workers
<1>3. begun \subseteq Books
  BY DEF Fits, Schedules
<1>4. worker' \in [Books -> Workers]
  BY <1>1, <1>2 DEF Manned
<1>5. \A b \in Books : worker'[b].pc # "off" <=> b \in s.active
  BY <1>1, <1>2 DEF Manned, NoWorker
<1>6. Relieved(ended)
  BY <1>1 DEF Relieved, Manned, NoWorker
<1>7. \A b \in Books : worker'[b].pc \in {"mark", "prepare"} => worker'[b].next < Chapters
  BY <1>6 DEF Relieved, Manned
<1>8. s.active = {b \in Books : worker'[b].pc # "off"}
  BY <1>5 DEF Fits, Schedules
<1> QED BY <1>1, <1>4, <1>6, <1>7, <1>8 DEF Manned, Fits

Off(s, b) == [s EXCEPT !.active = @ \ {b}, !.rerun = @ \ {b}]

LEMMA OffFits ==
  ASSUME NEW s, Fits(s), NEW b \in Books
  PROVE  Fits(Off(s, b)) /\ Off(s, b).active = s.active \ {b}
<1>1. IsFiniteSet(s.active \ {b}) /\ Cardinality(s.active \ {b}) <= Cardinality(s.active)
  BY FS_Subset DEF Fits
<1>2. Cardinality(s.active \ {b}) \in Nat /\ Cardinality(s.active) \in Nat
  BY <1>1, FS_CardinalityType DEF Fits
<1>3. Cardinality(s.active \ {b}) <= Capacity
  BY <1>1, <1>2, OfflineAssumption DEF Fits, OfflineAssumption
<1> QED BY <1>1, <1>3 DEF Off, Fits, Schedules

LEMMA FinishMans ==
  ASSUME Manned(sched, worker), NEW b \in Books, NEW again \in BOOLEAN, Finish(b, again)
  PROVE  Manned(sched, worker)' /\ Relieved({b})
<1> DEFINE next == IF again \/ b \in sched.rerun THEN Scheduled(Off(sched, b), b, FALSE)
                   ELSE Off(sched, b)
<1>1. Fits(sched)
  BY DEF Manned, Fits
<1>2. Fits(Off(sched, b)) /\ Off(sched, b).active = sched.active \ {b}
  BY <1>1, OffFits
<1>3. Fits(next) /\ sched.active \ {b} \subseteq next.active
  BY <1>2, ScheduledFits
<1>4. Begin(Drained(next), {b})
  BY DEF Finish, Off
<1> HIDE DEF next
<1>5. Fits(Drained(next)) /\ sched.active \ {b} \subseteq Drained(next).active
  BY <1>3, DrainedFits
<1> QED BY <1>4, <1>5, BeginMans

LEMMA PlacedMans ==
  ASSUME Manned(sched, worker), NEW b \in Books, NEW r \in Slots, NEW s, Fits(s),
         sched.active \subseteq s.active, r \in Books => r = b, Placed(r, b, s)
  PROVE  Manned(sched, worker)' /\ Relieved(IF r \in Books /\ worker[r].pc = "self" THEN {b} ELSE {})
<1>1. CASE r \in Books /\ worker[r].pc = "self"
  <2> DEFINE next == IF b \in s.rerun THEN Scheduled(Off(s, b), b, FALSE) ELSE Off(s, b)
  <2>1. Fits(Off(s, b)) /\ Off(s, b).active = s.active \ {b}
    BY OffFits
  <2>2. Fits(next) /\ s.active \ {b} \subseteq next.active
    BY <2>1, ScheduledFits
  <2>3. Begin(Drained(next), {b})
    BY <1>1 DEF Placed, Off
  <2> HIDE DEF next
  <2>4. Fits(Drained(next)) /\ sched.active \ {b} \subseteq Drained(next).active
    BY <2>2, DrainedFits
  <2> QED BY <1>1, <2>3, <2>4, BeginMans
<1>2. CASE ~(r \in Books /\ worker[r].pc = "self")
  BY <1>2, BeginMans DEF Placed
<1> QED BY <1>1, <1>2

-----------------------------------------------------------------------------
Records ==
  [id : Nat, state : {"absent", "preparing", "ready", "paused", "error"},
   owners : SUBSET Owners, next : 0 .. Chapters, identity : Nat]
Invocations ==
  [pc : {"free", "load", "admit", "stored", "discard"}, book : Books,
   owner : Owners \union {Nobody}, epoch : Nat, aborted : BOOLEAN,
   identity : Nat, fresh : BOOLEAN, replaces : BOOLEAN]
Cancellations ==
  [pc : {"free", "wait", "turn", "discard"}, book : Books,
   owner : Owners \union {Nobody}, epoch : Nat, waits : SUBSET Slots]
Epochs == [request : [Books -> Nat], saved : [Books -> Nat], owner : [Books -> [Owners -> Nat]]]
Words == {"accepted", "left", "none", "cancelled"}

Types ==
  /\ record \in [Books -> Records] /\ identity \in [Books -> Nat]
  /\ inv \in [Slots -> Invocations] /\ cancel \in [Cancels -> Cancellations]
  /\ epochs \in Epochs /\ word \in [Books -> [Owners -> Words]]

Orderly(ch, w) ==
  /\ ch \in Seq(Ops)
  /\ \A b \in Books, i \in DOMAIN ch : ch[i] = <<"save", b>> =>
       /\ w[b].pc \in Saving
       /\ \A j \in DOMAIN ch : ch[j] = <<"save", b>> => i = j

Locked ==
  /\ \A r \in Slots : inv[r].pc = "stored" => Turn(<<"admit", r>>)
  /\ \A k \in Cancels : cancel[k].pc = "discard" => Turn(<<"cancel", k>>)

Own == \A b \in Books : inv[b].pc # "free" => inv[b].book = b

Alive(r) == inv[r].pc # "free" /\ ~inv[r].aborted

(* The record of b must have o among its owners. *)
Stands(b, o) ==
  \/ Asked(b, o)
  \/ \E r \in Slots : Alive(r) /\ inv[r].pc = "discard" /\ inv[r].book = b /\ inv[r].owner = o

(* k would retire a request of o for b. *)
Meets(k, b, o) == cancel[k].pc # "free" /\ cancel[k].book = b /\ cancel[k].owner \in {Nobody, o}

(* What is stored for o is newer than k. *)
Newer(k, b, o) ==
  cancel[k].epoch <= IF cancel[k].owner = Nobody THEN epochs.saved[b] ELSE epochs.owner[b][o]

OutlivedBy(k, r) == Meets(k, inv[r].book, inv[r].owner) => cancel[k].epoch <= inv[r].epoch

Stamped ==
  /\ \A k \in Cancels : cancel[k].pc # "free" => cancel[k].epoch <= epochs.request[cancel[k].book]
  /\ \A r \in Slots, k \in Cancels : Alive(r) => OutlivedBy(k, r)
  /\ \A b \in Books, o \in Owners, k \in Cancels :
       Stands(b, o) /\ Meets(k, b, o) =>
         /\ Newer(k, b, o)
         /\ \A r \in Slots : inv[r].pc = "stored" => OutlivedBy(k, r)

Void(b) == record[b].state \in {"absent", "paused"}

Kept ==
  /\ \A b \in Books, o \in Owners : Stands(b, o) => o \in record[b].owners /\ ~Void(b)
  /\ \A r \in Slots : inv[r].pc = "stored" =>
       inv[r].owner \in record[inv[r].book].owners \union {Nobody} /\ ~Void(inv[r].book)
  /\ \A b \in Books : Void(b) => record[b].owners = {}
  /\ \A k \in Cancels, o \in Owners : cancel[k].pc = "discard" => ~Stands(cancel[k].book, o)

Ledger == Types /\ Locked /\ Own /\ Stamped /\ Kept
OInv == Manned(sched, worker) /\ Orderly(chain, worker) /\ Ledger

-----------------------------------------------------------------------------
(* The chain. *)

StillSaves(w, v) == \A c \in Books : w[c].pc \in Saving => v[c].pc \in Saving

LEMMA OrderlyKept ==
  ASSUME NEW ch, NEW w, NEW v, Orderly(ch, w), StillSaves(w, v)
  PROVE  Orderly(ch, v)
BY DEF Orderly, StillSaves

LEMMA OrderlyTail ==
  ASSUME NEW ch, NEW w, NEW v, Orderly(ch, w), ch # <<>>,
         \A c \in Books : w[c].pc \in Saving => v[c].pc \in Saving \/ Head(ch) = <<"save", c>>
  PROVE  Orderly(Tail(ch), v)
<1>1. ch \in Seq(Ops) /\ Tail(ch) \in Seq(Ops)
  BY DEF Orderly
<1>2. \A i \in DOMAIN Tail(ch) : i + 1 \in DOMAIN ch /\ Tail(ch)[i] = ch[i + 1]
  BY <1>1
<1>3. ASSUME NEW b \in Books, NEW i \in DOMAIN Tail(ch), Tail(ch)[i] = <<"save", b>>
      PROVE  v[b].pc \in Saving /\ \A j \in DOMAIN Tail(ch) : Tail(ch)[j] = <<"save", b>> => i = j
  <2>1. i + 1 \in DOMAIN ch /\ ch[i + 1] = <<"save", b>> /\ i \in Nat /\ i >= 1
    BY <1>1, <1>2, <1>3
  <2>2. w[b].pc \in Saving /\ \A j \in DOMAIN ch : ch[j] = <<"save", b>> => i + 1 = j
    BY <2>1 DEF Orderly
  <2>3. 1 \in DOMAIN ch /\ Head(ch) = ch[1]
    BY <1>1
  <2>4. Head(ch) # <<"save", b>>
    BY <2>1, <2>2, <2>3
  <2>5. v[b].pc \in Saving
    BY <2>2, <2>4
  <2>6. ASSUME NEW j \in DOMAIN Tail(ch), Tail(ch)[j] = <<"save", b>> PROVE i = j
    <3>1. j + 1 \in DOMAIN ch /\ ch[j + 1] = <<"save", b>> /\ j \in Nat
      BY <1>1, <1>2, <2>6
    <3> QED BY <2>1, <2>2, <3>1
  <2> QED BY <2>5, <2>6
<1> QED BY <1>1, <1>3 DEF Orderly

LEMMA OrderlyAppend ==
  ASSUME NEW ch, NEW w, NEW v, Orderly(ch, w), NEW op \in Ops, StillSaves(w, v),
         \A c \in Books : op = <<"save", c>> => w[c].pc \notin Saving /\ v[c].pc \in Saving
  PROVE  Orderly(Append(ch, op), v)
<1>1. ch \in Seq(Ops) /\ Append(ch, op) \in Seq(Ops)
  BY DEF Orderly
<1>2. \A i \in DOMAIN Append(ch, op) : \/ i \in DOMAIN ch /\ Append(ch, op)[i] = ch[i]
                                       \/ i = Len(ch) + 1 /\ Append(ch, op)[i] = op
  BY <1>1
<1>3. ASSUME NEW b \in Books, NEW i \in DOMAIN Append(ch, op), Append(ch, op)[i] = <<"save", b>>
      PROVE  v[b].pc \in Saving
             /\ \A j \in DOMAIN Append(ch, op) : Append(ch, op)[j] = <<"save", b>> => i = j
  <2>1. CASE op = <<"save", b>>
    <3>1. \A j \in DOMAIN ch : ch[j] # <<"save", b>>
      BY <2>1 DEF Orderly
    <3> QED BY <1>2, <1>3, <2>1, <3>1
  <2>2. CASE op # <<"save", b>>
    <3>1. i \in DOMAIN ch /\ ch[i] = <<"save", b>>
      BY <1>2, <1>3, <2>2
    <3>2. w[b].pc \in Saving /\ \A j \in DOMAIN ch : ch[j] = <<"save", b>> => i = j
      BY <3>1 DEF Orderly
    <3> QED BY <1>2, <2>2, <3>2 DEF StillSaves
  <2> QED BY <2>1, <2>2
<1> QED BY <1>1, <1>3 DEF Orderly

LEMMA HeadStays ==
  ASSUME NEW ch \in Seq(Ops), NEW op, ch # <<>>
  PROVE  Append(ch, op) # <<>> /\ Head(Append(ch, op)) = Head(ch)
OBVIOUS

LEMMA RelievedSaves ==
  ASSUME Manned(sched, worker), NEW ended, Relieved(ended),
         \A b \in ended : worker[b].pc \notin Saving
  PROVE  StillSaves(worker, worker')
BY DEF Relieved, StillSaves, Saving

-----------------------------------------------------------------------------
(* Requests and cancellations. *)

(* A step after which at most what stood still stands. *)
Carries(r) ==
  inv'[r].pc # "free" =>
    \/ /\ inv[r].pc # "free" /\ inv'[r].book = inv[r].book /\ inv'[r].owner = inv[r].owner
       /\ inv[r].epoch <= inv'[r].epoch /\ (inv[r].aborted => inv'[r].aborted)
       /\ inv'[r].pc \in {"stored", "discard"} => inv'[r].pc = inv[r].pc
    \/ inv'[r].pc = "load" /\ inv'[r].epoch = epochs.request[inv'[r].book]

Ceases(k) ==
  cancel'[k].pc # "free" =>
    /\ cancel[k].pc # "free" /\ cancel'[k].book = cancel[k].book
    /\ cancel'[k].owner = cancel[k].owner /\ cancel'[k].epoch = cancel[k].epoch
    /\ cancel'[k].pc = "discard" => cancel[k].pc = "discard"

LEMMA Fewer ==
  ASSUME Ledger, Types', Locked', Own',
         \A r \in Slots : Carries(r), \A k \in Cancels : Ceases(k),
         \A b \in Books, o \in Owners : Asked(b, o)' => Stands(b, o),
         epochs' = epochs,
         \A b \in Books : record'[b].owners = record[b].owners /\ (Void(b)' => Void(b))
  PROVE  Ledger'
<1>1. \A b \in Books, o \in Owners : Stands(b, o)' => Stands(b, o)
  BY DEF Stands, Alive, Carries
<1>2. ASSUME NEW k \in Cancels, NEW b, NEW o, Meets(k, b, o)'
      PROVE  Meets(k, b, o) /\ cancel'[k].epoch = cancel[k].epoch /\ cancel'[k].owner = cancel[k].owner
  BY <1>2 DEF Meets, Ceases
<1>3. \A k \in Cancels : cancel'[k].pc # "free" => cancel'[k].epoch <= epochs'.request[cancel'[k].book]
  BY DEF Ceases, Ledger, Stamped
<1>4. ASSUME NEW r \in Slots, NEW k \in Cancels, OutlivedBy(k, r), inv'[r].pc # "free"
      PROVE  OutlivedBy(k, r)'
  <2> SUFFICES ASSUME Meets(k, inv[r].book, inv[r].owner)' PROVE cancel'[k].epoch <= inv'[r].epoch
    BY DEF OutlivedBy
  <2>1. Meets(k, inv'[r].book, inv'[r].owner) /\ cancel'[k].epoch = cancel[k].epoch
    BY <1>2
  <2>2. CASE /\ inv'[r].book = inv[r].book /\ inv'[r].owner = inv[r].owner
             /\ inv[r].epoch <= inv'[r].epoch
    <3>1. cancel[k].epoch <= inv[r].epoch
      BY <1>4, <2>1, <2>2 DEF OutlivedBy
    <3>2. cancel[k].epoch \in Nat /\ inv[r].epoch \in Nat /\ inv'[r].epoch \in Nat
      BY DEF Ledger, Types, Cancellations, Invocations
    <3> QED BY <2>1, <2>2, <3>1, <3>2
  <2>3. CASE inv'[r].epoch = epochs.request[inv'[r].book]
    BY <1>3, <2>1, <2>3 DEF Meets, Ledger, Stamped
  <2> QED BY <1>4, <2>2, <2>3 DEF Carries
<1>5. ASSUME NEW r \in Slots, NEW k \in Cancels, Alive(r)' PROVE OutlivedBy(k, r)'
  <2>1. CASE Alive(r)
    BY <1>4, <1>5, <2>1 DEF Ledger, Stamped, Alive
  <2>2. CASE inv'[r].epoch = epochs.request[inv'[r].book]
    <3> SUFFICES ASSUME Meets(k, inv[r].book, inv[r].owner)' PROVE cancel'[k].epoch <= inv'[r].epoch
      BY DEF OutlivedBy
    <3> QED BY <1>3, <2>2 DEF Meets
  <2> QED BY <1>5, <2>1, <2>2 DEF Carries, Alive
<1>6. ASSUME NEW b \in Books, NEW o \in Owners, NEW k \in Cancels, Stands(b, o)', Meets(k, b, o)'
      PROVE  Newer(k, b, o)' /\ \A r \in Slots : inv'[r].pc = "stored" => OutlivedBy(k, r)'
  <2>1. Stands(b, o) /\ Meets(k, b, o) /\ cancel'[k].epoch = cancel[k].epoch /\ cancel'[k].owner = cancel[k].owner
    BY <1>1, <1>2, <1>6
  <2>2. Newer(k, b, o)'
    BY <2>1 DEF Newer, Ledger, Stamped
  <2>3. ASSUME NEW r \in Slots, inv'[r].pc = "stored" PROVE OutlivedBy(k, r)'
    <3>1. inv[r].pc = "stored"
      BY <2>3 DEF Carries
    <3> QED BY <1>4, <2>1, <2>3, <3>1 DEF Ledger, Stamped
  <2> QED BY <2>2, <2>3
<1>7. Stamped'
  BY <1>3, <1>5, <1>6 DEF Stamped
<1>8. Kept'
  <2>1. \A b \in Books, o \in Owners : Stands(b, o)' => o \in record'[b].owners /\ ~Void(b)'
    BY <1>1 DEF Ledger, Kept
  <2>2. ASSUME NEW r \in Slots, inv'[r].pc = "stored"
        PROVE  inv'[r].owner \in record'[inv'[r].book].owners \union {Nobody} /\ ~Void(inv[r].book)'
    <3>1. inv[r].pc = "stored" /\ inv'[r].book = inv[r].book /\ inv'[r].owner = inv[r].owner
      BY <2>2 DEF Carries
    <3>2. inv[r].book \in Books
      BY DEF Ledger, Types, Invocations
    <3> QED BY <3>1, <3>2 DEF Ledger, Kept
  <2>3. \A b \in Books : Void(b)' => record'[b].owners = {}
    BY DEF Ledger, Kept
  <2>4. \A k \in Cancels, o \in Owners : cancel'[k].pc = "discard" => ~Stands(cancel[k].book, o)'
    <3>1. \A k \in Cancels : cancel'[k].book \in Books
      BY DEF Types, Cancellations
    <3> QED BY <1>1, <3>1 DEF Ceases, Ledger, Kept
  <2> QED BY <2>1, <2>2, <2>3, <2>4 DEF Kept
<1> QED BY <1>7, <1>8 DEF Ledger

(* Who holds the chain. *)
LEMMA LocksKept ==
  ASSUME Locked, chain \in Seq(Ops), chain' = chain \/ \E op \in Ops : chain' = Append(chain, op),
         \A r \in Slots : inv'[r].pc = "stored" => inv[r].pc = "stored",
         \A k \in Cancels : cancel'[k].pc = "discard" => cancel[k].pc = "discard"
  PROVE  Locked'
<1>1. ASSUME NEW op, Turn(op) PROVE Turn(op)'
  BY <1>1, HeadStays DEF Turn
<1> QED BY <1>1 DEF Locked

LEMMA LocksPassed ==
  ASSUME Locked, NEW op, Turn(op),
         \A r \in Slots : inv'[r].pc = "stored" => inv[r].pc = "stored" /\ op # <<"admit", r>>,
         \A k \in Cancels : cancel'[k].pc = "discard" => cancel[k].pc = "discard" /\ op # <<"cancel", k>>
  PROVE  Locked'
BY DEF Locked, Turn

LEMMA LedgerRests ==
  ASSUME Ledger, UNCHANGED <<record, inv, cancel, epochs, word>>, identity' \in [Books -> Nat], Locked'
  PROVE  Ledger'
<1>1. Types' /\ Own'
  BY DEF Ledger, Types, Own
<1>2. \A r \in Slots : Carries(r)
  <2>1. \A r \in Slots : inv[r].epoch \in Nat
    BY DEF Ledger, Types, Invocations
  <2> QED BY <2>1 DEF Carries
<1>3. \A k \in Cancels : Ceases(k)
  BY DEF Ceases
<1>4. \A b \in Books, o \in Owners : Asked(b, o)' => Stands(b, o)
  BY DEF Asked, Stands
<1>5. \A b \in Books : record'[b].owners = record[b].owners /\ (Void(b)' => Void(b))
  BY DEF Void
<1> QED BY <1>1, <1>2, <1>3, <1>4, <1>5, Fewer

LEMMA NoInvTyped == NoInv \in Invocations /\ NoInv.pc = "free"
<1>1. (CHOOSE b \in Books : TRUE) \in Books
  BY OfflineAssumption DEF OfflineAssumption
<1> QED BY <1>1 DEF NoInv, Invocations

LEMMA InvokeKeeps ==
  ASSUME Ledger, NEW r \in Slots, NEW b \in Books, NEW o \in Owners \union {Nobody},
         inv' = Invoke(r, b, o), r \in Books => b = r,
         UNCHANGED <<record, identity, cancel, chain, epochs>>,
         word' \in [Books -> [Owners -> Words]],
         \A c \in Books, p \in Owners : Asked(c, p)' => Asked(c, p),
         chain \in Seq(Ops)
  PROVE  Ledger'
<1> DEFINE new == [NoInv EXCEPT !.pc = "load", !.book = b, !.owner = o, !.epoch = epochs.request[b]]
<1>1. new \in Invocations /\ new.pc = "load" /\ new.book = b /\ new.epoch = epochs.request[b]
  <2>1. epochs.request[b] \in Nat
    BY DEF Ledger, Types, Epochs
  <2> QED BY <2>1, NoInvTyped DEF Invocations
<1>2. inv' = [inv EXCEPT ![r] = new]
  BY DEF Invoke
<1> HIDE DEF new
<1>3. inv \in [Slots -> Invocations]
  BY DEF Ledger, Types
<1>4. inv'[r] = new /\ \A q \in Slots \ {r} : inv'[q] = inv[q]
  BY <1>2, <1>3
<1>5. Types'
  BY <1>1, <1>2, <1>3 DEF Ledger, Types
<1>6. Own'
  BY <1>1, <1>4 DEF Ledger, Own, Slots
<1>7. \A q \in Slots : inv'[q].pc = "stored" => inv[q].pc = "stored"
  BY <1>1, <1>4
<1>8. Locked'
  BY <1>7, LocksKept DEF Ledger
<1>9. \A q \in Slots : Carries(q)
  <2>1. \A q \in Slots : inv[q].epoch \in Nat
    BY <1>3 DEF Invocations
  <2> QED BY <1>1, <1>4, <2>1 DEF Carries
<1>10. \A k \in Cancels : Ceases(k)
  BY DEF Ceases
<1>11. \A c \in Books, p \in Owners : Asked(c, p)' => Stands(c, p)
  BY DEF Stands
<1>12. \A c \in Books : record'[c].owners = record[c].owners /\ (Void(c)' => Void(c))
  BY DEF Void
<1> QED BY <1>5, <1>6, <1>8, <1>9, <1>10, <1>11, <1>12, Fewer

(* An invocation that ends; what it stood for may now be accepted. *)
LEMMA EndsTyped ==
  ASSUME Types, NEW r \in Slots, Ends(r)
  PROVE  /\ inv' \in [Slots -> Invocations] /\ cancel' \in [Cancels -> Cancellations]
         /\ inv'[r].pc = "free" /\ \A q \in Slots \ {r} : inv'[q] = inv[q]
         /\ \A k \in Cancels :
              /\ cancel'[k].pc = cancel[k].pc /\ cancel'[k].book = cancel[k].book
              /\ cancel'[k].owner = cancel[k].owner /\ cancel'[k].epoch = cancel[k].epoch
<1>1. inv \in [Slots -> Invocations] /\ cancel \in [Cancels -> Cancellations]
  BY DEF Types
<1>2. inv' = [inv EXCEPT ![r] = NoInv]
      /\ cancel' = [k \in Cancels |-> [cancel[k] EXCEPT !.waits = @ \ {r}]]
  BY DEF Ends, Settled
<1>3. NoInv \in Invocations /\ NoInv.pc = "free"
  BY NoInvTyped
<1>4. \A k \in Cancels : [cancel[k] EXCEPT !.waits = @ \ {r}] \in Cancellations
  BY <1>1 DEF Cancellations
<1>5. cancel' \in [Cancels -> Cancellations]
  BY <1>2, <1>4
<1>6. \A k \in Cancels :
        /\ cancel'[k].pc = cancel[k].pc /\ cancel'[k].book = cancel[k].book
        /\ cancel'[k].owner = cancel[k].owner /\ cancel'[k].epoch = cancel[k].epoch
  BY <1>1, <1>2 DEF Cancellations
<1> QED BY <1>1, <1>2, <1>3, <1>5, <1>6

LEMMA EndsKeeps ==
  ASSUME Ledger, NEW r \in Slots, Ends(r), UNCHANGED <<record, identity, epochs>>,
         word' \in [Books -> [Owners -> Words]], Locked',
         \A b \in Books, o \in Owners : Asked(b, o)' => Stands(b, o)
  PROVE  Ledger'
<1>1. /\ inv' \in [Slots -> Invocations] /\ cancel' \in [Cancels -> Cancellations]
      /\ inv'[r].pc = "free" /\ \A q \in Slots \ {r} : inv'[q] = inv[q]
      /\ \A k \in Cancels :
           /\ cancel'[k].pc = cancel[k].pc /\ cancel'[k].book = cancel[k].book
           /\ cancel'[k].owner = cancel[k].owner /\ cancel'[k].epoch = cancel[k].epoch
  BY EndsTyped DEF Ledger
<1>2. Types' /\ Own'
  BY <1>1 DEF Ledger, Types, Own, Slots
<1>3. \A q \in Slots : Carries(q)
  <2>1. \A q \in Slots : inv[q].epoch \in Nat
    BY DEF Ledger, Types, Invocations
  <2> QED BY <1>1, <2>1 DEF Carries
<1>4. \A k \in Cancels : Ceases(k)
  BY <1>1 DEF Ceases
<1>5. \A c \in Books : record'[c].owners = record[c].owners /\ (Void(c)' => Void(c))
  BY DEF Void
<1> QED BY <1>2, <1>3, <1>4, <1>5, Fewer

LEMMA GotoMans ==
  ASSUME Manned(sched, worker), sched' = sched, NEW b \in Books, worker[b].pc # "off",
         NEW v \in Workers, worker' = [worker EXCEPT ![b] = v], v.pc # "off",
         v.pc \in {"mark", "prepare"} => v.next < Chapters
  PROVE  Manned(sched, worker)' /\ worker'[b] = v /\ \A c \in Books \ {b} : worker'[c] = worker[c]
<1>1. worker \in [Books -> Workers]
  BY DEF Manned
<1>2. worker'[b] = v /\ \A c \in Books \ {b} : worker'[c] = worker[c]
  BY <1>1
<1>3. worker' \in [Books -> Workers]
  BY <1>1
<1>4. sched.active = {c \in Books : worker'[c].pc # "off"}
  BY <1>2 DEF Manned
<1> QED BY <1>2, <1>3, <1>4 DEF Manned

(* A worker whose step fails. *)
LEMMA ThrowKeeps ==
  ASSUME Manned(sched, worker), Orderly(chain, worker), NEW b \in Books, Throw(b),
         worker[b].pc \notin Saving \union {"off"}
  PROVE  /\ Manned(sched, worker)' /\ Orderly(chain, worker)'
         /\ chain' = chain \/ \E op \in Ops : chain' = Append(chain, op)
<1>1. CASE Caught(b) = "none"
  <2>1. Finish(b, FALSE) /\ chain' = chain
    BY <1>1 DEF Throw
  <2>2. Manned(sched, worker)' /\ Relieved({b})
    BY <2>1, FinishMans
  <2>3. StillSaves(worker, worker')
    BY <2>2, RelievedSaves
  <2> QED BY <2>1, <2>2, <2>3, OrderlyKept
<1>2. CASE Caught(b) # "none"
  <2> DEFINE v == [worker[b] EXCEPT !.pc = "error"]
  <2>1. /\ worker' = [worker EXCEPT ![b].pc = "error"] /\ chain' = Append(chain, <<"save", b>>)
        /\ sched' = sched
    BY <1>2 DEF Throw, Caught, Goto, Queue
  <2>2. worker' = [worker EXCEPT ![b] = v]
    BY <2>1
  <2>3. v \in Workers /\ v.pc = "error"
    BY DEF Manned, Workers
  <2> HIDE DEF v
  <2>4. Manned(sched, worker)' /\ worker'[b] = v /\ \A c \in Books \ {b} : worker'[c] = worker[c]
    BY <2>1, <2>2, <2>3, GotoMans
  <2>5. StillSaves(worker, worker') /\ worker'[b].pc \in Saving
    BY <2>3, <2>4 DEF StillSaves, Saving
  <2>6. <<"save", b>> \in Ops
    BY DEF Ops
  <2>7. Orderly(chain', worker')
    BY <2>1, <2>5, <2>6, OrderlyAppend
  <2> QED BY <2>1, <2>4, <2>6, <2>7
<1> QED BY <1>1, <1>2

LEMMA SlotsHaveBooks == Books \subseteq Slots
BY DEF Slots

LEMMA RequestKeeps ==
  ASSUME OInv, NEW r \in Callers, NEW b \in Books, NEW o \in Owners, Request(r, b, o)
  PROVE  OInv'
<1>1. /\ inv' = Invoke(r, b, o) /\ word' = [word EXCEPT ![b][o] = IF @ = "left" THEN "none" ELSE @]
      /\ UNCHANGED <<record, identity, cancel, chain, worker, sched, epochs>>
  BY DEF Request
<1>2. r \in Slots /\ r \notin Books
  BY OfflineAssumption DEF Slots, OfflineAssumption
<1>3. word \in [Books -> [Owners -> Words]] /\ chain \in Seq(Ops)
  BY DEF OInv, Ledger, Types, Orderly
<1>4. word' \in [Books -> [Owners -> Words]] /\ \A c \in Books, p \in Owners : Asked(c, p)' => Asked(c, p)
  BY <1>1, <1>3 DEF Words, Asked
<1>5. Ledger'
  BY <1>1, <1>2, <1>3, <1>4, InvokeKeeps DEF OInv
<1> QED BY <1>1, <1>5 DEF OInv, Manned, Orderly

(* An invocation goes on. *)
LEMMA GoesKeeps ==
  ASSUME Ledger, NEW r \in Slots, NEW v \in Invocations, inv' = [inv EXCEPT ![r] = v],
         inv[r].pc # "free", v.pc \in {"load", "admit"}, v.book = inv[r].book, v.owner = inv[r].owner,
         v.epoch = inv[r].epoch, v.aborted = inv[r].aborted, Locked',
         UNCHANGED <<record, identity, cancel, epochs, word>>
  PROVE  Ledger'
<1>1. inv \in [Slots -> Invocations]
  BY DEF Ledger, Types
<1>2. inv'[r] = v /\ \A q \in Slots \ {r} : inv'[q] = inv[q]
  BY <1>1
<1>3. Types' /\ Own'
  BY <1>1, <1>2 DEF Ledger, Types, Own, Slots
<1>4. \A q \in Slots : Carries(q)
  <2>1. \A q \in Slots : inv[q].epoch \in Nat
    BY <1>1 DEF Invocations
  <2> QED BY <1>2, <2>1 DEF Carries
<1>5. \A k \in Cancels : Ceases(k)
  BY DEF Ceases
<1>6. \A b \in Books, o \in Owners : Asked(b, o)' => Stands(b, o)
  BY DEF Asked, Stands
<1>7. \A c \in Books : record'[c].owners = record[c].owners /\ (Void(c)' => Void(c))
  BY DEF Void
<1> QED BY <1>3, <1>4, <1>5, <1>6, <1>7, Fewer

LEMMA IdentifyKeeps ==
  ASSUME OInv, NEW r \in Slots, Identify(r)
  PROVE  OInv'
<1>1. inv[r].pc = "load" /\ UNCHANGED <<record, identity, epochs, word>>
  BY DEF Identify
<1>2. inv \in [Slots -> Invocations] /\ chain \in Seq(Ops) /\ word' \in [Books -> [Owners -> Words]]
  BY <1>1 DEF OInv, Ledger, Types, Orderly
<1>3. CASE IsCurrent(r)
  <2> DEFINE v == [inv[r] EXCEPT !.pc = "admit", !.identity = identity[inv[r].book]]
  <2>1. /\ inv' = [inv EXCEPT ![r].pc = "admit", ![r].identity = identity[inv[r].book]]
        /\ chain' = Append(chain, <<"admit", r>>) /\ UNCHANGED <<cancel, worker, sched>>
    BY <1>3 DEF Identify, Queue
  <2>2. inv' = [inv EXCEPT ![r] = v]
    BY <1>2, <2>1
  <2>3. identity[inv[r].book] \in Nat
    BY <1>2 DEF OInv, Ledger, Types, Invocations
  <2>4. /\ v \in Invocations /\ v.pc = "admit" /\ v.book = inv[r].book /\ v.owner = inv[r].owner
        /\ v.epoch = inv[r].epoch /\ v.aborted = inv[r].aborted
    BY <1>2, <2>3 DEF Invocations
  <2> HIDE DEF v
  <2>5. <<"admit", r>> \in Ops /\ \A c \in Books : <<"admit", r>> # <<"save", c>>
    BY DEF Ops
  <2>6. \A q \in Slots : inv'[q].pc = "stored" => inv[q].pc = "stored"
    BY <1>2, <2>2, <2>4
  <2>7. Locked'
    BY <1>2, <2>1, <2>5, <2>6, LocksKept DEF OInv, Ledger
  <2>8. Ledger'
    BY <1>1, <2>1, <2>2, <2>4, <2>7, GoesKeeps DEF OInv
  <2>9. Orderly(chain', worker')
    BY <2>1, <2>5, OrderlyAppend DEF OInv, StillSaves
  <2> QED BY <2>1, <2>8, <2>9 DEF OInv, Manned
<1>4. CASE ~IsCurrent(r)
  <2>1. Ends(r)
    BY <1>4 DEF Identify
  <2>2. /\ Manned(sched, worker)' /\ Orderly(chain, worker)'
        /\ chain' = chain \/ \E op \in Ops : chain' = Append(chain, op)
    <3>1. CASE r \in Books /\ worker[r].pc = "self"
      BY <1>4, <3>1, ThrowKeeps DEF Identify, OInv, Saving
    <3>2. CASE ~(r \in Books /\ worker[r].pc = "self")
      BY <1>4, <3>2 DEF Identify, OInv, Manned, Orderly
    <3> QED BY <3>1, <3>2
  <2>3. /\ \A q \in Slots : inv'[q].pc = "stored" => inv[q].pc = "stored"
        /\ \A k \in Cancels : cancel'[k].pc = cancel[k].pc
    BY <2>1, EndsTyped DEF OInv, Ledger
  <2>4. Locked'
    BY <1>2, <2>2, <2>3, LocksKept DEF OInv, Ledger
  <2>5. \A b \in Books, o \in Owners : Asked(b, o)' => Stands(b, o)
    BY <1>1 DEF Asked, Stands
  <2> QED BY <1>1, <1>2, <2>1, <2>2, <2>4, <2>5, EndsKeeps DEF OInv
<1> QED BY <1>3, <1>4

LEMMA RefusedKeeps ==
  ASSUME OInv, NEW r \in Slots, Turn(<<"admit", r>>), Ends(r),
         IF r \in Books /\ worker[r].pc = "self"
         THEN IF Caught(r) = "none" THEN Finish(r, FALSE) /\ PassTurn
              ELSE /\ Goto(r, Caught(r)) /\ chain' = Append(Tail(chain), <<"save", r>>)
                   /\ UNCHANGED <<sched, stopped, removed>>
         ELSE PassTurn /\ UNCHANGED <<worker, stopped, sched, removed>>,
         UNCHANGED <<record, identity, epochs, word>>
  PROVE  OInv'
<1>1. chain \in Seq(Ops) /\ chain # <<>> /\ \A c \in Books : Head(chain) # <<"save", c>>
  BY DEF OInv, Orderly, Turn
<1>2. Manned(sched, worker) /\ Orderly(chain, worker)
  BY DEF OInv
<1>3. Manned(sched, worker)' /\ Orderly(chain, worker)'
  <2>1. CASE ~(r \in Books /\ worker[r].pc = "self")
    <3>1. chain' = Tail(chain) /\ worker' = worker /\ sched' = sched
      BY <2>1 DEF PassTurn
    <3>2. Orderly(Tail(chain), worker)
      BY <1>1, <1>2, OrderlyTail
    <3> QED BY <1>2, <3>1, <3>2
  <2>2. CASE r \in Books /\ worker[r].pc = "self" /\ Caught(r) = "none"
    <3>1. Finish(r, FALSE) /\ chain' = Tail(chain)
      BY <2>2 DEF PassTurn
    <3>2. Manned(sched, worker)' /\ Relieved({r})
      BY <1>2, <2>2, <3>1, FinishMans
    <3>3. StillSaves(worker, worker')
      BY <1>2, <2>2, <3>2, RelievedSaves DEF Saving
    <3>4. Orderly(Tail(chain), worker')
      BY <1>1, <1>2, <3>3, OrderlyTail DEF StillSaves
    <3> QED BY <3>1, <3>2, <3>4
  <2>3. CASE r \in Books /\ worker[r].pc = "self" /\ Caught(r) # "none"
    <3> DEFINE v == [worker[r] EXCEPT !.pc = "error"]
    <3>1. /\ worker' = [worker EXCEPT ![r].pc = "error"] /\ sched' = sched
          /\ chain' = Append(Tail(chain), <<"save", r>>)
      BY <2>3 DEF Caught, Goto
    <3>2. worker' = [worker EXCEPT ![r] = v]
      BY <3>1
    <3>3. v \in Workers /\ v.pc = "error"
      BY <1>2, <2>3 DEF Manned, Workers
    <3> HIDE DEF v
    <3>4. Manned(sched, worker)' /\ worker'[r] = v /\ \A c \in Books \ {r} : worker'[c] = worker[c]
      BY <1>2, <2>3, <3>1, <3>2, <3>3, GotoMans
    <3>5. StillSaves(worker, worker') /\ worker'[r].pc \in Saving /\ worker[r].pc \notin Saving
      BY <2>3, <3>3, <3>4 DEF StillSaves, Saving
    <3>6. Orderly(Tail(chain), worker)
      BY <1>1, <1>2, OrderlyTail
    <3>7. <<"save", r>> \in Ops
      BY <2>3 DEF Ops
    <3>8. Orderly(Append(Tail(chain), <<"save", r>>), worker')
      BY <3>5, <3>6, <3>7, OrderlyAppend
    <3> QED BY <3>1, <3>4, <3>8
  <2> QED BY <2>1, <2>2, <2>3
<1>4. /\ inv'[r].pc = "free" /\ \A q \in Slots \ {r} : inv'[q] = inv[q]
      /\ \A k \in Cancels : cancel'[k].pc = cancel[k].pc
  BY EndsTyped DEF OInv, Ledger
<1>5. Locked'
  <2>1. \A q \in Slots : inv'[q].pc = "stored" => inv[q].pc = "stored" /\ <<"admit", r>> # <<"admit", q>>
    BY <1>4
  <2>2. \A k \in Cancels : <<"admit", r>> # <<"cancel", k>>
    OBVIOUS
  <2> QED BY <1>4, <2>1, <2>2, LocksPassed DEF OInv, Ledger
<1>6. \A b \in Books, o \in Owners : Asked(b, o)' => Stands(b, o)
  BY DEF Asked, Stands
<1> QED BY <1>3, <1>5, <1>6, EndsKeeps DEF OInv, Ledger, Types

LEMMA StoresKeeps ==
  ASSUME OInv, NEW r \in Slots, inv[r].pc = "admit", Turn(<<"admit", r>>), Alive(r),
         NEW v \in Invocations, inv' = [inv EXCEPT ![r] = v], v.pc = "stored",
         v.book = inv[r].book, v.owner = inv[r].owner, v.epoch = inv[r].epoch, v.aborted = inv[r].aborted,
         NEW e \in Records, record' = [record EXCEPT ![inv[r].book] = e],
         e.owners = record[inv[r].book].owners \union ({inv[r].owner} \ {Nobody}),
         e.state \notin {"absent", "paused"},
         UNCHANGED <<identity, cancel, chain, worker, sched, epochs, word>>
  PROVE  OInv'
<1> DEFINE b == inv[r].book
<1>1. inv \in [Slots -> Invocations] /\ record \in [Books -> Records] /\ b \in Books
  BY DEF OInv, Ledger, Types, Invocations
<1>2. inv'[r] = v /\ \A q \in Slots \ {r} : inv'[q] = inv[q]
  BY <1>1
<1>3. record'[b] = e /\ \A c \in Books \ {b} : record'[c] = record[c]
  BY <1>1
<1>4. \A q \in Slots : /\ inv'[q].book = inv[q].book /\ inv'[q].owner = inv[q].owner
                       /\ inv'[q].epoch = inv[q].epoch /\ inv'[q].aborted = inv[q].aborted
                       /\ (inv'[q].pc = "free" <=> inv[q].pc = "free")
                       /\ (inv'[q].pc = "discard" <=> inv[q].pc = "discard")
                       /\ inv'[q].pc = "stored" => q = r \/ inv[q].pc = "stored"
  BY <1>2
<1> HIDE DEF b
<1>5. \A c \in Books, o \in Owners : Stands(c, o)' <=> Stands(c, o)
  BY <1>4 DEF Stands, Alive, Asked
<1>6. \A q \in Slots, k \in Cancels : OutlivedBy(k, q)' <=> OutlivedBy(k, q)
  BY <1>4 DEF OutlivedBy, Meets
<1>7. \A q \in Slots : Alive(q)' <=> Alive(q)
  BY <1>4 DEF Alive
<1>8. Stamped'
  <2>1. \A k \in Cancels : OutlivedBy(k, r)
    BY DEF OInv, Ledger, Stamped
  <2>2. \A q \in Slots, k \in Cancels : Alive(q)' => OutlivedBy(k, q)'
    BY <1>6, <1>7 DEF OInv, Ledger, Stamped
  <2>3. \A k \in Cancels : cancel'[k].pc # "free" => cancel'[k].epoch <= epochs'.request[cancel'[k].book]
    BY DEF OInv, Ledger, Stamped
  <2>4. ASSUME NEW c \in Books, NEW o \in Owners, NEW k \in Cancels, Stands(c, o)', Meets(k, c, o)'
        PROVE  Newer(k, c, o)' /\ \A q \in Slots : inv'[q].pc = "stored" => OutlivedBy(k, q)'
    <3>1. Stands(c, o) /\ Meets(k, c, o)
      BY <1>5, <2>4 DEF Meets
    <3>2. Newer(k, c, o) /\ \A q \in Slots : inv[q].pc = "stored" => OutlivedBy(k, q)
      BY <3>1 DEF OInv, Ledger, Stamped
    <3>3. Newer(k, c, o)'
      BY <3>2 DEF Newer
    <3> QED BY <1>4, <1>6, <2>1, <3>2, <3>3
  <2> QED BY <2>2, <2>3, <2>4 DEF Stamped
<1>9. Kept'
  <2>1. \A c \in Books : record[c].owners \subseteq record'[c].owners /\ (Void(c)' => Void(c))
    BY <1>3 DEF b, Void
  <2>2. \A c \in Books, o \in Owners : Stands(c, o)' => o \in record'[c].owners /\ ~Void(c)'
    BY <1>5, <2>1 DEF OInv, Ledger, Kept
  <2>3. ASSUME NEW q \in Slots, inv'[q].pc = "stored"
        PROVE  inv'[q].owner \in record'[inv'[q].book].owners \union {Nobody} /\ ~Void(inv[q].book)'
    <3>1. inv[q].book \in Books /\ inv[q].owner \in Owners \union {Nobody}
      BY <1>1 DEF Invocations
    <3>2. CASE q = r
      BY <1>3, <1>4, <3>2 DEF b, Void
    <3>3. CASE q # r
      BY <1>4, <2>1, <2>3, <3>1, <3>3 DEF OInv, Ledger, Kept
    <3> QED BY <3>2, <3>3
  <2>4. \A c \in Books : Void(c)' => record'[c].owners = {}
    BY <1>3 DEF Void, OInv, Ledger, Kept, b
  <2>5. \A k \in Cancels, o \in Owners : cancel'[k].pc = "discard" => ~Stands(cancel[k].book, o)'
    <3>1. \A k \in Cancels : cancel[k].book \in Books
      BY DEF OInv, Ledger, Types, Cancellations
    <3> QED BY <1>5, <3>1 DEF OInv, Ledger, Kept
  <2> QED BY <2>2, <2>3, <2>4, <2>5 DEF Kept
<1>10. Types'
  BY <1>1 DEF OInv, Ledger, Types, b
<1>11. Own'
  BY <1>4 DEF OInv, Ledger, Own, Slots
<1>12. Locked'
  BY <1>4 DEF Locked, Turn, OInv, Ledger
<1> QED BY <1>8, <1>9, <1>10, <1>11, <1>12 DEF OInv, Ledger, Manned, Orderly

LEMMA AdmitKeeps ==
  ASSUME OInv, NEW r \in Slots, Admit(r)
  PROVE  OInv'
<1> DEFINE b == inv[r].book
           new == Changed(b, inv[r].identity)
           others == {c \in Books \ {b} : record[c].state \in {"preparing", "error"}}
           full == /\ record[b].state \in {"absent", "paused"} \/ new
                   /\ Cardinality(others) >= Tracked
           fresh == record[b].state \in {"absent", "paused", "error"} \/ new
<1>1. inv[r].pc = "admit" /\ Turn(<<"admit", r>>) /\ UNCHANGED <<identity, epochs, word>>
  BY DEF Admit
<1>2. CASE ~IsCurrent(r) \/ full
  <2>1. /\ Ends(r) /\ UNCHANGED record
        /\ IF r \in Books /\ worker[r].pc = "self"
           THEN IF Caught(r) = "none" THEN Finish(r, FALSE) /\ PassTurn
                ELSE /\ Goto(r, Caught(r)) /\ chain' = Append(Tail(chain), <<"save", r>>)
                     /\ UNCHANGED <<sched, stopped, removed>>
           ELSE PassTurn /\ UNCHANGED <<worker, stopped, sched, removed>>
    BY <1>2 DEF Admit
  <2> HIDE DEF b, new, others, full, fresh
  <2> QED BY <1>1, <2>1, RefusedKeeps
<1>3. CASE IsCurrent(r) /\ ~full
  <2> DEFINE e == [id |-> IF fresh THEN record[b].id + 1 ELSE record[b].id,
                   state |-> IF fresh THEN "preparing" ELSE record[b].state,
                   owners |-> record[b].owners \union ({inv[r].owner} \ {Nobody}),
                   next |-> IF new THEN 0 ELSE record[b].next,
                   identity |-> inv[r].identity]
             v == [inv[r] EXCEPT !.pc = "stored", !.fresh = fresh, !.replaces = new]
  <2>1. /\ inv' = [inv EXCEPT ![r].pc = "stored", ![r].fresh = fresh, ![r].replaces = new]
        /\ record' = [record EXCEPT ![b] =
             [id |-> IF fresh THEN @.id + 1 ELSE @.id,
              state |-> IF fresh THEN "preparing" ELSE @.state,
              owners |-> @.owners \union ({inv[r].owner} \ {Nobody}),
              next |-> IF new THEN 0 ELSE @.next,
              identity |-> inv[r].identity]]
        /\ UNCHANGED <<cancel, chain, worker, sched>>
    BY <1>3 DEF Admit
  <2>2. inv \in [Slots -> Invocations] /\ record \in [Books -> Records] /\ b \in Books
    BY DEF OInv, Ledger, Types, Invocations
  <2>3. inv' = [inv EXCEPT ![r] = v] /\ record' = [record EXCEPT ![b] = e]
    BY <2>1, <2>2
  <2>4. fresh \in BOOLEAN /\ new \in BOOLEAN
    BY DEF Changed
  <2> HIDE DEF new, fresh
  <2>5. /\ v \in Invocations /\ v.pc = "stored" /\ v.book = inv[r].book /\ v.owner = inv[r].owner
        /\ v.epoch = inv[r].epoch /\ v.aborted = inv[r].aborted
    BY <2>2, <2>4 DEF Invocations
  <2>6. 0 \in 0 .. Chapters
    BY OfflineAssumption DEF OfflineAssumption
  <2>7. e \in Records
    <3>1. inv[r].identity \in Nat /\ inv[r].owner \in Owners \union {Nobody} /\ record[b] \in Records
      BY <2>2 DEF Invocations
    <3> HIDE DEF b
    <3> QED BY <2>6, <3>1 DEF Records
  <2>8. e.state \notin {"absent", "paused"}
    BY DEF fresh
  <2>9. e.owners = record[b].owners \union ({inv[r].owner} \ {Nobody})
    OBVIOUS
  <2>10. Alive(r)
    BY <1>1, <1>3 DEF IsCurrent, Alive
  <2> HIDE DEF v, e
  <2> QED BY <1>1, <2>1, <2>3, <2>5, <2>7, <2>8, <2>9, <2>10, StoresKeeps
<1> QED BY <1>2, <1>3

LEMMA StampsKept ==
  ASSUME OInv, NEW r \in Slots, inv[r].pc = "stored", NEW b \in Books, b = inv[r].book,
         epochs' = [epochs EXCEPT !.saved[b] = inv[r].epoch, !.owner = SavedEpochs(r)],
         inv' \in [Slots -> Invocations], cancel' \in [Cancels -> Cancellations],
         word' \in [Books -> [Owners -> Words]],
         inv'[r].pc \in {"free", "discard"}, \A q \in Slots \ {r} : inv'[q] = inv[q],
         inv'[r].pc = "discard" =>
           /\ inv'[r].book = b /\ inv'[r].owner = inv[r].owner
           /\ inv'[r].epoch = inv[r].epoch /\ inv'[r].aborted = inv[r].aborted,
         \A k \in Cancels :
           /\ cancel'[k].pc = cancel[k].pc /\ cancel'[k].book = cancel[k].book
           /\ cancel'[k].owner = cancel[k].owner /\ cancel'[k].epoch = cancel[k].epoch,
         \A c \in Books, p \in Owners :
           Asked(c, p)' => Asked(c, p) \/ (Alive(r) /\ c = b /\ p = inv[r].owner),
         UNCHANGED <<record, identity>>
  PROVE  Ledger'
<1>1. /\ inv \in [Slots -> Invocations] /\ epochs \in Epochs /\ inv[r].epoch \in Nat
      /\ inv[r].owner \in Owners \union {Nobody}
  BY DEF OInv, Ledger, Types, Invocations
<1>2. Nobody \notin Owners
  BY OfflineAssumption DEF OfflineAssumption
<1>3. /\ epochs'.request = epochs.request
      /\ epochs'.saved[b] = inv[r].epoch
      /\ \A c \in Books \ {b} : epochs'.saved[c] = epochs.saved[c]
      /\ \A c \in Books, p \in Owners :
           epochs'.owner[c][p] = IF c = b /\ p = inv[r].owner THEN inv[r].epoch ELSE epochs.owner[c][p]
  BY <1>1, <1>2 DEF Epochs, SavedEpochs
<1>4. epochs' \in Epochs
  <2>1. SavedEpochs(r) \in [Books -> [Owners -> Nat]]
    BY <1>1 DEF Epochs, SavedEpochs
  <2> QED BY <1>1, <2>1 DEF Epochs
<1>5. Types' /\ Own'
  BY <1>4 DEF OInv, Ledger, Types, Own, Slots
<1>6. ASSUME NEW q \in Slots PROVE inv'[q].pc # "stored"
  <2>1. CASE q # r
    <3>1. inv[q].pc # "stored"
      BY <2>1 DEF OInv, Ledger, Locked, Turn
    <3> QED BY <2>1, <3>1
  <2>2. CASE q = r
    BY <2>2
  <2> QED BY <2>1, <2>2
<1>7. \A k \in Cancels : cancel'[k].pc # "discard"
  BY DEF OInv, Ledger, Locked, Turn
<1>8. Locked'
  BY <1>6, <1>7 DEF Locked
<1>9. ASSUME NEW c \in Books, NEW p \in Owners, Stands(c, p)', ~Stands(c, p)
      PROVE  Alive(r) /\ c = b /\ p = inv[r].owner
  BY <1>9 DEF Stands, Alive
<1>10. ASSUME NEW k \in Cancels, NEW q \in Slots, Alive(q)' PROVE OutlivedBy(k, q)'
  <2>1. Alive(q) /\ inv'[q].book = inv[q].book /\ inv'[q].owner = inv[q].owner /\ inv'[q].epoch = inv[q].epoch
    BY <1>10 DEF Alive
  <2>2. OutlivedBy(k, q)
    BY <2>1 DEF OInv, Ledger, Stamped
  <2> QED BY <2>1, <2>2 DEF OutlivedBy, Meets
<1>11. ASSUME NEW c \in Books, NEW p \in Owners, NEW k \in Cancels, Stands(c, p)', Meets(k, c, p)'
       PROVE  Newer(k, c, p)'
  <2>1. Meets(k, c, p) /\ cancel'[k].epoch = cancel[k].epoch /\ cancel'[k].owner = cancel[k].owner
    BY <1>11 DEF Meets
  <2>2. CASE Stands(c, p)
    <3>1. Newer(k, c, p) /\ OutlivedBy(k, r)
      BY <2>1, <2>2 DEF OInv, Ledger, Stamped
    <3>2. CASE c # b
      BY <1>3, <2>1, <3>1, <3>2 DEF Newer
    <3>3. CASE c = b /\ cancel[k].owner = Nobody
      <4>1. cancel[k].epoch <= inv[r].epoch
        BY <2>1, <3>1, <3>3 DEF OutlivedBy, Meets
      <4> QED BY <1>3, <2>1, <3>3, <4>1 DEF Newer
    <3>4. CASE c = b /\ cancel[k].owner # Nobody
      <4>1. cancel[k].owner = p
        BY <2>1, <3>4 DEF Meets
      <4>2. CASE p = inv[r].owner
        <5>1. cancel[k].epoch <= inv[r].epoch
          BY <2>1, <3>1, <3>4, <4>2 DEF OutlivedBy, Meets
        <5> QED BY <1>3, <2>1, <3>4, <4>2, <5>1 DEF Newer
      <4>3. CASE p # inv[r].owner
        BY <1>3, <2>1, <3>1, <3>4, <4>3 DEF Newer
      <4> QED BY <4>2, <4>3
    <3> QED BY <3>2, <3>3, <3>4
  <2>3. CASE ~Stands(c, p)
    <3>1. Alive(r) /\ c = b /\ p = inv[r].owner
      BY <1>9, <1>11, <2>3
    <3>2. OutlivedBy(k, r)
      BY <3>1 DEF OInv, Ledger, Stamped
    <3>3. cancel[k].epoch <= inv[r].epoch
      BY <2>1, <3>1, <3>2 DEF OutlivedBy
    <3> QED BY <1>3, <2>1, <3>1, <3>3 DEF Newer
  <2> QED BY <2>2, <2>3
<1>12. \A k \in Cancels : cancel'[k].pc # "free" => cancel'[k].epoch <= epochs'.request[cancel'[k].book]
  BY <1>3 DEF OInv, Ledger, Stamped
<1>13. Stamped'
  BY <1>6, <1>10, <1>11, <1>12 DEF Stamped
<1>14. Kept'
  <2>1. ASSUME NEW c \in Books, NEW p \in Owners, Stands(c, p)' PROVE p \in record'[c].owners /\ ~Void(c)'
    <3>1. CASE Stands(c, p)
      BY <3>1 DEF OInv, Ledger, Kept, Void
    <3>2. CASE ~Stands(c, p)
      <4>1. c = b /\ p = inv[r].owner
        BY <1>9, <2>1, <3>2
      <4> QED BY <1>2, <4>1 DEF OInv, Ledger, Kept, Void
    <3> QED BY <3>1, <3>2
  <2>2. \A c \in Books : Void(c)' => record'[c].owners = {}
    BY DEF OInv, Ledger, Kept, Void
  <2> QED BY <1>6, <1>7, <2>1, <2>2 DEF Kept
<1> QED BY <1>5, <1>8, <1>13, <1>14 DEF Ledger

(* The turn of r passes while workers end or begin. *)
LEMMA PassedOrderly ==
  ASSUME OInv, NEW r, Turn(<<"admit", r>>), PassTurn, StillSaves(worker, worker')
  PROVE  Orderly(chain, worker)'
<1>1. chain # <<>> /\ chain' = Tail(chain) /\ \A c \in Books : Head(chain) # <<"save", c>>
  BY DEF Turn, PassTurn
<1>2. Orderly(Tail(chain), worker')
  BY <1>1, OrderlyTail DEF OInv, StillSaves
<1> QED BY <1>1, <1>2

LEMMA PlacedSaves ==
  ASSUME OInv, NEW r \in Slots, inv[r].pc # "free", Placed(r, inv[r].book, Scheduled(sched, inv[r].book, Afresh(r, inv[r].book)))
  PROVE  Manned(sched, worker)' /\ StillSaves(worker, worker')
<1>1. Fits(sched) /\ Manned(sched, worker)
  BY DEF OInv, Manned, Fits
<1>2. inv[r].book \in Books /\ Afresh(r, inv[r].book) \in BOOLEAN
  BY DEF OInv, Ledger, Types, Invocations, Afresh
<1>3. r \in Books => r = inv[r].book
  BY DEF OInv, Ledger, Own
<1> DEFINE s == Scheduled(sched, inv[r].book, Afresh(r, inv[r].book))
           ended == IF r \in Books /\ worker[r].pc = "self" THEN {inv[r].book} ELSE {}
<1>4. Fits(s) /\ sched.active \subseteq s.active
  BY <1>1, <1>2, ScheduledFits
<1>5. Placed(r, inv[r].book, s)
  OBVIOUS
<1> HIDE DEF s
<1>6. Manned(sched, worker)' /\ Relieved(ended)
  BY <1>1, <1>2, <1>3, <1>4, <1>5, PlacedMans
<1>7. \A c \in ended : worker[c].pc \notin Saving
  BY <1>3 DEF Saving
<1> QED BY <1>1, <1>6, <1>7, RelievedSaves

LEMMA StoredKeeps ==
  ASSUME OInv, NEW r \in Slots, Stored(r)
  PROVE  OInv'
<1> DEFINE b == inv[r].book
<1>1. /\ inv[r].pc = "stored" /\ PassTurn /\ UNCHANGED <<record, identity>>
      /\ epochs' = [epochs EXCEPT !.saved[b] = inv[r].epoch, !.owner = SavedEpochs(r)]
  BY DEF Stored
<1>2. /\ inv \in [Slots -> Invocations] /\ b \in Books /\ word \in [Books -> [Owners -> Words]]
      /\ cancel \in [Cancels -> Cancellations] /\ Manned(sched, worker)
  BY DEF OInv, Ledger, Types, Invocations
<1>3. Turn(<<"admit", r>>)
  BY <1>1 DEF OInv, Ledger, Locked
<1>4. r \in Books => r = b
  BY <1>1 DEF OInv, Ledger, Own
<1>5. CASE /\ ~IsCurrent(r) /\ Ends(r) /\ word' = word
           /\ IF r \in Books /\ worker[r].pc = "self" THEN Finish(r, FALSE)
              ELSE UNCHANGED <<worker, stopped, sched, removed>>
  <2>1. Manned(sched, worker)' /\ StillSaves(worker, worker')
    <3>1. CASE r \in Books /\ worker[r].pc = "self"
      <4>1. Manned(sched, worker)' /\ Relieved({r})
        BY <1>2, <1>5, <3>1, FinishMans
      <4> QED BY <1>2, <3>1, <4>1, RelievedSaves DEF Saving
    <3>2. CASE ~(r \in Books /\ worker[r].pc = "self")
      BY <1>2, <1>5, <3>2 DEF Manned, StillSaves
    <3> QED BY <3>1, <3>2
  <2>2. Orderly(chain, worker)'
    BY <1>1, <1>3, <2>1, PassedOrderly
  <2>3. \A c \in Books, p \in Owners : Asked(c, p)' => Asked(c, p)
    BY <1>5 DEF Asked
  <2>4. /\ inv' \in [Slots -> Invocations] /\ cancel' \in [Cancels -> Cancellations]
        /\ inv'[r].pc = "free" /\ \A q \in Slots \ {r} : inv'[q] = inv[q]
        /\ \A k \in Cancels :
             /\ cancel'[k].pc = cancel[k].pc /\ cancel'[k].book = cancel[k].book
             /\ cancel'[k].owner = cancel[k].owner /\ cancel'[k].epoch = cancel[k].epoch
    BY <1>5, EndsTyped DEF OInv, Ledger
  <2>5. word' \in [Books -> [Owners -> Words]]
    BY <1>2, <1>5
  <2> HIDE DEF b
  <2>6. Ledger'
    BY <1>1, <1>2, <2>3, <2>4, <2>5, StampsKept DEF b
  <2> QED BY <2>1, <2>2, <2>6 DEF OInv
<1>6. CASE /\ IsCurrent(r) /\ ~inv[r].replaces /\ Ends(r) /\ Accepted(r)
           /\ Placed(r, b, Scheduled(sched, b, Afresh(r, b)))
  <2>1. Manned(sched, worker)' /\ StillSaves(worker, worker')
    BY <1>1, <1>6, PlacedSaves
  <2>2. Orderly(chain, worker)'
    BY <1>1, <1>3, <2>1, PassedOrderly
  <2>3. Alive(r)
    BY <1>1, <1>6 DEF IsCurrent, Alive
  <2>4. /\ word' \in [Books -> [Owners -> Words]]
        /\ \A c \in Books, p \in Owners :
             Asked(c, p)' => Asked(c, p) \/ (Alive(r) /\ c = b /\ p = inv[r].owner)
    BY <1>2, <1>6, <2>3 DEF Accepted, Words, Asked
  <2>5. /\ inv' \in [Slots -> Invocations] /\ cancel' \in [Cancels -> Cancellations]
        /\ inv'[r].pc = "free" /\ \A q \in Slots \ {r} : inv'[q] = inv[q]
        /\ \A k \in Cancels :
             /\ cancel'[k].pc = cancel[k].pc /\ cancel'[k].book = cancel[k].book
             /\ cancel'[k].owner = cancel[k].owner /\ cancel'[k].epoch = cancel[k].epoch
    BY <1>6, EndsTyped DEF OInv, Ledger
  <2> HIDE DEF b
  <2>6. Ledger'
    BY <1>1, <1>2, <2>4, <2>5, StampsKept DEF b
  <2> QED BY <2>1, <2>2, <2>6 DEF OInv
<1>7. CASE /\ IsCurrent(r) /\ inv[r].replaces
           /\ inv' = [inv EXCEPT ![r].pc = "discard"]
           /\ UNCHANGED <<cancel, worker, sched, removed, word>>
  <2> DEFINE v == [inv[r] EXCEPT !.pc = "discard"]
  <2>1. inv' = [inv EXCEPT ![r] = v]
    BY <1>2, <1>7
  <2>2. /\ v \in Invocations /\ v.pc = "discard" /\ v.book = b /\ v.owner = inv[r].owner
        /\ v.epoch = inv[r].epoch /\ v.aborted = inv[r].aborted
    BY <1>2 DEF Invocations
  <2> HIDE DEF v
  <2>3. inv'[r] = v /\ inv' \in [Slots -> Invocations] /\ \A q \in Slots \ {r} : inv'[q] = inv[q]
    BY <1>2, <2>1, <2>2
  <2>4. Manned(sched, worker)' /\ StillSaves(worker, worker')
    BY <1>2, <1>7 DEF Manned, StillSaves
  <2>5. Orderly(chain, worker)'
    BY <1>1, <1>3, <2>4, PassedOrderly
  <2>6. \A c \in Books, p \in Owners : Asked(c, p)' => Asked(c, p)
    BY <1>7 DEF Asked
  <2> HIDE DEF b
  <2>7. Ledger'
    BY <1>1, <1>2, <1>7, <2>2, <2>3, <2>6, StampsKept DEF b
  <2> QED BY <2>4, <2>5, <2>7 DEF OInv
<1> QED BY <1>5, <1>6, <1>7 DEF Stored

LEMMA ReplacedKeeps ==
  ASSUME OInv, NEW r \in Slots, Replaced(r)
  PROVE  OInv'
<1> DEFINE b == inv[r].book
<1>1. inv[r].pc = "discard" /\ Ends(r) /\ UNCHANGED <<record, identity, chain, epochs>>
  BY DEF Replaced
<1>2. /\ b \in Books /\ word \in [Books -> [Owners -> Words]] /\ Manned(sched, worker)
      /\ Orderly(chain, worker) /\ chain \in Seq(Ops)
  BY DEF OInv, Ledger, Types, Invocations, Orderly
<1>3. r \in Books => r = b
  BY <1>1 DEF OInv, Ledger, Own
<1>4. Manned(sched, worker)' /\ StillSaves(worker, worker')
  <2>1. CASE IsCurrent(r)
    BY <1>1, <2>1, PlacedSaves DEF Replaced
  <2>2. CASE ~IsCurrent(r) /\ r \in Books /\ worker[r].pc = "self"
    <3>1. Manned(sched, worker)' /\ Relieved({r})
      BY <1>2, <2>2, FinishMans DEF Replaced
    <3> QED BY <1>2, <2>2, <3>1, RelievedSaves DEF Saving
  <2>3. CASE ~IsCurrent(r) /\ ~(r \in Books /\ worker[r].pc = "self")
    BY <1>2, <2>3 DEF Replaced, Manned, StillSaves
  <2> QED BY <2>1, <2>2, <2>3
<1>5. Orderly(chain, worker)'
  BY <1>1, <1>2, <1>4, OrderlyKept
<1>6. /\ inv'[r].pc = "free" /\ \A q \in Slots \ {r} : inv'[q] = inv[q]
      /\ \A k \in Cancels : cancel'[k].pc = cancel[k].pc
  BY <1>1, EndsTyped DEF OInv, Ledger
<1>7. Locked'
  <2>1. \A q \in Slots : inv'[q].pc = "stored" => inv[q].pc = "stored"
    BY <1>6
  <2> QED BY <1>1, <1>2, <1>6, <2>1, LocksKept DEF OInv, Ledger
<1>8. /\ word' \in [Books -> [Owners -> Words]]
      /\ \A c \in Books, p \in Owners : Asked(c, p)' => Stands(c, p)
  <2>1. CASE IsCurrent(r)
    <3>1. Accepted(r) /\ Alive(r)
      BY <1>1, <2>1 DEF Replaced, IsCurrent, Alive
    <3> QED BY <1>1, <1>2, <3>1 DEF Accepted, Words, Asked, Stands
  <2>2. CASE ~IsCurrent(r)
    BY <1>2, <2>2 DEF Replaced, Asked, Stands
  <2> QED BY <2>1, <2>2
<1> QED BY <1>1, <1>4, <1>5, <1>7, <1>8, EndsKeeps DEF OInv

LEMMA CancelKeeps ==
  ASSUME OInv, NEW k \in Cancels, NEW b \in Books, NEW o \in Owners \union {Nobody}, Cancel(k, b, o)
  PROVE  OInv'
<1> DEFINE e == epochs.request[b] + 1
           live == {r \in Slots : inv[r].pc # "free" /\ inv[r].book = b}
           mine == {r \in live : o = Nobody \/ inv[r].owner = o}
           new == [pc |-> "wait", book |-> b, owner |-> o, epoch |-> e, waits |-> mine]
<1>1. /\ cancel[k].pc = "free"
      /\ epochs' = [epochs EXCEPT !.request[b] = e]
      /\ inv' = [r \in Slots |-> IF r \in mine THEN [inv[r] EXCEPT !.aborted = TRUE]
                                 ELSE IF r \in live THEN [inv[r] EXCEPT !.epoch = e] ELSE inv[r]]
      /\ cancel' = [cancel EXCEPT ![k] = new]
      /\ word' = [word EXCEPT ![b] = [p \in Owners |->
           IF p = o THEN "left" ELSE IF o = Nobody /\ @[p] = "accepted" THEN "cancelled" ELSE @[p]]]
      /\ UNCHANGED <<record, identity, chain, worker, sched>>
  BY DEF Cancel
<1>2. /\ inv \in [Slots -> Invocations] /\ cancel \in [Cancels -> Cancellations]
      /\ epochs \in Epochs /\ word \in [Books -> [Owners -> Words]] /\ chain \in Seq(Ops)
  BY DEF OInv, Ledger, Types, Orderly
<1>3. e \in Nat /\ epochs.request[b] <= e /\ mine \subseteq Slots
  BY <1>2 DEF Epochs
<1>4. ASSUME NEW r \in Slots
      PROVE  /\ inv'[r] \in Invocations
             /\ inv'[r].pc = inv[r].pc /\ inv'[r].book = inv[r].book /\ inv'[r].owner = inv[r].owner
             /\ inv[r].aborted => inv'[r].aborted
             /\ inv'[r].epoch = inv[r].epoch \/ (inv'[r].epoch = e /\ inv[r].book = b)
             /\ Alive(r)' /\ inv[r].book = b => o # Nobody /\ inv[r].owner # o
  <2>1. inv[r] \in Invocations
    BY <1>2
  <2>2. CASE r \in mine
    <3>1. inv'[r] = [inv[r] EXCEPT !.aborted = TRUE]
      BY <1>1, <2>2
    <3> QED BY <2>1, <3>1 DEF Invocations, Alive
  <2>3. CASE r \in live \ mine
    <3>1. inv'[r] = [inv[r] EXCEPT !.epoch = e]
      BY <1>1, <2>3
    <3>2. inv[r].book = b /\ o # Nobody /\ inv[r].owner # o
      BY <2>3
    <3> HIDE DEF e
    <3> QED BY <1>3, <2>1, <3>1, <3>2 DEF Invocations, Alive
  <2>4. CASE r \notin live
    <3>1. inv'[r] = inv[r]
      BY <1>1, <2>4
    <3> QED BY <2>1, <2>4, <3>1 DEF Alive
  <2> QED BY <2>2, <2>3, <2>4
<1>5. new \in Cancellations
  <2> HIDE DEF e, mine
  <2> QED BY <1>3 DEF Cancellations
<1>6. cancel'[k] = new /\ \A j \in Cancels \ {k} : cancel'[j] = cancel[j]
  BY <1>1, <1>2
<1>7. new.pc = "wait" /\ new.book = b /\ new.owner = o /\ new.epoch = e
  OBVIOUS
<1> HIDE DEF new, mine, live
<1>8. /\ epochs' \in Epochs /\ epochs'.saved = epochs.saved /\ epochs'.owner = epochs.owner
      /\ epochs'.request[b] = e /\ \A c \in Books \ {b} : epochs'.request[c] = epochs.request[c]
  BY <1>1, <1>2, <1>3 DEF Epochs
<1> HIDE DEF e
<1>9. word' \in [Books -> [Owners -> Words]]
  BY <1>1, <1>2 DEF Words
<1>10. \A c \in Books, p \in Owners : Asked(c, p)' => Asked(c, p) /\ (c = b => o \notin {Nobody, p})
  BY <1>1, <1>2 DEF Asked
<1>11. Types' /\ Own'
  <2>1. inv' \in [Slots -> Invocations]
    BY <1>1, <1>4
  <2>2. cancel' \in [Cancels -> Cancellations]
    BY <1>1, <1>2, <1>5
  <2> QED BY <1>1, <1>4, <1>8, <1>9, <2>1, <2>2 DEF OInv, Ledger, Types, Own, Slots
<1>12. Locked'
  BY <1>1, <1>2, <1>4, <1>6, <1>7, LocksKept DEF OInv, Ledger
<1>13. ASSUME NEW c \in Books, NEW p \in Owners, Stands(c, p)'
       PROVE  Stands(c, p) /\ (c = b => o \notin {Nobody, p})
  <2>1. CASE Asked(c, p)'
    BY <1>10, <2>1 DEF Stands
  <2>2. CASE ~Asked(c, p)'
    <3>1. PICK r \in Slots : Alive(r)' /\ inv'[r].pc = "discard" /\ inv'[r].book = c /\ inv'[r].owner = p
      BY <1>13, <2>2 DEF Stands
    <3>2. Alive(r) /\ inv[r].pc = "discard" /\ inv[r].book = c /\ inv[r].owner = p
      BY <1>4, <3>1 DEF Alive
    <3> QED BY <1>4, <3>1, <3>2 DEF Stands
  <2> QED BY <2>1, <2>2
<1>14. ASSUME NEW j \in Cancels PROVE cancel'[j].pc # "free" => cancel'[j].epoch <= epochs'.request[cancel'[j].book]
  <2>1. CASE j = k
    BY <1>3, <1>6, <1>7, <1>8, <2>1
  <2>2. CASE j # k /\ cancel[j].pc # "free"
    <3>1. /\ cancel'[j] = cancel[j] /\ cancel[j].epoch <= epochs.request[cancel[j].book]
          /\ cancel[j].book \in Books /\ cancel[j].epoch \in Nat /\ epochs.request[b] \in Nat
      BY <1>2, <1>6, <2>2 DEF OInv, Ledger, Stamped, Cancellations, Epochs
    <3> QED BY <1>3, <1>8, <3>1
  <2> QED BY <1>6, <2>1, <2>2
<1>15. ASSUME NEW j \in Cancels, j # k, NEW r \in Slots, OutlivedBy(j, r) PROVE OutlivedBy(j, r)'
  <2> SUFFICES ASSUME Meets(j, inv[r].book, inv[r].owner)' PROVE cancel'[j].epoch <= inv'[r].epoch
    BY DEF OutlivedBy
  <2>1. cancel'[j] = cancel[j] /\ Meets(j, inv[r].book, inv[r].owner)
    BY <1>4, <1>6, <1>15 DEF Meets
  <2>2. cancel[j].epoch <= inv[r].epoch
    BY <1>15, <2>1 DEF OutlivedBy
  <2>3. CASE inv'[r].epoch = inv[r].epoch
    BY <2>1, <2>2, <2>3
  <2>4. CASE inv'[r].epoch = e /\ inv[r].book = b
    BY <1>8, <1>14, <2>1, <2>4 DEF Meets
  <2> QED BY <1>4, <2>3, <2>4
<1>16. ASSUME NEW j \in Cancels, NEW r \in Slots, Alive(r)' PROVE OutlivedBy(j, r)'
  <2>1. CASE j = k
    BY <1>4, <1>6, <1>7, <1>16, <2>1 DEF OutlivedBy, Meets
  <2>2. CASE j # k
    <3>1. Alive(r)
      BY <1>4, <1>16 DEF Alive
    <3> QED BY <1>15, <2>2, <3>1 DEF OInv, Ledger, Stamped
  <2> QED BY <2>1, <2>2
<1>17. ASSUME NEW c \in Books, NEW p \in Owners, NEW j \in Cancels, Stands(c, p)', Meets(j, c, p)'
       PROVE  Newer(j, c, p)' /\ \A r \in Slots : inv'[r].pc = "stored" => OutlivedBy(j, r)'
  <2>1. j # k
    BY <1>6, <1>7, <1>13, <1>17 DEF Meets
  <2>2. cancel'[j] = cancel[j] /\ Meets(j, c, p) /\ Stands(c, p)
    BY <1>6, <1>13, <1>17, <2>1 DEF Meets
  <2>3. Newer(j, c, p) /\ \A r \in Slots : inv[r].pc = "stored" => OutlivedBy(j, r)
    BY <2>2 DEF OInv, Ledger, Stamped
  <2>4. Newer(j, c, p)'
    BY <1>8, <2>2, <2>3 DEF Newer
  <2> QED BY <1>4, <1>15, <2>1, <2>3, <2>4
<1>18. Stamped'
  BY <1>14, <1>16, <1>17 DEF Stamped
<1>19. Kept'
  <2>1. \A c \in Books, p \in Owners : Stands(c, p)' => p \in record'[c].owners /\ ~Void(c)'
    BY <1>1, <1>13 DEF OInv, Ledger, Kept, Void
  <2>2. \A r \in Slots : inv'[r].pc = "stored" =>
          inv'[r].owner \in record'[inv'[r].book].owners \union {Nobody} /\ ~Void(inv[r].book)'
    BY <1>1, <1>4 DEF OInv, Ledger, Kept, Void
  <2>3. \A c \in Books : Void(c)' => record'[c].owners = {}
    BY <1>1 DEF OInv, Ledger, Kept, Void
  <2>4. ASSUME NEW j \in Cancels, NEW p \in Owners, cancel'[j].pc = "discard" PROVE ~Stands(cancel[j].book, p)'
    <3>1. j # k /\ cancel[j].pc = "discard" /\ cancel'[j] = cancel[j] /\ cancel[j].book \in Books
      BY <1>2, <1>6, <1>7, <2>4 DEF Cancellations
    <3> QED BY <1>13, <3>1 DEF OInv, Ledger, Kept
  <2> QED BY <2>1, <2>2, <2>3, <2>4 DEF Kept
<1> QED BY <1>1, <1>11, <1>12, <1>18, <1>19 DEF OInv, Ledger, Manned, Orderly

LEMMA CancelTurnKeeps ==
  ASSUME OInv, NEW k \in Cancels, CancelTurn(k)
  PROVE  OInv'
<1>1. /\ cancel[k].pc = "wait" /\ cancel' = [cancel EXCEPT ![k].pc = "turn"]
      /\ chain' = Append(chain, <<"cancel", k>>)
      /\ UNCHANGED <<record, identity, inv, worker, sched, epochs, word>>
  BY DEF CancelTurn, Queue
<1>2. cancel \in [Cancels -> Cancellations] /\ chain \in Seq(Ops) /\ inv \in [Slots -> Invocations]
  BY DEF OInv, Ledger, Types, Orderly
<1>3. cancel' \in [Cancels -> Cancellations] /\ \A j \in Cancels : Ceases(j)
  BY <1>1, <1>2 DEF Cancellations, Ceases
<1>4. <<"cancel", k>> \in Ops /\ \A c \in Books : <<"cancel", k>> # <<"save", c>>
  BY DEF Ops
<1>5. \A j \in Cancels : cancel'[j].pc = "discard" => cancel[j].pc = "discard"
  BY <1>1, <1>2 DEF Cancellations
<1>6. Locked'
  BY <1>1, <1>2, <1>4, <1>5, LocksKept DEF OInv, Ledger
<1>7. Types' /\ Own'
  BY <1>1, <1>3 DEF OInv, Ledger, Types, Own
<1>8. \A r \in Slots : Carries(r)
  <2>1. \A r \in Slots : inv[r].epoch \in Nat
    BY <1>2 DEF Invocations
  <2> QED BY <1>1, <2>1 DEF Carries
<1>9. \A b \in Books, o \in Owners : Asked(b, o)' => Stands(b, o)
  BY <1>1 DEF Asked, Stands
<1>10. \A c \in Books : record'[c].owners = record[c].owners /\ (Void(c)' => Void(c))
  BY <1>1 DEF Void
<1>11. Ledger'
  BY <1>1, <1>3, <1>6, <1>7, <1>8, <1>9, <1>10, Fewer DEF OInv
<1>12. Orderly(chain', worker')
  BY <1>1, <1>4, OrderlyAppend DEF OInv, StillSaves
<1> QED BY <1>1, <1>11, <1>12 DEF OInv, Manned

(* The owners that a cancellation leaves, and what stands then. *)
LEMMA AnsweredFits ==
  ASSUME OInv, NEW k \in Cancels, NEW b \in Books, b = cancel[k].book, cancel[k].pc # "free", ~Overtaken(k)
  PROVE  /\ Answered(k).owners = record[b].owners
              \/ /\ Answered(k).owners = record[b].owners \ {cancel[k].owner}
                 /\ cancel[k].owner \in Owners /\ ~Stands(b, cancel[k].owner)
         /\ cancel[k].owner = Nobody => ~Answered(k).done
         /\ ~Answered(k).done => \A p \in Owners : ~Stands(b, p)
<1> DEFINE o == cancel[k].owner
<1>1. /\ o \in Owners \union {Nobody} /\ Nobody \notin Owners /\ cancel[k].epoch \in Nat
      /\ inv \in [Slots -> Invocations] /\ epochs \in Epochs /\ record \in [Books -> Records]
  BY OfflineAssumption DEF OInv, Ledger, Types, Cancellations, OfflineAssumption
<1>2. \A p \in Owners : Stands(b, p) => p \in record[b].owners
  BY DEF OInv, Ledger, Kept
(* A live request that k would retire has been made since. *)
<1>3. ASSUME NEW p \in Owners, o \in {Nobody, p}, Stands(b, p) PROVE Asked(b, p)
  <2>1. ASSUME NEW r \in Slots, Alive(r), inv[r].pc = "discard", inv[r].book = b, inv[r].owner = p
        PROVE  FALSE
    <3>1. cancel[k].epoch <= inv[r].epoch
      BY <1>3, <2>1 DEF OInv, Ledger, Stamped, OutlivedBy, Meets
    <3>2. inv[r].epoch >= cancel[k].epoch
      BY <1>1, <2>1, <3>1 DEF Invocations
    <3> QED BY <1>3, <2>1, <3>2 DEF Overtaken, Live, Alive
  <2> QED BY <1>3, <2>1 DEF Stands
<1>4. ASSUME NEW p \in Owners, o \in {Nobody, p}, Stands(b, p) PROVE Newer(k, b, p)
  BY <1>4 DEF OInv, Ledger, Stamped, Meets
<1>5. CASE o = Nobody
  <2>1. ASSUME NEW p \in Owners, Stands(b, p) PROVE FALSE
    <3>1. cancel[k].epoch <= epochs.saved[b]
      BY <1>4, <1>5, <2>1 DEF Newer
    <3>2. epochs.saved[b] >= cancel[k].epoch
      BY <1>1, <3>1 DEF Epochs
    <3> QED BY <1>5, <3>2 DEF Overtaken
  <2>2. Answered(k) = [done |-> FALSE, owners |-> record[b].owners]
    BY <1>5 DEF Answered
  <2> QED BY <2>1, <2>2
<1>6. CASE o # Nobody
  <2> DEFINE others == \E r \in Live(b) : inv[r].owner # o
             rest == record[b].owners \ {o}
  <2>1. o \in Owners
    BY <1>1, <1>6
  <2>2. CASE record[b].owners = {}
    <3>1. Answered(k) = [done |-> others /\ record[b].state = "absent", owners |-> {}]
      BY <1>6, <2>2 DEF Answered
    <3> QED BY <1>2, <1>6, <2>2, <3>1
  <2>3. CASE record[b].owners # {} /\ (o \notin record[b].owners \/ epochs.owner[b][o] >= cancel[k].epoch)
    <3>1. Answered(k) = [done |-> TRUE, owners |-> record[b].owners]
      BY <1>6, <2>3 DEF Answered
    <3> QED BY <1>6, <3>1
  <2>4. CASE record[b].owners # {} /\ o \in record[b].owners /\ ~(epochs.owner[b][o] >= cancel[k].epoch)
    <3>1. Answered(k) = [done |-> rest # {} \/ others \/ record[b].state = "ready", owners |-> rest]
      BY <1>6, <2>4 DEF Answered
    <3>2. ~Stands(b, o)
      <4>1. SUFFICES ASSUME Stands(b, o) PROVE FALSE
        OBVIOUS
      <4>2. cancel[k].epoch <= epochs.owner[b][o]
        BY <1>4, <1>6, <2>1, <4>1 DEF Newer
      <4> QED BY <1>1, <2>1, <2>4, <4>2 DEF Epochs
    <3>3. ASSUME ~Answered(k).done, NEW p \in Owners, Stands(b, p) PROVE FALSE
      <4> DEFINE done == rest # {} \/ others \/ record[b].state = "ready"
      <4>3. Answered(k) = [done |-> done, owners |-> rest]
        BY <3>1
      <4> HIDE DEF done, rest, others
      <4>4. ~done
        BY <3>3, <4>3
      <4>1. rest = {}
        BY <4>4 DEF done
      <4>2. p = o
        BY <1>2, <3>3, <4>1 DEF rest
      <4> QED BY <3>2, <3>3, <4>2
    <3> QED BY <1>6, <2>1, <3>1, <3>2, <3>3
  <2> QED BY <2>2, <2>3, <2>4
<1> QED BY <1>5, <1>6

(* k, whose turn it is, takes from b the owners G, for whom nothing stands. *)
Takes(k, b, G) ==
  /\ cancel[k].pc # "free" /\ Turn(<<"cancel", k>>) /\ b = cancel[k].book
  /\ \A p \in G : ~Stands(b, p)
  /\ UNCHANGED <<identity, inv>> /\ Locked'
  /\ record' \in [Books -> Records] /\ \A c \in Books \ {b} : record'[c] = record[c]
  /\ record[b].owners \ G \subseteq record'[b].owners
  /\ Void(b)' => record'[b].owners = {} /\ (Void(b) \/ G = Owners)
  /\ epochs' \in Epochs /\ epochs'.request = epochs.request
  /\ \A c \in Books, p \in Owners : c # b \/ p \notin G =>
       epochs'.saved[c] = epochs.saved[c] /\ epochs'.owner[c][p] = epochs.owner[c][p]
  /\ cancel' \in [Cancels -> Cancellations] /\ \A j \in Cancels \ {k} : cancel'[j] = cancel[j]
  /\ cancel'[k].pc # "free" =>
       /\ cancel'[k].book = b /\ cancel'[k].owner = cancel[k].owner
       /\ cancel'[k].epoch = cancel[k].epoch /\ G = Owners
  /\ word' \in [Books -> [Owners -> Words]]
  /\ \A c \in Books, p \in Owners : Asked(c, p)' => Asked(c, p)

LEMMA OwnersGo ==
  ASSUME OInv, NEW k \in Cancels, NEW b \in Books, NEW G \in SUBSET Owners, Takes(k, b, G)
  PROVE  Ledger'
<1> USE DEF Takes
<1>1. Types' /\ Own'
  BY DEF OInv, Ledger, Types, Own
<1>2. ASSUME NEW c \in Books, NEW p \in Owners, Stands(c, p)'
      PROVE  Stands(c, p) /\ (c # b \/ p \notin G)
  BY <1>2 DEF Stands, Alive
<1>3. ASSUME NEW j \in Cancels, NEW c, NEW p, Meets(j, c, p)'
      PROVE  Meets(j, c, p) /\ cancel'[j].epoch = cancel[j].epoch /\ cancel'[j].owner = cancel[j].owner
  BY <1>3 DEF Meets
<1>4. \A r \in Slots : inv[r].pc # "stored"
  BY DEF OInv, Ledger, Locked, Turn
<1>5. ASSUME NEW j \in Cancels, cancel'[j].pc # "free"
      PROVE  cancel'[j].epoch <= epochs'.request[cancel'[j].book]
  BY <1>5 DEF OInv, Ledger, Stamped
<1>6. ASSUME NEW r \in Slots, NEW j \in Cancels, Alive(r)' PROVE OutlivedBy(j, r)'
  <2>1. OutlivedBy(j, r)
    BY <1>6 DEF Alive, OInv, Ledger, Stamped
  <2> QED BY <1>3, <2>1 DEF OutlivedBy
<1>7. ASSUME NEW c \in Books, NEW p \in Owners, NEW j \in Cancels, Stands(c, p)', Meets(j, c, p)'
      PROVE  Newer(j, c, p)'
  <2>1. /\ Stands(c, p) /\ Meets(j, c, p) /\ (c # b \/ p \notin G)
        /\ cancel'[j].epoch = cancel[j].epoch /\ cancel'[j].owner = cancel[j].owner
    BY <1>2, <1>3, <1>7
  <2>2. Newer(j, c, p)
    BY <2>1 DEF OInv, Ledger, Stamped
  <2> QED BY <1>2, <1>7, <2>1, <2>2 DEF Newer
<1>8. Stamped'
  BY <1>4, <1>5, <1>6, <1>7 DEF Stamped
<1>9. Kept'
  <2>1. ASSUME NEW c \in Books, NEW p \in Owners, Stands(c, p)' PROVE p \in record'[c].owners /\ ~Void(c)'
    <3>1. Stands(c, p) /\ (c # b \/ p \notin G)
      BY <1>2, <2>1
    <3>2. p \in record[c].owners /\ ~Void(c)
      BY <3>1 DEF OInv, Ledger, Kept
    <3>3. CASE c = b
      BY <3>1, <3>2, <3>3
    <3>4. CASE c # b
      BY <3>2, <3>4 DEF Void
    <3> QED BY <3>3, <3>4
  <2>2. \A c \in Books : Void(c)' => record'[c].owners = {}
    <3>1. \A c \in Books \ {b} : Void(c)' => record'[c].owners = {}
      BY DEF Void, OInv, Ledger, Kept
    <3> QED BY <3>1
  <2>3. ASSUME NEW j \in Cancels, NEW p \in Owners, cancel'[j].pc = "discard" PROVE ~Stands(cancel[j].book, p)'
    <3>1. CASE j = k
      BY <1>2, <2>3, <3>1
    <3>2. CASE j # k
      BY <2>3, <3>2 DEF OInv, Ledger, Locked, Turn
    <3> QED BY <3>1, <3>2
  <2> QED BY <1>4, <2>1, <2>2, <2>3 DEF Kept
<1> QED BY <1>1, <1>8, <1>9 DEF Ledger

NoCancelTyped == NoCancel \in Cancellations /\ NoCancel.pc = "free"

LEMMA NoCancelFits == NoCancelTyped
<1>1. (CHOOSE b \in Books : TRUE) \in Books
  BY OfflineAssumption DEF OfflineAssumption
<1> QED BY <1>1 DEF NoCancelTyped, NoCancel, Cancellations

LEMMA CancelPasses ==
  ASSUME OInv, NEW k \in Cancels, Turn(<<"cancel", k>>), PassTurn, UNCHANGED <<inv, worker>>,
         cancel' = [cancel EXCEPT ![k] = NoCancel]
  PROVE  /\ Locked' /\ Orderly(chain, worker)'
         /\ cancel' \in [Cancels -> Cancellations] /\ cancel'[k].pc = "free"
         /\ \A j \in Cancels \ {k} : cancel'[j] = cancel[j]
<1>1. cancel \in [Cancels -> Cancellations]
  BY DEF OInv, Ledger, Types
<1>2. /\ cancel' \in [Cancels -> Cancellations] /\ cancel'[k].pc = "free"
      /\ \A j \in Cancels \ {k} : cancel'[j] = cancel[j]
  BY <1>1, NoCancelFits DEF NoCancelTyped
<1>3. Locked'
  <2>1. \A r \in Slots : <<"cancel", k>> # <<"admit", r>>
    OBVIOUS
  <2>2. \A j \in Cancels : cancel'[j].pc = "discard" => cancel[j].pc = "discard" /\ <<"cancel", k>> # <<"cancel", j>>
    BY <1>2
  <2> QED BY <2>1, <2>2, LocksPassed DEF OInv, Ledger
<1>4. Orderly(chain, worker)'
  <2>1. chain # <<>> /\ chain' = Tail(chain) /\ \A c \in Books : Head(chain) # <<"save", c>>
    BY DEF Turn, PassTurn
  <2>2. Orderly(Tail(chain), worker)
    BY <2>1, OrderlyTail DEF OInv
  <2> QED BY <2>1, <2>2
<1> QED BY <1>2, <1>3, <1>4

LEMMA OwnersReplaced ==
  ASSUME NEW e \in Records, NEW S \in SUBSET Owners
  PROVE  /\ [e EXCEPT !.owners = S] \in Records
         /\ [e EXCEPT !.owners = S].owners = S /\ [e EXCEPT !.owners = S].state = e.state
BY DEF Records

LEMMA CancelBodyKeeps ==
  ASSUME OInv, NEW k \in Cancels, CancelBody(k), NEW b \in Books, b = cancel[k].book
  PROVE  OInv'
<1> DEFINE o == cancel[k].owner
           ans == Answered(k)
<1>1. /\ cancel[k].pc = "turn" /\ Turn(<<"cancel", k>>)
      /\ UNCHANGED <<identity, inv, worker, word>>
  BY DEF CancelBody
<1>2. /\ b \in Books /\ o \in Owners \union {Nobody} /\ Nobody \notin Owners
      /\ cancel \in [Cancels -> Cancellations] /\ record \in [Books -> Records] /\ epochs \in Epochs
      /\ word \in [Books -> [Owners -> Words]] /\ inv \in [Slots -> Invocations]
      /\ Manned(sched, worker) /\ Orderly(chain, worker)
  BY OfflineAssumption DEF OInv, Ledger, Types, Cancellations, OfflineAssumption
<1>3. \A c \in Books, p \in Owners : Asked(c, p)' => Asked(c, p)
  BY <1>1 DEF Asked
<1>4. CASE Overtaken(k)
  <2>1. /\ record' = record /\ cancel' = [cancel EXCEPT ![k] = NoCancel] /\ PassTurn /\ epochs' = epochs
        /\ sched' = sched
    BY <1>4 DEF CancelBody
  <2>2. /\ Locked' /\ Orderly(chain, worker)' /\ cancel' \in [Cancels -> Cancellations]
        /\ cancel'[k].pc = "free" /\ \A j \in Cancels \ {k} : cancel'[j] = cancel[j]
    BY <1>1, <2>1, CancelPasses
  <2>3. Ledger'
    <3>1. Void(b)' => record'[b].owners = {} /\ Void(b)
      BY <1>2, <2>1 DEF Void, OInv, Ledger, Kept
    <3> DEFINE G == {}
    <3>2. /\ G \in SUBSET Owners /\ \A p \in G : ~Stands(b, p)
          /\ record[b].owners \ G \subseteq record'[b].owners
      BY <2>1
    <3> HIDE DEF G
    <3>3. Takes(k, b, G)
      BY <1>1, <1>2, <1>3, <2>1, <2>2, <3>1, <3>2 DEF Takes
    <3> QED BY <3>2, <3>3, OwnersGo
  <2> QED BY <1>1, <1>2, <2>1, <2>2, <2>3 DEF OInv
<1>5. CASE ~Overtaken(k) /\ ans.done
  <2>1. /\ record' = [record EXCEPT ![b].owners = ans.owners]
        /\ cancel' = [cancel EXCEPT ![k] = NoCancel] /\ PassTurn /\ sched' = sched
        /\ epochs' = IF o = Nobody \/ ans.owners = record[b].owners THEN epochs
                     ELSE [epochs EXCEPT !.owner[b][o] = 0]
    BY <1>5 DEF CancelBody
  <2>2. /\ Locked' /\ Orderly(chain, worker)' /\ cancel' \in [Cancels -> Cancellations]
        /\ cancel'[k].pc = "free" /\ \A j \in Cancels \ {k} : cancel'[j] = cancel[j]
    BY <1>1, <2>1, CancelPasses
  <2>3. \/ ans.owners = record[b].owners
        \/ ans.owners = record[b].owners \ {o} /\ o \in Owners /\ ~Stands(b, o)
    BY <1>1, <1>2, <1>5, AnsweredFits
  <2> DEFINE G == IF ans.owners = record[b].owners THEN {} ELSE {o}
  <2>4. G \in SUBSET Owners /\ \A p \in G : ~Stands(b, p)
    BY <2>3
  <2>5. ans.owners \in SUBSET Owners /\ record[b].owners \ G \subseteq ans.owners /\ ans.owners \subseteq record[b].owners
    BY <1>2, <2>3 DEF Records
  <2>6. /\ record' \in [Books -> Records] /\ record'[b].owners = ans.owners
        /\ record'[b].state = record[b].state /\ \A c \in Books \ {b} : record'[c] = record[c]
    <3> DEFINE e == [record[b] EXCEPT !.owners = ans.owners]
    <3>1. record' = [record EXCEPT ![b] = e]
      BY <1>2, <2>1
    <3>2. e \in Records /\ e.owners = ans.owners /\ e.state = record[b].state
      <4> HIDE DEF ans
      <4>1. record[b] \in Records /\ ans.owners \in SUBSET Owners
        BY <1>2, <2>5
      <4> QED BY <4>1, OwnersReplaced
    <3> HIDE DEF e
    <3> QED BY <1>2, <3>1, <3>2
  <2>7. Void(b)' => record'[b].owners = {} /\ Void(b)
    BY <1>2, <2>5, <2>6 DEF Void, OInv, Ledger, Kept
  <2>8. /\ epochs' \in Epochs /\ epochs'.request = epochs.request /\ epochs'.saved = epochs.saved
        /\ \A c \in Books, p \in Owners : c # b \/ p \notin G =>
             epochs'.saved[c] = epochs.saved[c] /\ epochs'.owner[c][p] = epochs.owner[c][p]
    BY <1>2, <2>1 DEF Epochs
  <2>9. Ledger'
    <3> HIDE DEF G, ans
    <3>1. /\ cancel[k].pc # "free" /\ record[b].owners \ G \subseteq record'[b].owners
          /\ word' \in [Books -> [Owners -> Words]]
      BY <1>1, <1>2, <2>5, <2>6
    <3>2. Takes(k, b, G)
      BY <1>1, <1>3, <2>2, <2>4, <2>6, <2>7, <2>8, <3>1 DEF Takes
    <3> QED BY <2>4, <3>2, OwnersGo
  <2> QED BY <1>1, <1>2, <2>1, <2>2, <2>9 DEF OInv
<1>6. CASE ~Overtaken(k) /\ ~ans.done
  <2>1. /\ sched' = [sched EXCEPT !.rerun = @ \ {b}]
        /\ cancel' = [cancel EXCEPT ![k].pc = "discard"]
        /\ epochs' = IF o = Nobody THEN epochs ELSE [epochs EXCEPT !.owner[b][o] = 0]
        /\ UNCHANGED <<record, chain>>
    BY <1>6 DEF CancelBody
  <2>2. \A p \in Owners : ~Stands(b, p)
    BY <1>1, <1>2, <1>6, AnsweredFits
  <2>3. /\ cancel' \in [Cancels -> Cancellations] /\ \A j \in Cancels \ {k} : cancel'[j] = cancel[j]
        /\ cancel'[k].book = b /\ cancel'[k].owner = cancel[k].owner /\ cancel'[k].epoch = cancel[k].epoch
    BY <1>2, <2>1 DEF Cancellations
  <2>4. Locked'
    BY <1>1, <2>1, <2>3 DEF Locked, Turn, OInv, Ledger
  <2>5. /\ epochs' \in Epochs /\ epochs'.request = epochs.request /\ epochs'.saved = epochs.saved
        /\ \A c \in Books, p \in Owners : c # b => epochs'.owner[c][p] = epochs.owner[c][p]
    BY <1>2, <2>1 DEF Epochs
  <2>6. Void(b)' => record'[b].owners = {} /\ Void(b)
    BY <1>2, <2>1 DEF Void, OInv, Ledger, Kept
  <2>7. Ledger'
    <3> DEFINE G == Owners
    <3>1. /\ G \in SUBSET Owners /\ \A p \in G : ~Stands(b, p) /\ G = Owners
          /\ record[b].owners \ G \subseteq record'[b].owners
          /\ \A c \in Books, p \in Owners : c # b \/ p \notin G =>
               epochs'.saved[c] = epochs.saved[c] /\ epochs'.owner[c][p] = epochs.owner[c][p]
      BY <2>1, <2>2, <2>5
    <3>4. G = Owners
      OBVIOUS
    <3> HIDE DEF G
    <3>2. /\ cancel[k].pc # "free" /\ word' \in [Books -> [Owners -> Words]]
          /\ record' \in [Books -> Records] /\ \A c \in Books \ {b} : record'[c] = record[c]
      BY <1>1, <1>2, <2>1
    <3>3. Takes(k, b, G)
      <4>1. /\ cancel[k].pc # "free" /\ Turn(<<"cancel", k>>) /\ b = cancel[k].book
            /\ \A p \in G : ~Stands(b, p)
            /\ UNCHANGED <<identity, inv>> /\ Locked'
        BY <1>1, <2>4, <3>1, <3>2
      <4>2. /\ record' \in [Books -> Records] /\ \A c \in Books \ {b} : record'[c] = record[c]
            /\ record[b].owners \ G \subseteq record'[b].owners
            /\ Void(b)' => record'[b].owners = {} /\ (Void(b) \/ G = Owners)
        BY <2>6, <3>1, <3>2
      <4>3. /\ epochs' \in Epochs /\ epochs'.request = epochs.request
            /\ \A c \in Books, p \in Owners : c # b \/ p \notin G =>
                 epochs'.saved[c] = epochs.saved[c] /\ epochs'.owner[c][p] = epochs.owner[c][p]
        BY <2>5, <3>1
      <4>4. /\ cancel' \in [Cancels -> Cancellations] /\ \A j \in Cancels \ {k} : cancel'[j] = cancel[j]
            /\ cancel'[k].pc # "free" =>
                 /\ cancel'[k].book = b /\ cancel'[k].owner = cancel[k].owner
                 /\ cancel'[k].epoch = cancel[k].epoch /\ G = Owners
        BY <2>3, <3>4
      <4>5. /\ word' \in [Books -> [Owners -> Words]]
            /\ \A c \in Books, p \in Owners : Asked(c, p)' => Asked(c, p)
        BY <1>3, <3>2
      <4> QED BY <4>1, <4>2, <4>3, <4>4, <4>5 DEF Takes
    <3> QED BY <3>1, <3>3, OwnersGo
  <2>8. Manned(sched, worker)'
    <3>1. sched' \in Schedules /\ sched'.active = sched.active
      BY <1>2, <2>1 DEF Manned, Schedules
    <3> QED BY <1>1, <1>2, <3>1 DEF Manned
  <2> QED BY <1>1, <1>2, <2>1, <2>7, <2>8 DEF OInv
<1> QED BY <1>4, <1>5, <1>6

LEMMA UnqueuedTyped ==
  ASSUME NEW q \in Seq(Books), NEW b \in Books
  PROVE  Unqueued(q, b) \in Seq(Books)
<1>1. CASE Contains(q, b)
  <2> DEFINE i == CHOOSE i \in DOMAIN q : q[i] = b
  <2>1. \E j \in DOMAIN q : q[j] = b
    BY <1>1 DEF Contains
  <2>2. i \in DOMAIN q
    BY <2>1
  <2>3. Unqueued(q, b) = SubSeq(q, 1, i - 1) \o SubSeq(q, i + 1, Len(q))
    BY <1>1 DEF Unqueued, RemoveAt
  <2> HIDE DEF i
  <2>4. i \in 1 .. Len(q) /\ Len(q) \in Nat
    BY <2>2
  <2>5. SubSeq(q, 1, i - 1) \in Seq(Books) /\ SubSeq(q, i + 1, Len(q)) \in Seq(Books)
    BY <2>4
  <2> QED BY <2>3, <2>5
<1>2. CASE ~Contains(q, b)
  BY <1>2 DEF Unqueued
<1> QED BY <1>1, <1>2

LEMMA CancelEndKeeps ==
  ASSUME OInv, NEW k \in Cancels, CancelEnd(k), NEW b \in Books, b = cancel[k].book
  PROVE  OInv'
<1>1. /\ cancel[k].pc = "discard" /\ PassTurn /\ UNCHANGED <<identity, inv, worker>>
      /\ sched' = [sched EXCEPT !.pending = Unqueued(@, b)]
      /\ record' = [record EXCEPT ![b] = [Absent EXCEPT !.id = record[b].id]]
      /\ epochs' = [epochs EXCEPT !.saved[b] = 0, !.owner[b] = [o \in Owners |-> 0]]
      /\ cancel' = [cancel EXCEPT ![k] = NoCancel]
      /\ word' = [word EXCEPT ![b] = [o \in Owners |-> IF @[o] = "cancelled" THEN "none" ELSE @[o]]]
  BY DEF CancelEnd
<1>2. /\ record \in [Books -> Records] /\ epochs \in Epochs /\ word \in [Books -> [Owners -> Words]]
      /\ Manned(sched, worker) /\ Orderly(chain, worker)
  BY DEF OInv, Ledger, Types
<1>3. Turn(<<"cancel", k>>) /\ \A p \in Owners : ~Stands(b, p)
  BY <1>1 DEF OInv, Ledger, Locked, Kept
<1>4. /\ Locked' /\ Orderly(chain, worker)' /\ cancel' \in [Cancels -> Cancellations]
      /\ cancel'[k].pc = "free" /\ \A j \in Cancels \ {k} : cancel'[j] = cancel[j]
  BY <1>1, <1>3, CancelPasses
<1>5. /\ record' \in [Books -> Records] /\ record'[b].owners = {} /\ \A c \in Books \ {b} : record'[c] = record[c]
  <2> DEFINE e == [Absent EXCEPT !.id = record[b].id]
  <2>1. e \in Records /\ e.owners = {}
    <3>1. record[b].id \in Nat /\ 0 \in 0 .. Chapters
      BY <1>2, OfflineAssumption DEF Records, OfflineAssumption
    <3> QED BY <3>1 DEF Absent, Records
  <2>2. record' = [record EXCEPT ![b] = e]
    BY <1>1
  <2> HIDE DEF e
  <2> QED BY <1>2, <2>1, <2>2
<1>6. /\ epochs' \in Epochs /\ epochs'.request = epochs.request
      /\ \A c \in Books, p \in Owners : c # b =>
           epochs'.saved[c] = epochs.saved[c] /\ epochs'.owner[c][p] = epochs.owner[c][p]
  BY <1>1, <1>2 DEF Epochs
<1>7. /\ word' \in [Books -> [Owners -> Words]]
      /\ \A c \in Books, p \in Owners : Asked(c, p)' => Asked(c, p)
  BY <1>1, <1>2 DEF Words, Asked
<1>8. Ledger'
  <2>1. /\ cancel[k].pc # "free" /\ Turn(<<"cancel", k>>) /\ b = cancel[k].book
        /\ \A p \in Owners : ~Stands(b, p)
        /\ UNCHANGED <<identity, inv>> /\ Locked'
    BY <1>1, <1>3, <1>4
  <2>2. /\ record' \in [Books -> Records] /\ \A c \in Books \ {b} : record'[c] = record[c]
        /\ record[b].owners \ Owners \subseteq record'[b].owners
        /\ Void(b)' => record'[b].owners = {} /\ (Void(b) \/ Owners = Owners)
    <3>1. record[b].owners \subseteq Owners
      BY <1>2 DEF Records
    <3> QED BY <1>5, <3>1
  <2>3. /\ epochs' \in Epochs /\ epochs'.request = epochs.request
        /\ \A c \in Books, p \in Owners : c # b \/ p \notin Owners =>
             epochs'.saved[c] = epochs.saved[c] /\ epochs'.owner[c][p] = epochs.owner[c][p]
    BY <1>6
  <2>4. /\ cancel' \in [Cancels -> Cancellations] /\ \A j \in Cancels \ {k} : cancel'[j] = cancel[j]
        /\ cancel'[k].pc # "free" =>
             /\ cancel'[k].book = b /\ cancel'[k].owner = cancel[k].owner
             /\ cancel'[k].epoch = cancel[k].epoch /\ Owners = Owners
    BY <1>4
  <2>5. Takes(k, b, Owners)
    BY <1>7, <2>1, <2>2, <2>3, <2>4 DEF Takes
  <2> QED BY <2>5, OwnersGo
<1>9. Manned(sched, worker)'
  <2>1. sched.pending \in Seq(Books) /\ sched \in Schedules
    BY <1>2 DEF Manned, Schedules
  <2>2. sched' \in Schedules /\ sched'.active = sched.active
    BY <1>1, <2>1, UnqueuedTyped DEF Schedules
  <2> QED BY <1>1, <1>2, <2>2 DEF Manned
<1> QED BY <1>4, <1>8, <1>9 DEF OInv

-----------------------------------------------------------------------------
(* Workers. *)

Steady == UNCHANGED <<record, identity, inv, cancel, epochs, word>>

LEMMA CrewKeeps ==
  ASSUME OInv, Steady, Manned(sched, worker)', Orderly(chain, worker)',
         chain' = chain \/ \E op \in Ops : chain' = Append(chain, op)
  PROVE  OInv'
<1>1. Locked'
  BY LocksKept DEF OInv, Ledger, Orderly, Steady
<1>2. Ledger'
  BY <1>1, LedgerRests DEF OInv, Ledger, Types, Steady
<1> QED BY <1>2 DEF OInv

LEMMA FinishKeeps ==
  ASSUME OInv, NEW b \in Books, NEW again \in BOOLEAN, Finish(b, again), chain' = chain, Steady,
         worker[b].pc \notin Saving
  PROVE  OInv'
<1>1. Manned(sched, worker)' /\ Relieved({b})
  BY FinishMans DEF OInv
<1>2. StillSaves(worker, worker')
  BY <1>1, RelievedSaves DEF OInv
<1>3. Orderly(chain, worker)'
  BY <1>2, OrderlyKept DEF OInv
<1> QED BY <1>1, <1>3, CrewKeeps

LEMMA MovesOn ==
  ASSUME OInv, NEW b \in Books, worker[b].pc \notin Saving \union {"off"}, NEW v \in Workers,
         worker' = [worker EXCEPT ![b] = v], v.pc # "off", v.pc \in {"mark", "prepare"} => v.next < Chapters,
         sched' = sched, chain' = chain
  PROVE  Manned(sched, worker)' /\ Orderly(chain, worker)'
<1>1. Manned(sched, worker)' /\ worker'[b] = v /\ \A c \in Books \ {b} : worker'[c] = worker[c]
  BY GotoMans DEF OInv
<1>2. StillSaves(worker, worker')
  BY <1>1 DEF StillSaves
<1> QED BY <1>1, <1>2, OrderlyKept DEF OInv

LEMMA GoesToSave ==
  ASSUME OInv, NEW b \in Books, worker[b].pc \notin Saving \union {"off"}, NEW v \in Workers,
         worker' = [worker EXCEPT ![b] = v], v.pc \in Saving, v.pc = "mark" => v.next < Chapters,
         sched' = sched, Queue(<<"save", b>>), Steady
  PROVE  OInv'
<1>1. Manned(sched, worker)' /\ worker'[b] = v /\ \A c \in Books \ {b} : worker'[c] = worker[c]
  BY GotoMans DEF OInv, Saving
<1>2. StillSaves(worker, worker')
  BY <1>1 DEF StillSaves
<1>3. <<"save", b>> \in Ops
  BY DEF Ops
<1>4. Orderly(Append(chain, <<"save", b>>), worker')
  <2>1. \A c \in Books : <<"save", b>> = <<"save", c>> => worker[c].pc \notin Saving /\ worker'[c].pc \in Saving
    BY <1>1
  <2>2. Orderly(chain, worker)
    BY DEF OInv
  <2> HIDE DEF Saving
  <2> QED BY <1>2, <1>3, <2>1, <2>2, OrderlyAppend
<1> QED BY <1>1, <1>3, <1>4, CrewKeeps DEF Queue

LEMMA RunKeeps ==
  ASSUME OInv, NEW b \in Books, Run(b)
  PROVE  OInv'
<1>1. worker[b].pc = "load" /\ chain' = chain /\ Steady
  BY DEF Run, Steady
<1>2. CASE b \in stopped \/ record[b].state = "absent"
  BY <1>1, <1>2, FinishKeeps DEF Run, Saving
<1>3. CASE ~(b \in stopped \/ record[b].state = "absent")
  <2> DEFINE v == [pc |-> "chapter", id |-> record[b].id, identity |-> record[b].identity,
                   was |-> record[b].state = "ready", repair |-> FALSE,
                   next |-> IF record[b].state = "ready" THEN 0 ELSE record[b].next]
  <2>1. worker' = [worker EXCEPT ![b] = v] /\ sched' = sched
    BY <1>3 DEF Run
  <2>2. v \in Workers /\ v.pc = "chapter"
    <3>1. record[b].id \in Nat /\ record[b].identity \in Nat /\ record[b].next \in 0 .. Chapters
      BY DEF OInv, Ledger, Types, Records
    <3>2. 0 \in 0 .. Chapters
      BY OfflineAssumption DEF OfflineAssumption
    <3> QED BY <3>1, <3>2 DEF Workers
  <2> HIDE DEF v
  <2>3. Manned(sched, worker)' /\ Orderly(chain, worker)'
    BY <1>1, <2>1, <2>2, MovesOn DEF Saving
  <2> QED BY <1>1, <2>3, CrewKeeps
<1> QED BY <1>2, <1>3

(* The worker requests its own book, with a new identity. *)
LEMMA SelfRequestKeeps ==
  ASSUME OInv, NEW b \in Books, SelfRequest(b), worker[b].pc \notin Saving \union {"off"},
         UNCHANGED <<record, identity, cancel, chain, epochs, word, sched>>
  PROVE  OInv'
<1> DEFINE v == [worker[b] EXCEPT !.pc = "self"]
<1>1. worker' = [worker EXCEPT ![b] = v] /\ inv' = Invoke(b, b, Nobody)
  BY DEF SelfRequest, Goto
<1>2. v \in Workers /\ v.pc = "self"
  BY DEF OInv, Manned, Workers
<1> HIDE DEF v
<1>3. Manned(sched, worker)' /\ Orderly(chain, worker)'
  BY <1>1, <1>2, MovesOn
<1>4. Ledger'
  <2>1. b \in Slots /\ chain \in Seq(Ops) /\ word' \in [Books -> [Owners -> Words]]
    BY DEF Slots, OInv, Orderly, Ledger, Types
  <2>2. \A c \in Books, p \in Owners : Asked(c, p)' => Asked(c, p)
    BY DEF Asked
  <2> QED BY <1>1, <2>1, <2>2, InvokeKeeps DEF OInv
<1> QED BY <1>3, <1>4 DEF OInv

LEMMA ChapterKeeps ==
  ASSUME OInv, NEW b \in Books, Chapter(b)
  PROVE  OInv'
<1> DEFINE w == worker[b]
           c == w.next + 1
<1>1. w.pc = "chapter" /\ UNCHANGED <<record, identity, cancel, epochs, word>>
  BY DEF Chapter
<1>2. w \in Workers /\ w.next \in 0 .. Chapters /\ Chapters \in Nat
  BY OfflineAssumption DEF OInv, Manned, Workers, OfflineAssumption
<1>3. CASE Finish(b, FALSE) /\ UNCHANGED <<inv, chain>>
  BY <1>1, <1>3, FinishKeeps DEF Saving, Steady
<1>4. CASE SelfRequest(b) /\ UNCHANGED <<chain, sched, stopped, removed>>
  BY <1>1, <1>4, SelfRequestKeeps DEF Saving
<1>5. CASE /\ IF w.next = Chapters THEN Goto(b, "publish") /\ UNCHANGED chain
              ELSE IF c \in packed[b]
              THEN /\ worker' = [worker EXCEPT ![b].pc = "boundary", ![b].next = c]
                   /\ Queue(<<"save", b>>)
              ELSE /\ worker' = [worker EXCEPT ![b].pc = "mark", ![b].repair = TRUE]
                   /\ Queue(<<"save", b>>)
           /\ UNCHANGED <<inv, sched, stopped, removed>>
  <2>1. CASE w.next = Chapters
    <3> DEFINE v == [w EXCEPT !.pc = "publish"]
    <3>1. worker' = [worker EXCEPT ![b] = v] /\ chain' = chain
      BY <1>5, <2>1 DEF Goto
    <3>2. v \in Workers /\ v.pc = "publish"
      BY <1>2 DEF Workers
    <3> HIDE DEF v
    <3>3. Manned(sched, worker)' /\ Orderly(chain, worker)'
      BY <1>1, <1>5, <3>1, <3>2, MovesOn DEF Saving
    <3> QED BY <1>1, <1>5, <3>1, <3>3, CrewKeeps DEF Steady
  <2>2. CASE w.next # Chapters /\ c \in packed[b]
    <3> DEFINE v == [w EXCEPT !.pc = "boundary", !.next = c]
    <3>1. worker' = [worker EXCEPT ![b] = v] /\ Queue(<<"save", b>>)
      BY <1>5, <2>2
    <3>2. c \in 0 .. Chapters
      BY <1>2, <2>2
    <3>3. v \in Workers /\ v.pc = "boundary"
      BY <1>2, <3>2 DEF Workers
    <3> HIDE DEF v
    <3> QED BY <1>1, <1>5, <3>1, <3>3, GoesToSave DEF Saving, Steady
  <2>3. CASE w.next # Chapters /\ c \notin packed[b]
    <3> DEFINE v == [w EXCEPT !.pc = "mark", !.repair = TRUE]
    <3>1. worker' = [worker EXCEPT ![b] = v] /\ Queue(<<"save", b>>)
      BY <1>5, <2>3
    <3>2. v \in Workers /\ v.pc = "mark" /\ v.next < Chapters
      <4>1. v \in Workers /\ v.pc = "mark" /\ v.next = w.next
        BY <1>2 DEF Workers
      <4>2. w.next < Chapters
        BY <1>2, <2>3
      <4> QED BY <4>1, <4>2
    <3> HIDE DEF v
    <3> QED BY <1>1, <1>5, <3>1, <3>2, GoesToSave DEF Saving, Steady
  <2> QED BY <2>1, <2>2, <2>3
<1> QED BY <1>3, <1>4, <1>5 DEF Chapter

LEMMA ThrowsKeeps ==
  ASSUME OInv, NEW b \in Books, Throw(b), worker[b].pc \notin Saving \union {"off"}, Steady
  PROVE  OInv'
<1>1. /\ Manned(sched, worker)' /\ Orderly(chain, worker)'
      /\ chain' = chain \/ \E op \in Ops : chain' = Append(chain, op)
  BY ThrowKeeps DEF OInv
<1> QED BY <1>1, CrewKeeps

LEMMA PrepareKeeps ==
  ASSUME OInv, NEW b \in Books, Prepare(b)
  PROVE  OInv'
<1> DEFINE w == worker[b]
           c == w.next + 1
<1>1. w.pc = "prepare" /\ Steady
  BY DEF Prepare, Steady
<1>2. w \in Workers /\ w.next \in 0 .. Chapters /\ Chapters \in Nat /\ w.next < Chapters
  BY <1>1, OfflineAssumption DEF OInv, Manned, Workers, OfflineAssumption
<1>3. CASE /\ worker' = [worker EXCEPT ![b].pc = "boundary", ![b].next = c]
           /\ Queue(<<"save", b>>) /\ sched' = sched
  <2> DEFINE v == [w EXCEPT !.pc = "boundary", !.next = c]
  <2>1. worker' = [worker EXCEPT ![b] = v]
    BY <1>3
  <2>2. c \in 0 .. Chapters
    BY <1>2
  <2>3. v \in Workers /\ v.pc = "boundary"
    BY <1>2, <2>2 DEF Workers
  <2> HIDE DEF v
  <2> QED BY <1>1, <1>3, <2>1, <2>3, GoesToSave DEF Saving
<1>4. CASE Finish(b, FALSE) /\ UNCHANGED chain
  BY <1>1, <1>4, FinishKeeps DEF Saving
<1>5. CASE Throw(b)
  BY <1>1, <1>5, ThrowsKeeps DEF Saving
<1> QED BY <1>3, <1>4, <1>5 DEF Prepare

LEMMA PublishKeeps ==
  ASSUME OInv, NEW b \in Books, Publish(b)
  PROVE  OInv'
<1>1. worker[b].pc = "publish" /\ UNCHANGED <<record, identity, cancel, epochs, word>>
  BY DEF Publish
<1>2. CASE Finish(b, FALSE) /\ UNCHANGED <<inv, chain>>
  BY <1>1, <1>2, FinishKeeps DEF Saving, Steady
<1>3. CASE SelfRequest(b) /\ UNCHANGED <<chain, sched, stopped, removed>>
  BY <1>1, <1>3, SelfRequestKeeps DEF Saving
<1>4. CASE Save(b, "final") /\ UNCHANGED <<inv, sched, stopped, removed>>
  <2> DEFINE v == [worker[b] EXCEPT !.pc = "final"]
  <2>1. worker' = [worker EXCEPT ![b] = v] /\ Queue(<<"save", b>>)
    BY <1>4 DEF Save, Goto
  <2>2. v \in Workers /\ v.pc = "final"
    BY DEF OInv, Manned, Workers
  <2> HIDE DEF v
  <2> QED BY <1>1, <1>4, <2>1, <2>2, GoesToSave DEF Saving, Steady
<1> QED BY <1>2, <1>3, <1>4 DEF Publish

LEMMA SaveTurnLedger ==
  ASSUME OInv, NEW b \in Books, SaveTurn(b)
  PROVE  Ledger' /\ worker[b].pc \in Saving
<1>1. /\ Turn(<<"save", b>>) /\ UNCHANGED <<identity, inv, cancel, epochs, word>>
      /\ record' = IF ~Saves(b) THEN record
                   ELSE [record EXCEPT ![b].state = SavedState(worker[b]), ![b].next = worker[b].next]
  BY DEF SaveTurn
<1>2. worker[b].pc \in Saving
  <2>1. Orderly(chain, worker) /\ chain \in Seq(Ops)
    BY DEF OInv, Orderly
  <2>2. 1 \in DOMAIN chain /\ chain[1] = <<"save", b>>
    BY <1>1, <2>1 DEF Turn
  <2> QED BY <2>1, <2>2 DEF Orderly
<1>3. Locked'
  BY <1>1, LocksPassed DEF OInv, Ledger
<1>4. /\ record \in [Books -> Records] /\ epochs \in Epochs /\ cancel \in [Cancels -> Cancellations]
      /\ inv \in [Slots -> Invocations]
  BY DEF OInv, Ledger, Types
<1>5. /\ record' \in [Books -> Records]
      /\ \A c \in Books : record'[c].owners = record[c].owners /\ (Void(c)' => Void(c))
  <2>1. CASE ~Saves(b)
    BY <1>1, <1>4, <2>1 DEF Void
  <2>2. CASE Saves(b)
    <3> DEFINE e == [record[b] EXCEPT !.state = SavedState(worker[b]), !.next = worker[b].next]
    <3>1. record' = [record EXCEPT ![b] = e]
      BY <1>1, <1>4, <2>2
    <3>2. SavedState(worker[b]) \in {"preparing", "ready", "error"}
      BY <1>2 DEF SavedState, Saving
    <3>3. worker[b].next \in 0 .. Chapters
      BY DEF OInv, Manned, Workers
    <3>4. e \in Records /\ e.owners = record[b].owners /\ e.state \notin {"absent", "paused"}
      <4> DEFINE s == SavedState(worker[b])
                 n == worker[b].next
      <4>1. s \in {"preparing", "ready", "error"} /\ n \in 0 .. Chapters
        BY <3>2, <3>3
      <4>2. e = [record[b] EXCEPT !.state = s, !.next = n]
        OBVIOUS
      <4>3. record[b] \in Records
        BY <1>4
      <4> HIDE DEF s, n, e
      <4> QED BY <4>1, <4>2, <4>3 DEF Records
    <3> HIDE DEF e
    <3> QED BY <1>4, <3>1, <3>4 DEF Void
  <2> QED BY <2>1, <2>2
<1>6. Types' /\ Own'
  BY <1>1, <1>5 DEF OInv, Ledger, Types, Own
<1>7. \A r \in Slots : Carries(r)
  <2>1. \A r \in Slots : inv[r].epoch \in Nat
    BY <1>4 DEF Invocations
  <2> QED BY <1>1, <2>1 DEF Carries
<1>8. \A k \in Cancels : Ceases(k)
  BY <1>1 DEF Ceases
<1>9. \A c \in Books, p \in Owners : Asked(c, p)' => Stands(c, p)
  BY <1>1 DEF Asked, Stands
<1>10. Ledger'
  BY <1>1, <1>3, <1>5, <1>6, <1>7, <1>8, <1>9, Fewer DEF OInv
<1> QED BY <1>2, <1>10

LEMMA SaveTurnKeeps ==
  ASSUME OInv, NEW b \in Books, SaveTurn(b)
  PROVE  OInv'
<1>1. Ledger' /\ worker[b].pc \in Saving
  BY SaveTurnLedger
<1>2. Turn(<<"save", b>>) /\ chain' = Tail(chain)
  BY DEF SaveTurn, PassTurn
<1>3. Manned(sched, worker)' /\ \A c \in Books \ {b} : worker[c].pc \in Saving => worker'[c].pc \in Saving
  <2>1. CASE \E again \in BOOLEAN : Finish(b, again)
    <3>1. Manned(sched, worker)' /\ Relieved({b})
      BY <2>1, FinishMans DEF OInv
    <3> QED BY <3>1 DEF Relieved, Saving
  <2>2. CASE /\ worker[b].pc \in {"mark", "boundary"}
             /\ Goto(b, IF worker[b].pc = "mark" THEN "prepare" ELSE "chapter") /\ sched' = sched
    <3> DEFINE to == IF worker[b].pc = "mark" THEN "prepare" ELSE "chapter"
               v  == [worker[b] EXCEPT !.pc = to]
    <3>1. worker' = [worker EXCEPT ![b] = v]
      BY <2>2 DEF Goto
    <3>2. worker[b] \in Workers /\ (worker[b].pc = "mark" => worker[b].next < Chapters)
      BY DEF OInv, Manned
    <3>3. v \in Workers /\ v.pc = to /\ v.next = worker[b].next
      BY <3>2 DEF Workers
    <3>4. v.pc # "off" /\ (v.pc \in {"mark", "prepare"} => v.next < Chapters)
      BY <3>2, <3>3
    <3> HIDE DEF v
    <3>5. Manned(sched, worker)' /\ \A c \in Books \ {b} : worker'[c] = worker[c]
      BY <1>1, <2>2, <3>1, <3>3, <3>4, GotoMans DEF OInv, Saving
    <3> QED BY <3>5
  <2> QED BY <2>1, <2>2 DEF SaveTurn
<1>4. Orderly(chain, worker)'
  <2>1. Orderly(chain, worker) /\ chain # <<>> /\ Head(chain) = <<"save", b>>
    BY <1>2 DEF OInv, Turn
  <2> QED BY <1>2, <1>3, <2>1, OrderlyTail
<1> QED BY <1>1, <1>3, <1>4 DEF OInv

-----------------------------------------------------------------------------
(* The surroundings. *)

LEMMA ChangeKeeps ==
  ASSUME OInv, NEW b \in Books, Change(b)
  PROVE  OInv'
<1>1. /\ identity' = [identity EXCEPT ![b] = @ + 1]
      /\ UNCHANGED <<record, inv, cancel, chain, worker, sched, epochs, word>>
  BY DEF Change
<1>2. identity' \in [Books -> Nat]
  BY <1>1 DEF OInv, Ledger, Types
<1>3. Locked'
  BY <1>1 DEF OInv, Ledger, Locked, Turn
<1>4. Ledger'
  BY <1>1, <1>2, <1>3, LedgerRests DEF OInv
<1> QED BY <1>1, <1>4 DEF OInv, Manned, Orderly

LEMMA MoveKeeps ==
  ASSUME OInv, NEW b \in Books, Move(b)
  PROVE  OInv'
<1>1. sched' = [sched EXCEPT !.pending = <<b>> \o Unqueued(@, b)] /\ Steady /\ UNCHANGED <<chain, worker>>
  BY DEF Move, Steady
<1>2. sched.pending \in Seq(Books) /\ sched \in Schedules /\ Manned(sched, worker)
  BY DEF OInv, Manned, Schedules
<1>3. <<b>> \o Unqueued(sched.pending, b) \in Seq(Books)
  BY <1>2, UnqueuedTyped
<1>4. sched' \in Schedules /\ sched'.active = sched.active
  BY <1>1, <1>2, <1>3 DEF Schedules
<1>5. Manned(sched, worker)' /\ Orderly(chain, worker)'
  BY <1>1, <1>2, <1>4 DEF Manned, OInv, Orderly
<1> QED BY <1>1, <1>5, CrewKeeps

(* Nobody works, and nothing is under way but the requests of restore.     *)
Resting ==
  /\ chain = <<>> /\ sched = Idle /\ worker = [b \in Books |-> NoWorker]
  /\ epochs = NoEpochs /\ cancel = [k \in Cancels |-> NoCancel]
  /\ record \in [Books -> Records] /\ identity \in [Books -> Nat]
  /\ inv \in [Slots -> Invocations]
  /\ \A r \in Slots : inv[r].pc \in {"free", "load"} /\ (r \in Books /\ inv[r].pc # "free" => inv[r].book = r)
  /\ word \in [Books -> [Owners -> Words]]
  /\ \A b \in Books, o \in Owners : Asked(b, o) => o \in record[b].owners
  /\ \A b \in Books : Void(b) => record[b].owners = {}

LEMMA RestingHolds == Resting => OInv
<1> SUFFICES ASSUME Resting PROVE OInv
  OBVIOUS
<1>1. Manned(sched, worker)
  <2>1. NoWorker \in Workers /\ NoWorker.pc = "off"
    <3>1. 0 \in 0 .. Chapters
      BY OfflineAssumption DEF OfflineAssumption
    <3> QED BY <3>1 DEF NoWorker, Workers
  <2>2. sched \in Schedules /\ sched.active = {}
    BY DEF Resting, Idle, Schedules
  <2>3. IsFiniteSet(sched.active) /\ Cardinality(sched.active) <= Capacity
    BY <2>2, FS_EmptySet, OfflineAssumption DEF OfflineAssumption
  <2>4. worker \in [Books -> Workers] /\ \A b \in Books : worker[b].pc = "off"
    BY <2>1 DEF Resting
  <2> QED BY <2>2, <2>3, <2>4 DEF Manned
<1>2. Orderly(chain, worker)
  BY DEF Resting, Orderly
<1>3. \A k \in Cancels : cancel[k] \in Cancellations /\ cancel[k].pc = "free"
  BY NoCancelFits DEF Resting, NoCancelTyped
<1>4. Types
  <2>1. cancel \in [Cancels -> Cancellations]
    BY <1>3 DEF Resting
  <2>2. epochs \in Epochs
    BY DEF Resting, NoEpochs, Epochs
  <2> QED BY <2>1, <2>2 DEF Types, Resting
<1>5. Locked /\ Own
  BY <1>3, SlotsHaveBooks DEF Locked, Own, Resting
<1>6. Stamped
  <2>1. \A k \in Cancels : \A b, o : ~Meets(k, b, o)
    BY <1>3 DEF Meets
  <2> QED BY <1>3, <2>1 DEF Stamped, OutlivedBy
<1>7. Kept
  <2>1. \A b \in Books, o \in Owners : Stands(b, o) => Asked(b, o)
    BY DEF Stands, Alive, Resting
  <2> QED BY <1>3, <2>1 DEF Kept, Resting
<1> QED BY <1>1, <1>2, <1>4, <1>5, <1>6, <1>7 DEF OInv, Ledger

LEMMA RestartKeeps ==
  ASSUME OInv, Restart
  PROVE  OInv'
<1> DEFINE due == {b \in Books : record[b].state \in {"preparing", "error"}}
<1>1. /\ inv' = [r \in Slots |-> IF r \in due THEN [NoInv EXCEPT !.pc = "load", !.book = r] ELSE NoInv]
      /\ cancel' = [k \in Cancels |-> NoCancel] /\ chain' = <<>>
      /\ worker' = [b \in Books |-> NoWorker] /\ sched' = Idle /\ epochs' = NoEpochs
      /\ word' = [b \in Books |-> [o \in Owners |-> IF o \in record[b].owners THEN "accepted" ELSE "none"]]
      /\ UNCHANGED <<record, identity>>
  BY DEF Restart
<1>2. ASSUME NEW b \in Books
      PROVE  /\ [NoInv EXCEPT !.pc = "load", !.book = b] \in Invocations
             /\ [NoInv EXCEPT !.pc = "load", !.book = b].pc = "load"
             /\ [NoInv EXCEPT !.pc = "load", !.book = b].book = b
  BY NoInvTyped DEF Invocations
<1>3. inv' \in [Slots -> Invocations]
  BY <1>1, <1>2, NoInvTyped
<1>4. \A r \in Slots : inv'[r].pc \in {"free", "load"} /\ (r \in Books /\ inv'[r].pc # "free" => inv'[r].book = r)
  BY <1>1, <1>2, NoInvTyped
<1>5. word' \in [Books -> [Owners -> Words]] /\ \A b \in Books, o \in Owners : Asked(b, o)' => o \in record'[b].owners
  BY <1>1 DEF Words, Asked
<1>6. record' \in [Books -> Records] /\ identity' \in [Books -> Nat]
  BY <1>1 DEF OInv, Ledger, Types
<1>7. \A b \in Books : Void(b)' => record'[b].owners = {}
  BY <1>1 DEF OInv, Ledger, Kept, Void
<1>8. Resting'
  BY <1>1, <1>3, <1>4, <1>5, <1>6, <1>7 DEF Resting
<1> QED BY <1>8, RestingHolds, PTL

LEMMA OfflineInit == Init => OInv
<1> SUFFICES ASSUME Init PROVE Resting
  BY RestingHolds
<1>1. Absent \in Records /\ Paused \in Records /\ Absent.owners = {} /\ Paused.owners = {}
  <2>1. 0 \in 0 .. Chapters
    BY OfflineAssumption DEF OfflineAssumption
  <2> QED BY <2>1 DEF Absent, Paused, Records
<1>2. \A b \in Books : record[b] \in {Absent, Paused}
  BY DEF Init
<1>3. record \in [Books -> Records] /\ \A b \in Books : record[b].owners = {}
  BY <1>1, <1>2 DEF Init
<1>4. inv \in [Slots -> Invocations] /\ \A r \in Slots : inv[r].pc = "free"
  BY NoInvTyped DEF Init
<1>5. word \in [Books -> [Owners -> Words]] /\ \A b \in Books, o \in Owners : ~Asked(b, o)
  BY DEF Init, Words, Asked
<1> QED BY <1>3, <1>4, <1>5 DEF Resting, Init

LEMMA OfflineRests ==
  ASSUME OInv, UNCHANGED vars
  PROVE  OInv'
<1>1. Steady /\ UNCHANGED <<chain, worker, sched>>
  BY DEF vars, Steady
<1>2. Manned(sched, worker)' /\ Orderly(chain, worker)'
  BY <1>1 DEF OInv, Manned, Orderly
<1> QED BY <1>1, <1>2, CrewKeeps

LEMMA OfflineStep ==
  ASSUME OInv, [Next]_vars
  PROVE  OInv'
<1>1. CASE Requests
  BY <1>1, IdentifyKeeps, AdmitKeeps, StoredKeeps, ReplacedKeeps DEF Requests
<1>2. CASE Cancelling
  <2>1. PICK k \in Cancels : CancelTurn(k) \/ CancelBody(k) \/ CancelEnd(k)
    BY <1>2 DEF Cancelling
  <2>2. cancel[k].book \in Books
    BY DEF OInv, Ledger, Types, Cancellations
  <2> QED BY <2>1, <2>2, CancelTurnKeeps, CancelBodyKeeps, CancelEndKeeps
<1>3. CASE Working
  BY <1>3, RunKeeps, ChapterKeeps, PrepareKeeps, PublishKeeps, SaveTurnKeeps DEF Working
<1>4. CASE Outside
  <2>1. Main \in Books /\ (CHOOSE r \in Callers : TRUE) \in Callers /\ (CHOOSE o \in Owners : TRUE) \in Owners
    BY OfflineAssumption DEF OfflineAssumption
  <2>2. CASE \E r \in Callers, o \in Owners : Request(r, Main, o)
    BY <2>1, <2>2, RequestKeeps
  <2>3. CASE \E b \in Books \ {Main} : Request(CHOOSE r \in Callers : TRUE, b, CHOOSE o \in Owners : TRUE)
    BY <2>1, <2>3, RequestKeeps
  <2>4. CASE \E k \in Cancels : (\E o \in Owners : Cancel(k, Main, o)) \/ Cancel(k, Main, Nobody)
    BY <2>1, <2>4, CancelKeeps
  <2>5. CASE Change(Main)
    BY <2>1, <2>5, ChangeKeeps
  <2>6. CASE \E b \in Books : Move(b)
    BY <2>6, MoveKeeps
  <2>7. CASE Restart
    BY <2>7, RestartKeeps
  <2> QED BY <1>4, <2>2, <2>3, <2>4, <2>5, <2>6, <2>7 DEF Outside
<1>5. CASE UNCHANGED vars
  BY <1>5, OfflineRests
<1> QED BY <1>1, <1>2, <1>3, <1>4, <1>5 DEF Next

LEMMA OfflineInvariant == Spec => []OInv
<1>1. OInv /\ [Next]_vars => OInv'
  BY OfflineStep
<1> QED BY <1>1, OfflineInit, PTL DEF Spec

(* A device whose request was accepted, and not cancelled since, is an     *)
(* owner of a record that is not paused, whatever other devices request    *)
(* and cancel meanwhile (requestInvocation, cancelAfterInvocations).       *)
THEOREM AcceptedStayOwners == Spec => []AcceptedOwns
<1>1. OInv => AcceptedOwns
  <2> SUFFICES ASSUME OInv PROVE AcceptedOwns
    OBVIOUS
  <2>1. TypeOK
    BY DEF OInv, Manned, Ledger, Types, TypeOK, Records, Invocations, Cancellations, Workers
  <2>2. \A b \in Books, o \in Owners :
          Asked(b, o) => o \in record[b].owners /\ record[b].state \notin {"absent", "paused"}
    BY DEF OInv, Ledger, Kept, Stands, Void
  <2> QED BY <2>1, <2>2 DEF AcceptedOwns
<1> QED BY <1>1, OfflineInvariant, PTL

-----------------------------------------------------------------------------
(* Devices that left. *)

(* Who left asks for nothing but what is retired.                          *)
Left(b, o) == word[b][o] = "left"
Silent ==
  \A b \in Books, o \in Owners, r \in Slots :
    Left(b, o) /\ inv[r].pc # "free" /\ inv[r].book = b /\ inv[r].owner = o => inv[r].aborted

(* A cancellation of its own waits for it and is newer than it, unless     *)
(* another device's has renewed it.                                        *)
Parted(b, o) == Left(b, o) /\ <<b, o>> \notin renewed
AwaitedBy(k, r) ==
  /\ cancel[k].pc = "wait" /\ cancel[k].book = inv[r].book /\ cancel[k].owner = inv[r].owner
  /\ r \in cancel[k].waits /\ inv[r].epoch < cancel[k].epoch
Awaited ==
  \A b \in Books, o \in Owners, r \in Slots :
    Parted(b, o) /\ inv[r].pc # "free" /\ inv[r].book = b /\ inv[r].owner = o
    => \E k \in Cancels : AwaitedBy(k, r)

(* What it owns a cancellation of its own will take.                       *)
TakenBy(k, b, o) ==
  /\ cancel[k].pc # "free" /\ cancel[k].book = b /\ cancel[k].owner = o
  /\ epochs.owner[b][o] < cancel[k].epoch
Leaving ==
  \A b \in Books, o \in Owners :
    Parted(b, o) /\ o \in record[b].owners => \E k \in Cancels : TakenBy(k, b, o)

(* No request is newer than its book's epoch. *)
Dated ==
  /\ \A b \in Books, o \in Owners : epochs.owner[b][o] <= epochs.request[b]
  /\ \A r \in Slots : inv[r].pc # "free" => inv[r].epoch <= epochs.request[inv[r].book]

Farewell == Awaited /\ Silent /\ Leaving /\ Dated

(* A step that leaves requests and owners alone, and cancellations but for a turn. *)
LEMMA FarewellRests ==
  ASSUME Farewell, UNCHANGED <<inv, epochs, word, renewed>>,
         \A b \in Books : record'[b].owners = record[b].owners,
         \A k \in Cancels : \/ cancel'[k] = cancel[k]
                            \/ /\ cancel[k].waits = {} /\ cancel'[k].pc # "free"
                               /\ cancel[k].pc # "free"
                               /\ cancel'[k].book = cancel[k].book
                               /\ cancel'[k].owner = cancel[k].owner
                               /\ cancel'[k].epoch = cancel[k].epoch
  PROVE  Farewell'
<1>1. Dated' /\ Silent'
  BY DEF Farewell, Dated, Silent, Left
<1>2. Awaited'
  <2> SUFFICES ASSUME NEW b \in Books, NEW o \in Owners, NEW r \in Slots, Parted(b, o),
                      inv[r].pc # "free", inv[r].book = b, inv[r].owner = o
               PROVE  \E k \in Cancels : AwaitedBy(k, r)'
    BY DEF Awaited, Parted, Left
  <2>1. PICK k \in Cancels : AwaitedBy(k, r)
    BY DEF Farewell, Awaited
  <2>2. cancel'[k] = cancel[k]
    BY <2>1 DEF AwaitedBy
  <2> QED BY <2>1, <2>2 DEF AwaitedBy
<1>3. Leaving'
  <2> SUFFICES ASSUME NEW b \in Books, NEW o \in Owners, Parted(b, o), o \in record[b].owners
               PROVE  \E k \in Cancels : TakenBy(k, b, o)'
    BY DEF Leaving, Parted, Left
  <2>1. PICK k \in Cancels : TakenBy(k, b, o)
    BY DEF Farewell, Leaving
  <2>2. TakenBy(k, b, o)'
    BY <2>1 DEF TakenBy
  <2> QED BY <2>2
<1> QED BY <1>1, <1>2, <1>3 DEF Farewell

(* A request begins in a free slot. *)
LEMMA FarewellInvokes ==
  ASSUME Ledger, Farewell, NEW r \in Slots, NEW b \in Books, NEW o \in Owners \union {Nobody},
         inv[r].pc = "free", inv' = Invoke(r, b, o), UNCHANGED <<record, cancel, epochs, renewed>>,
         \A c \in Books, p \in Owners : Left(c, p)' => Left(c, p) /\ ~(c = b /\ p = o)
  PROVE  Farewell'
<1>1. inv \in [Slots -> Invocations] /\ epochs.request[b] \in Nat
  BY DEF Ledger, Types, Epochs
<1>2. /\ inv'[r].book = b /\ inv'[r].owner = o /\ ~inv'[r].aborted
      /\ inv'[r].epoch = epochs.request[b]
      /\ \A q \in Slots \ {r} : inv'[q] = inv[q]
  BY <1>1 DEF Invoke, NoInv
<1>3. Dated'
  BY <1>1, <1>2 DEF Farewell, Dated
<1>4. Silent'
  BY <1>2 DEF Farewell, Silent, Left
<1>5. Awaited'
  <2> SUFFICES ASSUME NEW c \in Books, NEW p \in Owners, NEW q \in Slots, Parted(c, p)',
                      inv'[q].pc # "free", inv'[q].book = c, inv'[q].owner = p
               PROVE  \E k \in Cancels : AwaitedBy(k, q)'
    BY DEF Awaited
  <2>1. q # r /\ Parted(c, p)
    BY <1>2 DEF Parted
  <2>2. PICK k \in Cancels : AwaitedBy(k, q)
    BY <1>2, <2>1 DEF Farewell, Awaited
  <2> QED BY <1>2, <2>1, <2>2 DEF AwaitedBy
<1>6. Leaving'
  BY DEF Farewell, Leaving, TakenBy, Parted
<1> QED BY <1>3, <1>4, <1>5, <1>6 DEF Farewell

(* An invocation goes on, or ends: what it has not heard of stays so.      *)
Proceeds(r) ==
  /\ \A q \in Slots \ {r} : inv'[q] = inv[q]
  /\ inv'[r].pc = "free"
     \/ /\ inv[r].pc # "free" /\ inv'[r].book = inv[r].book /\ inv'[r].owner = inv[r].owner
        /\ inv'[r].epoch = inv[r].epoch /\ inv'[r].aborted = inv[r].aborted
  /\ \A k \in Cancels :
       /\ cancel'[k].pc = cancel[k].pc /\ cancel'[k].book = cancel[k].book
       /\ cancel'[k].owner = cancel[k].owner /\ cancel'[k].epoch = cancel[k].epoch
       /\ cancel[k].waits \ {r} \subseteq cancel'[k].waits
       /\ inv'[r].pc # "free" => cancel'[k].waits = cancel[k].waits

LEMMA FarewellProceeds ==
  ASSUME Farewell, NEW r \in Slots, Proceeds(r), UNCHANGED <<epochs, renewed>>,
         \A b \in Books, o \in Owners :
           Left(b, o)' => Left(b, o) /\ (o \in record'[b].owners => o \in record[b].owners)
  PROVE  Farewell'
<1>1. \A q \in Slots : inv'[q].pc # "free" =>
        /\ inv[q].pc # "free" /\ inv'[q].book = inv[q].book /\ inv'[q].owner = inv[q].owner
        /\ inv'[q].epoch = inv[q].epoch /\ inv'[q].aborted = inv[q].aborted
  BY DEF Proceeds
<1>2. Dated'
  BY <1>1 DEF Farewell, Dated
<1>3. Silent'
  BY <1>1 DEF Farewell, Silent
<1>4. Awaited'
  <2> SUFFICES ASSUME NEW c \in Books, NEW p \in Owners, NEW q \in Slots, Parted(c, p)',
                      inv'[q].pc # "free", inv'[q].book = c, inv'[q].owner = p
               PROVE  \E k \in Cancels : AwaitedBy(k, q)'
    BY DEF Awaited
  <2>1. PICK k \in Cancels : AwaitedBy(k, q)
    BY <1>1 DEF Farewell, Awaited, Parted
  <2>2. q \in cancel'[k].waits
    BY <2>1 DEF AwaitedBy, Proceeds
  <2>3. AwaitedBy(k, q)'
    BY <1>1, <2>1, <2>2 DEF AwaitedBy, Proceeds
  <2> QED BY <2>3
<1>5. Leaving'
  BY DEF Farewell, Leaving, TakenBy, Proceeds, Parted
<1> QED BY <1>2, <1>3, <1>4, <1>5 DEF Farewell

LEMMA EndsProceeds ==
  ASSUME Types, NEW r \in Slots, Ends(r)
  PROVE  Proceeds(r)
<1>1. cancel \in [Cancels -> Cancellations]
      /\ cancel' = [k \in Cancels |-> [cancel[k] EXCEPT !.waits = @ \ {r}]]
  BY DEF Types, Ends, Settled
<1>2. \A k \in Cancels : cancel'[k].waits = cancel[k].waits \ {r}
  BY <1>1 DEF Cancellations
<1> QED BY <1>2, EndsTyped DEF Proceeds

LEMMA IdentifyParts ==
  ASSUME OInv, Farewell, NEW r \in Slots, Identify(r)
  PROVE  Farewell'
<1>1. inv[r].pc = "load" /\ UNCHANGED <<record, epochs, word, renewed>>
  BY DEF Identify
<1>2. inv \in [Slots -> Invocations] /\ Types
  BY DEF OInv, Ledger, Types
<1>3. Proceeds(r)
  <2>1. CASE IsCurrent(r)
    <3>1. /\ inv' = [inv EXCEPT ![r].pc = "admit", ![r].identity = identity[inv[r].book]]
          /\ cancel' = cancel
      BY <2>1 DEF Identify
    <3> QED BY <1>1, <1>2, <3>1 DEF Proceeds, Invocations
  <2>2. CASE ~IsCurrent(r)
    BY <1>2, <2>2, EndsProceeds DEF Identify
  <2> QED BY <2>1, <2>2
<1> QED BY <1>1, <1>3, FarewellProceeds DEF Left

LEMMA AdmitParts ==
  ASSUME OInv, Farewell, NEW r \in Slots, Admit(r)
  PROVE  Farewell'
<1> DEFINE b == inv[r].book
           new == Changed(b, inv[r].identity)
           fresh == record[b].state \in {"absent", "paused", "error"} \/ new
<1>1. inv[r].pc = "admit" /\ UNCHANGED <<epochs, word, renewed>>
  BY DEF Admit
<1>2. inv \in [Slots -> Invocations] /\ record \in [Books -> Records] /\ Types /\ inv[r].book \in Books
  BY DEF OInv, Ledger, Types, Invocations
<1>3. CASE Ends(r) /\ UNCHANGED record
  BY <1>1, <1>2, <1>3, EndsProceeds, FarewellProceeds DEF Left
<1>4. CASE ~(Ends(r) /\ UNCHANGED record)
  <2>1. IsCurrent(r) /\ UNCHANGED cancel
    BY <1>4 DEF Admit
  <2> DEFINE e == [id |-> IF fresh THEN record[b].id + 1 ELSE record[b].id,
                   state |-> IF fresh THEN "preparing" ELSE record[b].state,
                   owners |-> record[b].owners \union ({inv[r].owner} \ {Nobody}),
                   next |-> IF new THEN 0 ELSE record[b].next,
                   identity |-> inv[r].identity]
  <2>2. /\ inv' = [inv EXCEPT ![r].pc = "stored", ![r].fresh = fresh, ![r].replaces = new]
        /\ record' = [record EXCEPT ![b] = e]
    BY <1>2, <1>4 DEF Admit
  <2>3. Proceeds(r)
    BY <1>1, <1>2, <2>1, <2>2 DEF Proceeds, Invocations
  <2>4. e.owners = record[b].owners \union ({inv[r].owner} \ {Nobody})
    OBVIOUS
  <2> HIDE DEF e
  <2>5. \A c \in Books : record'[c].owners =
          IF c = b THEN record[b].owners \union ({inv[r].owner} \ {Nobody}) ELSE record[c].owners
    BY <1>2, <2>2, <2>4
  <2>6. \A c \in Books, o \in Owners :
          Left(c, o)' => Left(c, o) /\ (o \in record'[c].owners => o \in record[c].owners)
    BY <1>1, <2>1, <2>5 DEF Farewell, Silent, Left, IsCurrent
  <2> QED BY <1>1, <2>3, <2>6, FarewellProceeds
<1> QED BY <1>3, <1>4

(* The last request of an owner is written down: nobody's who left, or one *)
(* that its own cancellation waits for.                                    *)
LEMMA StoredParts ==
  ASSUME OInv, Farewell, NEW r \in Slots, Stored(r)
  PROVE  Farewell'
<1> DEFINE b == inv[r].book
           o == inv[r].owner
<1>1. /\ inv[r].pc = "stored" /\ UNCHANGED <<record, renewed>>
      /\ epochs' = [epochs EXCEPT !.saved[b] = inv[r].epoch, !.owner = SavedEpochs(r)]
  BY DEF Stored
<1>2. /\ inv \in [Slots -> Invocations] /\ Types /\ epochs \in Epochs
      /\ b \in Books /\ o \in Owners \union {Nobody} /\ inv[r].epoch \in Nat
  BY DEF OInv, Ledger, Types, Invocations
<1>3. /\ epochs'.request = epochs.request
      /\ \A c \in Books, p \in Owners :
           epochs'.owner[c][p] = IF c = b /\ p = o THEN inv[r].epoch ELSE epochs.owner[c][p]
  <2>1. epochs'.request = epochs.request /\ epochs'.owner = SavedEpochs(r)
    BY <1>1, <1>2 DEF Epochs
  <2>2. \A c \in Books : epochs.owner[c] \in [Owners -> Nat]
    BY <1>2 DEF Epochs
  <2>3. epochs.owner \in [Books -> [Owners -> Nat]]
    BY <1>2 DEF Epochs
  <2>4. CASE o = Nobody
    BY <2>1, <2>4, OfflineAssumption DEF SavedEpochs, OfflineAssumption
  <2>5. CASE o # Nobody
    <3>1. epochs'.owner = [epochs.owner EXCEPT ![b][o] = inv[r].epoch]
      BY <2>1, <2>5 DEF SavedEpochs
    <3> QED BY <1>2, <2>1, <2>2, <2>3, <2>5, <3>1
  <2> QED BY <2>4, <2>5
<1>4. Proceeds(r)
  <2>1. CASE Ends(r)
    BY <1>2, <2>1, EndsProceeds
  <2>2. CASE inv' = [inv EXCEPT ![r].pc = "discard"] /\ UNCHANGED cancel
    BY <1>1, <1>2, <2>2 DEF Proceeds, Invocations
  <2> QED BY <2>1, <2>2 DEF Stored
<1>5. \A c \in Books, p \in Owners : Left(c, p)' => Left(c, p)
  <2>1. word' = word \/ Accepted(r)
    BY DEF Stored
  <2>2. CASE Accepted(r)
    <3>1. word \in [Books -> [Owners -> Words]]
      BY DEF OInv, Ledger, Types
    <3> QED BY <1>2, <2>2, <3>1 DEF Accepted, Left
  <2> QED BY <2>1, <2>2 DEF Left
<1>6. \A q \in Slots : inv'[q].pc # "free" =>
        /\ inv[q].pc # "free" /\ inv'[q].book = inv[q].book /\ inv'[q].owner = inv[q].owner
        /\ inv'[q].epoch = inv[q].epoch /\ inv'[q].aborted = inv[q].aborted
  BY <1>4 DEF Proceeds
<1>7. Dated'
  BY <1>1, <1>2, <1>3, <1>6 DEF Farewell, Dated
<1>8. Silent'
  BY <1>5, <1>6 DEF Farewell, Silent
<1>9. Awaited'
  <2> SUFFICES ASSUME NEW c \in Books, NEW p \in Owners, NEW q \in Slots, Parted(c, p)',
                      inv'[q].pc # "free", inv'[q].book = c, inv'[q].owner = p
               PROVE  \E k \in Cancels : AwaitedBy(k, q)'
    BY DEF Awaited
  <2>1. PICK k \in Cancels : AwaitedBy(k, q)
    BY <1>1, <1>5, <1>6 DEF Farewell, Awaited, Parted
  <2>2. q \in cancel'[k].waits
    BY <1>4, <2>1 DEF AwaitedBy, Proceeds
  <2>3. AwaitedBy(k, q)'
    BY <1>4, <1>6, <2>1, <2>2 DEF AwaitedBy, Proceeds
  <2> QED BY <2>3
<1>10. Leaving'
  <2> SUFFICES ASSUME NEW c \in Books, NEW p \in Owners, Parted(c, p), p \in record[c].owners
               PROVE  \E k \in Cancels : TakenBy(k, c, p)'
    BY <1>1, <1>5 DEF Leaving, Parted
  <2>1. CASE c = b /\ p = o
    <3>1. PICK k \in Cancels : AwaitedBy(k, r)
      BY <1>1, <2>1 DEF Farewell, Awaited
    <3>2. epochs'.owner[c][p] = inv[r].epoch
      BY <1>3, <2>1
    <3> QED BY <1>4, <2>1, <3>1, <3>2 DEF AwaitedBy, TakenBy, Proceeds
  <2>2. CASE ~(c = b /\ p = o)
    <3>1. PICK k \in Cancels : TakenBy(k, c, p)
      BY DEF Farewell, Leaving
    <3> QED BY <1>3, <1>4, <2>2, <3>1 DEF TakenBy, Proceeds
  <2> QED BY <2>1, <2>2
<1> QED BY <1>7, <1>8, <1>9, <1>10 DEF Farewell

LEMMA ReplacedParts ==
  ASSUME OInv, Farewell, NEW r \in Slots, Replaced(r)
  PROVE  Farewell'
<1>1. Ends(r) /\ UNCHANGED <<record, epochs, renewed>> /\ (word' = word \/ Accepted(r))
  BY DEF Replaced
<1>2. /\ Types /\ inv[r].book \in Books /\ inv[r].owner \in Owners \union {Nobody}
      /\ word \in [Books -> [Owners -> Words]]
  BY DEF OInv, Ledger, Types, Invocations
<1>3. \A c \in Books, p \in Owners : Left(c, p)' => Left(c, p)
  BY <1>1, <1>2 DEF Accepted, Left
<1> QED BY <1>1, <1>2, <1>3, EndsProceeds, FarewellProceeds

(* A device leaves: what it asked for is retired, what it owns is taken.   *)
LEMMA CancelParts ==
  ASSUME OInv, Farewell, NEW k \in Cancels, NEW b \in Books,
         NEW o \in Owners \union {Nobody}, Cancel(k, b, o)
  PROVE  Farewell'
<1> DEFINE e == epochs.request[b] + 1
           live == {r \in Slots : inv[r].pc # "free" /\ inv[r].book = b}
           mine == {r \in live : o = Nobody \/ inv[r].owner = o}
<1>1. /\ inv \in [Slots -> Invocations] /\ cancel \in [Cancels -> Cancellations]
      /\ epochs \in Epochs /\ epochs.request \in [Books -> Nat] /\ e \in Nat
      /\ word \in [Books -> [Owners -> Words]]
      /\ epochs.owner \in [Books -> [Owners -> Nat]]
  BY DEF OInv, Ledger, Types, Epochs
<1>2. /\ cancel[k].pc = "free" /\ UNCHANGED record
      /\ epochs' = [epochs EXCEPT !.request[b] = e]
      /\ inv' = [r \in Slots |-> IF r \in mine THEN [inv[r] EXCEPT !.aborted = TRUE]
                                 ELSE IF r \in live THEN [inv[r] EXCEPT !.epoch = e] ELSE inv[r]]
      /\ cancel' = [cancel EXCEPT ![k] = [pc |-> "wait", book |-> b, owner |-> o,
                                     epoch |-> e, waits |-> mine]]
      /\ word' = [word EXCEPT ![b] = [p \in Owners |->
             IF p = o THEN "left" ELSE IF o = Nobody /\ @[p] = "accepted" THEN "cancelled" ELSE @[p]]]
      /\ renewed' = (renewed \ {<<b, o>>})
                    \union {<<b, inv[r].owner>> : r \in {r \in live \ mine : inv[r].aborted}}
  BY DEF Cancel
<1>3. /\ cancel'[k].pc = "wait" /\ cancel'[k].book = b /\ cancel'[k].owner = o
      /\ cancel'[k].epoch = e /\ cancel'[k].waits = mine
      /\ \A j \in Cancels \ {k} : cancel'[j] = cancel[j]
  BY <1>1, <1>2
<1>4. \A c \in Books, p \in Owners :
        ~(c = b /\ p = o) => /\ Parted(c, p)' => Parted(c, p)
                            /\ \A r \in live \ mine : inv[r].aborted /\ inv[r].owner = p /\ c = b
                                                      => ~Parted(c, p)'
  <2> SUFFICES ASSUME NEW c \in Books, NEW p \in Owners, ~(c = b /\ p = o)
               PROVE  /\ Parted(c, p)' => Parted(c, p)
                      /\ \A r \in live \ mine : inv[r].aborted /\ inv[r].owner = p /\ c = b
                                                => ~Parted(c, p)'
    OBVIOUS
  <2>1. Left(c, p)' => Left(c, p)
    BY <1>1, <1>2 DEF Left
  <2>2. <<c, p>> \in renewed => <<c, p>> \in renewed'
    BY <1>2
  <2>3. \A r \in live \ mine : inv[r].aborted => <<b, inv[r].owner>> \in renewed'
    BY <1>2
  <2> QED BY <2>1, <2>2, <2>3 DEF Parted
<1>5. /\ epochs'.request[b] = e /\ \A c \in Books \ {b} : epochs'.request[c] = epochs.request[c]
      /\ epochs'.owner = epochs.owner
  BY <1>1, <1>2 DEF Epochs
<1>6. \A r \in Slots :
        /\ inv'[r].pc = inv[r].pc /\ inv'[r].book = inv[r].book /\ inv'[r].owner = inv[r].owner
        /\ r \in mine => inv'[r].aborted /\ inv'[r].epoch = inv[r].epoch
        /\ r \in live \ mine => inv'[r].aborted = inv[r].aborted /\ inv'[r].epoch = e
        /\ r \notin live => inv'[r] = inv[r]
  BY <1>1, <1>2 DEF Invocations
<1>7. \A c \in Books, p \in Owners :
        /\ Left(c, p)' => Left(c, p) \/ (c = b /\ p = o)
  BY <1>1, <1>2 DEF Left
<1>8. \A r \in Slots : inv[r].epoch \in Nat /\ (inv[r].pc # "free" => inv[r].epoch <= epochs.request[inv[r].book])
  BY <1>1 DEF Farewell, Dated, Invocations
<1>9. \A c \in Books : epochs.request[c] \in Nat /\ \A p \in Owners : /\ epochs.owner[c][p] \in Nat
        /\ epochs.owner[c][p] <= epochs.request[c]
  BY <1>1 DEF Farewell, Dated
<1> HIDE DEF e, live, mine
<1>10. epochs.request[b] < e
  BY <1>1 DEF e
<1>11. Dated'
  <2>1. \A c \in Books, p \in Owners : epochs'.owner[c][p] <= epochs'.request[c]
    BY <1>1, <1>5, <1>9, <1>10
  <2>2. ASSUME NEW r \in Slots, inv'[r].pc # "free"
        PROVE  inv'[r].epoch <= epochs'.request[inv'[r].book]
    <3>1. inv[r].book \in Books /\ inv[r].pc # "free"
      BY <1>1, <1>6, <2>2 DEF Invocations
    <3>2. CASE r \in mine
      <4>1. inv[r].book = b
        BY <3>2 DEF mine, live
      <4> QED BY <1>1, <1>5, <1>6, <1>8, <1>9, <1>10, <3>1, <3>2, <4>1
    <3>3. CASE r \in live \ mine
      <4>1. inv[r].book = b
        BY <3>3 DEF live
      <4> QED BY <1>1, <1>5, <1>6, <3>3, <4>1
    <3>4. CASE r \notin live
      <4>1. inv[r].book # b
        BY <3>1, <3>4 DEF live
      <4> QED BY <1>5, <1>6, <1>8, <3>1, <3>4, <4>1
    <3> QED BY <3>2, <3>3, <3>4
  <2> QED BY <2>1, <2>2 DEF Dated
<1>12. Silent'
  <2> SUFFICES ASSUME NEW c \in Books, NEW p \in Owners, NEW r \in Slots, Left(c, p)',
                      inv[r].pc # "free", inv[r].book = c, inv[r].owner = p
               PROVE  inv'[r].aborted
    BY <1>6 DEF Silent
  <2>1. CASE c = b /\ p = o
    BY <1>6, <2>1 DEF mine, live
  <2>2. CASE ~(c = b /\ p = o)
    <3>1. inv[r].aborted
      BY <1>7, <2>2 DEF Farewell, Silent
    <3> QED BY <1>6, <3>1 DEF mine, live
  <2> QED BY <2>1, <2>2
<1>13. Awaited'
  <2> SUFFICES ASSUME NEW c \in Books, NEW p \in Owners, NEW r \in Slots, Parted(c, p)',
                      inv[r].pc # "free", inv[r].book = c, inv[r].owner = p
               PROVE  \E j \in Cancels : AwaitedBy(j, r)'
    BY <1>6 DEF Awaited
  <2>1. CASE c = b /\ p = o
    <3>1. r \in mine
      BY <2>1 DEF mine, live
    <3>2. inv[r].epoch <= epochs.request[b] /\ inv[r].epoch \in Nat
      BY <1>8, <2>1
    <3>3. AwaitedBy(k, r)'
      BY <1>1, <1>3, <1>6, <1>9, <1>10, <2>1, <3>1, <3>2 DEF AwaitedBy
    <3> QED BY <3>3
  <2>2. CASE ~(c = b /\ p = o)
    <3>1. Parted(c, p) /\ inv[r].aborted
      BY <1>4, <2>2 DEF Farewell, Silent, Parted
    <3>2. PICK j \in Cancels : AwaitedBy(j, r)
      BY <3>1 DEF Farewell, Awaited
    <3>3. j # k
      BY <1>2, <3>2 DEF AwaitedBy
    <3>4. r \notin live \ mine
      BY <1>4, <2>2, <3>1 DEF live
    <3>5. inv'[r].epoch = inv[r].epoch
      BY <1>6, <3>4
    <3>6. AwaitedBy(j, r)'
      BY <1>3, <1>6, <3>2, <3>3, <3>5 DEF AwaitedBy
    <3> QED BY <3>6
  <2> QED BY <2>1, <2>2
<1>14. Leaving'
  <2> SUFFICES ASSUME NEW c \in Books, NEW p \in Owners, Parted(c, p)', p \in record[c].owners
               PROVE  \E j \in Cancels : TakenBy(j, c, p)'
    BY <1>2 DEF Leaving
  <2>1. CASE c = b /\ p = o
    <3>1. TakenBy(k, b, o)'
      BY <1>1, <1>3, <1>5, <1>9, <1>10, <2>1 DEF TakenBy
    <3> QED BY <2>1, <3>1
  <2>2. CASE ~(c = b /\ p = o)
    <3>1. PICK j \in Cancels : TakenBy(j, c, p)
      BY <1>4, <2>2 DEF Farewell, Leaving
    <3>2. j # k
      BY <1>2, <3>1 DEF TakenBy
    <3>3. TakenBy(j, c, p)'
      BY <1>3, <1>5, <3>1, <3>2 DEF TakenBy
    <3> QED BY <3>3
  <2> QED BY <2>1, <2>2
<1> QED BY <1>11, <1>12, <1>13, <1>14 DEF Farewell

LEMMA CancelTurnParts ==
  ASSUME OInv, Farewell, NEW k \in Cancels, CancelTurn(k)
  PROVE  Farewell'
<1>1. cancel \in [Cancels -> Cancellations]
  BY DEF OInv, Ledger, Types
<1>2. /\ cancel[k].pc = "wait" /\ cancel[k].waits = {}
      /\ UNCHANGED <<record, inv, epochs, word, renewed>>
      /\ cancel' = [cancel EXCEPT ![k].pc = "turn"]
  BY DEF CancelTurn, Waited
<1>3. \A j \in Cancels : j # k => cancel'[j] = cancel[j]
  BY <1>1, <1>2
<1>4. /\ cancel'[k].pc = "turn" /\ cancel'[k].book = cancel[k].book
      /\ cancel'[k].owner = cancel[k].owner /\ cancel'[k].epoch = cancel[k].epoch
  BY <1>1, <1>2 DEF Cancellations
<1> QED BY <1>2, <1>3, <1>4, FarewellRests

(* The cancellation k has done its part in the record: its owner, if it    *)
(* left, is still in it only as long as k goes on.                         *)
LEMMA FarewellTakes ==
  ASSUME OInv, Farewell, NEW k \in Cancels, cancel[k].pc \in {"turn", "discard"},
         UNCHANGED <<inv, renewed>>,
         \A j \in Cancels \ {k} : cancel'[j] = cancel[j],
         epochs'.request = epochs.request,
         \A c \in Books, p \in Owners :
           /\ Left(c, p)' => Left(c, p)
           /\ p \in record'[c].owners => p \in record[c].owners
           /\ epochs'.owner[c][p] = epochs.owner[c][p] \/ epochs'.owner[c][p] = 0,
         \A c \in Books, p \in Owners :
           Parted(c, p) /\ TakenBy(k, c, p) /\ p \in record'[c].owners
           => cancel'[k].pc # "free" /\ cancel'[k].book = c /\ cancel'[k].owner = p
              /\ cancel'[k].epoch = cancel[k].epoch
  PROVE  Farewell'
<1>1. /\ inv \in [Slots -> Invocations] /\ cancel \in [Cancels -> Cancellations]
      /\ epochs.owner \in [Books -> [Owners -> Nat]] /\ epochs.request \in [Books -> Nat]
  BY DEF OInv, Ledger, Types, Epochs
<1>2. Dated'
  BY <1>1 DEF Farewell, Dated
<1>3. Silent'
  BY DEF Farewell, Silent
<1>4. Awaited'
  <2> SUFFICES ASSUME NEW c \in Books, NEW p \in Owners, NEW r \in Slots, Parted(c, p),
                      inv[r].pc # "free", inv[r].book = c, inv[r].owner = p
               PROVE  \E j \in Cancels : AwaitedBy(j, r)'
    BY DEF Awaited, Parted
  <2>1. PICK j \in Cancels : AwaitedBy(j, r)
    BY DEF Farewell, Awaited
  <2>2. j # k
    BY <2>1 DEF AwaitedBy
  <2>3. AwaitedBy(j, r)'
    BY <2>1, <2>2 DEF AwaitedBy
  <2> QED BY <2>3
<1>5. Leaving'
  <2> SUFFICES ASSUME NEW c \in Books, NEW p \in Owners, Parted(c, p), p \in record'[c].owners
               PROVE  \E j \in Cancels : TakenBy(j, c, p)'
    BY DEF Leaving, Parted
  <2>1. PICK j \in Cancels : TakenBy(j, c, p)
    BY DEF Farewell, Leaving
  <2>2. epochs'.owner[c][p] < cancel[j].epoch
    <3>1. epochs.owner[c][p] \in Nat /\ cancel[j].epoch \in Nat
      BY <1>1 DEF Cancellations
    <3> QED BY <2>1, <3>1 DEF TakenBy
  <2>3. CASE j = k
    BY <2>1, <2>2, <2>3 DEF TakenBy
  <2>4. CASE j # k
    BY <2>1, <2>2, <2>4 DEF TakenBy
  <2> QED BY <2>3, <2>4
<1> QED BY <1>2, <1>3, <1>4, <1>5 DEF Farewell

LEMMA CancelBodyParts ==
  ASSUME OInv, Farewell, NEW k \in Cancels, CancelBody(k)
  PROVE  Farewell'
<1> DEFINE b == cancel[k].book
           o == cancel[k].owner
           ans == Answered(k)
<1>1. /\ cancel[k].pc = "turn" /\ UNCHANGED <<inv, word, renewed>>
  BY DEF CancelBody
<1>2. /\ cancel \in [Cancels -> Cancellations] /\ record \in [Books -> Records]
      /\ b \in Books /\ o \in Owners \union {Nobody} /\ epochs \in Epochs
      /\ epochs.owner \in [Books -> [Owners -> Nat]] /\ cancel[k].epoch \in Nat
      /\ inv \in [Slots -> Invocations]
  BY DEF OInv, Ledger, Types, Cancellations, Epochs
<1>3. epochs' = epochs \/ (o \in Owners /\ epochs' = [epochs EXCEPT !.owner[b][o] = 0])
  BY <1>2 DEF CancelBody
<1>4. /\ epochs'.request = epochs.request
      /\ \A c \in Books, p \in Owners :
           epochs'.owner[c][p] = epochs.owner[c][p] \/ epochs'.owner[c][p] = 0
  <2>1. CASE epochs' = epochs
    BY <2>1
  <2>2. CASE o \in Owners /\ epochs' = [epochs EXCEPT !.owner[b][o] = 0]
    <3>1. epochs'.request = epochs.request /\ epochs'.owner = [epochs.owner EXCEPT ![b][o] = 0]
      BY <1>2, <2>2 DEF Epochs
    <3>2. \A c \in Books : epochs.owner[c] \in [Owners -> Nat]
      BY <1>2
    <3> QED BY <1>2, <2>2, <3>1, <3>2
  <2> QED BY <1>3, <2>1, <2>2
<1>5. \A c \in Books, p \in Owners :
        TakenBy(k, c, p) => c = b /\ p = o /\ o # Nobody /\ epochs.owner[b][o] < cancel[k].epoch
  BY OfflineAssumption DEF TakenBy, OfflineAssumption
<1>6. CASE Overtaken(k) \/ ans.done
  <2>1. /\ record' = IF Overtaken(k) THEN record ELSE [record EXCEPT ![b].owners = ans.owners]
        /\ cancel' = [cancel EXCEPT ![k] = NoCancel]
    BY <1>6 DEF CancelBody
  <2>2. \A j \in Cancels \ {k} : cancel'[j] = cancel[j]
    BY <1>2, <2>1
  <2>3. CASE Overtaken(k)
    <3>1. ASSUME NEW c \in Books, NEW p \in Owners, Parted(c, p), TakenBy(k, c, p) PROVE FALSE
      <4>1. c = b /\ p = o /\ o # Nobody
        BY <1>5, <3>1
      <4>2. PICK r \in Live(b) : inv[r].owner = o
        BY <2>3, <4>1 DEF Overtaken
      <4>3. r \in Slots /\ inv[r].pc # "free" /\ inv[r].book = b /\ ~inv[r].aborted
        BY <4>2 DEF Live
      <4> QED BY <3>1, <4>1, <4>2, <4>3 DEF Farewell, Silent, Parted
    <3>2. record' = record
      BY <2>1, <2>3
    <3> QED BY <1>1, <1>4, <2>2, <3>1, <3>2, FarewellTakes DEF Left
  <2>4. CASE ~Overtaken(k)
    <3>1. \A c \in Books : record'[c].owners = IF c = b THEN ans.owners ELSE record[c].owners
      BY <1>2, <2>1, <2>4 DEF Records
    <3>2. ans.done /\ o # Nobody
      <4>1. ans.done
        BY <1>6, <2>4
      <4> QED BY <4>1 DEF Answered
    <3>3. ans.owners \subseteq record[b].owners
      BY <3>2 DEF Answered
    <3>4. epochs.owner[b][o] < cancel[k].epoch => o \notin ans.owners
      <4> SUFFICES ASSUME epochs.owner[b][o] < cancel[k].epoch, o \in ans.owners PROVE FALSE
        OBVIOUS
      <4>1. epochs.owner[b][o] \in Nat
        BY <1>2, <3>2
      <4>2. o \in record[b].owners /\ ~(epochs.owner[b][o] >= cancel[k].epoch)
        BY <1>2, <3>3, <4>1
      <4> HIDE DEF b, o
      <4>3. ans.owners = record[b].owners \ {o}
        BY <3>2, <4>2 DEF Answered, b, o
      <4> QED BY <4>3
    <3>5. \A c \in Books, p \in Owners : TakenBy(k, c, p) => p \notin record'[c].owners
      BY <1>5, <3>1, <3>4
    <3>6. \A c \in Books, p \in Owners : p \in record'[c].owners => p \in record[c].owners
      BY <3>1, <3>3
    <3> QED BY <1>1, <1>4, <2>2, <3>5, <3>6, FarewellTakes DEF Left
  <2> QED BY <2>3, <2>4
<1>7. CASE ~(Overtaken(k) \/ ans.done)
  <2>1. cancel' = [cancel EXCEPT ![k].pc = "discard"] /\ record' = record
    BY <1>7 DEF CancelBody
  <2>2. /\ \A j \in Cancels \ {k} : cancel'[j] = cancel[j]
        /\ cancel'[k].pc = "discard" /\ cancel'[k].book = b /\ cancel'[k].owner = o
        /\ cancel'[k].epoch = cancel[k].epoch
    BY <1>2, <2>1 DEF Cancellations
  <2> QED BY <1>1, <1>4, <1>5, <2>1, <2>2, FarewellTakes DEF Left
<1> QED BY <1>6, <1>7

LEMMA CancelEndParts ==
  ASSUME OInv, Farewell, NEW k \in Cancels, CancelEnd(k)
  PROVE  Farewell'
<1> DEFINE b == cancel[k].book
<1>1. /\ cancel[k].pc = "discard" /\ UNCHANGED <<inv, renewed>>
      /\ record' = [record EXCEPT ![b] = [Absent EXCEPT !.id = record[b].id]]
      /\ epochs' = [epochs EXCEPT !.saved[b] = 0, !.owner[b] = [o \in Owners |-> 0]]
      /\ cancel' = [cancel EXCEPT ![k] = NoCancel]
      /\ word' = [word EXCEPT ![b] = [o \in Owners |-> IF @[o] = "cancelled" THEN "none" ELSE @[o]]]
  BY DEF CancelEnd
<1>2. /\ cancel \in [Cancels -> Cancellations] /\ record \in [Books -> Records]
      /\ b \in Books /\ epochs \in Epochs /\ word \in [Books -> [Owners -> Words]]
      /\ epochs.owner \in [Books -> [Owners -> Nat]]
  BY DEF OInv, Ledger, Types, Cancellations, Epochs
<1>3. \A j \in Cancels \ {k} : cancel'[j] = cancel[j]
  BY <1>1, <1>2
<1>4. \A c \in Books : record'[c].owners = IF c = b THEN {} ELSE record[c].owners
  BY <1>1, <1>2 DEF Absent
<1>5. /\ epochs'.request = epochs.request
      /\ \A c \in Books, p \in Owners :
           epochs'.owner[c][p] = IF c = b THEN 0 ELSE epochs.owner[c][p]
  <2>1. epochs'.request = epochs.request
        /\ epochs'.owner = [epochs.owner EXCEPT ![b] = [o \in Owners |-> 0]]
    BY <1>1, <1>2 DEF Epochs
  <2> QED BY <1>2, <2>1
<1>6. \A c \in Books, p \in Owners : Left(c, p)' => Left(c, p)
  BY <1>1, <1>2 DEF Left
<1>7. \A c \in Books, p \in Owners : TakenBy(k, c, p) => p \notin record'[c].owners
  BY <1>4 DEF TakenBy
<1>8. \A c \in Books, p \in Owners : p \in record'[c].owners => p \in record[c].owners
  BY <1>4
<1> QED BY <1>1, <1>3, <1>5, <1>6, <1>7, <1>8, FarewellTakes

LEMMA RequestParts ==
  ASSUME OInv, Farewell, NEW r \in Callers, NEW b \in Books, NEW o \in Owners, Request(r, b, o)
  PROVE  Farewell'
<1>1. /\ inv[r].pc = "free" /\ inv' = Invoke(r, b, o) /\ UNCHANGED <<record, cancel, epochs, renewed>>
      /\ word' = [word EXCEPT ![b][o] = IF @ = "left" THEN "none" ELSE @]
  BY DEF Request
<1>2. r \in Slots
  BY DEF Slots
<1>3. word \in [Books -> [Owners -> Words]]
  BY DEF OInv, Ledger, Types
<1>4. \A c \in Books, p \in Owners : Left(c, p)' => Left(c, p) /\ ~(c = b /\ p = o)
  BY <1>1, <1>3 DEF Left
<1> QED BY <1>1, <1>2, <1>4, FarewellInvokes DEF OInv

LEMMA WorkingParts ==
  ASSUME OInv, Farewell, NEW b \in Books, Run(b) \/ Chapter(b) \/ Prepare(b) \/ Publish(b) \/ SaveTurn(b)
  PROVE  Farewell'
<1>1. UNCHANGED <<cancel, epochs, word, renewed>>
  BY DEF Run, Chapter, Prepare, Publish, SaveTurn
<1>2. CASE UNCHANGED <<record, inv>>
  BY <1>1, <1>2, FarewellRests
<1>3. CASE SelfRequest(b) /\ inv[b].pc = "free" /\ UNCHANGED record
  <2>1. inv' = Invoke(b, b, Nobody) /\ b \in Slots
    BY <1>3 DEF SelfRequest, Slots
  <2>2. \A c \in Books, p \in Owners : Left(c, p)' => Left(c, p) /\ ~(c = b /\ p = Nobody)
    BY <1>1, OfflineAssumption DEF Left, OfflineAssumption
  <2> QED BY <1>1, <1>3, <2>1, <2>2, FarewellInvokes DEF OInv
<1>4. CASE SaveTurn(b)
  <2>1. record \in [Books -> Records] /\ UNCHANGED inv
    BY <1>4 DEF SaveTurn, OInv, Ledger, Types
  <2>2. PICK s, n : record' = record \/ record' = [record EXCEPT ![b].state = s, ![b].next = n]
    BY <1>4 DEF SaveTurn
  <2>3. \A c \in Books : record'[c].owners = record[c].owners
    BY <2>1, <2>2 DEF Records
  <2> QED BY <1>1, <2>1, <2>3, FarewellRests
<1>5. CASE Run(b) \/ Prepare(b)
  BY <1>2, <1>5 DEF Run, Prepare
<1>6. CASE Chapter(b)
  BY <1>2, <1>3, <1>6 DEF Chapter
<1>7. CASE Publish(b)
  BY <1>2, <1>3, <1>7 DEF Publish
<1> QED BY <1>4, <1>5, <1>6, <1>7

(* At rest nobody has left, and nothing is retired. *)
LEMMA FarewellBegins ==
  ASSUME \A b \in Books, o \in Owners : ~Left(b, o),
         \A r \in Slots : ~inv[r].aborted /\ inv[r].epoch = 0,
         epochs = NoEpochs, inv \in [Slots -> Invocations]
  PROVE  Farewell
<1>1. Silent /\ Leaving /\ Awaited
  BY DEF Silent, Leaving, Awaited, Parted
<1>2. Dated
  BY DEF Dated, NoEpochs, Invocations
<1> QED BY <1>1, <1>2 DEF Farewell

LEMMA FarewellInit == Init => Farewell
<1> SUFFICES ASSUME Init PROVE Farewell
  OBVIOUS
<1>1. inv \in [Slots -> Invocations]
  BY NoInvTyped DEF Init
<1>2. \A r \in Slots : ~inv[r].aborted /\ inv[r].epoch = 0
  BY DEF Init, NoInv
<1>3. \A b \in Books, o \in Owners : ~Left(b, o)
  BY DEF Init, Left
<1> QED BY <1>1, <1>2, <1>3, FarewellBegins DEF Init

LEMMA RestartParts ==
  ASSUME OInv, Restart
  PROVE  Farewell'
<1> DEFINE due == {b \in Books : record[b].state \in {"preparing", "error"}}
<1>1. /\ inv' = [r \in Slots |-> IF r \in due THEN [NoInv EXCEPT !.pc = "load", !.book = r] ELSE NoInv]
      /\ epochs' = NoEpochs
      /\ word' = [b \in Books |-> [o \in Owners |-> IF o \in record[b].owners THEN "accepted" ELSE "none"]]
  BY DEF Restart
<1>2. OInv'
  BY RestartKeeps
<1>3. (inv \in [Slots -> Invocations])'
  BY <1>2 DEF OInv, Ledger, Types
<1>4. \A r \in Slots : ~inv'[r].aborted /\ inv'[r].epoch = 0
  BY <1>1 DEF NoInv
<1>5. \A b \in Books, o \in Owners : ~Left(b, o)'
  BY <1>1 DEF Left
<1>6. Silent' /\ Leaving' /\ Awaited'
  BY <1>4, <1>5 DEF Silent, Leaving, Awaited, Parted
<1>7. Dated'
  <2>1. \A b \in Books : epochs'.request[b] = 0 /\ \A o \in Owners : epochs'.owner[b][o] = 0
    BY <1>1 DEF NoEpochs
  <2>2. \A r \in Slots : inv'[r].book \in Books
    BY <1>3 DEF Invocations
  <2> QED BY <1>4, <2>1, <2>2 DEF Dated
<1> QED BY <1>6, <1>7 DEF Farewell

LEMMA FarewellStep ==
  ASSUME OInv, Farewell, [Next]_vars
  PROVE  Farewell'
<1>1. CASE Requests
  BY <1>1, IdentifyParts, AdmitParts, StoredParts, ReplacedParts DEF Requests
<1>2. CASE Cancelling
  BY <1>2, CancelTurnParts, CancelBodyParts, CancelEndParts DEF Cancelling
<1>3. CASE Working
  BY <1>3, WorkingParts DEF Working
<1>4. CASE Outside
  <2>1. Main \in Books /\ (CHOOSE r \in Callers : TRUE) \in Callers /\ (CHOOSE o \in Owners : TRUE) \in Owners
    BY OfflineAssumption DEF OfflineAssumption
  <2>2. CASE \E r \in Callers, o \in Owners : Request(r, Main, o)
    BY <2>1, <2>2, RequestParts
  <2>3. CASE \E b \in Books \ {Main} : Request(CHOOSE r \in Callers : TRUE, b, CHOOSE o \in Owners : TRUE)
    BY <2>1, <2>3, RequestParts
  <2>4. CASE \E k \in Cancels : (\E o \in Owners : Cancel(k, Main, o)) \/ Cancel(k, Main, Nobody)
    BY <2>1, <2>4, CancelParts
  <2>5. CASE Change(Main) \/ \E b \in Books : Move(b)
    BY <2>5, FarewellRests DEF Change, Move
  <2>6. CASE Restart
    BY <2>6, RestartParts
  <2> QED BY <1>4, <2>2, <2>3, <2>4, <2>5, <2>6 DEF Outside
<1>5. CASE UNCHANGED vars
  BY <1>5, FarewellRests DEF vars
<1> QED BY <1>1, <1>2, <1>3, <1>4, <1>5 DEF Next

(* A device that left, and whose cancellation has ended, owns nothing,     *)
(* however many requests and cancellations overlap, unless the             *)
(* cancellation of another device has renewed the request that its own one *)
(* was waiting for (retireInvocations).                                    *)
THEOREM WhoLeftOwnsNothing == Spec => []LeftOwnNothing
<1>1. OInv /\ Farewell /\ [Next]_vars => Farewell'
  BY FarewellStep
<1>2. Farewell => LeftOwnNothing
  BY DEF Farewell, Leaving, Parted, Left, TakenBy, LeftOwnNothing, Quiet
<1> QED BY <1>1, <1>2, FarewellInit, OfflineInvariant, PTL DEF Spec

-----------------------------------------------------------------------------
(* HLS transports.                                                         *)

(* What keys are.                                                          *)
LEMMA KeyFacts ==
  /\ None \notin Keys /\ None \notin Sessions
  /\ \A k \in Keys : OwnerOf(k) \in OwnerKeys /\ AccountOf(k) \in {Account[o] : o \in OwnerKeys}
  BY HlsAssumption DEF Keys, OwnerOf, AccountOf

Transports == [s : [Sessions -> Session], byKey : [Keys -> Sessions \union {None}],
               byOwner : [OwnerKeys -> Sessions \union {None}]]

(* A session: one that failed waits no longer, one that is awaited is at   *)
(* work, one that was never created is blank.                              *)
Sane(s) ==
  /\ s.error => s.readiness # "pending"
  /\ s.key # None /\ s.readiness = "pending" => s.prep \in {"source", "poll"}
  /\ s.key = None => s = Unused
  /\ s.key # None => s.prep # "off"

(* The maps lead to the sessions that are not evicted, and to no others.   *)
Led(h) ==
  /\ \A k \in Keys : h.byKey[k] # None => h.s[h.byKey[k]].key = k /\ ~h.s[h.byKey[k]].evicted
  /\ \A o \in OwnerKeys : h.byOwner[o] # None =>
       /\ h.s[h.byOwner[o]].key \in Keys /\ OwnerOf(h.s[h.byOwner[o]].key) = o
       /\ ~h.s[h.byOwner[o]].evicted
  /\ \A i \in Sessions : h.s[i].key # None /\ ~h.s[i].evicted =>
       h.byKey[h.s[i].key] = i /\ h.byOwner[OwnerOf(h.s[i].key)] = i

Sound(h) == h \in Transports /\ (\A i \in Sessions : Sane(h.s[i])) /\ Led(h)

(* What an eviction or an abort leaves of a session as it was.             *)
Alike(s, t) == t.key = s.key /\ t.prep = s.prep /\ t.run = s.run /\ t.waiters = s.waiters

LEMMA AbortedFacts ==
  ASSUME NEW s \in Session
  PROVE  /\ Aborted(s) \in Session /\ Alike(s, Aborted(s))
         /\ s.readiness = "pending" => Aborted(s).evicted /\ Aborted(s).readiness = "no"
         /\ s.readiness # "pending" => /\ Aborted(s).evicted = s.evicted
                                       /\ Aborted(s).readiness = s.readiness
                                       /\ Aborted(s).error = s.error
<1>1. CASE s.readiness = "pending"
  <2> DEFINE t == [s EXCEPT !.aborted = TRUE, !.readiness = "no", !.error = TRUE, !.running = FALSE,
                            !.evicted = TRUE]
  <2>1. Aborted(s) = t
    BY <1>1 DEF Aborted
  <2>2. /\ t \in Session /\ t.key = s.key /\ t.prep = s.prep /\ t.run = s.run /\ t.waiters = s.waiters
        /\ t.evicted = TRUE /\ t.readiness = "no"
    BY DEF Session
  <2> HIDE DEF t
  <2> QED BY <1>1, <2>1, <2>2 DEF Alike
<1>2. CASE s.readiness # "pending"
  <2> DEFINE t == [s EXCEPT !.aborted = TRUE]
  <2>1. Aborted(s) = t
    BY <1>2 DEF Aborted
  <2>2. /\ t \in Session /\ t.key = s.key /\ t.prep = s.prep /\ t.run = s.run /\ t.waiters = s.waiters
        /\ t.evicted = s.evicted /\ t.readiness = s.readiness /\ t.error = s.error
    BY DEF Session
  <2> HIDE DEF t
  <2> QED BY <1>2, <2>1, <2>2 DEF Alike
<1> QED BY <1>1, <1>2

LEMMA EvictedFacts ==
  ASSUME NEW s \in Session, Sane(s)
  PROVE  /\ Evicted(s) \in Session /\ Alike(s, Evicted(s)) /\ Evicted(s).evicted
         /\ s.key # None => Sane(Evicted(s))
         /\ Evicted(s).readiness = "ok" => s.readiness = "ok"
<1>1. CASE s.evicted
  BY <1>1 DEF Evicted, Alike
<1>2. CASE ~s.evicted
  <2> DEFINE t == [s EXCEPT !.evicted = TRUE]
  <2>1. /\ t \in Session /\ t.key = s.key /\ t.prep = s.prep /\ t.run = s.run /\ t.waiters = s.waiters
        /\ t.evicted = TRUE /\ t.readiness = s.readiness /\ t.error = s.error
    BY DEF Session
  <2>2. Evicted(s) = IF s.running THEN Aborted(t) ELSE t
    BY <1>2 DEF Evicted
  <2> HIDE DEF t
  <2>3. /\ Aborted(t) \in Session /\ Alike(t, Aborted(t)) /\ Aborted(t).evicted
        /\ t.readiness = "pending" => Aborted(t).readiness = "no"
        /\ t.readiness # "pending" => Aborted(t).readiness = t.readiness /\ Aborted(t).error = t.error
    BY <2>1, AbortedFacts
  <2> QED BY <2>1, <2>2, <2>3 DEF Alike, Sane
<1> QED BY <1>1, <1>2

LEMMA WithoutFacts ==
  ASSUME NEW D, NEW map \in [D -> Sessions \union {None}], NEW S
  PROVE  /\ Without(map, S) \in [D -> Sessions \union {None}]
         /\ \A x \in D : Without(map, S)[x] = IF map[x] \in S THEN None ELSE map[x]
  BY DEF Without

(* Evicting sessions leaves their work, and the maps lead to the others.   *)
LEMMA EvictSound ==
  ASSUME NEW h, Sound(h), NEW S, \A i \in Sessions : i \in S => h.s[i].key # None
  PROVE  /\ Sound(Evict(h, S))
         /\ \A i \in Sessions : Alike(h.s[i], Evict(h, S).s[i])
         /\ \A i \in Sessions : i \in S => Evict(h, S).s[i].evicted
         /\ \A i \in Sessions : i \notin S => Evict(h, S).s[i] = h.s[i]
         /\ \A k \in Keys : Evict(h, S).byKey[k] = IF h.byKey[k] \in S THEN None ELSE h.byKey[k]
         /\ \A o \in OwnerKeys :
              Evict(h, S).byOwner[o] = IF h.byOwner[o] \in S THEN None ELSE h.byOwner[o]
<1> DEFINE g == Evict(h, S)
<1>1. /\ h.s \in [Sessions -> Session] /\ h.byKey \in [Keys -> Sessions \union {None}]
      /\ h.byOwner \in [OwnerKeys -> Sessions \union {None}]
      /\ \A i \in Sessions : Sane(h.s[i])
  BY DEF Sound, Transports
<1> DEFINE t == [i \in Sessions |-> IF i \in S THEN Evicted(h.s[i]) ELSE h.s[i]]
<1>2. g.s = t /\ g.byKey = Without(h.byKey, S) /\ g.byOwner = Without(h.byOwner, S)
      /\ g = [s |-> t, byKey |-> Without(h.byKey, S), byOwner |-> Without(h.byOwner, S)]
  BY DEF Evict
<1>3. \A i \in Sessions : t[i] = IF i \in S THEN Evicted(h.s[i]) ELSE h.s[i]
  OBVIOUS
<1>4. \A i \in Sessions : /\ t[i] \in Session /\ Alike(h.s[i], t[i]) /\ Sane(t[i])
                          /\ i \in S => t[i].evicted
                          /\ i \notin S => t[i] = h.s[i]
  BY <1>1, <1>3, EvictedFacts DEF Alike
<1>5. t \in [Sessions -> Session]
  BY <1>4
<1> HIDE DEF t
<1>6. /\ Without(h.byKey, S) \in [Keys -> Sessions \union {None}]
      /\ Without(h.byOwner, S) \in [OwnerKeys -> Sessions \union {None}]
      /\ \A k \in Keys : g.byKey[k] = IF h.byKey[k] \in S THEN None ELSE h.byKey[k]
      /\ \A o \in OwnerKeys : g.byOwner[o] = IF h.byOwner[o] \in S THEN None ELSE h.byOwner[o]
  BY <1>1, <1>2, WithoutFacts
<1>7. g \in Transports
  BY <1>2, <1>5, <1>6 DEF Transports
<1> HIDE DEF g
<1>8. Led(g)
  <2>1. Led(h)
    BY DEF Sound
  <2>2. \A k \in Keys : h.byKey[k] \in Sessions \union {None}
    BY <1>1
  <2>3. \A o \in OwnerKeys : h.byOwner[o] \in Sessions \union {None}
    BY <1>1
  <2>4. \A i \in Sessions : g.s[i] = t[i] /\ t[i].key = h.s[i].key
    BY <1>2, <1>4 DEF Alike
  <2>5. ASSUME NEW i \in Sessions, g.s[i].key # None, ~g.s[i].evicted
        PROVE  g.byKey[g.s[i].key] = i /\ g.byOwner[OwnerOf(g.s[i].key)] = i
    <3>1. i \notin S /\ g.s[i] = h.s[i] /\ h.s[i].key \in Keys
      BY <1>1, <1>4, <2>4, <2>5 DEF Session
    <3>2. h.byKey[h.s[i].key] = i /\ h.byOwner[OwnerOf(h.s[i].key)] = i
      BY <2>1, <2>5, <3>1 DEF Led
    <3> QED BY <1>6, <3>1, <3>2, KeyFacts
  <2>6. ASSUME NEW k \in Keys, g.byKey[k] # None
        PROVE  g.s[g.byKey[k]].key = k /\ ~g.s[g.byKey[k]].evicted
    <3>1. h.byKey[k] \notin S /\ g.byKey[k] = h.byKey[k] /\ h.byKey[k] \in Sessions
      BY <1>6, <2>2, <2>6
    <3> QED BY <1>4, <2>1, <2>4, <2>6, <3>1 DEF Led
  <2>7. ASSUME NEW o \in OwnerKeys, g.byOwner[o] # None
        PROVE  /\ g.s[g.byOwner[o]].key \in Keys /\ OwnerOf(g.s[g.byOwner[o]].key) = o
               /\ ~g.s[g.byOwner[o]].evicted
    <3>1. h.byOwner[o] \notin S /\ g.byOwner[o] = h.byOwner[o] /\ h.byOwner[o] \in Sessions
      BY <1>6, <2>3, <2>7
    <3> QED BY <1>4, <2>1, <2>4, <2>7, <3>1 DEF Led
  <2> QED BY <2>5, <2>6, <2>7 DEF Led
<1>9. Sound(g) /\ \A i \in Sessions : g.s[i] = t[i]
  BY <1>2, <1>4, <1>7, <1>8 DEF Sound
<1> QED BY <1>4, <1>6, <1>9 DEF g

(* One session changes; the maps forget it if it is evicted.               *)
LEMMA BecomesSound ==
  ASSUME NEW h, Sound(h), NEW i \in Sessions, h.s[i].key # None,
         NEW s \in Session, Sane(s), s.key = h.s[i].key, ~s.evicted => ~h.s[i].evicted
  PROVE  /\ Sound(Becomes(h, i, s)) /\ Becomes(h, i, s).s[i] = s
         /\ \A j \in Sessions : j # i => Becomes(h, i, s).s[j] = h.s[j]
<1> DEFINE g == Becomes(h, i, s)
           out == IF s.evicted THEN {i} ELSE {}
           t == [h.s EXCEPT ![i] = s]
<1>1. /\ h.s \in [Sessions -> Session] /\ h.byKey \in [Keys -> Sessions \union {None}]
      /\ h.byOwner \in [OwnerKeys -> Sessions \union {None}]
      /\ \A j \in Sessions : Sane(h.s[j])
  BY DEF Sound, Transports
<1>2. g.s = t /\ g.byKey = Without(h.byKey, out) /\ g.byOwner = Without(h.byOwner, out)
      /\ g = [s |-> t, byKey |-> Without(h.byKey, out), byOwner |-> Without(h.byOwner, out)]
  BY DEF Becomes
<1>3. t \in [Sessions -> Session] /\ t[i] = s /\ \A j \in Sessions : j # i => t[j] = h.s[j]
  BY <1>1
<1> HIDE DEF t
<1>4. /\ Without(h.byKey, out) \in [Keys -> Sessions \union {None}]
      /\ Without(h.byOwner, out) \in [OwnerKeys -> Sessions \union {None}]
      /\ \A k \in Keys : g.byKey[k] = IF h.byKey[k] \in out THEN None ELSE h.byKey[k]
      /\ \A o \in OwnerKeys : g.byOwner[o] = IF h.byOwner[o] \in out THEN None ELSE h.byOwner[o]
  BY <1>1, <1>2, WithoutFacts
<1>5. g \in Transports
  BY <1>2, <1>3, <1>4 DEF Transports
<1>6. \A j \in Sessions : Sane(t[j]) /\ g.s[j] = t[j] /\ t[j].key = h.s[j].key
  BY <1>1, <1>2, <1>3
<1>7. \A x : x \in out <=> s.evicted /\ x = i
  OBVIOUS
<1> HIDE DEF g, out
<1>8. Led(g)
  <2>1. Led(h)
    BY DEF Sound
  <2>2. \A k \in Keys : h.byKey[k] \in Sessions \union {None}
    BY <1>1
  <2>3. \A o \in OwnerKeys : h.byOwner[o] \in Sessions \union {None}
    BY <1>1
  <2>5. ASSUME NEW j \in Sessions, g.s[j].key # None, ~g.s[j].evicted
        PROVE  g.byKey[g.s[j].key] = j /\ g.byOwner[OwnerOf(g.s[j].key)] = j
    <3>1. ~h.s[j].evicted /\ g.s[j].key = h.s[j].key /\ h.s[j].key \in Keys /\ j \notin out
      BY <1>1, <1>3, <1>6, <1>7, <2>5 DEF Session
    <3>2. h.byKey[h.s[j].key] = j /\ h.byOwner[OwnerOf(h.s[j].key)] = j
      BY <2>1, <2>5, <3>1 DEF Led
    <3> QED BY <1>4, <3>1, <3>2, KeyFacts
  <2>6. ASSUME NEW k \in Keys, g.byKey[k] # None
        PROVE  g.s[g.byKey[k]].key = k /\ ~g.s[g.byKey[k]].evicted
    <3>1. h.byKey[k] \notin out /\ g.byKey[k] = h.byKey[k] /\ h.byKey[k] \in Sessions
      BY <1>4, <2>2, <2>6
    <3> QED BY <1>3, <1>6, <1>7, <2>1, <2>6, <3>1 DEF Led
  <2>7. ASSUME NEW o \in OwnerKeys, g.byOwner[o] # None
        PROVE  /\ g.s[g.byOwner[o]].key \in Keys /\ OwnerOf(g.s[g.byOwner[o]].key) = o
               /\ ~g.s[g.byOwner[o]].evicted
    <3>1. h.byOwner[o] \notin out /\ g.byOwner[o] = h.byOwner[o] /\ h.byOwner[o] \in Sessions
      BY <1>4, <2>3, <2>7
    <3> QED BY <1>3, <1>6, <1>7, <2>1, <2>7, <3>1 DEF Led
  <2> QED BY <2>5, <2>6, <2>7 DEF Led
<1>9. Sound(g)
  BY <1>5, <1>6, <1>8 DEF Sound
<1>10. g.s[i] = s /\ \A j \in Sessions : j # i => g.s[j] = h.s[j]
  BY <1>3, <1>6
<1> QED BY <1>9, <1>10 DEF g

(* One session changes and stays where it is.                              *)
Put(h, i, s) == [h EXCEPT !.s = [h.s EXCEPT ![i] = s]]

LEMMA UpdateSound ==
  ASSUME NEW h, Sound(h), NEW i \in Sessions, NEW s \in Session, Sane(s), s.key = h.s[i].key,
         s.evicted = h.s[i].evicted, NEW g, g = Put(h, i, s)
  PROVE  /\ Sound(g) /\ g.s[i] = s /\ \A j \in Sessions : j # i => g.s[j] = h.s[j]
<1>1. /\ h.s \in [Sessions -> Session] /\ h.byKey \in [Keys -> Sessions \union {None}]
      /\ h.byOwner \in [OwnerKeys -> Sessions \union {None}]
      /\ (\A j \in Sessions : Sane(h.s[j])) /\ Led(h) /\ h \in Transports
  BY DEF Sound, Transports
<1> DEFINE t == [h.s EXCEPT ![i] = s]
<1>2. t \in [Sessions -> Session] /\ t[i] = s /\ \A j \in Sessions : j # i => t[j] = h.s[j]
  BY <1>1
<1> HIDE DEF t
<1>3. g = [h EXCEPT !.s = t]
  BY DEF t, Put
<1>4. g \in Transports /\ g.s = t /\ g.byKey = h.byKey /\ g.byOwner = h.byOwner
  BY <1>1, <1>2, <1>3 DEF Transports
<1>5. \A j \in Sessions : g.s[j].key = h.s[j].key /\ g.s[j].evicted = h.s[j].evicted /\ Sane(g.s[j])
  BY <1>1, <1>2, <1>4
<1>6. \A k \in Keys : h.byKey[k] \in Sessions \union {None}
  BY <1>1
<1>7. \A o \in OwnerKeys : h.byOwner[o] \in Sessions \union {None}
  BY <1>1
<1>8. Led(g)
  BY <1>1, <1>4, <1>5, <1>6, <1>7 DEF Led
<1> QED BY <1>2, <1>4, <1>5, <1>8 DEF Sound

-----------------------------------------------------------------------------
(* What a session is doing is read from its own record.                    *)
HasWork(s) == s.key # None /\ (s.prep # "over" \/ s.run \in {"on", "failing"})

LEMMA AtWorkFacts ==
  ASSUME NEW h
  PROVE  /\ \A i : i \in AtWork(h) <=> i \in Sessions /\ HasWork(h.s[i])
         /\ \A S, a : S \subseteq Sessions => OfAccount(h, S, a) \subseteq Sessions
         /\ AtWork(h) \subseteq Active(h) /\ Active(h) \subseteq Sessions
  BY DEF AtWork, Preparing, Encoding, Used, Mapped, Active, HasWork, OfAccount

LEMMA CardFacts ==
  ASSUME NEW S, S \subseteq Sessions
  PROVE  /\ IsFiniteSet(S) /\ Cardinality(S) \in Nat
         /\ \A T : T \subseteq S => Cardinality(T) <= Cardinality(S)
  BY HlsAssumption, FS_Subset, FS_CardinalityType

(* A lookup: the session that the key leads to, or none after all.         *)
LEMMA FoundSound ==
  ASSUME NEW h, Sound(h), NEW k \in Keys, NEW f, f = Found(h, k)
  PROVE  /\ Sound(f.h) /\ f.session \in Sessions \union {None}
         /\ \A i \in Sessions : Alike(h.s[i], f.h.s[i])
         /\ \A i \in Sessions : f.h.s[i] # h.s[i] => h.s[i].error
         /\ f.session = None => f.h.byKey[k] = None
         /\ f.session # None => f.h = h /\ h.s[f.session].key = k /\ ~h.s[f.session].evicted
<1> DEFINE i == h.byKey[k]
<1>1. i \in Sessions \union {None} /\ (i # None => h.s[i].key = k /\ ~h.s[i].evicted) /\ k # None
  BY KeyFacts DEF Sound, Transports, Led
<1>2. CASE i # None /\ h.s[i].error
  <2>1. f.h = Evict(h, {i}) /\ f.session = None
    BY <1>2 DEF Found
  <2>2. \A j \in Sessions : j \in {i} => h.s[j].key # None
    BY <1>1, <1>2
  <2> HIDE DEF i
  <2>3. /\ Sound(f.h) /\ \A j \in Sessions : Alike(h.s[j], f.h.s[j])
        /\ \A j \in Sessions : j # i => f.h.s[j] = h.s[j]
        /\ \A q \in Keys : f.h.byKey[q] = IF h.byKey[q] \in {i} THEN None ELSE h.byKey[q]
    BY <2>1, <2>2, EvictSound
  <2>4. f.h.byKey[k] = None
    BY <2>3 DEF i
  <2> QED BY <1>2, <2>1, <2>3, <2>4
<1>3. CASE ~(i # None /\ h.s[i].error)
  <2>1. f.h = h /\ f.session = i
    BY <1>3 DEF Found
  <2> QED BY <1>1, <2>1 DEF Alike
<1> QED BY <1>2, <1>3

(* Admission: whatever it evicts is the owner's other transport, or one    *)
(* nobody waits for; if it lets the request pass there is room.            *)
LEMMA AdmissionSound ==
  ASSUME NEW h, Sound(h), NEW k \in Keys, h.byKey[k] = None, NEW a \in Admission(h, k)
  PROVE  /\ Sound(a.h) /\ \A i \in Sessions : Alike(h.s[i], a.h.s[i])
         /\ \A i \in Sessions : a.h.s[i] # h.s[i] =>
              h.s[i].readiness # "pending" \/ OwnerOf(h.s[i].key) = OwnerOf(k)
         /\ a.ok => /\ a.h.byKey[k] = None /\ a.h.byOwner[OwnerOf(k)] = None
                    /\ Cardinality(AtWork(a.h)) < MaxActive
                    /\ Cardinality(OfAccount(a.h, AtWork(a.h), AccountOf(k))) < MaxAccount
<1> DEFINE o == OwnerOf(k)
           prior == h.byOwner[o]
           g == IF prior # None /\ h.s[prior].key # k THEN Evict(h, {prior}) ELSE h
           mine == OfAccount(g, Active(g), AccountOf(k))
           over == Cardinality(mine) - MaxAccount + 1
           free == Cancellable(g, mine)
<1>1. /\ o \in OwnerKeys /\ prior \in Sessions \union {None} /\ k # None
      /\ prior # None => h.s[prior].key \in Keys /\ ~h.s[prior].evicted /\ OwnerOf(h.s[prior].key) = o
      /\ prior # None => h.byKey[h.s[prior].key] = prior
  BY KeyFacts DEF Sound, Transports, Led
<1>2. prior # None => h.s[prior].key # k
  BY <1>1
<1>3. /\ Sound(g) /\ (\A i \in Sessions : Alike(h.s[i], g.s[i]))
      /\ \A i \in Sessions : g.s[i] # h.s[i] => i = prior /\ OwnerOf(h.s[i].key) = o
      /\ g.byKey[k] = None /\ g.byOwner[o] = None
  <2>1. CASE prior = None
    <3>1. g = h
      BY <2>1
    <3> HIDE DEF g
    <3> QED BY <2>1, <3>1 DEF Alike
  <2>2. CASE prior # None
    <3>1. g = Evict(h, {prior})
      BY <1>2, <2>2
    <3>2. \A i \in Sessions : i \in {prior} => h.s[i].key # None
      BY <1>1, <2>2, KeyFacts
    <3> HIDE DEF g, prior
    <3>3. /\ Sound(g) /\ (\A i \in Sessions : Alike(h.s[i], g.s[i]))
          /\ \A i \in Sessions : i # prior => g.s[i] = h.s[i]
          /\ \A q \in Keys : g.byKey[q] = IF h.byKey[q] \in {prior} THEN None ELSE h.byKey[q]
          /\ \A q \in OwnerKeys : g.byOwner[q] = IF h.byOwner[q] \in {prior} THEN None ELSE h.byOwner[q]
      BY <3>1, <3>2, EvictSound
    <3>4. g.byOwner[o] = None
      BY <1>1, <3>3 DEF prior
    <3>5. g.byKey[k] = None
      BY <3>3
    <3> QED BY <1>1, <2>2, <3>3, <3>4, <3>5
  <2> QED BY <2>1, <2>2
<1> HIDE DEF g, prior
<1>4. \/ a = [h |-> h, ok |-> FALSE] \/ a = [h |-> g, ok |-> FALSE]
      \/ /\ Cardinality(Active(g)) < MaxActive /\ Cardinality(mine) < MaxAccount
         /\ a = [h |-> g, ok |-> TRUE]
      \/ /\ Cardinality(Active(g)) < MaxActive /\ Cardinality(mine) >= MaxAccount
         /\ \E S \in SUBSET free :
              Cardinality(S) = over /\ a = [h |-> Evict(g, S), ok |-> S \intersect Encoding(g) = {}]
  <2> HIDE DEF mine, free
  <2>1. a \in IF started[AccountOf(k)] >= MaxStarted THEN {[h |-> h, ok |-> FALSE]}
              ELSE IF Cardinality(Active(g)) >= MaxActive THEN {[h |-> g, ok |-> FALSE]}
              ELSE IF Cardinality(mine) < MaxAccount THEN {[h |-> g, ok |-> TRUE]}
              ELSE IF (\E i \in mine : g.s[i].evicted) \/ Cardinality(free) < over
                   THEN {[h |-> g, ok |-> FALSE]}
              ELSE {[h |-> Evict(g, S), ok |-> S \intersect Encoding(g) = {}] :
                      S \in {T \in SUBSET free : Cardinality(T) = over}}
    BY Zenon DEF Admission, g, prior, o, mine, free
  <2>2. mine \subseteq Sessions /\ Active(g) \subseteq Sessions
    BY AtWorkFacts DEF mine
  <2>3. Cardinality(mine) \in Nat /\ Cardinality(Active(g)) \in Nat /\ MaxActive \in Nat /\ MaxAccount \in Nat
    BY <2>2, CardFacts, HlsAssumption
  <2> QED BY <2>1, <2>3
<1>5. CASE a = [h |-> h, ok |-> FALSE]
  BY <1>5 DEF Alike
<1>6. CASE a = [h |-> g, ok |-> FALSE]
  BY <1>3, <1>6
<1>7. /\ AtWork(g) \subseteq Active(g) /\ Active(g) \subseteq Sessions /\ mine \subseteq Active(g)
      /\ OfAccount(g, AtWork(g), AccountOf(k)) \subseteq mine
  BY AtWorkFacts DEF OfAccount
<1>8. Cardinality(AtWork(g)) <= Cardinality(Active(g)) /\ Cardinality(Active(g)) \in Nat
      /\ Cardinality(AtWork(g)) \in Nat /\ Cardinality(mine) \in Nat
  BY <1>7, CardFacts
<1>9. CASE /\ Cardinality(Active(g)) < MaxActive /\ Cardinality(mine) < MaxAccount
           /\ a = [h |-> g, ok |-> TRUE]
  <2>1. Cardinality(OfAccount(g, AtWork(g), AccountOf(k))) <= Cardinality(mine)
        /\ Cardinality(OfAccount(g, AtWork(g), AccountOf(k))) \in Nat
    BY <1>7, CardFacts
  <2> HIDE DEF mine
  <2>2. a.h = g
    BY <1>9
  <2> QED BY <1>3, <1>8, <1>9, <2>1, <2>2, HlsAssumption
<1>10. ASSUME Cardinality(Active(g)) < MaxActive, Cardinality(mine) >= MaxAccount,
              NEW S \in SUBSET free, Cardinality(S) = over,
              a = [h |-> Evict(g, S), ok |-> S \intersect Encoding(g) = {}]
       PROVE  /\ Sound(a.h) /\ \A i \in Sessions : Alike(h.s[i], a.h.s[i])
              /\ \A i \in Sessions : a.h.s[i] # h.s[i] =>
                   h.s[i].readiness # "pending" \/ OwnerOf(h.s[i].key) = OwnerOf(k)
              /\ a.ok => /\ a.h.byKey[k] = None /\ a.h.byOwner[OwnerOf(k)] = None
                         /\ Cardinality(AtWork(a.h)) < MaxActive
                         /\ Cardinality(OfAccount(a.h, AtWork(a.h), AccountOf(k))) < MaxAccount
  <2>1. \A i \in S : i \in Sessions /\ i \in mine /\ ~g.s[i].evicted /\ i \notin Preparing(g)
    BY <1>7 DEF Cancellable
  <2>2. \A i \in S : g.s[i].key # None
    BY <2>1 DEF OfAccount, Active, Mapped, Preparing, Encoding, Used
  <2>3. a.h = Evict(g, S) /\ (a.ok <=> S \intersect Encoding(g) = {})
    BY <1>10
  <2>4. /\ Sound(a.h) /\ (\A i \in Sessions : Alike(g.s[i], a.h.s[i]))
        /\ \A i \in Sessions : i \notin S => a.h.s[i] = g.s[i]
        /\ \A q \in Keys : a.h.byKey[q] = IF g.byKey[q] \in S THEN None ELSE g.byKey[q]
        /\ \A q \in OwnerKeys : a.h.byOwner[q] = IF g.byOwner[q] \in S THEN None ELSE g.byOwner[q]
    BY <1>3, <2>2, <2>3, EvictSound
  <2>5. \A i \in S : g.s[i].readiness # "pending"
    BY <1>3, <2>1, <2>2 DEF Sound, Sane, Preparing, Used
  <2>6. \A i \in Sessions : a.h.s[i] # h.s[i] =>
          h.s[i].readiness # "pending" \/ OwnerOf(h.s[i].key) = OwnerOf(k)
    BY <1>3, <2>4, <2>5
  <2>7. ASSUME a.ok
        PROVE  /\ Cardinality(AtWork(a.h)) < MaxActive
               /\ Cardinality(OfAccount(a.h, AtWork(a.h), AccountOf(k))) < MaxAccount
    <3>1. AtWork(a.h) = AtWork(g)
      <4>1. \A i \in Sessions : HasWork(a.h.s[i]) <=> HasWork(g.s[i])
        BY <2>4 DEF Alike, HasWork
      <4>2. \A i : i \in AtWork(a.h) <=> i \in Sessions /\ HasWork(a.h.s[i])
        BY AtWorkFacts
      <4>3. \A i : i \in AtWork(g) <=> i \in Sessions /\ HasWork(g.s[i])
        BY AtWorkFacts
      <4> HIDE DEF free
      <4> QED BY <4>1, <4>2, <4>3
    <3>2. OfAccount(a.h, AtWork(a.h), AccountOf(k)) = OfAccount(g, AtWork(g), AccountOf(k))
      <4>1. \A i \in AtWork(g) : a.h.s[i].key = g.s[i].key
        BY <1>7, <2>4 DEF Alike
      <4> QED BY <3>1, <4>1 DEF OfAccount
    <3>3. S \intersect AtWork(g) = {}
      BY <2>1, <2>3, <2>7 DEF AtWork
    <3>4. OfAccount(g, AtWork(g), AccountOf(k)) \subseteq mine \ S
      BY <1>7, <3>3 DEF OfAccount
    <3> HIDE DEF mine
    <3>5. IsFiniteSet(mine) /\ IsFiniteSet(mine \ S) /\ S \subseteq mine /\ IsFiniteSet(S)
      BY <1>7, <2>1, CardFacts
    <3>6. Cardinality(mine \ S) = Cardinality(mine) - Cardinality(S)
      <4>1. Cardinality(mine \ S) = Cardinality(mine) - Cardinality(mine \intersect S)
        BY <3>5, FS_Difference
      <4>2. mine \intersect S = S
        BY <3>5
      <4> QED BY <4>1, <4>2
    <3>7. Cardinality(OfAccount(g, AtWork(g), AccountOf(k))) <= Cardinality(mine \ S)
          /\ Cardinality(OfAccount(g, AtWork(g), AccountOf(k))) \in Nat
          /\ Cardinality(mine \ S) \in Nat
      BY <1>7, <3>4, <3>5, CardFacts
    <3>8. Cardinality(mine \ S) = MaxAccount - 1
      BY <1>8, <1>10, <3>6, HlsAssumption
    <3> QED BY <1>8, <1>10, <3>1, <3>2, <3>7, <3>8, HlsAssumption
  <2> QED BY <1>1, <1>3, <2>4, <2>6, <2>7 DEF Alike
<1> QED BY <1>4, <1>5, <1>6, <1>9, <1>10

(* A new transport: it is the owner's only one.                            *)
New(k) == [Unused EXCEPT !.key = k, !.prep = "source", !.running = TRUE, !.waiters = 1]

LEMMA CreatedSound ==
  ASSUME NEW h, Sound(h), NEW k \in Keys, h.byKey[k] = None, h.byOwner[OwnerOf(k)] = None,
         NEW i \in Sessions \ Used(h), NEW g, g = Created(h, k, i)
  PROVE  /\ Sound(g) /\ \A j \in Sessions : j # i => g.s[j] = h.s[j]
         /\ h.s[i].key = None /\ g.s[i] = New(k)
<1>1. /\ h.s \in [Sessions -> Session] /\ h.byKey \in [Keys -> Sessions \union {None}]
      /\ h.byOwner \in [OwnerKeys -> Sessions \union {None}]
      /\ (\A j \in Sessions : Sane(h.s[j])) /\ Led(h) /\ h \in Transports
  BY DEF Sound, Transports
<1>2. OwnerOf(k) \in OwnerKeys /\ None \notin Keys /\ None \notin Sessions /\ k # None
  BY KeyFacts
<1>3. h.s[i].key = None
  BY DEF Used
<1>4. /\ New(k) \in Session /\ Sane(New(k)) /\ New(k).key = k /\ ~New(k).evicted
  BY <1>2 DEF New, Unused, Session, Sane
<1> DEFINE o == OwnerOf(k)
           t == [h.s EXCEPT ![i] = New(k)]
           bk == [h.byKey EXCEPT ![k] = i]
           bo == [h.byOwner EXCEPT ![o] = i]
<1>5. t \in [Sessions -> Session] /\ t[i] = New(k) /\ \A j \in Sessions : j # i => t[j] = h.s[j]
  BY <1>1, <1>4
<1>6. /\ bk \in [Keys -> Sessions \union {None}] /\ bk[k] = i
      /\ \A q \in Keys : q # k => bk[q] = h.byKey[q]
  BY <1>1
<1>7. /\ bo \in [OwnerKeys -> Sessions \union {None}] /\ bo[o] = i
      /\ \A q \in OwnerKeys : q # o => bo[q] = h.byOwner[q]
  BY <1>1, <1>2
<1>8. g = [h EXCEPT !.s = t, !.byKey = bk, !.byOwner = bo]
  BY DEF Created, New
<1> HIDE DEF t, bk, bo
<1>9. g \in Transports /\ g.s = t /\ g.byKey = bk /\ g.byOwner = bo
  BY <1>1, <1>5, <1>6, <1>7, <1>8 DEF Transports
<1>10. \A j \in Sessions : j # i => g.s[j] = h.s[j]
  BY <1>5, <1>9
<1>11. Led(g)
  <2>1. ASSUME NEW j \in Sessions, g.s[j].key # None, ~g.s[j].evicted
        PROVE  g.byKey[g.s[j].key] = j /\ g.byOwner[OwnerOf(g.s[j].key)] = j
    <3>1. CASE j = i
      BY <1>4, <1>5, <1>6, <1>7, <1>9, <3>1
    <3>2. CASE j # i
      <4>1. g.s[j] = h.s[j] /\ h.s[j].key \in Keys
        BY <1>1, <1>10, <2>1, <3>2 DEF Session
      <4>2. h.byKey[h.s[j].key] = j /\ h.byOwner[OwnerOf(h.s[j].key)] = j /\ OwnerOf(h.s[j].key) \in OwnerKeys
        BY <1>1, <2>1, <4>1, KeyFacts DEF Led
      <4>3. h.s[j].key # k /\ OwnerOf(h.s[j].key) # o
        BY <1>2, <4>2
      <4> QED BY <1>6, <1>7, <1>9, <4>1, <4>2, <4>3
    <3> QED BY <3>1, <3>2
  <2>2. ASSUME NEW q \in Keys, g.byKey[q] # None
        PROVE  g.s[g.byKey[q]].key = q /\ ~g.s[g.byKey[q]].evicted
    <3>1. CASE q = k
      BY <1>4, <1>5, <1>6, <1>9, <3>1
    <3>2. CASE q # k
      <4>1. g.byKey[q] = h.byKey[q] /\ h.byKey[q] \in Sessions
        BY <1>1, <1>6, <1>9, <2>2, <3>2
      <4>2. h.s[h.byKey[q]].key = q /\ ~h.s[h.byKey[q]].evicted /\ q # None
        BY <1>1, <1>2, <2>2, <4>1 DEF Led
      <4> QED BY <1>3, <1>10, <4>1, <4>2
    <3> QED BY <3>1, <3>2
  <2>3. ASSUME NEW q \in OwnerKeys, g.byOwner[q] # None
        PROVE  /\ g.s[g.byOwner[q]].key \in Keys /\ OwnerOf(g.s[g.byOwner[q]].key) = q
               /\ ~g.s[g.byOwner[q]].evicted
    <3>1. CASE q = o
      BY <1>4, <1>5, <1>7, <1>9, <3>1
    <3>2. CASE q # o
      <4>1. g.byOwner[q] = h.byOwner[q] /\ h.byOwner[q] \in Sessions
        BY <1>1, <1>7, <1>9, <2>3, <3>2
      <4>2. /\ h.s[h.byOwner[q]].key \in Keys /\ OwnerOf(h.s[h.byOwner[q]].key) = q
            /\ ~h.s[h.byOwner[q]].evicted
        BY <1>1, <2>3, <4>1 DEF Led
      <4> QED BY <1>2, <1>3, <1>10, <4>1, <4>2
    <3> QED BY <3>1, <3>2
  <2> QED BY <2>1, <2>2, <2>3 DEF Led
<1>12. \A j \in Sessions : Sane(g.s[j])
  BY <1>1, <1>4, <1>5, <1>9
<1> QED BY <1>3, <1>5, <1>9, <1>10, <1>11, <1>12 DEF Sound

-----------------------------------------------------------------------------
(* The invariant.                                                          *)

WaitingIn(q, i) == {r \in Clients : q[r].pc = "wait" /\ q[r].session = i}

(* Every request is at a session that exists, and is counted there.        *)
Counted ==
  /\ \A r \in Clients : req[r].pc \in {"wait", "drop"} =>
       req[r].session \in Sessions /\ hls.s[req[r].session].key # None
  /\ \A r \in Clients : req[r].pc = "admit" => req[r].key \in Keys
  /\ \A i \in left : hls.s[i].key # None
  /\ \A i \in Sessions : hls.s[i].waiters = Cardinality(WaitingIn(req, i))

HlsInv == HlsTypeOK /\ Sound(hls) /\ Counted /\ CapacityBounded /\ PermitsCoverWork

(* Work that goes on went on before.                                       *)
LEMMA CapacityKept ==
  ASSUME HlsInv, NEW h, \A i \in Sessions : h.s[i].key = hls.s[i].key,
         \A i \in Sessions : HasWork(h.s[i]) => HasWork(hls.s[i])
  PROVE  /\ Cardinality(AtWork(h)) <= MaxActive
         /\ \A a \in DOMAIN started : Cardinality(OfAccount(h, AtWork(h), a)) <= MaxAccount
<1>1. \A i : i \in AtWork(h) <=> i \in Sessions /\ HasWork(h.s[i])
  BY AtWorkFacts
<1>2. \A i : i \in AtWork(hls) <=> i \in Sessions /\ HasWork(hls.s[i])
  BY AtWorkFacts
<1>3. AtWork(h) \subseteq AtWork(hls) /\ AtWork(hls) \subseteq Sessions /\ AtWork(h) \subseteq Sessions
  BY <1>1, <1>2
<1>4. \A a : OfAccount(h, AtWork(h), a) \subseteq OfAccount(hls, AtWork(hls), a)
             /\ OfAccount(hls, AtWork(hls), a) \subseteq Sessions
             /\ OfAccount(h, AtWork(h), a) \subseteq Sessions
  BY <1>3 DEF OfAccount
<1>5. /\ Cardinality(AtWork(h)) <= Cardinality(AtWork(hls))
      /\ Cardinality(AtWork(h)) \in Nat /\ Cardinality(AtWork(hls)) \in Nat
  BY <1>3, CardFacts
<1>6. \A a : /\ Cardinality(OfAccount(h, AtWork(h), a)) <= Cardinality(OfAccount(hls, AtWork(hls), a))
             /\ Cardinality(OfAccount(h, AtWork(h), a)) \in Nat
             /\ Cardinality(OfAccount(hls, AtWork(hls), a)) \in Nat
  BY <1>4, CardFacts
<1> QED BY <1>5, <1>6, HlsAssumption DEF HlsInv, CapacityBounded

LEMMA StartAgain == HlsInit => HlsInv
<1> SUFFICES ASSUME HlsInit PROVE HlsInv
  OBVIOUS
<1> DEFINE blank == [i \in Sessions |-> Unused]
           bk == [k \in Keys |-> None]
           bo == [o \in OwnerKeys |-> None]
<1>1. hls = [s |-> blank, byKey |-> bk, byOwner |-> bo] /\ left = {}
      /\ req = [r \in Clients |-> NoRequest]
      /\ started = [a \in {Account[o] : o \in OwnerKeys} |-> 0]
  BY DEF HlsInit
<1>2. Unused \in Session /\ Sane(Unused) /\ Unused.key = None /\ Unused.waiters = 0 /\ ~HasWork(Unused)
  BY DEF Unused, Session, Sane, HasWork
<1>3. /\ blank \in [Sessions -> Session] /\ bk \in [Keys -> Sessions \union {None}]
      /\ bo \in [OwnerKeys -> Sessions \union {None}]
      /\ (\A i \in Sessions : blank[i] = Unused) /\ (\A k \in Keys : bk[k] = None)
      /\ \A o \in OwnerKeys : bo[o] = None
  BY <1>2
<1> HIDE DEF blank, bk, bo
<1>4. hls \in Transports /\ hls.s = blank /\ hls.byKey = bk /\ hls.byOwner = bo
  BY <1>1, <1>3 DEF Transports
<1>5. Sound(hls)
  BY <1>2, <1>3, <1>4 DEF Sound, Led
<1>6. /\ \A r \in Clients : req[r] = NoRequest
      /\ req \in [Clients -> [pc : {"off", "admit", "wait", "drop"}, key : Keys \union {None},
                          session : Sessions \union {None}, gone : BOOLEAN]]
  BY <1>1 DEF NoRequest
<1>7. HlsTypeOK
  BY <1>1, <1>4, <1>6 DEF HlsTypeOK, Transports
<1>8. AtWork(hls) = {} /\ \A a : OfAccount(hls, AtWork(hls), a) = {}
  <2>1. \A i : i \in AtWork(hls) <=> i \in Sessions /\ HasWork(hls.s[i])
    BY AtWorkFacts
  <2>2. AtWork(hls) = {}
    BY <1>2, <1>3, <1>4, <2>1
  <2> QED BY <2>2 DEF OfAccount
<1>9. CapacityBounded
  BY <1>8, FS_EmptySet, HlsAssumption DEF CapacityBounded
<1>10. \A i \in Sessions : WaitingIn(req, i) = {}
  BY <1>6 DEF WaitingIn, NoRequest
<1>11. Counted
  BY <1>1, <1>2, <1>3, <1>4, <1>6, <1>10, FS_EmptySet DEF Counted, NoRequest
<1>12. PermitsCoverWork
  BY <1>1 DEF PermitsCoverWork
<1> QED BY <1>5, <1>7, <1>9, <1>11, <1>12 DEF HlsInv

(* A session that exists has stopped when it is not working.               *)
LEMMA StoppedFacts ==
  ASSUME HlsTypeOK
  PROVE  \A i \in Sessions : hls.s[i].key # None => (Stopped(i) <=> ~HasWork(hls.s[i]))
  BY DEF HlsTypeOK, Session, Stopped, HasWork

(* Whoever has a permit for a dropped session keeps it until that stops.   *)
LEMMA PermitsKept ==
  ASSUME HlsInv, NEW h, h = hls', Sound(h),
         \A i \in left' : i \in left \/ \E r \in Clients : req'[r].pc = "drop" /\ req'[r].session = i,
         \A i \in Sessions : hls.s[i].key # None => h.s[i].key = hls.s[i].key,
         \A i \in Sessions : hls.s[i].key # None /\ HasWork(h.s[i]) => HasWork(hls.s[i]),
         \A r \in Clients : req[r].pc = "drop" => req'[r] = req[r] \/ Stopped(req[r].session)
  PROVE  PermitsCoverWork'
<1>1. HlsTypeOK /\ Counted /\ PermitsCoverWork /\ left \subseteq Sessions
  BY DEF HlsInv, HlsTypeOK
<1>2. ASSUME NEW i \in left, ~Stopped(i)'
      PROVE  \E r \in Clients : req'[r].pc = "drop" /\ req'[r].session = i
  <2>1. h.s \in [Sessions -> Session] /\ i \in Sessions /\ hls.s[i].key # None
    BY <1>1 DEF Sound, Transports, Counted
  <2>2. HasWork(h.s[i])
    BY <1>2, <2>1 DEF Stopped, HasWork, Session
  <2>3. ~Stopped(i)
    BY <1>1, <2>1, <2>2, StoppedFacts
  <2>4. PICK r \in Clients : req[r].pc = "drop" /\ req[r].session = i
    BY <1>1, <2>3 DEF PermitsCoverWork
  <2>5. req'[r] = req[r]
    BY <2>3, <2>4
  <2> QED BY <2>4, <2>5
<1>3. \A i \in left' : ~Stopped(i)' => \E r \in Clients : req'[r].pc = "drop" /\ req'[r].session = i
  BY <1>2
<1> QED BY <1>3 DEF PermitsCoverWork

(* A step of the sessions alone: they keep who waits for them, and no work *)
(* begins.                                                                 *)
LEMMA SessionsStep ==
  ASSUME HlsInv, NEW h, h = hls', Sound(h), req' = req, left' = left,
         started' \in [{Account[o] : o \in OwnerKeys} -> Nat],
         \A i \in Sessions : h.s[i].key = hls.s[i].key /\ h.s[i].waiters = hls.s[i].waiters,
         \A i \in Sessions : HasWork(h.s[i]) => HasWork(hls.s[i])
  PROVE  HlsInv'
<1>1. HlsTypeOK /\ Counted /\ DOMAIN started = DOMAIN started'
  BY DEF HlsInv, HlsTypeOK
<1>2. HlsTypeOK'
  BY <1>1 DEF HlsTypeOK, Sound, Transports
<1>3. \A i \in Sessions : WaitingIn(req', i) = WaitingIn(req, i)
  BY DEF WaitingIn
<1>4. Counted'
  BY <1>1, <1>3 DEF Counted, HlsTypeOK
<1>5. CapacityBounded'
  BY <1>1, CapacityKept DEF CapacityBounded
<1>6. PermitsCoverWork'
  BY PermitsKept
<1> QED BY <1>2, <1>4, <1>5, <1>6 DEF HlsInv

(* Who waits where, when the request r changes.                            *)
Asking == [pc : {"off", "admit", "wait", "drop"}, key : Keys \union {None},
            session : Sessions \union {None}, gone : BOOLEAN]
Turns(r, q) == req' = [req EXCEPT ![r] = q]
Tally(q, i) == IF q.pc = "wait" /\ q.session = i THEN 1 ELSE 0

LEMMA TallyKept ==
  ASSUME HlsInv, NEW r \in Clients, NEW q \in Asking, Turns(r, q)
  PROVE  /\ req' \in [Clients -> Asking] /\ req'[r] = q
         /\ \A p \in Clients : p # r => req'[p] = req[p]
         /\ \A i \in Sessions : /\ IsFiniteSet(WaitingIn(req, i)) /\ Cardinality(WaitingIn(req, i)) \in Nat
              /\ Cardinality(WaitingIn(req', i)) = Cardinality(WaitingIn(req, i)) + Tally(q, i) - Tally(req[r], i)
<1>1. req \in [Clients -> Asking]
  BY DEF HlsInv, HlsTypeOK, Asking
<1>2. req' \in [Clients -> Asking] /\ req'[r] = q /\ \A p \in Clients : p # r => req'[p] = req[p]
  BY <1>1 DEF Turns
<1>3. ASSUME NEW i \in Sessions
      PROVE  /\ IsFiniteSet(WaitingIn(req, i)) /\ Cardinality(WaitingIn(req, i)) \in Nat
             /\ Cardinality(WaitingIn(req', i)) = Cardinality(WaitingIn(req, i)) + Tally(q, i) - Tally(req[r], i)
  <2> DEFINE W == WaitingIn(req, i)
             V == WaitingIn(req', i)
             U == W \ {r}
  <2>1. W \subseteq Clients /\ V \subseteq Clients
    BY DEF WaitingIn
  <2>2. IsFiniteSet(W) /\ IsFiniteSet(V) /\ IsFiniteSet(U)
    BY <2>1, HlsAssumption, FS_Subset
  <2>3. V \ {r} = U
    BY <1>2 DEF WaitingIn
  <2>4. /\ r \in W <=> req[r].pc = "wait" /\ req[r].session = i
        /\ r \in V <=> q.pc = "wait" /\ q.session = i
    BY <1>2 DEF WaitingIn
  <2>5. Cardinality(W) \in Nat /\ Cardinality(V) \in Nat /\ Cardinality(U) \in Nat
    BY <2>2, FS_CardinalityType
  <2>6. Cardinality(U) = IF r \in W THEN Cardinality(W) - 1 ELSE Cardinality(W)
    BY <2>2, FS_RemoveElement
  <2>7. Cardinality(U) = IF r \in V THEN Cardinality(V) - 1 ELSE Cardinality(V)
    <3>1. Cardinality(V \ {r}) = IF r \in V THEN Cardinality(V) - 1 ELSE Cardinality(V)
      BY <2>2, FS_RemoveElement
    <3> HIDE DEF U, V
    <3> QED BY <2>3, <3>1
  <2> HIDE DEF W, V, U
  <2>8. /\ Tally(q, i) = IF r \in V THEN 1 ELSE 0
        /\ Tally(req[r], i) = IF r \in W THEN 1 ELSE 0
    BY <2>4 DEF Tally
  <2>9. Cardinality(V) = Cardinality(W) + Tally(q, i) - Tally(req[r], i)
    BY <2>5, <2>6, <2>7, <2>8
  <2> QED BY <2>2, <2>5, <2>9 DEF W, V
<1> QED BY <1>2, <1>3

(* A step of the request r.                                                *)
LEMMA RequestStep ==
  ASSUME HlsInv, NEW h, h = hls', Sound(h), CapacityBounded',
         started' \in [{Account[o] : o \in OwnerKeys} -> Nat],
         \A i \in Sessions : hls.s[i].key # None => h.s[i].key = hls.s[i].key,
         \A i \in Sessions : hls.s[i].key # None /\ HasWork(h.s[i]) => HasWork(hls.s[i]),
         NEW r \in Clients, NEW q \in Asking, Turns(r, q),
         left' \subseteq left \union {i \in Sessions : q.pc = "drop" /\ q.session = i},
         req[r].pc = "drop" => Stopped(req[r].session),
         q.pc \in {"wait", "drop"} => q.session \in Sessions /\ h.s[q.session].key # None,
         q.pc = "admit" => q.key \in Keys,
         \A i \in Sessions : h.s[i].waiters = hls.s[i].waiters + Tally(q, i) - Tally(req[r], i)
  PROVE  HlsInv'
<1>1. HlsTypeOK /\ Counted
  BY DEF HlsInv
<1>2. /\ req' \in [Clients -> Asking] /\ req'[r] = q
      /\ \A p \in Clients : p # r => req'[p] = req[p]
      /\ \A i \in Sessions : /\ Cardinality(WaitingIn(req, i)) \in Nat
              /\ Cardinality(WaitingIn(req', i)) = Cardinality(WaitingIn(req, i)) + Tally(q, i) - Tally(req[r], i)
  BY TallyKept
<1>3. HlsTypeOK'
  BY <1>1, <1>2 DEF HlsTypeOK, Sound, Transports, Asking
<1>4. Counted'
  <2>1. \A i \in Sessions : h.s[i].waiters = Cardinality(WaitingIn(req', i))
    BY <1>1, <1>2 DEF Counted
  <2>2. \A p \in Clients : req'[p].pc \in {"wait", "drop"} =>
          req'[p].session \in Sessions /\ h.s[req'[p].session].key # None
    <3>1. \A i \in Sessions : hls.s[i].key # None => h.s[i].key # None
      OBVIOUS
    <3> QED BY <1>1, <1>2, <3>1 DEF Counted
  <2>3. \A p \in Clients : req'[p].pc = "admit" => req'[p].key \in Keys
    BY <1>1, <1>2 DEF Counted
  <2>4. \A i \in left' : h.s[i].key # None
    BY <1>1 DEF Counted, HlsTypeOK
  <2> QED BY <2>1, <2>2, <2>3, <2>4 DEF Counted
<1>5. \A p \in Clients : req[p].pc = "drop" => req'[p] = req[p] \/ Stopped(req[p].session)
  BY <1>2
<1>6. \A i \in left' : i \in left \/ \E p \in Clients : req'[p].pc = "drop" /\ req'[p].session = i
  BY <1>2
<1>7. PermitsCoverWork'
  BY <1>5, <1>6, PermitsKept
<1> QED BY <1>3, <1>4, <1>7 DEF HlsInv

-----------------------------------------------------------------------------
(* The steps of the sessions.                                              *)

(* One session s of hls goes on as t.                                      *)
Onwards(s, t) ==
  /\ t \in Session /\ Sane(t) /\ t.key = s.key /\ t.waiters = s.waiters
  /\ HasWork(t) => HasWork(s)

LEMMA BecomesStep ==
  ASSUME HlsInv, NEW i \in Sessions, hls.s[i].key # None, NEW t, Onwards(hls.s[i], t),
         ~t.evicted => ~hls.s[i].evicted, hls' = Becomes(hls, i, t),
         req' = req, left' = left, started' = started
  PROVE  HlsInv'
<1> DEFINE h == Becomes(hls, i, t)
<1>1. Sound(hls) /\ HlsTypeOK
  BY DEF HlsInv
<1>2. Sound(h) /\ h.s[i] = t /\ \A j \in Sessions : j # i => h.s[j] = hls.s[j]
  BY <1>1, BecomesSound DEF Onwards
<1> HIDE DEF h
<1>3. h = hls'
  BY DEF h
<1>4. started' \in [{Account[o] : o \in OwnerKeys} -> Nat]
  BY <1>1 DEF HlsTypeOK
<1>5. /\ \A j \in Sessions : h.s[j].key = hls.s[j].key /\ h.s[j].waiters = hls.s[j].waiters
      /\ \A j \in Sessions : HasWork(h.s[j]) => HasWork(hls.s[j])
  BY <1>2 DEF Onwards
<1> QED BY <1>2, <1>3, <1>4, <1>5, SessionsStep

LEMMA UpdateStep ==
  ASSUME HlsInv, NEW i \in Sessions, NEW t, Onwards(hls.s[i], t),
         t.evicted = hls.s[i].evicted, hls' = Put(hls, i, t),
         req' = req, left' = left, started' = started
  PROVE  HlsInv'
<1>1. Sound(hls) /\ HlsTypeOK
  BY DEF HlsInv
<1> DEFINE h == Put(hls, i, t)
<1>2. Sound(h) /\ h.s[i] = t /\ \A j \in Sessions : j # i => h.s[j] = hls.s[j]
  BY <1>1, UpdateSound DEF Onwards
<1> HIDE DEF h
<1>3. h = hls'
  BY DEF h
<1>4. started' \in [{Account[o] : o \in OwnerKeys} -> Nat]
  BY <1>1 DEF HlsTypeOK
<1>5. /\ \A j \in Sessions : h.s[j].key = hls.s[j].key /\ h.s[j].waiters = hls.s[j].waiters
      /\ \A j \in Sessions : HasWork(h.s[j]) => HasWork(hls.s[j])
  BY <1>2 DEF Onwards
<1> QED BY <1>2, <1>3, <1>4, <1>5, SessionsStep

LEMMA InvFacts ==
  ASSUME HlsInv
  PROVE  /\ Sound(hls) /\ Counted /\ HlsTypeOK /\ hls \in Transports
         /\ hls.s \in [Sessions -> Session] /\ req \in [Clients -> Asking]
         /\ started \in [{Account[o] : o \in OwnerKeys} -> Nat]
         /\ \A i \in Sessions : hls.s[i] \in Session /\ Sane(hls.s[i])
         /\ \A i \in Sessions : hls.s[i].key = None => hls.s[i] = Unused
  BY DEF HlsInv, Sound, Transports, HlsTypeOK, Asking, Sane

(* The preparation fails, and the session is aborted.                      *)
LEMMA PrepFailsStep ==
  ASSUME HlsInv, NEW i \in Sessions, hls.s[i].prep \in {"source", "poll"}, PrepFails(i),
         req' = req, left' = left, started' = started
  PROVE  HlsInv'
<1> DEFINE s == hls.s[i]
           u == [s EXCEPT !.prep = "over"]
           t == Aborted(u)
<1>1. /\ s \in Session /\ Sane(s) /\ s.key # None
  BY InvFacts DEF Unused
<1>2. /\ u \in Session /\ u.key = s.key /\ u.prep = "over" /\ u.run = s.run /\ u.waiters = s.waiters
      /\ u.evicted = s.evicted /\ u.readiness = s.readiness /\ u.error = s.error
  BY <1>1 DEF Session
<1>3. hls' = Becomes(hls, i, t)
  BY DEF PrepFails
<1> HIDE DEF u
<1>4. /\ t \in Session /\ Alike(u, t)
      /\ u.readiness = "pending" => t.evicted /\ t.readiness = "no"
      /\ u.readiness # "pending" => t.evicted = u.evicted /\ t.readiness = u.readiness /\ t.error = u.error
  BY <1>2, AbortedFacts
<1> HIDE DEF t
<1>5. Sane(t) /\ t.key = s.key /\ t.waiters = s.waiters /\ (HasWork(t) => HasWork(s))
      /\ (~t.evicted => ~s.evicted)
  BY <1>1, <1>2, <1>4 DEF Sane, Alike, HasWork
<1> QED BY <1>1, <1>3, <1>4, <1>5, BecomesStep DEF Onwards

LEMMA SourceReadyStep ==
  ASSUME HlsInv, NEW i \in Sessions, SourceReady(i)
  PROVE  HlsInv'
<1>1. hls.s[i].prep = "source" /\ req' = req /\ left' = left /\ started' = started
      /\ (PrepFails(i) \/ hls' = [hls EXCEPT !.s[i].prep = "poll", !.s[i].run = "on"])
  BY DEF SourceReady
<1>2. CASE PrepFails(i)
  BY <1>1, <1>2, PrepFailsStep
<1>3. CASE hls' = [hls EXCEPT !.s[i].prep = "poll", !.s[i].run = "on"]
  <2> DEFINE s == hls.s[i]
             t == [s EXCEPT !.prep = "poll", !.run = "on"]
  <2>1. s \in Session /\ Sane(s) /\ s.key # None /\ hls \in Transports /\ hls.s \in [Sessions -> Session]
    BY <1>1, InvFacts DEF Unused
  <2>2. hls' = Put(hls, i, t)
    BY <1>3, <2>1 DEF Put, Transports
  <2>3. /\ t \in Session /\ t.key = s.key /\ t.prep = "poll" /\ t.run = "on" /\ t.waiters = s.waiters
        /\ t.evicted = s.evicted /\ t.readiness = s.readiness /\ t.error = s.error
    BY <2>1 DEF Session
  <2> HIDE DEF t
  <2>4. Onwards(s, t)
    BY <1>1, <2>1, <2>3 DEF Onwards, Sane, HasWork
  <2> QED BY <1>1, <2>2, <2>3, <2>4, UpdateStep
<1> QED BY <1>1, <1>2, <1>3

LEMMA PollStep ==
  ASSUME HlsInv, NEW i \in Sessions, Poll(i)
  PROVE  HlsInv'
<1>1. hls.s[i].prep = "poll" /\ req' = req /\ left' = left /\ started' = started
      /\ \/ PrepFails(i)
         \/ ~hls.s[i].error
            /\ hls' = [hls EXCEPT !.s[i].prep = "over",
                         !.s[i].readiness = IF @ = "pending" THEN "ok" ELSE @]
  BY DEF Poll
<1>2. CASE PrepFails(i)
  BY <1>1, <1>2, PrepFailsStep
<1>3. CASE ~hls.s[i].error
           /\ hls' = [hls EXCEPT !.s[i].prep = "over",
                        !.s[i].readiness = IF @ = "pending" THEN "ok" ELSE @]
  <2> DEFINE s == hls.s[i]
             n == IF s.readiness = "pending" THEN "ok" ELSE s.readiness
             t == [s EXCEPT !.prep = "over", !.readiness = n]
  <2>1. s \in Session /\ Sane(s) /\ s.key # None /\ hls \in Transports /\ hls.s \in [Sessions -> Session]
    BY <1>1, InvFacts DEF Unused
  <2>2. hls' = Put(hls, i, t)
    BY <1>3, <2>1 DEF Put, Transports, Session
  <2>3. /\ t \in Session /\ t.key = s.key /\ t.prep = "over" /\ t.run = s.run /\ t.waiters = s.waiters
        /\ t.evicted = s.evicted /\ t.readiness # "pending" /\ t.error = s.error
    BY <2>1 DEF Session
  <2> HIDE DEF t
  <2>4. Onwards(s, t)
    BY <1>1, <2>1, <2>3 DEF Onwards, Sane, HasWork
  <2> QED BY <1>1, <2>2, <2>3, <2>4, UpdateStep
<1> QED BY <1>1, <1>2, <1>3

LEMMA TimeoutStep ==
  ASSUME HlsInv, NEW i \in Sessions, Timeout(i)
  PROVE  HlsInv'
<1> DEFINE s == hls.s[i]
           t == Aborted(s)
<1>1. hls' = Becomes(hls, i, t) /\ s.key # None /\ req' = req /\ left' = left /\ started' = started
      /\ s.readiness = "pending"
  BY DEF Timeout, Used
<1>2. s \in Session /\ Sane(s)
  BY InvFacts
<1>3. t \in Session /\ Alike(s, t) /\ t.evicted /\ t.readiness = "no"
  BY <1>1, <1>2, AbortedFacts
<1> HIDE DEF t
<1>4. Onwards(s, t)
  BY <1>1, <1>2, <1>3 DEF Onwards, Sane, Alike, HasWork
<1> QED BY <1>1, <1>3, <1>4, BecomesStep

LEMMA EncoderFailsStep ==
  ASSUME HlsInv, NEW i \in Sessions, EncoderFails(i)
  PROVE  HlsInv'
<1> DEFINE s == hls.s[i]
           u == [s EXCEPT !.run = "failing", !.error = TRUE]
           t == Aborted(u)
<1>1. hls' = Becomes(hls, i, t) /\ s.run = "on" /\ req' = req /\ left' = left /\ started' = started
  BY DEF EncoderFails
<1>2. s \in Session /\ Sane(s) /\ s.key # None
  BY <1>1, InvFacts DEF Unused
<1>3. /\ u \in Session /\ u.key = s.key /\ u.prep = s.prep /\ u.run = "failing" /\ u.waiters = s.waiters
      /\ u.evicted = s.evicted /\ u.readiness = s.readiness
  BY <1>2 DEF Session
<1> HIDE DEF u
<1>4. /\ t \in Session /\ Alike(u, t)
      /\ u.readiness = "pending" => t.evicted /\ t.readiness = "no"
      /\ u.readiness # "pending" => t.evicted = u.evicted /\ t.readiness = u.readiness
  BY <1>3, AbortedFacts
<1> HIDE DEF t
<1>5. Onwards(s, t) /\ (~t.evicted => ~s.evicted)
  BY <1>1, <1>2, <1>3, <1>4 DEF Onwards, Sane, Alike, HasWork
<1> QED BY <1>1, <1>2, <1>5, BecomesStep

(* The encoder is through, or its failure has settled.                     *)
LEMMA EncoderOverStep ==
  ASSUME HlsInv, NEW i \in Sessions, EncoderEnds(i) \/ EncoderSettles(i)
  PROVE  HlsInv'
<1> DEFINE s == hls.s[i]
           t == [s EXCEPT !.run = "over", !.running = FALSE]
<1>1. hls' = [hls EXCEPT !.s[i].run = "over", !.s[i].running = FALSE]
      /\ s.run \in {"on", "failing"} /\ req' = req /\ left' = left /\ started' = started
  BY DEF EncoderEnds, EncoderSettles
<1>2. s \in Session /\ Sane(s) /\ s.key # None /\ hls \in Transports /\ hls.s \in [Sessions -> Session]
  BY <1>1, InvFacts DEF Unused
<1>3. hls' = Put(hls, i, t)
  BY <1>1, <1>2 DEF Put, Transports
<1>4. /\ t \in Session /\ t.key = s.key /\ t.prep = s.prep /\ t.run = "over" /\ t.waiters = s.waiters
      /\ t.evicted = s.evicted /\ t.readiness = s.readiness /\ t.error = s.error
  BY <1>2 DEF Session
<1> HIDE DEF t
<1>5. Onwards(s, t)
  BY <1>1, <1>2, <1>4 DEF Onwards, Sane, HasWork
<1> QED BY <1>1, <1>3, <1>4, <1>5, UpdateStep

LEMMA WindowStep ==
  ASSUME HlsInv, NEW a \in DOMAIN started, Window(a)
  PROVE  HlsInv'
<1>1. started[a] > 0 /\ started' = [started EXCEPT ![a] = @ - 1] /\ hls' = hls /\ req' = req /\ left' = left
  BY DEF Window
<1>2. Sound(hls) /\ started \in [{Account[o] : o \in OwnerKeys} -> Nat]
  BY InvFacts
<1>3. started' \in [{Account[o] : o \in OwnerKeys} -> Nat]
  BY <1>1, <1>2
<1>4. Sound(hls') /\ \A i \in Sessions : hls'.s[i] = hls.s[i]
  BY <1>1, <1>2
<1> QED BY <1>1, <1>3, <1>4, SessionsStep

LEMMA MaintainStep ==
  ASSUME HlsInv, Maintain
  PROVE  HlsInv'
<1>1. PICK S : S \subseteq Mapped(hls) /\ hls' = Evict(hls, S)
  BY DEF Maintain
<1>2. req' = req /\ left' = left /\ started' = started
  BY DEF Maintain
<1>3. Sound(hls) /\ started \in [{Account[o] : o \in OwnerKeys} -> Nat]
      /\ \A i \in Sessions : i \in S => hls.s[i].key # None
  BY <1>1, InvFacts DEF Mapped, Used
<1>4. Sound(Evict(hls, S)) /\ \A i \in Sessions : Alike(hls.s[i], Evict(hls, S).s[i])
  BY <1>3, EvictSound
<1>5. Sound(hls') /\ \A i \in Sessions : Alike(hls.s[i], hls'.s[i])
  BY <1>1, <1>4
<1>6. /\ \A i \in Sessions : hls'.s[i].key = hls.s[i].key /\ hls'.s[i].waiters = hls.s[i].waiters
      /\ \A i \in Sessions : HasWork(hls'.s[i]) => HasWork(hls.s[i])
  BY <1>5 DEF Alike, HasWork
<1> QED BY <1>2, <1>3, <1>5, <1>6, SessionsStep

-----------------------------------------------------------------------------
(* The steps of the requests.                                              *)

LEMMA NoRequestFacts ==
  /\ NoRequest \in Asking /\ NoRequest.pc = "off"
  /\ \A i : Tally(NoRequest, i) = 0
  BY DEF NoRequest, Asking, Tally

(* A request ends, or waits for the gate, and no session changes.          *)
LEMMA RequestAside ==
  ASSUME HlsInv, NEW r \in Clients, NEW q \in Asking, Turns(r, q),
         hls' = hls, left' = left, started' = started,
         req[r].pc # "wait", req[r].pc = "drop" => Stopped(req[r].session),
         q.pc \in {"off", "admit"}, q.pc = "admit" => q.key \in Keys
  PROVE  HlsInv'
<1>1. /\ Sound(hls') /\ started' \in [{Account[o] : o \in OwnerKeys} -> Nat]
      /\ \A i \in Sessions : hls'.s[i] = hls.s[i]
      /\ \A i \in Sessions : hls.s[i].waiters \in Nat
  BY InvFacts DEF Session
<1>2. CapacityBounded'
  BY DEF HlsInv, CapacityBounded
<1>3. \A i \in Sessions : Tally(q, i) = 0 /\ Tally(req[r], i) = 0
  BY DEF Tally
<1>4. \A i \in Sessions : hls'.s[i].waiters = hls.s[i].waiters + Tally(q, i) - Tally(req[r], i)
  BY <1>1, <1>3
<1> QED BY <1>1, <1>2, <1>4, RequestStep

(* A request joins the session i after some evictions.                     *)
LEMMA JoinedStep ==
  ASSUME HlsInv, NEW r \in Clients, NEW q \in Asking, Turns(r, q),
         NEW i \in Sessions, hls.s[i].key # None, hls' = Joined(hls, i),
         left' = left, started' = started,
         req[r].pc \in {"off", "admit"}, q.pc = "wait", q.session = i
  PROVE  HlsInv'
<1> DEFINE s == hls.s[i]
           t == [s EXCEPT !.waiters = @ + 1]
<1>1. s \in Session /\ Sane(s) /\ s.key # None /\ hls \in Transports /\ hls.s \in [Sessions -> Session]
      /\ Sound(hls) /\ started' \in [{Account[o] : o \in OwnerKeys} -> Nat]
      /\ \A j \in Sessions : hls.s[j].waiters \in Nat
  BY InvFacts DEF Session
<1>2. hls' = Put(hls, i, t)
  BY <1>1 DEF Put, Transports, Joined
<1>3. /\ t \in Session /\ t.key = s.key /\ t.prep = s.prep /\ t.run = s.run /\ t.waiters = s.waiters + 1
      /\ t.evicted = s.evicted /\ t.readiness = s.readiness /\ t.error = s.error
  BY <1>1 DEF Session
<1> HIDE DEF t
<1>4. Sane(t) /\ (HasWork(t) <=> HasWork(s))
  BY <1>1, <1>3 DEF Sane, HasWork
<1>5. Sound(hls') /\ hls'.s[i] = t /\ \A j \in Sessions : j # i => hls'.s[j] = hls.s[j]
  BY <1>1, <1>2, <1>3, <1>4, UpdateSound
<1>6. /\ \A j \in Sessions : hls'.s[j].key = hls.s[j].key
      /\ \A j \in Sessions : HasWork(hls'.s[j]) => HasWork(hls.s[j])
  BY <1>3, <1>4, <1>5
<1>7. CapacityBounded'
  BY <1>6, CapacityKept, InvFacts DEF CapacityBounded, HlsTypeOK
<1>8. \A j \in Sessions : Tally(req[r], j) = 0 /\ Tally(q, j) = IF j = i THEN 1 ELSE 0
  BY DEF Tally
<1>9. \A j \in Sessions : hls'.s[j].waiters = hls.s[j].waiters + Tally(q, j) - Tally(req[r], j)
  BY <1>1, <1>3, <1>5, <1>8
<1> QED BY <1>1, <1>5, <1>6, <1>7, <1>9, RequestStep

(* Sessions are evicted and the request ends, or waits for the gate.       *)
LEMMA EvictingStep ==
  ASSUME HlsInv, NEW r \in Clients, NEW q \in Asking, Turns(r, q),
         Sound(hls'), \A i \in Sessions : Alike(hls.s[i], hls'.s[i]),
         left' = left, started' = started,
         req[r].pc \in {"off", "admit"}, q.pc \in {"off", "admit"}, q.pc = "admit" => q.key \in Keys
  PROVE  HlsInv'
<1>1. /\ \A j \in Sessions : hls'.s[j].key = hls.s[j].key /\ hls'.s[j].waiters = hls.s[j].waiters
      /\ \A j \in Sessions : HasWork(hls'.s[j]) => HasWork(hls.s[j])
      /\ \A j \in Sessions : hls.s[j].waiters \in Nat
      /\ started' \in [{Account[o] : o \in OwnerKeys} -> Nat]
  BY InvFacts DEF Alike, HasWork, Session
<1>2. CapacityBounded'
  BY <1>1, CapacityKept, InvFacts DEF CapacityBounded, HlsTypeOK
<1>3. \A i \in Sessions : Tally(q, i) = 0 /\ Tally(req[r], i) = 0
  BY DEF Tally
<1>4. \A i \in Sessions : hls'.s[i].waiters = hls.s[i].waiters + Tally(q, i) - Tally(req[r], i)
  BY <1>1, <1>3
<1> QED BY <1>1, <1>2, <1>4, RequestStep

LEMMA ArriveStep ==
  ASSUME HlsInv, NEW r \in Clients, NEW k \in Keys, Arrive(r, k)
  PROVE  HlsInv'
<1> DEFINE f == Found(hls, k)
           new == [NoRequest EXCEPT !.key = k]
           p == [new EXCEPT !.pc = "admit"]
           q == [new EXCEPT !.pc = "wait", !.session = f.session]
<1>1. /\ req[r].pc = "off" /\ left' = left /\ started' = started
      /\ \/ f.session = None /\ hls' = f.h /\ req' = [req EXCEPT ![r] = p]
         \/ f.session # None /\ hls' = Joined(f.h, f.session) /\ req' = [req EXCEPT ![r] = q]
  BY Zenon DEF Arrive
<1>2. /\ Sound(f.h) /\ f.session \in Sessions \union {None}
      /\ \A i \in Sessions : Alike(hls.s[i], f.h.s[i])
      /\ f.session # None => f.h = hls /\ hls.s[f.session].key = k
  BY FoundSound, InvFacts
<1>3. p \in Asking /\ p.pc = "admit" /\ p.key = k
  BY DEF Asking, NoRequest
<1>4. q \in Asking /\ q.pc = "wait" /\ q.session = f.session
  BY <1>2 DEF Asking, NoRequest
<1> HIDE DEF f, p, q
<1>5. CASE f.session = None
  <2>1. hls' = f.h /\ Turns(r, p)
    BY <1>1, <1>5 DEF Turns
  <2>2. Sound(hls') /\ \A i \in Sessions : Alike(hls.s[i], hls'.s[i])
    BY <1>2, <2>1
  <2> QED BY <1>1, <1>3, <2>1, <2>2, EvictingStep
<1>6. CASE f.session # None
  <2>1. hls' = Joined(hls, f.session) /\ Turns(r, q)
    BY <1>1, <1>2, <1>6 DEF Turns
  <2>2. f.session \in Sessions /\ hls.s[f.session].key # None
    BY <1>2, <1>6, KeyFacts
  <2> QED BY <1>1, <1>4, <2>1, <2>2, JoinedStep
<1> QED BY <1>5, <1>6

LEMMA RefusedStep ==
  ASSUME HlsInv, NEW r \in Clients, Refused(r) \/ Dropped(r)
  PROVE  HlsInv'
<1>1. /\ req[r].pc # "wait" /\ (req[r].pc = "drop" => Stopped(req[r].session))
      /\ Turns(r, NoRequest) /\ hls' = hls /\ left' = left /\ started' = started
  BY DEF Refused, Dropped, Turns, Closed
<1> QED BY <1>1, NoRequestFacts, RequestAside

(* A request that waited for i is gone, and i goes on as t.                *)
LEMMA LeavesStep ==
  ASSUME HlsInv, NEW r \in Clients, req[r].pc = "wait", NEW i, i = req[r].session,
         NEW t, t = [hls.s[i] EXCEPT !.waiters = @ - 1]
  PROVE  /\ i \in Sessions /\ hls.s[i].key # None
         /\ t \in Session /\ Sane(t) /\ t.prep = hls.s[i].prep /\ t.run = hls.s[i].run
         /\ t.waiters = hls.s[i].waiters - 1 /\ t.readiness = hls.s[i].readiness
         /\ t.evicted = hls.s[i].evicted /\ (HasWork(t) <=> HasWork(hls.s[i]))
         /\ t.key = hls.s[i].key
<1>1. i \in Sessions /\ hls.s[i].key # None
  BY InvFacts DEF Counted
<1>2. r \in WaitingIn(req, i)
  BY DEF WaitingIn
<1>3. IsFiniteSet(WaitingIn(req, i))
  BY HlsAssumption, FS_Subset DEF WaitingIn
<1>4. Cardinality(WaitingIn(req, i)) \in Nat /\ Cardinality(WaitingIn(req, i)) # 0
  BY <1>2, <1>3, FS_CardinalityType, FS_EmptySet
<1>5. hls.s[i].waiters \in Nat /\ hls.s[i].waiters > 0
  BY <1>1, <1>4, InvFacts DEF Counted
<1> DEFINE s == hls.s[i]
<1>6. s \in Session /\ Sane(s)
  BY <1>1, InvFacts
<1>7. /\ t \in Session /\ t.key = s.key /\ t.prep = s.prep /\ t.run = s.run /\ t.waiters = s.waiters - 1
      /\ t.evicted = s.evicted /\ t.readiness = s.readiness /\ t.error = s.error
  BY <1>5, <1>6 DEF Session
<1>8. s # Unused
  BY <1>1 DEF Unused
<1> QED BY <1>1, <1>6, <1>7, <1>8 DEF Sane, HasWork, Alike, Session

LEMMA AnswerStep ==
  ASSUME HlsInv, NEW r \in Clients, Answer(r)
  PROVE  HlsInv'
<1> DEFINE i == req[r].session
           t == [hls.s[i] EXCEPT !.waiters = @ - 1]
<1>1. /\ req[r].pc = "wait" /\ Turns(r, NoRequest) /\ left' = left /\ started' = started
      /\ hls' = [hls EXCEPT !.s[i].waiters = @ - 1]
  BY DEF Answer, Turns, Closed
<1>2. /\ hls \in Transports /\ hls.s \in [Sessions -> Session] /\ Sound(hls)
      /\ started' \in [{Account[o] : o \in OwnerKeys} -> Nat]
      /\ \A j \in Sessions : hls.s[j].waiters \in Nat
  BY <1>1, InvFacts DEF Session
<1>3. /\ i \in Sessions /\ t \in Session /\ Sane(t) /\ t.waiters = hls.s[i].waiters - 1
      /\ t.evicted = hls.s[i].evicted /\ (HasWork(t) <=> HasWork(hls.s[i]))
      /\ t.key = hls.s[i].key
  BY <1>1, LeavesStep
<1>4. hls' = Put(hls, i, t)
  BY <1>1, <1>2, <1>3 DEF Put, Transports
<1> HIDE DEF t
<1>5. Sound(hls') /\ hls'.s[i] = t /\ \A j \in Sessions : j # i => hls'.s[j] = hls.s[j]
  BY <1>2, <1>3, <1>4, UpdateSound
<1>6. /\ \A j \in Sessions : hls'.s[j].key = hls.s[j].key
      /\ \A j \in Sessions : HasWork(hls'.s[j]) => HasWork(hls.s[j])
  BY <1>3, <1>5
<1>7. CapacityBounded'
  BY <1>1, <1>6, CapacityKept, InvFacts DEF CapacityBounded, HlsTypeOK
<1>8. \A j \in Sessions : Tally(NoRequest, j) = 0 /\ Tally(req[r], j) = IF j = i THEN 1 ELSE 0
  BY <1>1, NoRequestFacts DEF Tally
<1>9. \A j \in Sessions : hls'.s[j].waiters = hls.s[j].waiters + Tally(NoRequest, j) - Tally(req[r], j)
  BY <1>2, <1>3, <1>5, <1>8
<1> QED BY <1>1, <1>2, <1>5, <1>6, <1>7, <1>9, RequestStep, NoRequestFacts

LEMMA DisconnectStep ==
  ASSUME HlsInv, NEW r \in Clients, Disconnect(r)
  PROVE  HlsInv'
<1> DEFINE i == req[r].session
           t == [hls.s[i] EXCEPT !.waiters = @ - 1]
           g == [hls EXCEPT !.s[i].waiters = @ - 1]
<1>1. /\ started' = started
      /\ \/ /\ req[r].pc = "admit"
            /\ req' = [req EXCEPT ![r].gone = TRUE] /\ hls' = hls /\ left' = left
         \/ /\ req[r].pc = "wait"
            /\ \/ /\ Abandoned(g, i) /\ hls' = Evict(g, {i}) /\ left' = left \union {i}
                  /\ req' = [req EXCEPT ![r] = Holds(g, i)]
               \/ /\ ~Abandoned(g, i) /\ hls' = g /\ req' = Closed(r) /\ left' = left
  BY Zenon DEF Disconnect
<1>2. /\ hls \in Transports /\ hls.s \in [Sessions -> Session] /\ Sound(hls) /\ Counted
      /\ started' \in [{Account[o] : o \in OwnerKeys} -> Nat]
      /\ req \in [Clients -> Asking]
      /\ \A j \in Sessions : hls.s[j].waiters \in Nat
  BY <1>1, InvFacts DEF Session
<1>3. CASE req[r].pc = "admit"
  <2> DEFINE q == [req[r] EXCEPT !.gone = TRUE]
  <2>1. q \in Asking /\ q.pc = "admit" /\ q.key \in Keys
    BY <1>2, <1>3 DEF Asking, Counted
  <2>2. Turns(r, q) /\ hls' = hls /\ left' = left
    BY <1>1, <1>3, <1>2 DEF Turns
  <2> HIDE DEF q
  <2> QED BY <1>1, <1>3, <2>1, <2>2, RequestAside
<1>4. ASSUME req[r].pc = "wait"
      PROVE  HlsInv'
  <2>1. /\ i \in Sessions /\ t \in Session /\ Sane(t) /\ t.waiters = hls.s[i].waiters - 1
        /\ t.evicted = hls.s[i].evicted /\ (HasWork(t) <=> HasWork(hls.s[i]))
        /\ t.key = hls.s[i].key /\ hls.s[i].key # None
    BY <1>4, LeavesStep
  <2>2. g = Put(hls, i, t)
    BY <1>2, <2>1 DEF Put, Transports
  <2> HIDE DEF t, g
  <2>3. Sound(g) /\ g.s[i] = t /\ \A j \in Sessions : j # i => g.s[j] = hls.s[j]
    BY <1>2, <2>1, <2>2, UpdateSound
  <2>4. /\ Sound(Evict(g, {i})) /\ \A j \in Sessions : Alike(g.s[j], Evict(g, {i}).s[j])
    <3>1. \A j \in Sessions : j \in {i} => g.s[j].key # None
      BY <2>1, <2>3
    <3> QED BY <2>3, <3>1, EvictSound
  <2>5. Sound(hls') /\ \A j \in Sessions : Alike(g.s[j], hls'.s[j])
    BY <1>1, <1>4, <2>3, <2>4 DEF Alike
  <2>6. /\ \A j \in Sessions : hls'.s[j].key = hls.s[j].key
        /\ \A j \in Sessions : HasWork(hls'.s[j]) => HasWork(hls.s[j])
        /\ \A j \in Sessions : hls'.s[j].waiters =
             IF j = i THEN hls.s[j].waiters - 1 ELSE hls.s[j].waiters
    BY <2>1, <2>3, <2>5 DEF Alike, HasWork
  <2>7. CapacityBounded'
    BY <1>1, <2>6, CapacityKept, InvFacts DEF CapacityBounded, HlsTypeOK
  <2>8. \A j \in Sessions : Tally(req[r], j) = IF j = i THEN 1 ELSE 0
    BY <1>4 DEF Tally
  <2>9. CASE req' = Closed(r) /\ left' = left
    <3>1. Turns(r, NoRequest)
      BY <2>9 DEF Turns, Closed
    <3>2. \A j \in Sessions : hls'.s[j].waiters = hls.s[j].waiters + Tally(NoRequest, j) - Tally(req[r], j)
      BY <1>2, <2>6, <2>8, NoRequestFacts
    <3> QED BY <1>2, <1>4, <2>5, <2>6, <2>7, <2>9, <3>1, <3>2, RequestStep, NoRequestFacts
  <2>10. CASE req' = [req EXCEPT ![r] = Holds(g, i)] /\ left' = left \union {i}
    <3> DEFINE q == Holds(g, i)
    <3>1. q \in Asking /\ q.pc = "drop" /\ q.session = i
      BY <2>1, <2>3 DEF Holds, NoRequest, Asking, Session
    <3>2. Turns(r, q)
      BY <2>10 DEF Turns
    <3> HIDE DEF q
    <3>3. \A j \in Sessions : Tally(q, j) = 0
      BY <3>1 DEF Tally
    <3>4. \A j \in Sessions : hls'.s[j].waiters = hls.s[j].waiters + Tally(q, j) - Tally(req[r], j)
      BY <1>2, <2>6, <2>8, <3>3
    <3>5. left' \subseteq left \union {j \in Sessions : q.pc = "drop" /\ q.session = j}
      BY <2>1, <2>10, <3>1
    <3>6. hls'.s[q.session].key # None
      BY <2>1, <2>6, <3>1
    <3> QED BY <1>2, <1>4, <2>1, <2>5, <2>6, <2>7, <3>1, <3>2, <3>4, <3>5, <3>6, RequestStep
  <2> QED BY <1>1, <1>4, <2>9, <2>10
<1> QED BY <1>1, <1>3, <1>4

LEMMA AdmittedStep ==
  ASSUME HlsInv, NEW r \in Clients, Admitted(r)
  PROVE  HlsInv'
<1> DEFINE k == req[r].key
           f == Found(hls, k)
<1>1. /\ req[r].pc = "admit" /\ left' = left
      /\ \/ req' = Closed(r) /\ hls' = hls /\ started' = started
         \/ /\ f.session # None /\ hls' = Joined(f.h, f.session)
            /\ req' = Waits(r, f.session) /\ started' = started
         \/ /\ f.session = None
            /\ \E a \in Admission(f.h, k) :
                 \/ ~a.ok /\ hls' = a.h /\ req' = Closed(r) /\ started' = started
                 \/ /\ a.ok
                    /\ \E i \in Sessions \ Used(a.h) : hls' = Created(a.h, k, i) /\ req' = Waits(r, i)
                    /\ started' = [started EXCEPT ![AccountOf(k)] = @ + 1]
  BY Zenon DEF Admitted, Again
<1>2. /\ k \in Keys /\ Sound(hls) /\ started \in [{Account[o] : o \in OwnerKeys} -> Nat]
      /\ req \in [Clients -> Asking] /\ \A i \in Sessions : hls.s[i].waiters \in Nat
  BY <1>1, InvFacts DEF Counted, Session
<1>3. /\ Sound(f.h) /\ f.session \in Sessions \union {None}
      /\ \A i \in Sessions : Alike(hls.s[i], f.h.s[i])
      /\ f.session = None => f.h.byKey[k] = None
      /\ f.session # None => f.h = hls /\ hls.s[f.session].key = k
  BY <1>2, FoundSound
<1> HIDE DEF f
<1> DEFINE Wait(i) == [req[r] EXCEPT !.pc = "wait", !.session = i]
<1>4. \A i \in Sessions : Wait(i) \in Asking /\ Wait(i).pc = "wait" /\ Wait(i).session = i
  BY <1>2 DEF Asking
<1>5. \A i : req' = Waits(r, i) => Turns(r, Wait(i))
  BY <1>2 DEF Waits, Turns, Asking
<1>6. req' = Closed(r) => Turns(r, NoRequest)
  BY DEF Closed, Turns
<1> HIDE DEF Wait, k
<1>7. CASE req' = Closed(r) /\ hls' = hls /\ started' = started
  BY <1>1, <1>6, <1>7, NoRequestFacts, RequestAside
<1>8. CASE f.session # None /\ hls' = Joined(f.h, f.session)
           /\ req' = Waits(r, f.session) /\ started' = started
  <2>1. f.session \in Sessions /\ hls' = Joined(hls, f.session) /\ hls.s[f.session].key # None
    BY <1>2, <1>3, <1>8, KeyFacts
  <2> QED BY <1>1, <1>4, <1>5, <1>8, <2>1, JoinedStep
<1>9. ASSUME f.session = None, NEW a \in Admission(f.h, k)
      PROVE  /\ Sound(a.h) /\ \A i \in Sessions : Alike(hls.s[i], a.h.s[i])
             /\ a.ok => /\ a.h.byKey[k] = None /\ a.h.byOwner[OwnerOf(k)] = None
                        /\ Cardinality(AtWork(a.h)) < MaxActive
                        /\ Cardinality(OfAccount(a.h, AtWork(a.h), AccountOf(k))) < MaxAccount
  <2>1. /\ Sound(a.h) /\ \A i \in Sessions : Alike(f.h.s[i], a.h.s[i])
        /\ a.ok => /\ a.h.byKey[k] = None /\ a.h.byOwner[OwnerOf(k)] = None
                   /\ Cardinality(AtWork(a.h)) < MaxActive
                   /\ Cardinality(OfAccount(a.h, AtWork(a.h), AccountOf(k))) < MaxAccount
    BY <1>2, <1>3, <1>9, AdmissionSound
  <2> QED BY <1>3, <2>1 DEF Alike
<1>10. ASSUME f.session = None, NEW a \in Admission(f.h, k),
              hls' = a.h, req' = Closed(r), started' = started
       PROVE  HlsInv'
  BY <1>1, <1>6, <1>9, <1>10, NoRequestFacts, EvictingStep
<1>11. ASSUME f.session = None, NEW a \in Admission(f.h, k), a.ok, NEW i \in Sessions \ Used(a.h),
              hls' = Created(a.h, k, i), req' = Waits(r, i),
              started' = [started EXCEPT ![AccountOf(k)] = @ + 1]
       PROVE  HlsInv'
  <2>1. Sound(a.h) /\ \A j \in Sessions : Alike(hls.s[j], a.h.s[j])
    BY <1>9, <1>11
  <2>2. /\ Sound(hls') /\ \A j \in Sessions : j # i => hls'.s[j] = a.h.s[j]
        /\ a.h.s[i].key = None /\ hls'.s[i] = New(k)
    BY <1>2, <1>9, <1>11, CreatedSound
  <2>3. /\ New(k).key = k /\ New(k).waiters = 1
    BY DEF New, Unused
  <2>4. hls.s[i].key = None /\ hls.s[i].waiters = 0
    BY <2>1, <2>2, InvFacts DEF Alike, Unused
  <2>5. /\ \A j \in Sessions : hls.s[j].key # None => hls'.s[j].key = hls.s[j].key
        /\ \A j \in Sessions : hls.s[j].key # None /\ HasWork(hls'.s[j]) => HasWork(hls.s[j])
        /\ \A j \in Sessions : hls'.s[j].waiters =
             IF j = i THEN hls.s[j].waiters + 1 ELSE hls.s[j].waiters
    BY <2>1, <2>2, <2>3, <2>4 DEF Alike, HasWork
  <2>6. started' \in [{Account[o] : o \in OwnerKeys} -> Nat]
    BY <1>2, <1>11, KeyFacts
  <2>7. \A j \in Sessions : /\ Tally(req[r], j) = 0
                            /\ Tally(Wait(i), j) = IF j = i THEN 1 ELSE 0
    BY <1>1, <1>4, <1>11 DEF Tally
  <2>8. \A j \in Sessions : hls'.s[j].waiters = hls.s[j].waiters + Tally(Wait(i), j) - Tally(req[r], j)
    BY <1>2, <2>5, <2>7
  <2>9. CapacityBounded'
    <3>1. \A j : j \in AtWork(a.h) <=> j \in Sessions /\ HasWork(a.h.s[j])
      BY AtWorkFacts
    <3>2. \A j : j \in AtWork(hls') <=> j \in Sessions /\ HasWork(hls'.s[j])
      BY AtWorkFacts
    <3>3. AtWork(hls') \subseteq AtWork(a.h) \union {i} /\ AtWork(a.h) \subseteq Sessions
      BY <2>2, <3>1, <3>2
    <3>4. \A x : OfAccount(hls', AtWork(hls'), x) \subseteq
                   OfAccount(a.h, AtWork(a.h), x) \union (IF x = AccountOf(k) THEN {i} ELSE {})
      BY <2>2, <2>3, <3>3 DEF OfAccount
    <3>5. \A S : S \subseteq Sessions =>
            /\ IsFiniteSet(S \union {i}) /\ Cardinality(S \union {i}) <= Cardinality(S) + 1
            /\ Cardinality(S) \in Nat /\ Cardinality(S \union {i}) \in Nat
      <4>1. ASSUME NEW S, S \subseteq Sessions
            PROVE  /\ IsFiniteSet(S \union {i}) /\ Cardinality(S \union {i}) <= Cardinality(S) + 1
                   /\ Cardinality(S) \in Nat /\ Cardinality(S \union {i}) \in Nat
        <5>1. IsFiniteSet(S) /\ Cardinality(S) \in Nat
          BY <4>1, CardFacts
        <5>2. /\ IsFiniteSet(S \union {i})
              /\ Cardinality(S \union {i}) = IF i \in S THEN Cardinality(S) ELSE Cardinality(S) + 1
          BY <5>1, FS_AddElement
        <5> QED BY <5>1, <5>2
      <4> QED BY <4>1
    <3>6. Cardinality(AtWork(hls')) <= MaxActive
      <4>1. Cardinality(AtWork(hls')) <= Cardinality(AtWork(a.h) \union {i})
            /\ Cardinality(AtWork(hls')) \in Nat
        <5>1. AtWork(a.h) \union {i} \subseteq Sessions
          BY <3>3
        <5> QED BY <3>3, <5>1, CardFacts
      <4> QED BY <1>9, <1>11, <3>3, <3>5, <4>1, HlsAssumption
    <3>7. ASSUME NEW x \in DOMAIN started'
          PROVE  Cardinality(OfAccount(hls', AtWork(hls'), x)) <= MaxAccount
      <4>1. OfAccount(a.h, AtWork(a.h), x) \subseteq Sessions
        BY <3>3 DEF OfAccount
      <4>2. CASE x = AccountOf(k)
        <5>1. OfAccount(hls', AtWork(hls'), x) \subseteq OfAccount(a.h, AtWork(a.h), x) \union {i}
              /\ OfAccount(a.h, AtWork(a.h), x) \union {i} \subseteq Sessions
          BY <3>4, <4>1, <4>2
        <5>2. Cardinality(OfAccount(hls', AtWork(hls'), x))
                <= Cardinality(OfAccount(a.h, AtWork(a.h), x) \union {i})
              /\ Cardinality(OfAccount(hls', AtWork(hls'), x)) \in Nat
          BY <5>1, CardFacts
        <5>3. Cardinality(OfAccount(a.h, AtWork(a.h), x)) < MaxAccount
          BY <1>9, <1>11, <4>2
        <5> QED BY <3>5, <4>1, <5>2, <5>3, HlsAssumption
      <4>3. CASE x # AccountOf(k)
        <5>1. OfAccount(hls', AtWork(hls'), x) \subseteq OfAccount(hls, AtWork(hls), x)
          <6>1. \A j : j \in AtWork(hls) <=> j \in Sessions /\ HasWork(hls.s[j])
            BY AtWorkFacts
          <6>2. \A j \in Sessions : j # i => (HasWork(hls'.s[j]) => HasWork(hls.s[j]))
                  /\ hls'.s[j].key = hls.s[j].key
            BY <2>1, <2>2 DEF Alike, HasWork
          <6>3. hls'.s[i].key = k
            BY <2>2, <2>3
          <6>4. ASSUME NEW j \in OfAccount(hls', AtWork(hls'), x)
                PROVE  j \in OfAccount(hls, AtWork(hls), x)
            <7>1. j \in AtWork(hls') /\ j \in Sessions /\ AccountOf(hls'.s[j].key) = x
              BY <3>2 DEF OfAccount
            <7>2. j # i
              BY <4>3, <6>3, <7>1
            <7>3. j \in AtWork(hls) /\ AccountOf(hls.s[j].key) = x
              BY <3>2, <6>1, <6>2, <7>1, <7>2
            <7> QED BY <7>3 DEF OfAccount
          <6> QED BY <6>4
        <5>2. OfAccount(hls, AtWork(hls), x) \subseteq Sessions
          BY AtWorkFacts DEF OfAccount
        <5>3. x \in DOMAIN started /\ CapacityBounded
          BY <1>2, <2>6 DEF HlsInv
        <5>4. Cardinality(OfAccount(hls', AtWork(hls'), x)) <= Cardinality(OfAccount(hls, AtWork(hls), x))
              /\ Cardinality(OfAccount(hls', AtWork(hls'), x)) \in Nat
              /\ Cardinality(OfAccount(hls, AtWork(hls), x)) \in Nat
          BY <5>1, <5>2, CardFacts
        <5> QED BY <5>3, <5>4, HlsAssumption DEF CapacityBounded
      <4> QED BY <4>2, <4>3
    <3> QED BY <3>6, <3>7 DEF CapacityBounded
  <2>10. Wait(i).session \in Sessions /\ hls'.s[Wait(i).session].key # None
    BY <1>2, <1>4, <1>11, <2>2, <2>3, KeyFacts
  <2> QED BY <1>1, <1>4, <1>5, <1>11, <2>2, <2>5, <2>6, <2>8, <2>9, <2>10, RequestStep
<1> QED BY <1>1, <1>7, <1>8, <1>10, <1>11

-----------------------------------------------------------------------------
(* The theorems.                                                           *)

LEMMA HlsKept == HlsInv /\ [HlsNext]_hlsVars => HlsInv'
<1> SUFFICES ASSUME HlsInv, [HlsNext]_hlsVars PROVE HlsInv'
  OBVIOUS
<1>1. CASE UNCHANGED hlsVars
  <2>1. hls' = hls /\ started' = started /\ req' = req /\ left' = left
    BY <1>1 DEF hlsVars
  <2>2. Sound(hls') /\ \A i \in Sessions : hls'.s[i] = hls.s[i]
    BY <2>1, InvFacts
  <2>3. started' \in [{Account[o] : o \in OwnerKeys} -> Nat]
    BY <2>1, InvFacts
  <2> QED BY <2>1, <2>2, <2>3, SessionsStep
<1>2. ASSUME NEW r \in Clients, Answer(r) \/ Dropped(r) \/ Admitted(r) \/ Refused(r) \/ Disconnect(r)
      PROVE  HlsInv'
  BY <1>2, AnswerStep, RefusedStep, AdmittedStep, DisconnectStep
<1>3. ASSUME NEW i \in Sessions, \/ Poll(i) \/ SourceReady(i) \/ Timeout(i) \/ EncoderEnds(i)
                                 \/ EncoderFails(i) \/ EncoderSettles(i)
      PROVE  HlsInv'
  BY <1>3, PollStep, SourceReadyStep, TimeoutStep, EncoderOverStep, EncoderFailsStep
<1> QED BY <1>1, <1>2, <1>3, MaintainStep, WindowStep, ArriveStep DEF HlsNext, Prompt, Gate

LEMMA HlsHolds == HlsSpec => []HlsInv
  BY StartAgain, HlsKept, PTL DEF HlsSpec

(* Whatever was evicted, timed out or left, sources being prepared and     *)
(* encoders at work are never more than the capacity, in all and of one    *)
(* account; and the permit of the client that left last is held while the  *)
(* work it started goes on.                                                *)
THEOREM WorkIsAccounted == HlsSpec => []WorkAccounted
<1>1. HlsInv => WorkAccounted
  BY DEF HlsInv, WorkAccounted
<1> QED BY <1>1, HlsHolds, PTL

(* An owner's transport is the only one the owner has, and both maps lead  *)
(* to it, though admission suspends between the look-up and the creation.  *)
THEOREM OneTransportEach == HlsSpec => []OneTransport
<1>1. HlsInv => OneTransport
  <2> SUFFICES ASSUME HlsInv, NEW i \in Mapped(hls)
               PROVE  /\ hls.byKey[hls.s[i].key] = i
                      /\ hls.byOwner[OwnerOf(hls.s[i].key)] = i
    BY DEF OneTransport
  <2>1. i \in Sessions /\ hls.s[i].key # None /\ ~hls.s[i].evicted
    BY DEF Mapped, Used
  <2> QED BY <2>1, InvFacts DEF Sound, Led
<1> QED BY <1>1, HlsHolds, PTL

LEMMA SparedStep == HlsInv /\ [HlsNext]_hlsVars => [Spared]_hlsVars
<1> SUFFICES ASSUME HlsInv, [HlsNext]_hlsVars, NEW i \in Sessions,
                    ~hls.s[i].evicted, hls'.s[i].evicted, hls.s[i].readiness = "pending",
                    hls'.s[i].waiters > 0, NEW r \in Clients, req'[r] # req[r]
             PROVE  req[r].pc = "admit" /\ OwnerOf(req[r].key) = OwnerOf(hls.s[i].key)
  BY DEF Spared
<1>0. /\ hls \in Transports /\ hls.s \in [Sessions -> Session] /\ Sound(hls) /\ req \in [Clients -> Asking]
      /\ hls.s[i] \in Session /\ Sane(hls.s[i]) /\ Counted
  BY InvFacts
<1>1. req' # req /\ hls' # hls
  OBVIOUS
<1>2. PICK p \in Clients : \/ Answer(p) \/ Dropped(p) \/ Admitted(p) \/ Refused(p) \/ Disconnect(p)
                           \/ \E k \in Keys : Arrive(p, k)
  <2>1. ~UNCHANGED hlsVars
    BY <1>1 DEF hlsVars
  <2>2. \A j \in Sessions : ~Poll(j) /\ ~SourceReady(j) /\ ~Timeout(j) /\ ~EncoderEnds(j)
                            /\ ~EncoderFails(j) /\ ~EncoderSettles(j)
    BY <1>1 DEF Poll, SourceReady, Timeout, EncoderEnds, EncoderFails, EncoderSettles
  <2>3. ~Maintain /\ \A a \in DOMAIN started : ~Window(a)
    BY <1>1 DEF Maintain, Window
  <2> QED BY <2>1, <2>2, <2>3 DEF HlsNext, Prompt, Gate
<1>3. ~Dropped(p) /\ ~Refused(p)
  BY <1>1 DEF Dropped, Refused
<1>4. ASSUME NEW h, Sound(h), NEW j \in Sessions, h.s[i].evicted = hls.s[i].evicted
      PROVE  hls' # Joined(h, j)
  <2>1. h.s \in [Sessions -> Session] /\ h \in Transports
    BY <1>4 DEF Sound, Transports
  <2>2. Joined(h, j).s[i].evicted = h.s[i].evicted
    BY <2>1 DEF Joined, Transports, Session
  <2> QED BY <1>4, <2>2
<1>5. ~Answer(p)
  <2>1. ASSUME Answer(p) PROVE FALSE
    <3>1. hls' = [hls EXCEPT !.s[req[p].session].waiters = @ - 1]
      BY <2>1 DEF Answer
    <3>2. hls'.s[i].evicted = hls.s[i].evicted
      BY <1>0, <3>1 DEF Transports, Session
    <3> QED BY <3>2
  <2> QED BY <2>1
<1>6. ASSUME NEW k \in Keys
      PROVE  LET f == Found(hls, k) IN
             /\ Sound(f.h) /\ f.h.s[i] = hls.s[i]
             /\ f.session = None => f.h.byKey[k] = None
             /\ f.session # None => f.h = hls /\ f.session \in Sessions
  <2> DEFINE f == Found(hls, k)
  <2>1. /\ Sound(f.h) /\ f.session \in Sessions \union {None}
        /\ f.h.s[i] # hls.s[i] => hls.s[i].error
        /\ f.session = None => f.h.byKey[k] = None
        /\ f.session # None => f.h = hls
    BY <1>0, FoundSound
  <2> HIDE DEF f
  <2>2. ~hls.s[i].error
    BY <1>0 DEF Sane
  <2> QED BY <2>1, <2>2 DEF f
<1>7. ASSUME NEW k \in Keys PROVE ~Arrive(p, k)
  <2> DEFINE f == Found(hls, k)
  <2>1. Arrive(p, k) => \/ f.session = None /\ hls' = f.h
                        \/ f.session # None /\ hls' = Joined(f.h, f.session)
    BY Zenon DEF Arrive
  <2>2. Sound(f.h) /\ f.h.s[i] = hls.s[i] /\ (f.session # None => f.session \in Sessions)
    BY <1>6
  <2> HIDE DEF f
  <2> QED BY <1>4, <2>1, <2>2
<1>8. ~Disconnect(p)
  <2> SUFFICES ASSUME Disconnect(p) PROVE FALSE
    OBVIOUS
  <2> DEFINE j == req[p].session
             t == [hls.s[j] EXCEPT !.waiters = @ - 1]
             g == [hls EXCEPT !.s[j].waiters = @ - 1]
  <2>1. req[p].pc = "wait" /\ (hls' = g \/ (Abandoned(g, j) /\ hls' = Evict(g, {j})))
    BY <1>1, Zenon DEF Disconnect
  <2>2. /\ j \in Sessions /\ t \in Session /\ Sane(t) /\ hls.s[j].key # None
        /\ t.evicted = hls.s[j].evicted /\ t.key = hls.s[j].key
    BY <2>1, LeavesStep
  <2>3. g = Put(hls, j, t)
    BY <1>0, <2>2 DEF Put, Transports
  <2> HIDE DEF t, g
  <2>4. Sound(g) /\ g.s[j] = t /\ \A q \in Sessions : q # j => g.s[q] = hls.s[q]
    BY <1>0, <2>2, <2>3, UpdateSound
  <2>5. g.s[i].evicted = hls.s[i].evicted
    BY <2>2, <2>4
  <2>6. Abandoned(g, j) /\ hls' = Evict(g, {j})
    BY <2>1, <2>5
  <2>7. \A q \in Sessions : q \in {j} => g.s[q].key # None
    BY <2>2, <2>4
  <2>8. /\ \A q \in Sessions : Alike(g.s[q], hls'.s[q])
        /\ \A q \in Sessions : q \notin {j} => hls'.s[q] = g.s[q]
    BY <2>4, <2>6, <2>7, EvictSound
  <2>9. i = j
    BY <2>5, <2>8
  <2>10. hls'.s[i].waiters = 0
    BY <2>6, <2>8, <2>9 DEF Abandoned, Alike
  <2> QED BY <2>10
<1>9. Admitted(p)
  BY <1>2, <1>3, <1>5, <1>7, <1>8
<1> DEFINE k == req[p].key
           f == Found(hls, k)
<1>10. /\ req[p].pc = "admit" /\ (\E q : req' = [req EXCEPT ![p] = q])
       /\ \/ hls' = hls
          \/ f.session # None /\ hls' = Joined(f.h, f.session)
          \/ /\ f.session = None
             /\ \E a \in Admission(f.h, k) :
                  \/ hls' = a.h
                  \/ a.ok /\ \E n \in Sessions \ Used(a.h) : hls' = Created(a.h, k, n)
  <2>1. /\ req[p].pc = "admit"
        /\ req' = Closed(p) \/ \E n : req' = Waits(p, n)
        /\ \/ hls' = hls
           \/ f.session # None /\ hls' = Joined(f.h, f.session)
           \/ /\ f.session = None
              /\ \E a \in Admission(f.h, k) :
                   \/ hls' = a.h
                   \/ a.ok /\ \E n \in Sessions \ Used(a.h) : hls' = Created(a.h, k, n)
    BY <1>9, Zenon DEF Admitted, Again
  <2>2. \A n : Waits(p, n) = [req EXCEPT ![p] = [req[p] EXCEPT !.pc = "wait", !.session = n]]
    BY <1>0 DEF Waits
  <2>3. \E q : req' = [req EXCEPT ![p] = q]
    <3>1. CASE req' = Closed(p)
      BY <3>1 DEF Closed
    <3>2. ASSUME NEW n, req' = Waits(p, n) PROVE \E q : req' = [req EXCEPT ![p] = q]
      <4> DEFINE q == [req[p] EXCEPT !.pc = "wait", !.session = n]
      <4>1. req' = [req EXCEPT ![p] = q]
        BY <2>2, <3>2
      <4> HIDE DEF q
      <4> QED BY <4>1
    <3> QED BY <2>1, <3>1, <3>2
  <2> QED BY <2>1, <2>3
<1>11. r = p
  BY <1>0, <1>10
<1>12. k \in Keys
  BY <1>0, <1>10 DEF Counted
<1>13. /\ Sound(f.h) /\ f.h.s[i] = hls.s[i]
       /\ f.session = None => f.h.byKey[k] = None
       /\ f.session # None => f.h = hls /\ f.session \in Sessions
  BY <1>6, <1>12
<1> HIDE DEF f
<1>14. PICK a \in Admission(f.h, k) :
         \/ hls' = a.h
         \/ a.ok /\ \E n \in Sessions \ Used(a.h) : hls' = Created(a.h, k, n)
  BY <1>1, <1>4, <1>10, <1>13
<1>15. f.session = None
  BY <1>1, <1>4, <1>10, <1>13
<1>16. /\ Sound(a.h)
       /\ a.h.s[i] # f.h.s[i] =>
            f.h.s[i].readiness # "pending" \/ OwnerOf(f.h.s[i].key) = OwnerOf(k)
       /\ a.ok => a.h.byKey[k] = None /\ a.h.byOwner[OwnerOf(k)] = None
  BY <1>12, <1>13, <1>15, AdmissionSound
<1>17. a.h.s[i] # hls.s[i]
  <2>1. CASE hls' = a.h
    BY <2>1
  <2>2. ASSUME a.ok, NEW n \in Sessions \ Used(a.h), hls' = Created(a.h, k, n)
        PROVE  a.h.s[i] # hls.s[i]
    <3>1. hls'.s[n] = New(k) /\ \A q \in Sessions : q # n => hls'.s[q] = a.h.s[q]
      BY <1>12, <1>16, <2>2, CreatedSound
    <3>2. ~New(k).evicted
      BY DEF New, Unused
    <3> QED BY <3>1, <3>2
  <2> QED BY <1>14, <2>1, <2>2
<1> QED BY <1>10, <1>11, <1>13, <1>16, <1>17

(* Neither a client that leaves nor another owner's request ends the wait  *)
(* of a client that is still there.                                        *)
THEOREM WaitersAreSpared == HlsSpec => WaitersSpared
  BY SparedStep, HlsHolds, PTL DEF HlsSpec, WaitersSpared
=============================================================================
