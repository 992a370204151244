-------------------------- MODULE ChunkedTTSProofs --------------------------
(***************************************************************************)
(* Proofs about one chapter, for any number of chunks, consumers, builds   *)
(* and mishaps: its state is of its types, a request that is released      *)
(* leaves nothing, a book that is deleted is forgotten, and a claim leaves *)
(* the journal only with its owner or with the record.                     *)
(*                                                                         *)
(* The invariant IInv has four parts.  Shape: the types; who waits is a    *)
(* consumer of the prepare job, a round that is on has a chunk, and the    *)
(* manifests suffice.  JobsSound: a render that nobody stopped has a       *)
(* claim, none of a retired owner, and none at all once the book is        *)
(* deleted.  Remembered: what the journal may hold.  Known: every owner    *)
(* that is written anywhere has asked.                                     *)
(***************************************************************************)
EXTENDS ChunkedTTS, FiniteSetTheorems, TLAPS

-----------------------------------------------------------------------------
(* The order of a round.                                                   *)

LEMMA Constants ==
  /\ Listener \in Owners /\ Anon \in Owners /\ Consumers \subseteq Owners /\ Durable \subseteq Owners
  /\ Listener \notin Consumers /\ Anon \notin Consumers /\ Listener # Anon
  /\ "prep" \notin Consumers /\ "none" \notin Consumers
  /\ IsFiniteSet(Chunks) /\ Chunks \subseteq Nat /\ 0 \notin Chunks
  /\ Limit \in Nat /\ MaxBuilds \in Nat /\ Recoveries \in Nat
  /\ None \notin Manifests /\ Manifests \subseteq Nat
  /\ \A m \in 0 .. MaxBuilds : m # None => m \in Manifests
<1>1. IsFiniteSet(Chunks) /\ Chunks \subseteq Nat /\ 0 \notin Chunks
  <2>1. Cardinality(Chunks) \in Nat /\ Chunks = 1 .. Cardinality(Chunks) /\ IsFiniteSet(Chunks)
    BY ChunkedAssumption, FS_CardinalityType DEF ChunkedAssumption
  <2> QED BY <2>1
<1>2. /\ Limit \in Nat /\ MaxBuilds \in Nat /\ Recoveries \in Nat
      /\ None \notin Manifests /\ Manifests \subseteq Nat
      /\ \A m \in 0 .. MaxBuilds : m # None => m \in Manifests
  BY ChunkedAssumption DEF ChunkedAssumption, None, Manifests
<1> QED BY <1>1, <1>2, ChunkedAssumption DEF ChunkedAssumption, Owners, Durable

LEMMA BeforeOrders ==
  ASSUME NEW m, NEW c \in Chunks, NEW d \in Chunks, NEW e \in Chunks
  PROVE  /\ ~Before(m, c, c)
         /\ c # d => Before(m, c, d) \/ Before(m, d, c)
         /\ Before(m, c, d) /\ Before(m, d, e) => Before(m, c, e)
<1>1. c \in Nat /\ d \in Nat /\ e \in Nat
  BY Constants
<1> QED BY <1>1 DEF Before

(* Places in the order are those of the chunks, one each.                  *)
LEMMA AheadPlaces ==
  ASSUME NEW m, NEW S \in SUBSET Chunks
  PROVE  /\ IsFiniteSet(S) /\ Cardinality(S) \in Nat
         /\ \A i \in 1 .. Cardinality(S) : \E c \in S : Ahead(m, S, c) = i - 1
<1> DEFINE n == Cardinality(S)
           earlier(c) == {d \in S : Before(m, d, c)}
           f == [c \in S |-> Ahead(m, S, c)]
<1>1. IsFiniteSet(S) /\ n \in Nat
  BY Constants, FS_Subset, FS_CardinalityType
<1>2. ASSUME NEW c \in S
      PROVE  /\ IsFiniteSet(earlier(c)) /\ Cardinality(earlier(c)) \in Nat
             /\ Cardinality(earlier(c)) < n
  <2>1. earlier(c) \in SUBSET S /\ c \notin earlier(c)
    BY BeforeOrders
  <2>2. IsFiniteSet(earlier(c)) /\ Cardinality(earlier(c)) \in Nat /\ Cardinality(earlier(c)) <= n
        /\ Cardinality(earlier(c)) # n
    BY <1>1, <2>1, FS_Subset, FS_CardinalityType
  <2> QED BY <1>1, <2>2
<1>3. ASSUME NEW c \in S, NEW d \in S, Before(m, c, d)
      PROVE  Cardinality(earlier(c)) < Cardinality(earlier(d))
  <2>1. earlier(c) \in SUBSET earlier(d) /\ c \in earlier(d) /\ c \notin earlier(c)
    BY <1>3, BeforeOrders
  <2>2. Cardinality(earlier(c)) <= Cardinality(earlier(d)) /\ Cardinality(earlier(c)) # Cardinality(earlier(d))
    BY <1>2, <2>1, FS_Subset
  <2> QED BY <1>2, <2>2
<1>4. f \in Injection(S, 0 .. n - 1)
  <2>1. f \in [S -> 0 .. n - 1]
    BY <1>1, <1>2 DEF Ahead
  <2>2. ASSUME NEW c \in S, NEW d \in S, c # d PROVE f[c] # f[d]
    <3>1. f[c] = Cardinality(earlier(c)) /\ f[d] = Cardinality(earlier(d))
      BY DEF Ahead
    <3>2. Before(m, c, d) \/ Before(m, d, c)
      BY <2>2, BeforeOrders
    <3>3. Cardinality(earlier(c)) \in Nat /\ Cardinality(earlier(d)) \in Nat
      BY <1>2
    <3>4. Cardinality(earlier(c)) < Cardinality(earlier(d)) \/ Cardinality(earlier(d)) < Cardinality(earlier(c))
      BY <1>3, <3>2
    <3> HIDE DEF earlier, f
    <3> QED BY <3>1, <3>3, <3>4
  <2> QED BY <2>1, <2>2 DEF Injection, IsInjective
<1>5. IsFiniteSet(0 .. n - 1) /\ Cardinality(0 .. n - 1) = n
  BY <1>1, FS_Interval
<1>6. f \in Surjection(S, 0 .. n - 1)
  BY <1>4, <1>5, FS_Injection
<1>7. \A i \in 1 .. n : \E c \in S : f[c] = i - 1
  <2>1. \A j \in 0 .. n - 1 : \E c \in S : f[c] = j
    BY <1>6 DEF Surjection
  <2> HIDE DEF n, f
  <2>2. \A i \in 1 .. n : i - 1 \in 0 .. n - 1
    BY <1>1 DEF n
  <2> QED BY <2>1, <2>2
<1> QED BY <1>1, <1>7

LEMMA InTurnTyped ==
  ASSUME NEW m, NEW S \in SUBSET Chunks
  PROVE  InTurn(m, S) \in Seq(Chunks)
<1>1. \A i \in 1 .. Cardinality(S) : InTurn(m, S)[i] \in Chunks
  BY AheadPlaces DEF InTurn
<1>2. InTurn(m, S) \in [1 .. Cardinality(S) -> Chunks] /\ Cardinality(S) \in Nat
  BY <1>1, AheadPlaces DEF InTurn
<1> HIDE DEF InTurn
<1> QED BY <1>2

-----------------------------------------------------------------------------
(* The types, by parts that change together.                               *)

Status   == {"pending", "lost", "ready", "error"} \union Held
Records  == [claims : SUBSET Owners, held : BOOLEAN]
Books    == [deleted : BOOLEAN, epoch : Nat]
Tables   == [Manifests -> [Chunks -> Status]]
Plan     == [on : BOOLEAN, claims : SUBSET Owners, base : Owners, halted : BOOLEAN,
             cancelled : BOOLEAN, waiting : BOOLEAN, urgent : SUBSET Chunks]
Plans    == [Manifests -> Plan]
Dues     == [Manifests -> SUBSET Signals]
Round    == [on : BOOLEAN, sig : Signals, todo : Seq(Chunks), owner : Owners, epoch : Nat]
Rounds   == [Manifests -> Round]
Job      == [st : {"free"} \union Held, dying : BOOLEAN, claims : SUBSET Owners]
Jobs     == [Chunks -> Job]
CallOf   == [pc : {"off", "load", "plan", "put", "build", "persist", "pump", "claim", "wait"},
             lead : Owners, creator : Owners, claims : SUBSET Owners, epoch : Nat,
             was : 0 .. MaxBuilds, mine : 0 .. MaxBuilds, seen : SUBSET Chunks]
CallsOf  == [Calls -> CallOf]
Preps    == [open : BOOLEAN, consumers : SUBSET Consumers, aborted : BOOLEAN]
Joining  == [pc : {"none", "adding", "pump"}, m : 0 .. MaxBuilds, sig : Signals, changed : BOOLEAN]
Joinings == [Consumers -> Joining]
Fates    == [Consumers -> {"idle", "waiting", "done", "failed", "gone"}]

(* Who waits is a consumer of the prepare job.                             *)
Waiting == /\ prep.consumers = {o \in Consumers : consumer[o] = "waiting"}
           /\ prep.open \/ prep.consumers = {}

KeptTyped    == journal \in Records /\ retired \subseteq Consumers /\ released \subseteq retired
           /\ book \in Books /\ audio \subseteq Chunks
BuiltTyped   == builds \in 0 .. MaxBuilds /\ current \in 0 .. builds /\ chunk \in Tables /\ plan \in Plans
QueuedTyped  == job \in Jobs /\ route \subseteq Chunks /\ quiescing \subseteq Chunks \union {0}
RoundsTyped == due \in Dues /\ round \in Rounds /\ \A m \in Manifests : round[m].on => round[m].todo # <<>>
CalledTyped  == /\ call \in CallsOf /\ prep \in Preps /\ joining \in Joinings /\ consumer \in Fates
           /\ strands \in 0 .. Recoveries /\ refused \subseteq Signals

LEMMA TypeParts ==
  KeptTyped /\ BuiltTyped /\ QueuedTyped /\ RoundsTyped /\ CalledTyped => TypeOK
  BY DEF TypeOK, KeptTyped, BuiltTyped, QueuedTyped, RoundsTyped, CalledTyped, Status, Records, Books, Tables, Plan, Plans, Dues,
         Round, Rounds, Job, Jobs, CallOf, CallsOf, Preps, Joining, Joinings, Fates

LEMMA Blanks ==
  /\ NoRecord \in Records /\ NoPlan \in Plan /\ NoRound \in Round /\ ~NoRound.on /\ NoJob \in Job
  /\ NoCall \in CallOf /\ NoPrep \in Preps /\ NoClaim \in Joining /\ Fresh \in [Chunks -> Status]
  /\ NoCall.creator = Anon /\ NoCall.claims = {} /\ NoCall.lead = Anon /\ NoCall.pc = "off"
  BY Constants DEF NoRecord, NoPlan, NoRound, NoJob, NoCall, NoPrep, NoClaim, Fresh, Records, Plan,
       Round, Job, CallOf, Preps, Joining, Status, None, Signals

-----------------------------------------------------------------------------
(* What the helpers return.                                                *)

LEMMA ForgetTyped ==
  ASSUME NEW ch \in Tables, NEW D PROVE Forget(ch, D) \in Tables
  BY DEF Forget, Tables, Status

LEMMA TableEdits ==
  ASSUME NEW m, NEW ch \in Tables
  PROVE  /\ \A t \in [Chunks -> Status] : [ch EXCEPT ![m] = t] \in Tables
         /\ \A c \in Chunks, s \in Status : [ch EXCEPT ![m][c] = s] \in Tables
  BY DEF Tables

LEMMA ReviveTyped ==
  ASSUME BuiltTyped, NEW d \in Dues, NEW D PROVE Revive(d, D) \in Dues
  BY DEF Revive, Dues, Signals

LEMMA DueEdits ==
  ASSUME NEW m, NEW d \in Dues
  PROVE  /\ \A s \in Signals : [d EXCEPT ![m] = @ \union {s}] \in Dues
         /\ \A s : [d EXCEPT ![m] = @ \ {s}] \in Dues
  BY DEF Dues

LEMMA JobsTyped ==
  ASSUME NEW r \in Job, NEW O \in SUBSET Owners
  PROVE  /\ Unclaimed(r, O) \in Job /\ Cancelled(r) \in Job
         /\ [r EXCEPT !.claims = @ \union O] \in Job
         /\ \A st \in Held : [r EXCEPT !.st = st] \in Job /\ [NoJob EXCEPT !.st = st, !.claims = O] \in Job
  BY Blanks DEF Job, Unclaimed, Cancelled, Held

LEMMA RecordsTyped ==
  ASSUME journal \in Records
  PROVE  /\ \A O : Erase(O) => journal' \in Records
         /\ \A o \in Owners : Put(o) => journal' \in Records
         /\ \A O \in SUBSET Owners : Adds(O) \in SUBSET Owners /\ (Add(O) => journal' \in Records)
         /\ RecordFailure => journal' \in Records
<1>1. \A O : Erase(O) => journal' \in Records
  BY DEF Records, Erase
<1>2. \A o \in Owners : Put(o) => journal' \in Records
  BY DEF Records, Put
<1>3. \A O \in SUBSET Owners : Adds(O) \in SUBSET Owners /\ (Add(O) => journal' \in Records)
  BY DEF Records, Adds, Add
<1>4. RecordFailure => journal' \in Records
  BY DEF Records, RecordFailure
<1> QED BY <1>1, <1>2, <1>3, <1>4

LEMMA TurnTyped ==
  ASSUME RoundsTyped, BuiltTyped, book \in Books, NEW m, NEW s \in Signals, NEW todo \in Seq(Chunks), Turn(m, s, todo)
  PROVE  round' \in Rounds /\ \A n \in Manifests : round'[n].on => round'[n].todo # <<>>
<1>1. CASE round' = [round EXCEPT ![m] = NoRound]
  BY <1>1, Blanks DEF RoundsTyped, Rounds
<1>2. CASE /\ todo # <<>>
           /\ \E o \in Primaries(m) : round' = [round EXCEPT ![m] = [on |-> TRUE, sig |-> s, todo |-> todo,
                                          owner |-> o, epoch |-> book.epoch]]
  <2>1. CASE m \in Manifests
    <3>1. Primaries(m) \subseteq Owners
      BY <2>1, Constants DEF Primaries, Live, BuiltTyped, Plans, Plan
    <3>2. PICK o \in Primaries(m) : round' = [round EXCEPT ![m] = [on |-> TRUE, sig |-> s, todo |-> todo,
                                        owner |-> o, epoch |-> book.epoch]]
      BY <1>2
    <3>3. [on |-> TRUE, sig |-> s, todo |-> todo, owner |-> o, epoch |-> book.epoch] \in Round
      BY <3>1, <3>2 DEF Round, Books
    <3> QED BY <1>2, <3>2, <3>3 DEF RoundsTyped, Rounds
  <2>2. CASE m \notin Manifests
    BY <1>2, <2>2 DEF RoundsTyped, Rounds
  <2> QED BY <2>1, <2>2
<1> QED BY <1>1, <1>2 DEF Turn

LEMMA EndRoundTyped ==
  ASSUME RoundsTyped, NEW m, EndRound(m)
  PROVE  round' \in Rounds /\ \A n \in Manifests : round'[n].on => round'[n].todo # <<>>
  BY Blanks DEF RoundsTyped, Rounds, EndRound

LEMMA PlanEdits ==
  ASSUME NEW p \in Plans, NEW m
  PROVE  /\ \A b \in BOOLEAN : /\ [p EXCEPT ![m].waiting = b] \in Plans
                               /\ [p EXCEPT ![m].halted = b] \in Plans
                               /\ [p EXCEPT ![m].cancelled = b] \in Plans
         /\ \A o \in Owners : [p EXCEPT ![m].claims = @ \union {o}] \in Plans
         /\ \A c \in Chunks : [p EXCEPT ![m].urgent = @ \union {c}] \in Plans
         /\ \A q \in Plan : [p EXCEPT ![m] = q] \in Plans
  BY DEF Plans, Plan

LEMMA CallEdits ==
  ASSUME NEW k, NEW cs \in CallsOf
  PROVE  /\ \A r \in CallOf : [cs EXCEPT ![k] = r] \in CallsOf
         /\ \A pc \in {"put", "build", "persist", "pump", "claim", "wait"} : [cs EXCEPT ![k].pc = pc] \in CallsOf
         /\ \A o \in Owners : [cs EXCEPT ![k].pc = "put", ![k].lead = o] \in CallsOf
         /\ \A w \in 0 .. MaxBuilds, a \in SUBSET Chunks :
              [cs EXCEPT ![k].pc = "build", ![k].was = w, ![k].seen = a] \in CallsOf
         /\ \A w \in 0 .. MaxBuilds : [cs EXCEPT ![k].pc = "persist", ![k].mine = w] \in CallsOf
<1>1. \A r \in CallOf : [cs EXCEPT ![k] = r] \in CallsOf
  BY DEF CallsOf
<1>2. \A pc \in {"put", "build", "persist", "pump", "claim", "wait"} : [cs EXCEPT ![k].pc = pc] \in CallsOf
  BY DEF CallsOf, CallOf
<1>3. \A o \in Owners : [cs EXCEPT ![k].pc = "put", ![k].lead = o] \in CallsOf
  BY DEF CallsOf, CallOf
<1>4. \A w \in 0 .. MaxBuilds, a \in SUBSET Chunks :
        [cs EXCEPT ![k].pc = "build", ![k].was = w, ![k].seen = a] \in CallsOf
  <2> SUFFICES ASSUME NEW w \in 0 .. MaxBuilds, NEW a \in SUBSET Chunks
               PROVE  [cs EXCEPT ![k].pc = "build", ![k].was = w, ![k].seen = a] \in CallsOf
    OBVIOUS
  <2> DEFINE r == [cs[k] EXCEPT !.pc = "build", !.was = w, !.seen = a]
  <2>1. CASE k \in Calls
    <3>1. cs[k] \in CallOf
      BY <2>1 DEF CallsOf
    <3>2. r \in CallOf
      BY <3>1 DEF CallOf
    <3>3. [cs EXCEPT ![k].pc = "build", ![k].was = w, ![k].seen = a] = [cs EXCEPT ![k] = r]
      BY <2>1 DEF CallsOf
    <3> QED BY <1>1, <3>2, <3>3
  <2>2. CASE k \notin Calls
    BY <2>2 DEF CallsOf
  <2> QED BY <2>1, <2>2
<1>5. \A w \in 0 .. MaxBuilds : [cs EXCEPT ![k].pc = "persist", ![k].mine = w] \in CallsOf
  BY DEF CallsOf, CallOf
<1> QED BY <1>1, <1>2, <1>3, <1>4, <1>5

(* A call that ends, and the answer it gives.                              *)
LEMMA StopTyped ==
  ASSUME CalledTyped, Waiting, NEW k, NEW what \in {"done", "failed"}, Stop(k, what)
  PROVE  CalledTyped' /\ Waiting' /\ call' = [call EXCEPT ![k] = NoCall]
         /\ \A o \in Consumers : consumer'[o] = consumer[o]
                                 \/ (k = "prep" /\ consumer[o] = "waiting" /\ consumer'[o] = what)
<1>1. call' \in CallsOf
  BY Blanks, CallEdits DEF CalledTyped, Stop
<1>2. CASE k = "prep"
  <2>1. prep' = NoPrep /\ refused' \subseteq Signals /\ strands' = 0 /\ joining' = joining
        /\ consumer' = [o \in Consumers |-> IF o \in prep.consumers THEN what ELSE consumer[o]]
    BY <1>2 DEF Stop, Answer, CalledTyped
  <2>2. prep' \in Preps /\ prep'.consumers = {}
    BY <2>1, Blanks DEF NoPrep
  <2>3. consumer' \in Fates
    BY <2>1 DEF CalledTyped, Fates
  <2>4. \A o \in Consumers : consumer'[o] = consumer[o] \/ (consumer[o] = "waiting" /\ consumer'[o] = what)
    BY <2>1 DEF Waiting
  <2>5. Waiting'
    BY <2>1, <2>2 DEF Waiting
  <2> QED BY <1>1, <1>2, <2>1, <2>2, <2>3, <2>4, <2>5, Constants DEF CalledTyped, Stop
<1>3. CASE k # "prep"
  BY <1>1, <1>3 DEF Stop, CalledTyped, Waiting
<1> QED BY <1>2, <1>3

LEMMA HearTyped ==
  ASSUME CalledTyped, Waiting, NEW event, NEW what \in {"done", "failed"}, Hear(event, what)
  PROVE  CalledTyped' /\ Waiting' /\ (call' = call \/ call' = [call EXCEPT !["prep"] = NoCall])
         /\ \A o \in Consumers : consumer'[o] = consumer[o] \/ (consumer[o] = "waiting" /\ consumer'[o] = what)
<1>1. CASE Stop("prep", what)
  BY <1>1, StopTyped
<1>2. CASE UNCHANGED <<callVars, refused>>
  BY <1>2 DEF CalledTyped, Waiting, callVars
<1> QED BY <1>1, <1>2 DEF Hear

-----------------------------------------------------------------------------
(* The manifests suffice for the calls that may still build one.           *)

Early == {"load", "plan", "put", "build"}
Builders(cs) == {k \in Calls : cs[k].pc \in Early}
Suffice == /\ builds + Cardinality(Builders(call)) <= MaxBuilds
           /\ \A k \in Calls : /\ call[k].was <= builds
                               /\ At(k, "persist") => call[k].mine # None

Shape == KeptTyped /\ BuiltTyped /\ QueuedTyped /\ RoundsTyped /\ CalledTyped /\ Waiting /\ Suffice

LEMMA BuildersCount ==
  ASSUME NEW cs, NEW ds
  PROVE  /\ Cardinality(Builders(cs)) \in Nat
         /\ Builders(ds) \subseteq Builders(cs) => Cardinality(Builders(ds)) <= Cardinality(Builders(cs))
         /\ \A k : Builders(ds) \subseteq Builders(cs) \union {k}
                   => Cardinality(Builders(ds)) <= Cardinality(Builders(cs)) + 1
         /\ \A k \in Builders(cs) : Builders(ds) \subseteq Builders(cs) \ {k}
                   => Cardinality(Builders(ds)) <= Cardinality(Builders(cs)) - 1
<1>1. \A T \in SUBSET Calls : IsFiniteSet(T) /\ Cardinality(T) \in Nat
  <2>1. IsFiniteSet({}) /\ IsFiniteSet({} \union {"prep"}) /\ IsFiniteSet(({} \union {"prep"}) \union {"listen"})
        /\ IsFiniteSet((({} \union {"prep"}) \union {"listen"}) \union {"resume"})
    BY FS_EmptySet, FS_AddElement
  <2>2. Calls = (({} \union {"prep"}) \union {"listen"}) \union {"resume"}
    BY DEF Calls
  <2> QED BY <2>1, <2>2, FS_Subset, FS_CardinalityType
<1>2. Builders(cs) \in SUBSET Calls /\ Builders(ds) \in SUBSET Calls
  BY DEF Builders
<1>3. ASSUME Builders(ds) \subseteq Builders(cs) PROVE Cardinality(Builders(ds)) <= Cardinality(Builders(cs))
  BY <1>1, <1>2, <1>3, FS_Subset
<1>4. ASSUME NEW k, Builders(ds) \subseteq Builders(cs) \union {k}
      PROVE  Cardinality(Builders(ds)) <= Cardinality(Builders(cs)) + 1
  <2>1. IsFiniteSet(Builders(cs) \union {k}) /\ Cardinality(Builders(cs) \union {k}) <= Cardinality(Builders(cs)) + 1
        /\ Cardinality(Builders(cs) \union {k}) \in Nat
    BY <1>1, <1>2, FS_AddElement, FS_CardinalityType
  <2>2. Cardinality(Builders(ds)) <= Cardinality(Builders(cs) \union {k})
    BY <1>4, <2>1, FS_Subset
  <2> QED BY <1>1, <1>2, <2>1, <2>2
<1>5. ASSUME NEW k \in Builders(cs), Builders(ds) \subseteq Builders(cs) \ {k}
      PROVE  Cardinality(Builders(ds)) <= Cardinality(Builders(cs)) - 1
  <2>1. IsFiniteSet(Builders(cs) \ {k}) /\ Cardinality(Builders(cs) \ {k}) = Cardinality(Builders(cs)) - 1
    BY <1>1, <1>2, <1>5, FS_RemoveElement
  <2>2. Cardinality(Builders(ds)) <= Cardinality(Builders(cs) \ {k})
    BY <1>5, <2>1, FS_Subset
  <2> QED BY <2>1, <2>2
<1> QED BY <1>1, <1>2, <1>3, <1>4, <1>5

(* Calls that end, or that stay, need no more manifests.                   *)
LEMMA SufficeStays ==
  ASSUME Suffice, BuiltTyped, call \in CallsOf, builds' = builds,
         call' = call \/ \E k : call' = [call EXCEPT ![k] = NoCall]
  PROVE  Suffice'
<1>1. \A k \in Calls : call'[k] = call[k] \/ call'[k] = NoCall
  BY DEF CallsOf
<1>2. Builders(call') \subseteq Builders(call)
  BY <1>1 DEF Builders, Early, NoCall
<1>3. Cardinality(Builders(call')) <= Cardinality(Builders(call)) /\ Cardinality(Builders(call')) \in Nat
      /\ Cardinality(Builders(call)) \in Nat
  BY <1>2, BuildersCount
<1>4. \A k \in Calls : call'[k].was <= builds /\ (call'[k].pc = "persist" => call'[k].mine # None)
  BY <1>1, Constants DEF Suffice, BuiltTyped, NoCall, At, None
<1>5. Builders(call)' = Builders(call')
  BY DEF Builders
<1> QED BY <1>3, <1>4, <1>5, Constants DEF Suffice, At, BuiltTyped

(* A call goes on with pc, in the same stage or a later one.               *)
LEMMA SufficeGoes ==
  ASSUME Suffice, BuiltTyped, call \in CallsOf, builds' = builds, NEW k \in Calls, NEW r,
         call' = [call EXCEPT ![k] = r], r.was <= builds, r.pc = "persist" => r.mine # None,
         r.pc \in Early => call[k].pc \in Early
  PROVE  Suffice'
<1>1. \A j \in Calls : call'[j] = IF j = k THEN r ELSE call[j]
  BY DEF CallsOf
<1>2. Builders(call') \subseteq Builders(call)
  BY <1>1 DEF Builders
<1>3. Cardinality(Builders(call')) <= Cardinality(Builders(call)) /\ Cardinality(Builders(call')) \in Nat
      /\ Cardinality(Builders(call)) \in Nat
  BY <1>2, BuildersCount
<1>4. \A j \in Calls : call'[j].was <= builds /\ (call'[j].pc = "persist" => call'[j].mine # None)
  BY <1>1 DEF Suffice, At
<1>5. Builders(call)' = Builders(call')
  BY DEF Builders
<1> QED BY <1>3, <1>4, <1>5, Constants DEF Suffice, At, BuiltTyped

(* A call begins where there is room.                                      *)
LEMMA SufficeBegins ==
  ASSUME Suffice, BuiltTyped, call \in CallsOf, builds' = builds, Room, NEW k \in Calls, NEW r,
         call' = [call EXCEPT ![k] = r], r.was <= builds, r.pc # "persist"
  PROVE  Suffice'
<1>1. \A j \in Calls : call'[j] = IF j = k THEN r ELSE call[j]
  BY DEF CallsOf
<1>2. Builders(call') \subseteq Builders(call) \union {k}
  BY <1>1 DEF Builders
<1>3. Cardinality(Builders(call')) <= Cardinality(Builders(call)) + 1 /\ Cardinality(Builders(call')) \in Nat
      /\ Cardinality(Builders(call)) \in Nat
  BY <1>2, BuildersCount
<1>4. \A j \in Calls : call'[j].was <= builds /\ (call'[j].pc = "persist" => call'[j].mine # None)
  BY <1>1 DEF Suffice, At
<1>5. Builders(call)' = Builders(call') /\ builds + Cardinality(Builders(call)) < MaxBuilds
  BY DEF Builders, Room, Early
<1> QED BY <1>3, <1>4, <1>5, Constants DEF Suffice, At, BuiltTyped

-----------------------------------------------------------------------------
(* The steps of the rounds keep the shape.                                 *)

LEMMA Parts ==
  /\ KeptTyped /\ UNCHANGED <<durableVars, claimVars>> => KeptTyped'
  /\ KeptTyped /\ journal' \in Records /\ UNCHANGED <<audio, claimVars>> => KeptTyped'
  /\ BuiltTyped /\ UNCHANGED manifestVars => BuiltTyped'
  /\ BuiltTyped /\ UNCHANGED <<builds, current>> /\ chunk' \in Tables /\ plan' \in Plans => BuiltTyped'
  /\ QueuedTyped /\ UNCHANGED <<queueVars, quiescing>> => QueuedTyped'
  /\ RoundsTyped /\ due' \in Dues /\ round' = round => RoundsTyped'
  /\ RoundsTyped /\ UNCHANGED <<due, round>> => RoundsTyped'
  /\ CalledTyped /\ UNCHANGED <<callVars, refused>> => CalledTyped'
  /\ Waiting /\ UNCHANGED callVars => Waiting'
  /\ Suffice /\ UNCHANGED <<call, builds>> => Suffice'
  BY DEF KeptTyped, BuiltTyped, QueuedTyped, RoundsTyped, CalledTyped, Waiting, Suffice, Builders, At,
         durableVars, claimVars, manifestVars, queueVars, callVars

LEMMA HearShape ==
  ASSUME Shape, NEW event, NEW what \in {"done", "failed"}, Hear(event, what), builds' = builds
  PROVE  CalledTyped' /\ Waiting' /\ Suffice'
<1>1. CalledTyped' /\ Waiting' /\ (call' = call \/ call' = [call EXCEPT !["prep"] = NoCall])
  BY HearTyped DEF Shape
<1>2. call \in CallsOf
  BY DEF Shape, CalledTyped
<1> QED BY <1>1, <1>2, SufficeStays DEF Shape

LEMMA StopShape ==
  ASSUME Shape, NEW k, NEW what \in {"done", "failed"}, Stop(k, what), builds' = builds
  PROVE  CalledTyped' /\ Waiting' /\ Suffice'
<1>1. CalledTyped' /\ Waiting' /\ call' = [call EXCEPT ![k] = NoCall]
  BY StopTyped DEF Shape
<1>2. call \in CallsOf
  BY DEF Shape, CalledTyped
<1> QED BY <1>1, <1>2, SufficeStays DEF Shape

LEMMA StartRoundShape ==
  ASSUME Shape, NEW m \in Manifests, NEW s \in Signals, StartRound(m, s)
  PROVE  Shape'
<1> DEFINE lost    == {c \in Chunks : chunk[m][c] = "lost"}
           adopted == {c \in lost : Adoptable(c)}
           ch      == [c \in Chunks |-> IF c \in adopted THEN "ready"
                                        ELSE IF c \in lost THEN "pending" ELSE chunk[m][c]]
           settled == adopted # {} /\ \A c \in Chunks : ch[c] = "ready"
           desired == FirstOf(m, {c \in Chunks : ch[c] \notin {"ready", "error"}}, Limit)
           victims == IF \E c \in desired : ch[c] = "pending"
                      THEN {c \in Chunks \ desired : ch[c] = "queued"} ELSE {}
           kept    == [c \in Chunks |-> IF c \in victims THEN "pending" ELSE ch[c]]
           free    == Limit - Cardinality({c \in Chunks : kept[c] \in Held})
           next    == FirstOf(m, {c \in Chunks : kept[c] = "pending"}, free)
           jobs    == [c \in Chunks |-> IF c \in victims THEN Cancelled(job[c]) ELSE job[c]]
<1>1. /\ job' = jobs /\ route' = route \ victims
      /\ chunk' = Forget([chunk EXCEPT ![m] = kept], Ended(jobs))
      /\ plan' = [plan EXCEPT ![m].waiting = FALSE]
      /\ due' = [Revive(due, Ended(jobs)) EXCEPT ![m] = @ \ {s}]
      /\ IF settled THEN journal' = NoRecord /\ UNCHANGED round
         ELSE Turn(m, s, InTurn(m, next)) /\ UNCHANGED journal
      /\ Hear(settled, "done")
      /\ UNCHANGED <<audio, current, builds, claimVars, quiescing, left>>
  BY DEF StartRound
<1>2. ch \in [Chunks -> Status] /\ kept \in [Chunks -> Status]
  BY DEF Shape, BuiltTyped, Tables, Status
<1>3. chunk' \in Tables /\ plan' \in Plans
  BY <1>1, <1>2, TableEdits, ForgetTyped, PlanEdits DEF Shape, BuiltTyped
<1>4. jobs \in Jobs /\ route' \subseteq Chunks
  BY <1>1, JobsTyped DEF Shape, QueuedTyped, Jobs
<1>5. due' \in Dues
  BY <1>1, ReviveTyped, DueEdits DEF Shape, RoundsTyped
<1>6. journal' \in Records
  BY <1>1, Blanks DEF Shape, KeptTyped
<1>7. next \in SUBSET Chunks
  BY DEF FirstOf
<1>8. RoundsTyped'
  <2>1. CASE round' = round
    BY <1>5, <2>1, Parts DEF Shape
  <2>2. CASE Turn(m, s, InTurn(m, next))
    <3>1. InTurn(m, next) \in Seq(Chunks)
      BY <1>7, InTurnTyped
    <3>2. round' \in Rounds /\ \A n \in Manifests : round'[n].on => round'[n].todo # <<>>
      BY <2>2, <3>1, TurnTyped DEF Shape, KeptTyped
    <3> QED BY <1>5, <3>2 DEF RoundsTyped
  <2> QED BY <1>1, <2>1, <2>2
<1>9. CalledTyped' /\ Waiting' /\ Suffice'
  BY <1>1, HearShape
<1> QED BY <1>1, <1>3, <1>4, <1>6, <1>8, <1>9 DEF Shape, KeptTyped, BuiltTyped, QueuedTyped, claimVars

LEMMA SkipRoundShape ==
  ASSUME Shape, NEW m \in Manifests, NEW s \in Signals, SkipRound(m, s)
  PROVE  Shape'
<1>1. due' \in Dues /\ refused' \subseteq Signals
  BY DueEdits DEF SkipRound, Shape, RoundsTyped, CalledTyped
<1> QED BY <1>1, Parts DEF Shape, SkipRound, CalledTyped, callVars, manifestVars

LEMMA MaterializeShape ==
  ASSUME Shape, NEW m \in Manifests, Materialize(m)
  PROVE  Shape'
<1> DEFINE c  == Head(round[m].todo)
           o  == round[m].owner
           in == {o} \union Live(m)
                 \union IF o \in retired /\ Live(m) = {} /\ plan[m].claims # {} THEN {Anon} ELSE {}
           jobs == [job EXCEPT ![c] = Unclaimed(Enqueued(c, in), Late(o))]
<1>1. /\ job' = jobs
      /\ chunk' = Forget([chunk EXCEPT ![m][c] = "queued"], IF jobs[c].st = "free" THEN {c} ELSE {})
      /\ route' = IF jobs[c].st = "free" THEN route \ {c} ELSE route \union {c}
      /\ due' = Revive(due, Ended(jobs))
      /\ Turn(m, round[m].sig, Tail(round[m].todo))
      /\ round[m].on
      /\ UNCHANGED <<plan, current, builds, refused, durableVars, callVars, claimVars, quiescing, left>>
  BY DEF Materialize
<1>2. round[m] \in Round /\ round[m].todo # <<>>
  BY <1>1 DEF Shape, RoundsTyped, Rounds
<1>3. c \in Chunks /\ Tail(round[m].todo) \in Seq(Chunks) /\ round[m].sig \in Signals /\ o \in Owners
  BY <1>2 DEF Round
<1>4. in \in SUBSET Owners /\ Late(o) \in SUBSET Owners
  BY <1>3, Constants DEF Live, Late, Shape, BuiltTyped, Plans, Plan, KeptTyped
<1>5. jobs \in Jobs
  <2>1. Enqueued(c, in) \in Job
    BY <1>3, <1>4, JobsTyped DEF Enqueued, Shape, QueuedTyped, Jobs, Held
  <2>2. Unclaimed(Enqueued(c, in), Late(o)) \in Job
    BY <1>4, <2>1, JobsTyped
  <2> QED BY <2>2 DEF Shape, QueuedTyped, Jobs
<1>6. chunk' \in Tables
  <2>1. "queued" \in Status
    BY DEF Status, Held
  <2>2. [chunk EXCEPT ![m][c] = "queued"] \in Tables
    BY <1>3, <2>1, TableEdits DEF Shape, BuiltTyped
  <2> QED BY <1>1, <2>2, ForgetTyped
<1>7. due' \in Dues
  BY <1>1, ReviveTyped DEF Shape, RoundsTyped
<1>8. RoundsTyped'
  BY <1>1, <1>3, <1>7, TurnTyped DEF Shape, RoundsTyped, KeptTyped
<1>9. QueuedTyped'
  BY <1>1, <1>3, <1>5 DEF QueuedTyped, Shape
<1> QED BY <1>1, <1>6, <1>8, <1>9, Parts DEF Shape, BuiltTyped, durableVars, claimVars, callVars, KeptTyped

LEMMA AtCapacityShape ==
  ASSUME Shape, NEW m \in Manifests, AtCapacity(m)
  PROVE  Shape'
<1>1. plan' \in Plans
  BY PlanEdits DEF AtCapacity, Shape, BuiltTyped
<1>2. round' \in Rounds /\ \A n \in Manifests : round'[n].on => round'[n].todo # <<>>
  BY EndRoundTyped DEF AtCapacity, Shape
<1>3. RoundsTyped'
  BY <1>2 DEF RoundsTyped, AtCapacity, Shape
<1> QED BY <1>1, <1>3, Parts DEF Shape, AtCapacity, BuiltTyped, callVars

LEMMA AbandonMaterializeShape ==
  ASSUME Shape, NEW m \in Manifests, AbandonMaterialize(m)
  PROVE  Shape'
<1>1. round' \in Rounds /\ \A n \in Manifests : round'[n].on => round'[n].todo # <<>>
  BY EndRoundTyped DEF AbandonMaterialize, RefuseRound, Shape
<1>2. round[m].owner \in Owners /\ round[m].sig \in Signals
  BY DEF Shape, RoundsTyped, Rounds, Round
<1>3. job' \in Jobs
  <2>1. CASE Retire(m)
    <3> DEFINE c == Head(round[m].todo)
    <3>1. \A d \in Chunks : Unclaimed(job[d], {round[m].owner}) \in Job
      BY <1>2, JobsTyped DEF Shape, QueuedTyped, Jobs
    <3>2. job' = [job EXCEPT ![c] = Unclaimed(job[c], {round[m].owner})]
      BY <2>1 DEF Retire
    <3> QED BY <3>1, <3>2 DEF Shape, QueuedTyped, Jobs
  <2>2. CASE job' = job
    BY <2>2 DEF Shape, QueuedTyped
  <2> QED BY <2>1, <2>2 DEF AbandonMaterialize
<1>4. chunk' \in Tables /\ due' \in Dues /\ route' \subseteq Chunks
  BY ForgetTyped, ReviveTyped DEF AbandonMaterialize, Shape, BuiltTyped, RoundsTyped, QueuedTyped
<1>5. refused' \subseteq Signals
  BY <1>2 DEF AbandonMaterialize, RefuseRound, Shape, CalledTyped
<1>6. RoundsTyped' /\ QueuedTyped'
  BY <1>1, <1>3, <1>4 DEF RoundsTyped, QueuedTyped, AbandonMaterialize, Shape
<1> QED BY <1>4, <1>5, <1>6, Parts DEF Shape, AbandonMaterialize, BuiltTyped, CalledTyped, callVars

LEMMA MaterializeFailsShape ==
  ASSUME Shape, NEW m \in Manifests, MaterializeFails(m)
  PROVE  Shape'
<1>1. round' \in Rounds /\ \A n \in Manifests : round'[n].on => round'[n].todo # <<>>
  BY EndRoundTyped DEF MaterializeFails, Shape
<1>2. journal' \in Records
  BY RecordsTyped DEF MaterializeFails, Shape, KeptTyped
<1>3. CalledTyped' /\ Waiting' /\ Suffice'
  BY HearShape DEF MaterializeFails
<1>4. chunk' \in Tables /\ plan' \in Plans
  BY PlanEdits DEF MaterializeFails, Shape, BuiltTyped, Tables, Status
<1>5. RoundsTyped'
  BY <1>1 DEF RoundsTyped, MaterializeFails, Shape
<1> QED BY <1>2, <1>3, <1>4, <1>5, Parts DEF Shape, MaterializeFails, BuiltTyped

-----------------------------------------------------------------------------
(* The events of the queue keep the shape.                                 *)

LEMMA SettleTyped ==
  ASSUME Shape, NEW c \in Chunks, NEW st \in Status, Settle(c, st)
  PROVE  job' \in Jobs /\ route' \subseteq Chunks /\ chunk' \in Tables
<1>1. job' \in Jobs /\ route' \subseteq Chunks
  BY Blanks DEF Settle, Shape, QueuedTyped, Jobs
<1>2. [chunk EXCEPT ![current][c] = st] \in Tables /\ chunk \in Tables
  BY TableEdits DEF Shape, BuiltTyped
<1> QED BY <1>1, <1>2, ForgetTyped DEF Settle

LEMMA JobStartsShape ==
  ASSUME Shape, NEW c \in Chunks, JobStarts(c)
  PROVE  Shape'
<1>1. job' \in Jobs /\ route' \subseteq Chunks
  BY DEF JobStarts, Shape, QueuedTyped, Jobs, Job, Held
<1>2. chunk' \in Tables
  <2>1. "generating" \in Status
    BY DEF Status, Held
  <2> QED BY <2>1, TableEdits DEF JobStarts, Shape, BuiltTyped
<1> QED BY <1>1, <1>2, Parts DEF Shape, JobStarts, BuiltTyped, QueuedTyped, pumpVars, callVars

LEMMA JobCompletesShape ==
  ASSUME Shape, NEW c \in Chunks, JobCompletes(c)
  PROVE  Shape'
<1>1. job' \in Jobs /\ route' \subseteq Chunks /\ chunk' \in Tables
  BY SettleTyped DEF JobCompletes, Status
<1>2. audio' \subseteq Chunks /\ journal' \in Records
  BY Blanks DEF JobCompletes, Shape, KeptTyped
<1>3. due' \in Dues
  <2>1. "none" \in Signals
    BY DEF Signals
  <2> QED BY <2>1, ReviveTyped, DueEdits DEF JobCompletes, Pump, Shape, RoundsTyped
<1>4. CalledTyped' /\ Waiting' /\ Suffice'
  BY HearShape DEF JobCompletes
<1> QED BY <1>1, <1>2, <1>3, <1>4, Parts DEF Shape, JobCompletes, BuiltTyped, QueuedTyped, KeptTyped, claimVars

LEMMA JobStopsShape ==
  ASSUME Shape, NEW c \in Chunks, JobStops(c)
  PROVE  Shape'
<1>1. job' \in Jobs /\ route' \subseteq Chunks
  BY Blanks DEF JobStops, Shape, QueuedTyped, Jobs
<1>2. chunk' \in Tables /\ due' \in Dues
  BY ForgetTyped, ReviveTyped DEF JobStops, Shape, BuiltTyped, RoundsTyped
<1> QED BY <1>1, <1>2, Parts DEF Shape, JobStops, BuiltTyped, QueuedTyped, callVars

LEMMA JobFailsShape ==
  ASSUME Shape, NEW c \in Chunks, JobFails(c)
  PROVE  Shape'
<1>1. job' \in Jobs /\ route' \subseteq Chunks /\ chunk' \in Tables
  BY SettleTyped DEF JobFails, Status
<1>2. journal' \in Records /\ plan' \in Plans /\ due' \in Dues
  <2>1. journal' \in Records
    BY RecordsTyped DEF JobFails, Shape, KeptTyped
  <2>2. plan' \in Plans
    <3>1. plan' = plan \/ plan' = [plan EXCEPT ![current].halted = TRUE]
      BY DEF JobFails
    <3> QED BY <3>1, PlanEdits DEF Shape, BuiltTyped
  <2> QED BY <2>1, <2>2, ReviveTyped DEF JobFails, Shape, RoundsTyped
<1>3. CalledTyped' /\ Waiting' /\ Suffice'
  BY HearShape DEF JobFails
<1> QED BY <1>1, <1>2, <1>3, Parts DEF Shape, JobFails, BuiltTyped, QueuedTyped

LEMMA ReconcileShape ==
  ASSUME Shape, Reconcile
  PROVE  Shape'
<1>1. due' \in Dues
  BY DueEdits DEF Reconcile, Pump, Shape, RoundsTyped, Signals
<1> QED BY <1>1, Parts DEF Shape, Reconcile, callVars, manifestVars

-----------------------------------------------------------------------------
(* The steps of generateChapter keep the shape.                            *)

LEMMA AbortShape ==
  ASSUME Shape, NEW k, Abort(k), builds' = builds
  PROVE  journal' \in Records /\ CalledTyped' /\ Waiting' /\ Suffice'
<1>1. journal' \in Records
  BY RecordsTyped DEF Abort, Shape, KeptTyped
<1>2. Stop(k, "failed")
  BY DEF Abort
<1> QED BY <1>1, <1>2, StopShape

(* A call k goes on, and nothing else of the calls changes.                *)
LEMMA GoesShape ==
  ASSUME Shape, NEW k \in Calls, NEW r, call' = [call EXCEPT ![k] = r], call' \in CallsOf, builds' = builds,
         r.was <= builds, r.pc = "persist" => r.mine # None, r.pc \in Early => call[k].pc \in Early,
         refused' \subseteq Signals, strands' = strands, joining' \in Joinings,
         prep' = prep /\ consumer' = consumer
  PROVE  CalledTyped' /\ Waiting' /\ Suffice'
<1>1. call \in CallsOf
  BY DEF Shape, CalledTyped
<1>2. Suffice'
  BY <1>1, SufficeGoes DEF Shape
<1> QED BY <1>2 DEF Shape, CalledTyped, Waiting

LEMMA LeadsTyped ==
  ASSUME Shape, NEW k \in Calls
  PROVE  /\ Wanted(k) \in SUBSET Owners /\ Leads(k) \in SUBSET Owners
         /\ Wanted("prep") \subseteq Consumers \ retired /\ Leads("prep") = Wanted("prep")
         /\ call[k] \in CallOf
<1>1. call[k] \in CallOf
  BY DEF Shape, CalledTyped, CallsOf
<1> QED BY <1>1, Constants DEF Wanted, Leads, Shape, CalledTyped, Preps, CallOf

LEMMA PutIntentShape ==
  ASSUME Shape, NEW k \in Calls, PutIntent(k)
  PROVE  Shape'
<1>1. journal' \in Records /\ CalledTyped' /\ Waiting' /\ Suffice'
  <2>1. CASE Abort(k)
    BY <2>1, AbortShape DEF PutIntent, manifestVars
  <2>2. CASE /\ Stop(k, "failed")
             /\ IF call[k].creator \in retired THEN Erase({call[k].creator}) ELSE UNCHANGED journal
    BY <2>2, StopShape, RecordsTyped DEF PutIntent, manifestVars, Shape, KeptTyped
  <2>3. ASSUME NEW o \in Leads(k), Put(o), call' = [call EXCEPT ![k].pc = "put", ![k].lead = o],
               UNCHANGED <<refused, prep, joining, consumer, strands>>
        PROVE  journal' \in Records /\ CalledTyped' /\ Waiting' /\ Suffice'
    <3> DEFINE r == [call[k] EXCEPT !.pc = "put", !.lead = o]
    <3>1. o \in Owners /\ call \in CallsOf /\ call[k] \in CallOf
      BY LeadsTyped DEF Shape, CalledTyped
    <3>2. call' \in CallsOf
      BY <2>3, <3>1, CallEdits
    <3>3. call' = [call EXCEPT ![k] = r] /\ r.was = call[k].was /\ r.pc = "put"
      BY <2>3, <3>1 DEF CallsOf, CallOf
    <3>4. call[k].was <= builds /\ call[k].pc \in Early /\ builds' = builds
      BY DEF Shape, Suffice, PutIntent, At, Early, manifestVars
    <3>5. CalledTyped' /\ Waiting' /\ Suffice'
      <4> HIDE DEF r
      <4> QED BY <2>3, <3>2, <3>3, <3>4, GoesShape DEF Shape, CalledTyped, Early
    <3> QED BY <2>3, <3>1, <3>5, RecordsTyped DEF Shape, KeptTyped
  <2> QED BY <2>1, <2>2, <2>3 DEF PutIntent
<1> QED BY <1>1, Parts DEF Shape, PutIntent, KeptTyped

LEMMA RecordedTyped ==
  ASSUME Shape, NEW k \in Calls
  PROVE  Recorded(k) \in SUBSET Owners
<1>1. call[k].lead \in Owners /\ journal.claims \subseteq Owners
  BY LeadsTyped DEF CallOf, Shape, KeptTyped, Records
<1> QED BY <1>1, LeadsTyped DEF Recorded

LEMMA StartBuildShape ==
  ASSUME Shape, NEW k \in Calls, StartBuild(k)
  PROVE  Shape'
<1>1. journal' \in Records /\ CalledTyped' /\ Waiting' /\ Suffice'
  <2>1. CASE Abort(k)
    BY <2>1, AbortShape DEF StartBuild, manifestVars
  <2>2. CASE ~Abort(k)
    <3> DEFINE r == [call[k] EXCEPT !.pc = "build", !.was = current, !.seen = audio]
               rec == IF call[k].lead \in retired THEN Recorded(k) ELSE journal.claims
               more == IF rec = {} \/ journal.held \/ k = "listen" THEN {} ELSE Wanted(k) \ retired
    <3>1. /\ journal' = [journal EXCEPT !.claims = rec \union more]
          /\ call' = [call EXCEPT ![k].pc = "build", ![k].was = current, ![k].seen = audio]
          /\ UNCHANGED <<refused, prep, joining, consumer, strands>> /\ At(k, "put") /\ builds' = builds
      BY <2>2 DEF StartBuild, manifestVars
    <3>2. call \in CallsOf /\ call[k] \in CallOf /\ audio \in SUBSET Chunks
          /\ current \in 0 .. MaxBuilds /\ current <= builds
      BY LeadsTyped, Constants DEF Shape, CalledTyped, KeptTyped, BuiltTyped
    <3>3. call' \in CallsOf
      BY <3>1, <3>2, CallEdits
    <3>4. call' = [call EXCEPT ![k] = r] /\ r.was = current /\ r.pc = "build"
      BY <3>1, <3>2 DEF CallsOf, CallOf
    <3>5. CalledTyped' /\ Waiting' /\ Suffice'
      <4> HIDE DEF r
      <4> QED BY <3>1, <3>2, <3>3, <3>4, GoesShape DEF Shape, CalledTyped, Early, At
    <3>6. rec \in SUBSET Owners /\ more \in SUBSET Owners
      BY RecordedTyped, LeadsTyped DEF Shape, KeptTyped, Records
    <3>7. journal' \in Records
      BY <3>1, <3>6 DEF Shape, KeptTyped, Records
    <3> QED BY <3>5, <3>7
  <2> QED BY <2>1, <2>2
<1> QED BY <1>1, Parts DEF Shape, StartBuild, KeptTyped

LEMMA EndBuildShape ==
  ASSUME Shape, NEW k \in Calls, EndBuild(k)
  PROVE  Shape'
<1>1. CASE Abort(k) /\ UNCHANGED manifestVars
  <2>1. journal' \in Records /\ CalledTyped' /\ Waiting' /\ Suffice'
    BY <1>1, AbortShape DEF manifestVars
  <2> QED BY <1>1, <2>1, Parts DEF Shape, EndBuild, KeptTyped
<1>2. CASE ~(Abort(k) /\ UNCHANGED manifestVars)
  <2> DEFINE b == builds + 1
             r == [call[k] EXCEPT !.pc = "persist", !.mine = b]
  <2>1. /\ At(k, "build") /\ builds' = b /\ current' = b
        /\ \E ready \in SUBSET (call[k].seen \union audio) :
             chunk' = [chunk EXCEPT ![b] = [c \in Chunks |-> IF c \in ready THEN "ready" ELSE "pending"]]
        /\ Add(IF k = "listen" THEN {} ELSE Wanted(k) \ retired)
        /\ call' = [call EXCEPT ![k].pc = "persist", ![k].mine = b]
        /\ UNCHANGED <<refused, prep, joining, consumer, strands, plan>>
        /\ UNCHANGED <<audio, queueVars, due, round, claimVars, quiescing, left>>
    BY <1>2 DEF EndBuild
  <2>2. call \in CallsOf /\ call[k] \in CallOf /\ builds \in Nat /\ k \in Builders(call)
    BY <2>1, LeadsTyped DEF Shape, CalledTyped, BuiltTyped, Builders, At, Early
  <2>3. b \in 0 .. MaxBuilds /\ b # None /\ b \in Manifests
    <3>1. Cardinality(Builders(call)) \in Nat
      BY BuildersCount
    <3>2. Cardinality(Builders(call)) # 0
      <4>1. Builders([j \in Calls |-> NoCall]) \subseteq Builders(call) \ {k}
        BY DEF Builders, NoCall, Early
      <4>2. Cardinality(Builders([j \in Calls |-> NoCall])) <= Cardinality(Builders(call)) - 1
            /\ Cardinality(Builders([j \in Calls |-> NoCall])) \in Nat
        BY <2>2, <4>1, BuildersCount
      <4> QED BY <3>1, <4>2
    <3> QED BY <2>2, <3>1, <3>2, Constants DEF Shape, Suffice, None
  <2>4. call' \in CallsOf
    BY <2>1, <2>2, <2>3, CallEdits
  <2>5. \A j \in Calls : call'[j] = IF j = k THEN r ELSE call[j]
    BY <2>1, <2>2 DEF CallsOf
  <2>6. r.pc = "persist" /\ r.mine = b /\ r.was = call[k].was
    BY <2>2 DEF CallOf
  <2>7. Suffice'
    <3> HIDE DEF r
    <3>1. Builders(call') \subseteq Builders(call) \ {k}
      BY <2>5, <2>6 DEF Builders, Early
    <3>2. Cardinality(Builders(call')) <= Cardinality(Builders(call)) - 1
          /\ Cardinality(Builders(call')) \in Nat /\ Cardinality(Builders(call)) \in Nat
      BY <2>2, <3>1, BuildersCount
    <3>3. Builders(call)' = Builders(call')
      BY DEF Builders
    <3>4. \A j \in Calls : call'[j].was <= builds' /\ (call'[j].pc = "persist" => call'[j].mine # None)
      <4>1. \A j \in Calls : call'[j].was \in Nat /\ call[j].was \in Nat /\ call[j].was <= builds
        BY <2>2, <2>4 DEF CallsOf, CallOf, Shape, Suffice
      <4>2. \A j \in Calls : call[j].pc = "persist" => call[j].mine # None
        BY DEF Shape, Suffice, At
      <4>3. builds' = builds + 1
        BY <2>1
      <4>4. \A j \in Calls : call'[j].pc = "persist" => call'[j].mine # None
        BY <2>3, <2>5, <2>6, <4>2
      <4>5. \A j \in Calls : call'[j].was <= builds
        BY <2>2, <2>5, <2>6, <4>1
      <4> QED BY <2>2, <4>1, <4>3, <4>4, <4>5
    <3>5. builds' + Cardinality(Builders(call')) <= MaxBuilds
      BY <2>1, <2>2, <3>2, Constants DEF Shape, Suffice
    <3> QED BY <3>3, <3>4, <3>5 DEF Suffice, At
  <2>8. BuiltTyped'
    <3>1. PICK ready : chunk' = [chunk EXCEPT ![b] = [c \in Chunks |-> IF c \in ready THEN "ready" ELSE "pending"]]
      BY <2>1
    <3>2. [c \in Chunks |-> IF c \in ready THEN "ready" ELSE "pending"] \in [Chunks -> Status]
      BY DEF Status
    <3>3. chunk' \in Tables
      BY <3>1, <3>2, TableEdits DEF Shape, BuiltTyped
    <3> QED BY <2>1, <2>2, <2>3, <3>3 DEF Shape, BuiltTyped
  <2>9. journal' \in Records
    <3>1. (IF k = "listen" THEN {} ELSE Wanted(k) \ retired) \in SUBSET Owners
      BY LeadsTyped
    <3> QED BY <2>1, <3>1, RecordsTyped DEF Shape, KeptTyped
  <2>10. CalledTyped' /\ Waiting'
    BY <2>1, <2>4 DEF Shape, CalledTyped, Waiting
  <2> QED BY <2>1, <2>7, <2>8, <2>9, <2>10, Parts DEF Shape, KeptTyped
<1> QED BY <1>1, <1>2

LEMMA InstallShape ==
  ASSUME Shape, NEW k \in Calls, Install(k)
  PROVE  Shape'
<1> DEFINE m == call[k].mine
           was == IF call[k].epoch = book.epoch /\ ~book.deleted THEN call[k].was ELSE None
<1>1. UNCHANGED <<audio, queueVars, round, builds, chunk, claimVars, quiescing, left>> /\ At(k, "persist")
  BY DEF Install
<1>2. call[k] \in CallOf /\ call[k].was <= builds /\ call \in CallsOf
  BY LeadsTyped DEF Shape, Suffice, CalledTyped
<1>3. CASE Abort(k) /\ current' = (IF current = m THEN was ELSE current) /\ UNCHANGED <<due, plan>>
  <2>1. journal' \in Records /\ CalledTyped' /\ Waiting' /\ Suffice'
    BY <1>1, <1>3, AbortShape
  <2>2. current' \in 0 .. builds
    BY <1>2, <1>3, Constants DEF Shape, BuiltTyped, CallOf, None
  <2> QED BY <1>1, <1>3, <2>1, <2>2, Parts DEF Shape, BuiltTyped
<1>4. CASE ~(Abort(k) /\ current' = (IF current = m THEN was ELSE current) /\ UNCHANGED <<due, plan>>)
  <2>1. /\ \E o \in Leads(k) :
             plan' = [plan EXCEPT ![m] = [NoPlan EXCEPT !.on = TRUE, !.claims = Installed(k), !.base = o]]
        /\ Pump(m, IF k = "prep" THEN "prep" ELSE "none")
        /\ IF Complete(m) THEN journal' = NoRecord ELSE UNCHANGED journal
        /\ UNCHANGED current
        /\ IF k = "prep"
           THEN Goto(k, "pump") /\ UNCHANGED <<refused, prep, joining, consumer, strands>>
           ELSE Stop(k, "done")
    BY <1>4 DEF Install
  <2>2. plan' \in Plans
    <3>1. PICK o \in Leads(k) :
             plan' = [plan EXCEPT ![m] = [NoPlan EXCEPT !.on = TRUE, !.claims = Installed(k), !.base = o]]
      BY <2>1
    <3>2. Installed(k) \in SUBSET Owners /\ o \in Owners
      BY <1>2, LeadsTyped DEF Installed, CallOf
    <3>3. [NoPlan EXCEPT !.on = TRUE, !.claims = Installed(k), !.base = o] \in Plan
      BY <3>2, Blanks DEF Plan
    <3> QED BY <3>1, <3>3, PlanEdits DEF Shape, BuiltTyped
  <2>3. due' \in Dues
    BY <2>1, DueEdits DEF Pump, Shape, RoundsTyped, Signals
  <2>4. journal' \in Records
    BY <2>1, Blanks DEF Shape, KeptTyped
  <2>5. CalledTyped' /\ Waiting' /\ Suffice'
    <3>1. CASE k = "prep"
      <4> DEFINE r == [call[k] EXCEPT !.pc = "pump"]
      <4>1. call' = [call EXCEPT ![k] = r] /\ r.was = call[k].was /\ r.pc = "pump"
        BY <1>2, <2>1, <3>1 DEF Goto, CallsOf, CallOf
      <4>2. call' \in CallsOf
        <5>1. call' = [call EXCEPT ![k].pc = "pump"]
          BY <2>1, <3>1 DEF Goto
        <5> QED BY <1>2, <5>1, CallEdits
      <4> HIDE DEF r
      <4> QED BY <1>1, <1>2, <2>1, <3>1, <4>1, <4>2, GoesShape DEF Shape, CalledTyped, Early
    <3>2. CASE k # "prep"
      BY <1>1, <2>1, <3>2, StopShape
    <3> QED BY <3>1, <3>2
  <2> QED BY <1>1, <2>1, <2>2, <2>3, <2>4, <2>5, Parts DEF Shape, BuiltTyped
<1> QED BY <1>3, <1>4

-----------------------------------------------------------------------------
(* The steps of the prepare job and of claimChapter keep the shape.        *)

LEMMA StartClaimTyped ==
  ASSUME Shape, NEW o \in Owners, NEW s \in Signals, StartClaim(o, s)
  PROVE  journal' \in Records /\ joining' \in Joinings
<1>1. CASE current = None
  BY <1>1 DEF StartClaim, Shape, KeptTyped, CalledTyped
<1>2. CASE current # None
  <2>1. Add({o}) /\ joining' = [joining EXCEPT ![o] = [pc |-> "adding", m |-> current, sig |-> s,
                        changed |-> o \in Adds({o}) \ journal.claims]]
    BY <1>2 DEF StartClaim
  <2>2. journal' \in Records
    BY <2>1, RecordsTyped DEF Shape, KeptTyped
  <2>3. current \in 0 .. MaxBuilds
    BY Constants DEF Shape, BuiltTyped
  <2>4. [pc |-> "adding", m |-> current, sig |-> s, changed |-> o \in Adds({o}) \ journal.claims] \in Joining
    BY <2>3 DEF Joining
  <2> QED BY <2>1, <2>2, <2>4 DEF Shape, CalledTyped, Joinings
<1> QED BY <1>1, <1>2

LEMMA RequestShape ==
  ASSUME Shape, NEW o \in Consumers, Request(o)
  PROVE  Shape'
<1>1. /\ consumer[o] = "idle" /\ consumer' = [consumer EXCEPT ![o] = "waiting"]
      /\ UNCHANGED <<strands, audio, queueVars, pumpVars, manifestVars, claimVars, quiescing>>
  BY DEF Request
<1>2. consumer' \in Fates /\ o \in Owners /\ o \in Signals /\ call \in CallsOf
  BY <1>1, Constants DEF Shape, CalledTyped, Fates, Signals
<1>3. CASE prep.open
  <2>1. prep' = [prep EXCEPT !.consumers = @ \union {o}] /\ StartClaim(o, o) /\ UNCHANGED call
    BY <1>3 DEF Request
  <2>2. journal' \in Records /\ joining' \in Joinings
    BY <1>2, <2>1, StartClaimTyped
  <2>3. prep' \in Preps /\ prep'.open /\ prep'.consumers = prep.consumers \union {o}
    BY <1>3, <2>1 DEF Shape, CalledTyped, Preps
  <2>4. Waiting'
    BY <1>1, <2>3 DEF Shape, Waiting, CalledTyped, Fates
  <2>5. CalledTyped' /\ Suffice'
    BY <1>1, <1>2, <2>1, <2>2, <2>3, Parts DEF Shape, CalledTyped, pumpVars, manifestVars
  <2> QED BY <1>1, <2>2, <2>4, <2>5, Parts DEF Shape, pumpVars
<1>4. CASE ~prep.open
  <2> DEFINE r == [NoCall EXCEPT !.pc = "load", !.creator = o]
  <2>1. /\ Room /\ prep' = [open |-> TRUE, consumers |-> {o}, aborted |-> FALSE]
        /\ call' = [call EXCEPT !["prep"] = r] /\ UNCHANGED <<journal, joining>>
    BY <1>4 DEF Request
  <2>2. r \in CallOf /\ r.pc = "load" /\ r.was = 0
    BY <1>2, Blanks DEF CallOf, NoCall, None
  <2>3. call' \in CallsOf
    BY <1>2, <2>1, <2>2, CallEdits
  <2>4. Suffice'
    <3>1. "prep" \in Calls /\ 0 <= builds /\ builds' = builds
      BY <1>1 DEF Calls, manifestVars, Shape, BuiltTyped
    <3> HIDE DEF r
    <3> QED BY <1>2, <2>1, <2>2, <3>1, SufficeBegins DEF Shape
  <2>5. Waiting'
    <3>1. prep.consumers = {}
      BY <1>4 DEF Shape, Waiting
    <3> QED BY <1>1, <2>1, <3>1 DEF Shape, Waiting, CalledTyped, Fates
  <2>6. prep' \in Preps
    BY <2>1 DEF Preps
  <2>7. CalledTyped'
    BY <1>1, <1>2, <2>1, <2>3, <2>6 DEF Shape, CalledTyped, pumpVars
  <2> QED BY <1>1, <2>1, <2>4, <2>5, <2>7, Parts DEF Shape, pumpVars, KeptTyped
<1> QED BY <1>3, <1>4

LEMMA GenerateTyped ==
  ASSUME Shape, NEW k \in Calls, NEW lead \in Owners, NEW cl \in SUBSET Owners, Generate(k, lead, cl)
  PROVE  \E r \in CallOf : /\ call' = [call EXCEPT ![k] = r] /\ call' \in CallsOf
                           /\ r.pc = "plan" /\ r.was = 0 /\ book' \in Books
<1> DEFINE r == [NoCall EXCEPT !.pc = "plan", !.epoch = book.epoch, !.lead = lead, !.creator = lead, !.claims = cl]
<1>1. r \in CallOf /\ r.pc = "plan" /\ r.was = 0
  BY Blanks DEF CallOf, NoCall, None, Shape, KeptTyped, Books
<1>2. call' = [call EXCEPT ![k] = r] /\ book' \in Books
  BY DEF Generate, Shape, KeptTyped, Books
<1>3. call' \in CallsOf
  BY <1>1, <1>2, CallEdits DEF Shape, CalledTyped
<1> QED BY <1>1, <1>2, <1>3

LEMMA PrepareShape ==
  ASSUME Shape, Prepare
  PROVE  Shape'
<1>1. UNCHANGED <<retired, released, audio, queueVars, due, round, manifestVars, quiescing, left>>
      /\ call["prep"].pc = "load" /\ builds' = builds
  BY DEF Prepare, At, manifestVars
<1>2. "prep" \in Calls /\ call \in CallsOf /\ call["prep"] \in CallOf /\ call["prep"].was <= builds
      /\ call["prep"].creator \in Owners
  BY LeadsTyped DEF Calls, Shape, CalledTyped, Suffice, CallOf
<1>3. journal' \in Records /\ book' \in Books /\ CalledTyped' /\ Waiting' /\ Suffice'
  <2>1. CASE Stop("prep", "failed") /\ UNCHANGED <<book, journal>>
    BY <1>1, <2>1, StopShape DEF Shape, KeptTyped
  <2>2. CASE Abort("prep") /\ book' = [book EXCEPT !.deleted = FALSE]
    BY <1>1, <2>2, AbortShape DEF Shape, KeptTyped, Books
  <2>3. CASE Generate("prep", call["prep"].creator, {})
             /\ UNCHANGED <<journal, refused, prep, joining, consumer, strands>>
    <3>1. PICK r \in CallOf : /\ call' = [call EXCEPT !["prep"] = r] /\ call' \in CallsOf
                              /\ r.pc = "plan" /\ r.was = 0 /\ book' \in Books
      BY <1>2, <2>3, GenerateTyped
    <3>2. 0 <= builds
      BY DEF Shape, BuiltTyped
    <3>3. CalledTyped' /\ Waiting' /\ Suffice'
      BY <1>1, <1>2, <2>3, <3>1, <3>2, GoesShape DEF Shape, CalledTyped, Early
    <3> QED BY <2>3, <3>1, <3>3 DEF Shape, KeptTyped
  <2>4. CASE StartClaim(call["prep"].creator, "prep") /\ Goto("prep", "claim")
             /\ UNCHANGED <<refused, prep, consumer, strands, book>>
    <3> DEFINE r == [call["prep"] EXCEPT !.pc = "claim"]
    <3>1. call' = [call EXCEPT !["prep"].pc = "claim"]
      BY <2>4 DEF Goto
    <3>2. call' \in CallsOf
      BY <1>2, <3>1, CallEdits
    <3>3. call' = [call EXCEPT !["prep"] = r] /\ r.pc = "claim" /\ r.was = call["prep"].was
      BY <1>2, <3>1 DEF CallsOf, CallOf
    <3>4. journal' \in Records /\ joining' \in Joinings
      BY <1>2, <2>4, StartClaimTyped DEF Signals
    <3>5. CalledTyped' /\ Waiting' /\ Suffice'
      <4> HIDE DEF r
      <4> QED BY <1>1, <1>2, <2>4, <3>2, <3>3, <3>4, GoesShape DEF Shape, CalledTyped, Early
    <3> QED BY <2>4, <3>4, <3>5 DEF Shape, KeptTyped
  <2> QED BY <2>1, <2>2, <2>3, <2>4 DEF Prepare, Shape, KeptTyped
<1> QED BY <1>1, <1>3, Parts DEF Shape, KeptTyped

LEMMA FailClaimShape ==
  ASSUME Shape, NEW o \in Consumers, FailClaim(o), builds' = builds
  PROVE  CalledTyped' /\ Waiting' /\ Suffice'
<1>1. joining' \in Joinings /\ UNCHANGED <<call, strands>>
  BY Blanks DEF FailClaim, Shape, CalledTyped, Joinings
<1>2. CASE joining[o].sig = "prep"
  BY <1>1, <1>2, Parts DEF FailClaim, Shape, CalledTyped, Signals, Waiting
<1>3. CASE joining[o].sig # "prep"
  <2>1. /\ refused' = refused \ {o}
        /\ prep' = [prep EXCEPT !.consumers = @ \ {o}, !.aborted = @ \/ prep.consumers = {o}]
        /\ consumer' = [consumer EXCEPT ![o] = IF @ = "waiting" THEN "failed" ELSE @]
    BY <1>3 DEF FailClaim
  <2>2. prep' \in Preps /\ prep'.consumers = prep.consumers \ {o} /\ prep'.open = prep.open
    BY <2>1 DEF Shape, CalledTyped, Preps
  <2>3. consumer' \in Fates
    BY <2>1 DEF Shape, CalledTyped, Fates
  <2>4. Waiting'
    BY <2>1, <2>2 DEF Shape, Waiting, CalledTyped, Fates
  <2> QED BY <1>1, <2>1, <2>2, <2>3, <2>4, Parts DEF Shape, CalledTyped
<1> QED BY <1>2, <1>3

LEMMA ClaimShape ==
  ASSUME Shape, NEW o \in Consumers, Claim(o)
  PROVE  Shape'
<1>1. UNCHANGED <<audio, route, round, current, builds, chunk, claimVars, quiescing, left>>
  BY DEF Claim
<1>2. o \in Owners /\ joining[o] \in Joining
  BY Constants DEF Shape, CalledTyped, Joinings
<1>3. CASE UndoClaim(o) /\ FailClaim(o) /\ UNCHANGED <<job, due, plan>>
  <2>1. journal' \in Records
    BY <1>3, RecordsTyped DEF UndoClaim, Shape, KeptTyped
  <2>2. CalledTyped' /\ Waiting' /\ Suffice'
    BY <1>1, <1>3, FailClaimShape
  <2> QED BY <1>1, <1>3, <2>1, <2>2, Parts DEF Shape, BuiltTyped, QueuedTyped
<1>4. CASE ~(UndoClaim(o) /\ FailClaim(o) /\ UNCHANGED <<job, due, plan>>)
  <2> DEFINE m == joining[o].m
  <2>1. /\ plan' = IF plan[m].on THEN [plan EXCEPT ![m].claims = @ \union {o}] ELSE plan
        /\ job' = [c \in Chunks |-> IF chunk[m][c] \in Held /\ Running(c)
                                    THEN [job[c] EXCEPT !.claims = @ \union {o}] ELSE job[c]]
        /\ IF plan[m].on THEN Pump(m, joining[o].sig) ELSE UNCHANGED due
        /\ joining' = [joining EXCEPT ![o].pc = "pump"]
        /\ UNCHANGED <<journal, refused, call, prep, consumer, strands>>
    BY <1>4 DEF Claim
  <2>2. plan' \in Plans /\ due' \in Dues
    <3>1. plan' = plan \/ plan' = [plan EXCEPT ![m].claims = @ \union {o}]
      BY <2>1
    <3>2. plan' \in Plans
      BY <1>2, <3>1, PlanEdits DEF Shape, BuiltTyped
    <3>3. due' = due \/ due' = [due EXCEPT ![m] = @ \union {joining[o].sig}]
      BY <2>1 DEF Pump
    <3> QED BY <1>2, <3>2, <3>3, DueEdits DEF Shape, RoundsTyped, Joining
  <2>3. job' \in Jobs
    <3>1. \A c \in Chunks : job[c] \in Job /\ [job[c] EXCEPT !.claims = @ \union {o}] \in Job
      BY <1>2, JobsTyped DEF Shape, QueuedTyped, Jobs
    <3> QED BY <2>1, <3>1 DEF Jobs
  <2>4. joining' \in Joinings
    BY <2>1 DEF Shape, CalledTyped, Joinings, Joining
  <2> QED BY <1>1, <2>1, <2>2, <2>3, <2>4, Parts
        DEF Shape, BuiltTyped, QueuedTyped, CalledTyped, Waiting, KeptTyped, claimVars
<1> QED BY <1>3, <1>4

LEMMA ClaimedShape ==
  ASSUME Shape, NEW o \in Consumers, Claimed(o)
  PROVE  Shape'
<1> DEFINE s == joining[o].sig
           jobs == [c \in Chunks |-> IF chunk[joining[o].m][c] \in Held THEN Unclaimed(job[c], {o})
                                     ELSE job[c]]
<1>1. UNCHANGED <<audio, round, current, builds, plan, claimVars, quiescing, left>>
  BY DEF Claimed
<1>2. CASE s \notin refused
  <2>1. /\ joining' = [joining EXCEPT ![o] = NoClaim]
        /\ UNCHANGED <<journal, job, route, chunk, due, refused, call, prep, consumer, strands>>
    BY <1>2 DEF Claimed
  <2>2. joining' \in Joinings
    BY <2>1, Blanks DEF Shape, CalledTyped, Joinings
  <2> QED BY <1>1, <2>1, <2>2, Parts DEF Shape, BuiltTyped, QueuedTyped, CalledTyped, Waiting, KeptTyped, claimVars
<1>3. CASE s \in refused
  <2>1. /\ UndoClaim(o) /\ FailClaim(o) /\ job' = jobs /\ route' = route \ Ended(jobs)
        /\ chunk' = Forget(chunk, Ended(jobs)) /\ due' = Revive(due, Ended(jobs))
    BY <1>3 DEF Claimed
  <2>2. journal' \in Records
    BY <2>1, RecordsTyped DEF UndoClaim, Shape, KeptTyped
  <2>3. CalledTyped' /\ Waiting' /\ Suffice'
    BY <1>1, <2>1, FailClaimShape
  <2>4. jobs \in Jobs
    <3>1. \A c \in Chunks : job[c] \in Job /\ Unclaimed(job[c], {o}) \in Job
      BY Constants, JobsTyped DEF Shape, QueuedTyped, Jobs
    <3> QED BY <3>1 DEF Jobs
  <2>5. chunk' \in Tables /\ due' \in Dues
    BY <2>1, ForgetTyped, ReviveTyped DEF Shape, BuiltTyped, RoundsTyped
  <2> QED BY <1>1, <2>1, <2>2, <2>3, <2>4, <2>5, Parts DEF Shape, BuiltTyped, QueuedTyped
<1> QED BY <1>2, <1>3

(* The prepare job goes on to wait.                                        *)
LEMMA AwaitShape ==
  ASSUME Shape, Await
  PROVE  Shape'
<1>1. UNCHANGED <<audio, queueVars, due, round, manifestVars, claimVars, quiescing, left>> /\ builds' = builds
  BY DEF Await, manifestVars
<1>2. journal' \in Records /\ CalledTyped' /\ Waiting' /\ Suffice'
  <2>1. CASE Abort("prep")
    BY <1>1, <2>1, AbortShape
  <2>2. CASE Stop("prep", "failed") /\ UNCHANGED journal
    BY <1>1, <2>2, StopShape DEF Shape, KeptTyped
  <2>3. CASE Goto("prep", "wait") /\ UNCHANGED <<journal, refused, prep, joining, consumer, strands>>
    <3> DEFINE r == [call["prep"] EXCEPT !.pc = "wait"]
    <3>1. "prep" \in Calls /\ call \in CallsOf /\ call["prep"] \in CallOf /\ call["prep"].was <= builds
      BY LeadsTyped DEF Calls, Shape, CalledTyped, Suffice
    <3>2. call' = [call EXCEPT !["prep"].pc = "wait"]
      BY <2>3 DEF Goto
    <3>3. call' \in CallsOf
      BY <3>1, <3>2, CallEdits
    <3>4. call' = [call EXCEPT !["prep"] = r] /\ r.pc = "wait" /\ r.was = call["prep"].was
      BY <3>1, <3>2 DEF CallsOf, CallOf
    <3>5. CalledTyped' /\ Waiting' /\ Suffice'
      <4> HIDE DEF r
      <4> QED BY <1>1, <2>3, <3>1, <3>3, <3>4, GoesShape DEF Shape, CalledTyped, Early
    <3> QED BY <2>3, <3>5 DEF Shape, KeptTyped
  <2> QED BY <2>1, <2>2, <2>3 DEF Await
<1> QED BY <1>1, <1>2, Parts DEF Shape

LEMMA EndWaitShape ==
  ASSUME Shape, EndWait
  PROVE  Shape'
<1>1. CalledTyped' /\ Waiting' /\ Suffice'
  BY StopShape DEF EndWait, manifestVars
<1> QED BY <1>1, Parts DEF Shape, EndWait

LEMMA CheckLivenessShape ==
  ASSUME Shape, CheckLiveness
  PROVE  Shape'
<1>1. CASE /\ strands < Recoveries /\ strands' = strands + 1 /\ Pump(current, "none")
           /\ UNCHANGED <<call, prep, joining, consumer, refused>>
  <2>1. due' \in Dues
    BY <1>1, DueEdits DEF Pump, Shape, RoundsTyped, Signals
  <2>2. strands' \in 0 .. Recoveries
    BY <1>1, Constants DEF Shape, CalledTyped
  <2> QED BY <1>1, <2>1, <2>2, Parts DEF Shape, CheckLiveness, CalledTyped, Waiting, Suffice, Builders, At, manifestVars
<1>2. CASE Stop("prep", "failed") /\ UNCHANGED due
  <2>1. CalledTyped' /\ Waiting' /\ Suffice'
    BY <1>2, StopShape DEF CheckLiveness, manifestVars
  <2> QED BY <1>2, <2>1, Parts DEF Shape, CheckLiveness
<1> QED BY <1>1, <1>2 DEF CheckLiveness

-----------------------------------------------------------------------------
(* The steps of the callers keep the shape.                                *)

LEMMA LeaveShape ==
  ASSUME Shape, NEW o \in Consumers, Leave(o)
  PROVE  Shape'
<1>1. consumer' = [consumer EXCEPT ![o] = "gone"] /\ consumer[o] = "waiting"
      /\ UNCHANGED <<call, joining, strands, durableVars, queueVars, pumpVars, manifestVars,
                     claimVars, quiescing>>
  BY DEF Leave
<1>2. o \in prep.consumers
  BY <1>1 DEF Shape, Waiting
<1>3. prep' \in Preps /\ prep'.consumers = prep.consumers \ {o} /\ prep'.open = prep.open
  BY <1>2 DEF Leave, Shape, CalledTyped, Preps
<1>4. consumer' \in Fates
  BY <1>1 DEF Shape, CalledTyped, Fates
<1>5. Waiting'
  BY <1>1, <1>3 DEF Shape, Waiting, CalledTyped, Fates
<1>6. CalledTyped'
  BY <1>1, <1>3, <1>4 DEF Shape, CalledTyped, pumpVars
<1> QED BY <1>1, <1>5, <1>6, Parts DEF Shape, pumpVars, manifestVars

LEMMA ReleaseShape ==
  ASSUME Shape, NEW o \in Consumers, Release(o)
  PROVE  Shape'
<1> DEFINE jobs == [c \in Chunks |-> Unclaimed(job[c], {o})]
<1>1. /\ retired' = retired \union {o}
      /\ plan' = IF current = None THEN plan
                 ELSE [plan EXCEPT ![current].claims = @ \ {o},
                                   ![current].base = IF @ = o THEN Anon ELSE @]
      /\ job' = jobs /\ route' = route \ Ended(jobs)
      /\ chunk' = Forget(chunk, Ended(jobs)) /\ due' = Revive(due, Ended(jobs))
      /\ Erase({o}) \/ UNCHANGED journal
      /\ UNCHANGED <<released, book, audio, current, builds, round, refused, callVars, quiescing>>
  BY DEF Release
<1>2. journal' \in Records
  BY <1>1, RecordsTyped DEF Shape, KeptTyped
<1>3. jobs \in Jobs
  <2>1. \A c \in Chunks : Unclaimed(job[c], {o}) \in Job
    BY Constants, JobsTyped DEF Shape, QueuedTyped, Jobs
  <2> QED BY <2>1 DEF Jobs
<1>4. chunk' \in Tables /\ due' \in Dues
  BY <1>1, ForgetTyped, ReviveTyped DEF Shape, BuiltTyped, RoundsTyped
<1>5. plan' \in Plans
  <2>1. plan \in Plans
    BY DEF Shape, BuiltTyped
  <2>2. CASE current \in Manifests /\ current # None
    <3> DEFINE q == [plan[current] EXCEPT !.claims = @ \ {o}, !.base = IF @ = o THEN Anon ELSE @]
    <3>1. plan[current] \in Plan
      BY <2>1, <2>2 DEF Plans
    <3>2. q \in Plan
      BY <3>1, Constants DEF Plan
    <3>3. plan' = [plan EXCEPT ![current] = q]
      BY <1>1, <2>1, <2>2 DEF Plans
    <3> QED BY <2>1, <3>2, <3>3, PlanEdits
  <2>3. CASE current \notin Manifests \/ current = None
    BY <1>1, <2>1, <2>3 DEF Plans
  <2> QED BY <2>2, <2>3
<1>6. KeptTyped'
  BY <1>1, <1>2 DEF Shape, KeptTyped
<1>7. CalledTyped' /\ Waiting' /\ Suffice'
  BY <1>1, Parts DEF Shape, callVars
<1>8. BuiltTyped' /\ QueuedTyped'
  BY <1>1, <1>3, <1>4, <1>5 DEF Shape, BuiltTyped, QueuedTyped, callVars
<1>9. RoundsTyped'
  BY <1>1, <1>4, Parts DEF Shape
<1> QED BY <1>6, <1>7, <1>8, <1>9 DEF Shape

LEMMA ReleasedShape ==
  ASSUME Shape, NEW o \in Consumers, Released(o)
  PROVE  Shape'
<1>1. journal' \in Records
  BY RecordsTyped DEF Released, Shape, KeptTyped
<1>2. KeptTyped'
  BY <1>1 DEF Shape, KeptTyped, Released
<1> QED BY <1>2, Parts DEF Shape, Released, pumpVars, manifestVars, callVars

LEMMA PumpTyped ==
  ASSUME Shape, NEW m, NEW s \in Signals, Pump(m, s)
  PROVE  due' \in Dues
  BY DueEdits DEF Pump, Shape, RoundsTyped

LEMMA ListenShape ==
  ASSUME Shape, Listen
  PROVE  Shape'
<1>1. UNCHANGED <<prep, joining, consumer, strands, retired, released, audio, queueVars, round,
                  refused, current, builds, chunk, quiescing>> /\ journal' = journal
      /\ "none" \in Signals
  BY DEF Listen, Signals
<1>2. CASE Room /\ Generate("listen", Listener, {Listener}) /\ UNCHANGED <<due, plan>>
  <2>1. PICK r \in CallOf : /\ call' = [call EXCEPT !["listen"] = r] /\ call' \in CallsOf
                            /\ r.pc = "plan" /\ r.was = 0 /\ book' \in Books
    BY <1>2, Constants, GenerateTyped DEF Calls
  <2>2. Suffice'
    <3>1. "listen" \in Calls /\ call \in CallsOf /\ 0 <= builds /\ builds' = builds
      BY <1>1 DEF Calls, Shape, BuiltTyped, CalledTyped
    <3> QED BY <1>2, <2>1, <3>1, SufficeBegins DEF Shape
  <2>3. CalledTyped' /\ Waiting'
    BY <1>1, <2>1 DEF Shape, CalledTyped, Waiting
  <2> QED BY <1>1, <1>2, <2>1, <2>2, <2>3, Parts DEF Shape, KeptTyped, BuiltTyped, QueuedTyped
<1>3. CASE /\ \E c \in Chunks : plan' = [plan EXCEPT ![current].urgent = @ \union {c}]
           /\ Pump(current, "none") /\ UNCHANGED <<call, book>>
  <2>1. plan' \in Plans
    <3>1. PICK c \in Chunks : plan' = [plan EXCEPT ![current].urgent = @ \union {c}]
      BY <1>3
    <3> QED BY <3>1, PlanEdits DEF Shape, BuiltTyped
  <2>2. due' \in Dues
    BY <1>1, <1>3, PumpTyped
  <2> QED BY <1>1, <1>3, <2>1, <2>2, Parts DEF Shape, KeptTyped, BuiltTyped, QueuedTyped, CalledTyped, callVars
<1> QED BY <1>2, <1>3 DEF Listen

LEMMA ResumeErrorsShape ==
  ASSUME Shape, ResumeErrors
  PROVE  Shape'
<1>1. /\ Room /\ Generate("resume", Anon, plan[current].claims) /\ current # None
      /\ UNCHANGED <<prep, joining, consumer, strands, retired, released, durableVars, queueVars,
                     pumpVars, manifestVars, quiescing>>
  BY DEF ResumeErrors
<1>2. plan[current].claims \in SUBSET Owners
  BY <1>1, Constants DEF Shape, BuiltTyped, Plans, Plan
<1>3. PICK r \in CallOf : /\ call' = [call EXCEPT !["resume"] = r] /\ call' \in CallsOf
                          /\ r.pc = "plan" /\ r.was = 0 /\ book' \in Books
  BY <1>1, <1>2, Constants, GenerateTyped DEF Calls
<1>4. Suffice'
  <2>1. "resume" \in Calls /\ call \in CallsOf /\ 0 <= builds /\ builds' = builds
    BY <1>1 DEF Calls, Shape, BuiltTyped, CalledTyped, manifestVars
  <2> QED BY <1>1, <1>3, <2>1, SufficeBegins DEF Shape
<1>5. CalledTyped' /\ Waiting'
  BY <1>1, <1>3 DEF Shape, CalledTyped, Waiting, pumpVars
<1> QED BY <1>1, <1>3, <1>4, <1>5, Parts DEF Shape, KeptTyped, durableVars, pumpVars

LEMMA CancelBookShape ==
  ASSUME Shape, CancelBook
  PROVE  Shape'
<1>1. /\ book' = [deleted |-> TRUE, epoch |-> book.epoch + 1]
      /\ job' = [c \in Chunks |-> Unclaimed(job[c], Owners)]
      /\ route' = route \ Ended(job') /\ chunk' = Forget(chunk, Ended(job'))
      /\ plan' = plan \/ plan' = [plan EXCEPT ![current].cancelled = TRUE]
      /\ current' = None /\ journal' = NoRecord /\ Hear(TRUE, "failed")
      /\ UNCHANGED <<retired, released, audio, builds, due, round, quiescing>>
  BY DEF CancelBook
<1>2. job' \in Jobs
  <2>1. \A c \in Chunks : Unclaimed(job[c], Owners) \in Job
    BY JobsTyped DEF Shape, QueuedTyped, Jobs
  <2> QED BY <1>1, <2>1 DEF Jobs
<1>3. chunk' \in Tables /\ plan' \in Plans
  BY <1>1, ForgetTyped, PlanEdits DEF Shape, BuiltTyped
<1>4. CalledTyped' /\ Waiting' /\ Suffice'
  BY <1>1, HearShape
<1>5. KeptTyped'
  BY <1>1, Blanks DEF Shape, KeptTyped, Books
<1>6. BuiltTyped'
  BY <1>1, <1>3 DEF Shape, BuiltTyped, None
<1> QED BY <1>1, <1>2, <1>4, <1>5, <1>6, Parts DEF Shape, QueuedTyped

LEMMA QuiesceShape ==
  ASSUME Shape, Quiesce
  PROVE  Shape'
<1> DEFINE live == {c \in Chunks : chunk[current][c] \in Held}
           jobs == [c \in Chunks |-> IF c \in live THEN Cancelled(job[c]) ELSE job[c]]
<1>1. /\ job' = jobs /\ route' = route \ Ended(jobs) /\ chunk' = Forget(chunk, Ended(jobs))
      /\ quiescing' = {0} \union (live \ Ended(jobs))
      /\ plan' = [plan EXCEPT ![current].cancelled = TRUE]
      /\ UNCHANGED <<durableVars, pumpVars, current, builds, callVars, claimVars>>
  BY DEF Quiesce
<1>2. jobs \in Jobs
  <2>1. \A c \in Chunks : job[c] \in Job /\ Cancelled(job[c]) \in Job
    BY JobsTyped DEF Shape, QueuedTyped, Jobs
  <2> QED BY <2>1 DEF Jobs
<1>3. chunk' \in Tables /\ plan' \in Plans
  BY <1>1, ForgetTyped, PlanEdits DEF Shape, BuiltTyped
<1>4. QueuedTyped'
  BY <1>1, <1>2 DEF Shape, QueuedTyped
<1> QED BY <1>1, <1>3, <1>4, Parts DEF Shape, BuiltTyped, pumpVars, callVars

LEMMA QuiescedShape ==
  ASSUME Shape, Quiesced
  PROVE  Shape'
<1>1. /\ quiescing' = {} /\ current' = None /\ audio' \subseteq Chunks /\ Hear(TRUE, "failed")
      /\ UNCHANGED <<journal, queueVars, due, round, builds, chunk, plan, claimVars, left>>
  BY DEF Quiesced, Shape, KeptTyped
<1>2. CalledTyped' /\ Waiting' /\ Suffice'
  BY <1>1, HearShape
<1>3. BuiltTyped' /\ KeptTyped' /\ QueuedTyped'
  BY <1>1 DEF Shape, BuiltTyped, KeptTyped, QueuedTyped, claimVars, queueVars, None
<1> QED BY <1>1, <1>2, <1>3, Parts DEF Shape

LEMMA InvalidateShape ==
  ASSUME Shape, NEW c \in Chunks, Invalidate(c)
  PROVE  Shape'
<1>1. /\ audio' = audio \ {c} /\ chunk' = [chunk EXCEPT ![current][c] = "pending"]
      /\ \/ plan' = [plan EXCEPT ![current].urgent = @ \union {c}] /\ Pump(current, "none")
         \/ UNCHANGED <<plan, due>>
      /\ UNCHANGED <<journal, current, builds, round, refused, queueVars, callVars, claimVars, quiescing>>
  BY DEF Invalidate
<1>2. chunk' \in Tables
  BY <1>1, TableEdits DEF Shape, BuiltTyped, Status
<1>3. plan' \in Plans /\ due' \in Dues
  BY <1>1, PlanEdits, PumpTyped DEF Shape, BuiltTyped, RoundsTyped, Signals
<1>4. KeptTyped'
  BY <1>1 DEF Shape, KeptTyped, claimVars
<1> QED BY <1>1, <1>2, <1>3, <1>4, Parts DEF Shape, BuiltTyped, callVars

(* Where nothing else is under way, one call needs one manifest.           *)
LEMMA SufficeAlone ==
  ASSUME builds \in Nat, builds < MaxBuilds, NEW cs, Builders(cs) \subseteq {"resume"}
  PROVE  builds + Cardinality(Builders(cs)) <= MaxBuilds
<1> DEFINE none == [k \in Calls |-> NoCall]
<1>1. Builders(none) = {}
  BY DEF Builders, NoCall, Early
<1>2. Cardinality(Builders(none)) = 0
  BY <1>1, FS_EmptySet
<1>3. Cardinality(Builders(cs)) <= 1 /\ Cardinality(Builders(cs)) \in Nat
  <2>1. Cardinality(Builders(cs)) <= Cardinality(Builders(none)) + 1 /\ Cardinality(Builders(cs)) \in Nat
    BY <1>1, BuildersCount
  <2> QED BY <1>2, <2>1
<1> QED BY <1>3, Constants

LEMMA RestartShape ==
  ASSUME Shape, Restart
  PROVE  Shape'
<1>1. /\ Erase({Listener}) /\ retired' = {} /\ released' = {}
      /\ book' = [deleted |-> FALSE, epoch |-> 0] /\ current' = None
      /\ chunk' = [m \in Manifests |-> Fresh] /\ plan' = [m \in Manifests |-> NoPlan]
      /\ due' = [m \in Manifests |-> {}] /\ round' = [m \in Manifests |-> NoRound]
      /\ refused' = {} /\ job' = [c \in Chunks |-> NoJob] /\ route' = {}
      /\ prep' = NoPrep /\ strands' = 0 /\ joining' = [o \in Consumers |-> NoClaim]
      /\ consumer' = [o \in Consumers |-> IF consumer[o] = "waiting" THEN "failed" ELSE consumer[o]]
      /\ quiescing' = {} /\ UNCHANGED <<audio, builds>> /\ builds < MaxBuilds
  BY DEF Restart
<1>2. \/ call' = [k \in Calls |-> NoCall]
      \/ \E lead \in journal'.claims :
           call' = [k \in Calls |-> IF k = "resume" THEN [NoCall EXCEPT !.pc = "plan", !.lead = lead,
                                      !.creator = lead, !.claims = journal'.claims]
                                    ELSE NoCall]
  BY DEF Restart
<1>3. journal' \in Records
  BY <1>1, RecordsTyped DEF Shape, KeptTyped
<1>4. call' \in CallsOf /\ \A k \in Calls : call'[k].was = 0 /\ call'[k].pc # "persist"
                                            /\ (k # "resume" => call'[k].pc = "off")
  <2>1. CASE call' = [k \in Calls |-> NoCall]
    BY <2>1, Blanks DEF CallsOf, NoCall, None
  <2>2. ASSUME NEW lead \in journal'.claims,
               call' = [k \in Calls |-> IF k = "resume" THEN [NoCall EXCEPT !.pc = "plan", !.lead = lead,
                                      !.creator = lead, !.claims = journal'.claims]
                                    ELSE NoCall]
        PROVE  call' \in CallsOf /\ \A k \in Calls : call'[k].was = 0 /\ call'[k].pc # "persist"
                                            /\ (k # "resume" => call'[k].pc = "off")
    <3> DEFINE r == [NoCall EXCEPT !.pc = "plan", !.lead = lead, !.creator = lead, !.claims = journal'.claims]
    <3>1. lead \in Owners /\ journal'.claims \in SUBSET Owners
      BY <1>3 DEF Records
    <3>2. r \in CallOf /\ r.was = 0 /\ r.pc = "plan"
      BY <3>1, Blanks DEF CallOf, NoCall, None
    <3>3. NoCall \in CallOf /\ NoCall.was = 0 /\ NoCall.pc = "off"
      BY Blanks DEF NoCall, None
    <3> HIDE DEF r
    <3>4. call' = [k \in Calls |-> IF k = "resume" THEN r ELSE NoCall]
      BY <2>2 DEF r
    <3> QED BY <3>2, <3>3, <3>4 DEF CallsOf
  <2> QED BY <1>2, <2>1, <2>2
<1>5. Suffice'
  <2>1. builds \in Nat
    BY DEF Shape, BuiltTyped
  <2>2. Builders(call') \subseteq {"resume"} /\ Builders(call)' = Builders(call')
    BY <1>4 DEF Builders, Early
  <2> QED BY <1>1, <1>4, <2>1, <2>2, SufficeAlone DEF Suffice, At
<1>6. prep' \in Preps /\ prep'.consumers = {}
  BY <1>1, Blanks DEF NoPrep
<1>7. consumer' \in Fates /\ \A o \in Consumers : consumer'[o] # "waiting"
  BY <1>1 DEF Shape, CalledTyped, Fates
<1>8. CalledTyped' /\ Waiting'
  BY <1>1, <1>4, <1>6, <1>7, Blanks, Constants DEF CalledTyped, Waiting, Joinings
<1>9. KeptTyped'
  BY <1>1, <1>3 DEF Shape, KeptTyped, Books
<1>10. BuiltTyped'
  BY <1>1, Blanks DEF Shape, BuiltTyped, Tables, Plans, None
<1>11. QueuedTyped'
  BY <1>1, Blanks DEF QueuedTyped, Jobs
<1>12. RoundsTyped'
  BY <1>1, Blanks DEF RoundsTyped, Dues, Rounds
<1> QED BY <1>5, <1>8, <1>9, <1>10, <1>11, <1>12 DEF Shape

-----------------------------------------------------------------------------

LEMMA InitShape ==
  ASSUME Init PROVE Shape
<1>1. KeptTyped
  BY Blanks DEF Init, KeptTyped, Books
<1>2. BuiltTyped
  BY Blanks, Constants DEF Init, BuiltTyped, Tables, Plans, None
<1>3. QueuedTyped
  BY Blanks DEF Init, QueuedTyped, Jobs
<1>4. RoundsTyped
  BY Blanks DEF Init, RoundsTyped, Dues, Rounds
<1>5. CalledTyped /\ Waiting
  BY Blanks, Constants DEF Init, CalledTyped, Waiting, CallsOf, Joinings, Fates, NoPrep
<1>6. Suffice
  <2>1. Builders(call) = {}
    BY DEF Init, Builders, NoCall, Early
  <2>2. Cardinality(Builders(call)) = 0
    BY <2>1, FS_EmptySet
  <2> QED BY <2>2, Constants DEF Init, Suffice, At, NoCall, None
<1> QED BY <1>1, <1>2, <1>3, <1>4, <1>5, <1>6 DEF Shape

LEMMA NextShape ==
  ASSUME Shape, [Next]_vars PROVE Shape'
<1>1. CASE Generation
  BY <1>1, PutIntentShape, StartBuildShape, EndBuildShape, InstallShape DEF Generation
<1>2. CASE Preparation
  BY <1>2, PrepareShape, AwaitShape, EndWaitShape, CheckLivenessShape DEF Preparation
<1>3. CASE Claiming
  BY <1>3, ClaimShape, ClaimedShape, ReleasedShape DEF Claiming
<1>4. CASE Pumping
  BY <1>4, StartRoundShape, SkipRoundShape, MaterializeShape, AtCapacityShape, AbandonMaterializeShape,
     MaterializeFailsShape DEF Pumping
<1>5. CASE Queue
  BY <1>5, JobStartsShape, JobCompletesShape, JobStopsShape, JobFailsShape DEF Queue
<1>6. CASE Reconcile
  BY <1>6, ReconcileShape
<1>7. CASE Callers
  BY <1>7, RequestShape, LeaveShape, ReleaseShape, ListenShape, ResumeErrorsShape, CancelBookShape,
     QuiesceShape, QuiescedShape, RestartShape, InvalidateShape DEF Callers
<1>8. CASE UNCHANGED vars
  <2>1. UNCHANGED <<durableVars, claimVars, manifestVars, callVars, refused, due, round, queueVars, quiescing>>
    BY <1>8 DEF vars, pumpVars
  <2>2. KeptTyped' /\ BuiltTyped' /\ QueuedTyped' /\ RoundsTyped'
    BY <2>1, Parts DEF Shape
  <2>3. CalledTyped' /\ Waiting' /\ Suffice'
    BY <2>1, Parts DEF Shape, callVars, manifestVars
  <2> QED BY <2>2, <2>3 DEF Shape
<1> QED BY <1>1, <1>2, <1>3, <1>4, <1>5, <1>6, <1>7, <1>8 DEF Next

-----------------------------------------------------------------------------
(* The jobs: what runs is wanted or stopped, and no retired owner wants it.*)

SoundJob(r) == /\ r.st = "free" => r = NoJob
               /\ r.st # "free" /\ ~r.dying => r.claims # {}
JobsSound == \A c \in Chunks : /\ SoundJob(job[c]) /\ job[c].claims \intersect retired = {}
                               /\ book.deleted /\ Running(c) => job[c].dying

LEMMA UnclaimedSound ==
  ASSUME NEW r \in Job, SoundJob(r), NEW O
  PROVE  /\ SoundJob(Unclaimed(r, O)) /\ Unclaimed(r, O).claims \subseteq r.claims \ O
         /\ Unclaimed(r, O).st # "free" => r.st # "free" /\ (r.dying => Unclaimed(r, O).dying)
         /\ Owners \subseteq O /\ Unclaimed(r, O).st # "free" => Unclaimed(r, O).dying
<1>1. NoJob.st = "free" /\ NoJob.claims = {} /\ SoundJob(NoJob)
  BY DEF NoJob, SoundJob
<1>2. CASE r.st = "free" \/ r.claims \intersect O = {}
  <2>1. Unclaimed(r, O) = r
    BY <1>2 DEF Unclaimed
  <2> QED BY <1>1, <1>2, <2>1 DEF SoundJob, Job
<1>3. CASE ~(r.st = "free" \/ r.claims \intersect O = {}) /\ r.claims \subseteq O
  <2>1. Unclaimed(r, O) = IF r.st = "queued" THEN NoJob ELSE [r EXCEPT !.dying = TRUE, !.claims = {}]
    BY <1>3 DEF Unclaimed
  <2>2. LET u == [r EXCEPT !.dying = TRUE, !.claims = {}] IN u.st = r.st /\ u.dying /\ u.claims = {}
    BY DEF Job
  <2> QED BY <1>1, <1>3, <2>1, <2>2 DEF SoundJob
<1>4. CASE ~(r.st = "free" \/ r.claims \intersect O = {}) /\ ~(r.claims \subseteq O)
  <2>1. Unclaimed(r, O) = [r EXCEPT !.claims = @ \ O]
    BY <1>4 DEF Unclaimed
  <2>2. LET u == [r EXCEPT !.claims = @ \ O] IN u.st = r.st /\ u.dying = r.dying /\ u.claims = r.claims \ O
    BY DEF Job
  <2>3. ~(Owners \subseteq O)
    BY <1>4 DEF Job
  <2> QED BY <1>4, <2>1, <2>2, <2>3 DEF SoundJob
<1> QED BY <1>2, <1>3, <1>4

LEMMA CancelledSound ==
  ASSUME NEW r \in Job, SoundJob(r)
  PROVE  /\ SoundJob(Cancelled(r)) /\ Cancelled(r).claims \subseteq r.claims
         /\ Cancelled(r).st # "free" => r.st # "free" /\ Cancelled(r).dying
  BY DEF Job, SoundJob, Cancelled, NoJob

LEMMA JoinedSound ==
  ASSUME NEW r \in Job, SoundJob(r), r.st # "free", NEW O
  PROVE  LET u == [r EXCEPT !.claims = @ \union O]
         IN SoundJob(u) /\ u.claims = r.claims \union O /\ u.st = r.st /\ u.dying = r.dying
  BY DEF Job, SoundJob

(* Nothing of the jobs, the retired or the book changes for the worse.     *)
LEMMA JobsStay ==
  JobsSound /\ UNCHANGED <<job, retired>> /\ (book'.deleted => book.deleted) => JobsSound'
  BY DEF JobsSound, Running

LEMMA JobsEdited ==
  ASSUME JobsSound, UNCHANGED <<retired, book>>,
         \A c \in Chunks : /\ SoundJob(job'[c]) /\ job'[c].claims \intersect retired = {}
                           /\ book.deleted /\ job'[c].st # "free"
                              => job[c].st # "free" /\ (job[c].dying => job'[c].dying)
  PROVE  JobsSound'
  BY DEF JobsSound, Running

LEMMA NoJobSound == SoundJob(NoJob) /\ NoJob.claims = {} /\ NoJob.st = "free"
  BY DEF SoundJob, NoJob

LEMMA StartRoundJobs ==
  ASSUME Shape, JobsSound, NEW m \in Manifests, NEW s \in Signals, StartRound(m, s)
  PROVE  JobsSound'
<1>1. UNCHANGED <<retired, book>>
  BY DEF StartRound, claimVars
<1>2. \A c \in Chunks : job'[c] = job[c] \/ job'[c] = Cancelled(job[c])
  BY DEF StartRound
<1>3. \A c \in Chunks : job[c] \in Job
  BY DEF Shape, QueuedTyped, Jobs
<1> QED BY <1>1, <1>2, <1>3, CancelledSound, JobsEdited DEF JobsSound

LEMMA MaterializeJobs ==
  ASSUME Shape, JobsSound, NEW m \in Manifests, Materialize(m)
  PROVE  JobsSound'
<1> DEFINE c  == Head(round[m].todo)
           o  == round[m].owner
           in == {o} \union Live(m)
                 \union IF o \in retired /\ Live(m) = {} /\ plan[m].claims # {} THEN {Anon} ELSE {}
           r  == Enqueued(c, in)
           u  == Unclaimed(r, Late(o))
<1>1. job' = [job EXCEPT ![c] = u] /\ UNCHANGED <<retired, book>> /\ ~book.deleted /\ round[m].on
  BY DEF Materialize, StillCurrent, claimVars
<1>2. c \in Chunks /\ o \in Owners
  <2>1. round[m] \in Round /\ round[m].todo # <<>>
    BY <1>1 DEF Shape, RoundsTyped, Rounds
  <2> QED BY <2>1 DEF Round
<1>3. job[c] \in Job /\ SoundJob(job[c]) /\ job[c].claims \intersect retired = {} /\ in \in SUBSET Owners
      /\ in # {} /\ in \intersect retired \subseteq {o} \intersect retired
  <2>1. Live(m) \subseteq Owners /\ Live(m) \intersect retired = {} /\ Anon \notin retired
    BY Constants DEF Live, Shape, BuiltTyped, Plans, Plan, KeptTyped
  <2> QED BY <1>2, <2>1, Constants DEF Shape, QueuedTyped, Jobs, JobsSound
<1>4. r \in Job /\ SoundJob(r) /\ r.claims \intersect retired \subseteq {o} \intersect retired
  <2>1. CASE Running(c)
    <3>1. r = [job[c] EXCEPT !.claims = @ \union in]
      BY <2>1 DEF Enqueued
    <3> HIDE DEF in, c
    <3> HIDE DEF r
    <3>2. job[c].st # "free" /\ job[c] \in Job /\ SoundJob(job[c]) /\ in \in SUBSET Owners
      BY <1>3, <2>1 DEF Running
    <3>3. r \in Job
      BY <3>1, <3>2, JobsTyped
    <3>4. SoundJob(r) /\ r.claims = job[c].claims \union in
      BY <3>1, <3>2, JoinedSound
    <3> QED BY <1>3, <3>3, <3>4
  <2>2. CASE ~Running(c)
    <3>1. r = [NoJob EXCEPT !.st = "queued", !.claims = in]
      BY <2>2 DEF Enqueued
    <3> HIDE DEF in
    <3>2. r.st = "queued" /\ r.claims = in
      BY <3>1 DEF NoJob
    <3>3. r \in Job
      BY <1>3, <3>1, JobsTyped DEF Held
    <3> QED BY <1>3, <3>2, <3>3 DEF SoundJob
  <2> QED BY <2>1, <2>2
<1>5. SoundJob(u) /\ u.claims \intersect retired = {}
  <2> HIDE DEF r
  <2>1. SoundJob(u) /\ u.claims \subseteq r.claims \ Late(o)
    BY <1>4, UnclaimedSound
  <2> QED BY <1>4, <2>1 DEF Late
<1> HIDE DEF u, c
<1>6. \A d \in Chunks : job'[d] = IF d = c THEN u ELSE job[d]
  BY <1>1 DEF Shape, QueuedTyped, Jobs
<1> QED BY <1>1, <1>5, <1>6, JobsEdited DEF JobsSound

LEMMA AbandonMaterializeJobs ==
  ASSUME Shape, JobsSound, NEW m \in Manifests, AbandonMaterialize(m)
  PROVE  JobsSound'
<1>1. UNCHANGED <<retired, book>>
  BY DEF AbandonMaterialize, claimVars
<1>2. \A c \in Chunks : job'[c] = job[c] \/ job'[c] = Unclaimed(job[c], {round[m].owner})
  BY DEF AbandonMaterialize, Retire, Shape, QueuedTyped, Jobs
<1>3. \A c \in Chunks : job[c] \in Job /\ SoundJob(job[c]) /\ job[c].claims \intersect retired = {}
  BY DEF Shape, QueuedTyped, Jobs, JobsSound
<1>4. \A c \in Chunks : LET u == Unclaimed(job[c], {round[m].owner})
                        IN /\ SoundJob(u) /\ u.claims \intersect retired = {}
                           /\ u.st # "free" => job[c].st # "free" /\ (job[c].dying => u.dying)
  BY <1>3, UnclaimedSound
<1> QED BY <1>1, <1>2, <1>3, <1>4, JobsEdited

(* A job that starts or ends.                                              *)
LEMMA QueueJobs ==
  ASSUME Shape, JobsSound, NEW c \in Chunks,
         JobStarts(c) \/ JobCompletes(c) \/ JobStops(c) \/ JobFails(c)
  PROVE  JobsSound'
<1>1. UNCHANGED <<retired, book>>
  BY DEF JobStarts, JobCompletes, JobStops, JobFails, claimVars
<1>2. CASE JobStarts(c)
  <2>1. job[c] \in Job /\ job[c].st = "queued" /\ job' = [job EXCEPT ![c].st = "generating"]
    BY <1>2 DEF JobStarts, Shape, QueuedTyped, Jobs
  <2>2. \A d \in Chunks : job'[d] = IF d = c THEN [job[d] EXCEPT !.st = "generating"] ELSE job[d]
    BY <2>1 DEF Shape, QueuedTyped, Jobs
  <2>3. LET u == [job[c] EXCEPT !.st = "generating"]
        IN u.st = "generating" /\ u.claims = job[c].claims /\ u.dying = job[c].dying
    BY <2>1 DEF Job
  <2> QED BY <1>1, <2>1, <2>2, <2>3, JobsEdited DEF JobsSound, SoundJob
<1>3. CASE ~JobStarts(c)
  <2>1. job' = [job EXCEPT ![c] = NoJob]
    BY <1>3 DEF JobCompletes, JobStops, JobFails, Settle
  <2>2. \A d \in Chunks : job'[d] = IF d = c THEN NoJob ELSE job[d]
    BY <2>1 DEF Shape, QueuedTyped, Jobs
  <2> QED BY <1>1, <2>2, NoJobSound, JobsEdited DEF JobsSound
<1> QED BY <1>2, <1>3

LEMMA ClaimJobs ==
  ASSUME Shape, JobsSound, NEW o \in Consumers, Claim(o)
  PROVE  JobsSound'
<1>1. UNCHANGED <<retired, book>>
  BY DEF Claim, claimVars
<1>2. CASE job' = job
  BY <1>1, <1>2, JobsStay
<1>3. CASE job' # job
  <2>1. /\ o \notin retired
        /\ \A c \in Chunks : job'[c] = job[c]
                             \/ (Running(c) /\ job'[c] = [job[c] EXCEPT !.claims = @ \union {o}])
    BY <1>3 DEF Claim, Unwanted
  <2>2. \A c \in Chunks : job[c] \in Job
    BY DEF Shape, QueuedTyped, Jobs
  <2>3. \A c \in Chunks : Running(c) => LET u == [job[c] EXCEPT !.claims = @ \union {o}]
         IN SoundJob(u) /\ u.claims = job[c].claims \union {o} /\ u.st = job[c].st /\ u.dying = job[c].dying
    BY <2>2, JoinedSound DEF JobsSound, Running
  <2>4. ASSUME NEW c \in Chunks
        PROVE  /\ SoundJob(job'[c]) /\ job'[c].claims \intersect retired = {}
               /\ book.deleted /\ job'[c].st # "free" => job[c].st # "free" /\ (job[c].dying => job'[c].dying)
    <3>1. SoundJob(job[c]) /\ job[c].claims \intersect retired = {}
      BY DEF JobsSound
    <3>2. CASE job'[c] = job[c]
      BY <3>1, <3>2
    <3>3. CASE Running(c) /\ job'[c] = [job[c] EXCEPT !.claims = @ \union {o}]
      BY <2>1, <2>3, <3>1, <3>3
    <3> QED BY <2>1, <3>2, <3>3
  <2> QED BY <1>1, <2>4, JobsEdited
<1> QED BY <1>2, <1>3

LEMMA ClaimedJobs ==
  ASSUME Shape, JobsSound, NEW o \in Consumers, Claimed(o)
  PROVE  JobsSound'
<1>1. UNCHANGED <<retired, book>>
  BY DEF Claimed, claimVars
<1>2. CASE job' = job
  BY <1>1, <1>2, JobsStay
<1>3. CASE job' # job
  <2>1. \A c \in Chunks : job'[c] = job[c] \/ job'[c] = Unclaimed(job[c], {o})
    BY <1>3 DEF Claimed
  <2>2. \A c \in Chunks : job[c] \in Job /\ SoundJob(job[c]) /\ job[c].claims \intersect retired = {}
    BY DEF Shape, QueuedTyped, Jobs, JobsSound
  <2>3. \A c \in Chunks : LET u == Unclaimed(job[c], {o})
                          IN /\ SoundJob(u) /\ u.claims \intersect retired = {}
                             /\ u.st # "free" => job[c].st # "free" /\ (job[c].dying => u.dying)
    BY <2>2, UnclaimedSound
  <2> QED BY <1>1, <2>1, <2>2, <2>3, JobsEdited
<1> QED BY <1>2, <1>3

LEMMA ReleaseJobs ==
  ASSUME Shape, JobsSound, NEW o \in Consumers, Release(o)
  PROVE  JobsSound'
<1>1. retired' = retired \union {o} /\ book' = book
      /\ \A c \in Chunks : job'[c] = Unclaimed(job[c], {o})
  BY DEF Release
<1>2. \A c \in Chunks : job[c] \in Job /\ SoundJob(job[c]) /\ job[c].claims \intersect retired = {}
  BY DEF Shape, QueuedTyped, Jobs, JobsSound
<1>3. \A c \in Chunks : LET u == Unclaimed(job[c], {o})
                        IN /\ SoundJob(u) /\ u.claims \subseteq job[c].claims \ {o}
                           /\ u.st # "free" => job[c].st # "free" /\ (job[c].dying => u.dying)
  BY <1>2, UnclaimedSound
<1>4. \A c \in Chunks : job'[c].claims \intersect retired' = {}
  BY <1>1, <1>2, <1>3
<1> QED BY <1>1, <1>3, <1>4 DEF JobsSound, Running

LEMMA CancelBookJobs ==
  ASSUME Shape, JobsSound, CancelBook
  PROVE  JobsSound'
<1>1. retired' = retired /\ \A c \in Chunks : job'[c] = Unclaimed(job[c], Owners)
  BY DEF CancelBook
<1>2. \A c \in Chunks : job[c] \in Job /\ SoundJob(job[c]) /\ job[c].claims \intersect retired = {}
  BY DEF Shape, QueuedTyped, Jobs, JobsSound
<1>3. \A c \in Chunks : LET u == Unclaimed(job[c], Owners)
                        IN /\ SoundJob(u) /\ u.claims \subseteq job[c].claims
                           /\ u.st # "free" => u.dying
  BY <1>2, UnclaimedSound
<1>4. \A c \in Chunks : job'[c].claims \intersect retired' = {}
  BY <1>1, <1>2, <1>3
<1> QED BY <1>1, <1>3, <1>4 DEF JobsSound, Running

LEMMA QuiesceJobs ==
  ASSUME Shape, JobsSound, Quiesce
  PROVE  JobsSound'
<1>1. UNCHANGED <<retired, book>> /\ \A c \in Chunks : job'[c] = job[c] \/ job'[c] = Cancelled(job[c])
  BY DEF Quiesce, claimVars
<1>2. \A c \in Chunks : job[c] \in Job
  BY DEF Shape, QueuedTyped, Jobs
<1> QED BY <1>1, <1>2, CancelledSound, JobsEdited DEF JobsSound

LEMMA RestartJobs ==
  ASSUME Restart
  PROVE  JobsSound'
<1>1. book'.deleted = FALSE /\ \A c \in Chunks : job'[c] = NoJob
  BY DEF Restart
<1> QED BY <1>1, NoJobSound DEF JobsSound, Running

LEMMA NextJobs ==
  ASSUME Shape, JobsSound, [Next]_vars PROVE JobsSound'
<1>1. CASE Generation
  BY <1>1, JobsStay DEF Generation, PutIntent, StartBuild, EndBuild, Install, queueVars, claimVars
<1>2. CASE Preparation
  <2>1. UNCHANGED <<job, retired>> /\ (book'.deleted => book.deleted)
    BY <1>2 DEF Preparation, Prepare, Await, EndWait, CheckLiveness, Generate, queueVars, claimVars,
                Shape, KeptTyped, Books
  <2> QED BY <2>1, JobsStay
<1>3. CASE Claiming
  <2>1. ASSUME NEW o \in Consumers, Released(o) PROVE JobsSound'
    BY <2>1, JobsStay DEF Released, queueVars
  <2> QED BY <1>3, <2>1, ClaimJobs, ClaimedJobs DEF Claiming
<1>4. CASE Pumping
  <2>1. ASSUME NEW m \in Manifests, NEW s \in Signals, SkipRound(m, s) PROVE JobsSound'
    BY <2>1, JobsStay DEF SkipRound, queueVars, claimVars
  <2>2. ASSUME NEW m \in Manifests, AtCapacity(m) \/ MaterializeFails(m) PROVE JobsSound'
    BY <2>2, JobsStay DEF AtCapacity, MaterializeFails, queueVars, claimVars
  <2> QED BY <1>4, <2>1, <2>2, StartRoundJobs, MaterializeJobs, AbandonMaterializeJobs DEF Pumping
<1>5. CASE Queue
  BY <1>5, QueueJobs DEF Queue
<1>6. CASE Reconcile
  BY <1>6, JobsStay DEF Reconcile, queueVars, claimVars
<1>7. CASE Callers
  <2>1. ASSUME NEW o \in Consumers, Request(o) \/ Leave(o) PROVE JobsSound'
    BY <2>1, JobsStay DEF Request, Leave, queueVars, claimVars
  <2>2. CASE Listen \/ ResumeErrors
    <3>1. UNCHANGED <<job, retired>> /\ (book'.deleted => book.deleted)
      BY <2>2 DEF Listen, ResumeErrors, Generate, queueVars, Shape, KeptTyped, Books
    <3> QED BY <3>1, JobsStay
  <2>3. CASE Quiesced \/ \E c \in Chunks : Invalidate(c)
    BY <2>3, JobsStay DEF Quiesced, Invalidate, queueVars, claimVars
  <2> QED BY <1>7, <2>1, <2>2, <2>3, ReleaseJobs, CancelBookJobs, QuiesceJobs, RestartJobs DEF Callers
<1>8. CASE UNCHANGED vars
  BY <1>8, JobsStay DEF vars, queueVars, claimVars
<1> QED BY <1>1, <1>2, <1>3, <1>4, <1>5, <1>6, <1>7, <1>8 DEF Next

-----------------------------------------------------------------------------
(* The journal: what it forgets, and who may leave it.                     *)

(* A released request never comes back, nor does anything of a deleted     *)
(* book.                                                                   *)
Remembered == /\ released \intersect journal.claims = {}
              /\ book.deleted => journal.claims = {} /\ current = None

(* Every consumer that is written anywhere has asked; and the call of      *)
(* another than the prepare job has a creator that does not wait.          *)
Asked(O) == \A o \in O \intersect Consumers : consumer[o] # "idle"
KnownJournal == Asked(journal.claims)
KnownPlans   == \A m \in Manifests : Asked(plan[m].claims)
KnownCalls   == \A k \in Calls : /\ Asked({call[k].lead, call[k].creator} \union call[k].claims)
                                 /\ k # "prep" /\ call[k].creator \in Consumers
                                    => consumer[call[k].creator] # "waiting"
KnownClaims  == \A o \in Consumers : joining[o].pc # "none" => consumer[o] # "idle"
Known == KnownJournal /\ KnownPlans /\ KnownCalls /\ KnownClaims

(* What steps do to these.                                                 *)
Grown == \A o \in Consumers : /\ consumer[o] # "idle" => consumer'[o] # "idle"
                              /\ consumer'[o] = "waiting" => consumer[o] \in {"idle", "waiting"}
Entering == {o \in Owners : o \notin retired /\ (o \in Consumers => consumer'[o] # "idle")}
Excused(o) == \/ o \in retired' \/ consumer'[o] # "waiting" \/ "prep" \in refused'
              \/ book'.deleted \/ \E m \in Manifests : Complete(m)'

PlansKept   == \A m \in Manifests : plan'[m].claims \subseteq plan[m].claims
CallsKept   == \A k \in Calls : \/ call'[k] = NoCall
                                \/ /\ call'[k].lead = call[k].lead /\ call'[k].creator = call[k].creator
                                   /\ call'[k].claims = call[k].claims
JoiningKept == \A o \in Consumers : joining'[o].pc # "none" => joining[o].pc # "none"
Leaves      == \A o \in Consumers : o \in journal.claims /\ o \notin journal'.claims => Excused(o)

Step == /\ Grown /\ Leaves /\ released' \subseteq released
        /\ journal'.claims \subseteq journal.claims \union Entering
        /\ book'.deleted => /\ book.deleted /\ journal'.claims \subseteq journal.claims
                            /\ current' \in {current, None}

Facts == Shape /\ Remembered /\ Known

LEMMA StepEffect ==
  ASSUME Facts, Step
  PROVE  /\ Remembered' /\ KnownJournal' /\ Leaves
         /\ PlansKept => KnownPlans'
         /\ CallsKept => KnownCalls'
         /\ JoiningKept => KnownClaims'
<1>1. Remembered'
  BY DEF Facts, Shape, KeptTyped, Remembered, Step, Entering
<1>2. KnownJournal'
  BY DEF Facts, Known, KnownJournal, Asked, Step, Grown, Entering
<1>3. PlansKept => KnownPlans'
  BY DEF Facts, Known, KnownPlans, Asked, Step, Grown, PlansKept
<1>4. ASSUME CallsKept PROVE KnownCalls'
  <2> SUFFICES ASSUME NEW k \in Calls
               PROVE  /\ \A o \in ({call'[k].lead, call'[k].creator} \union call'[k].claims) \intersect Consumers :
                           consumer'[o] # "idle"
                      /\ k # "prep" /\ call'[k].creator \in Consumers => consumer'[call'[k].creator] # "waiting"
    BY DEF KnownCalls, Asked
  <2>1. CASE call'[k] = NoCall
    BY <2>1, Blanks, Constants
  <2>2. CASE /\ call'[k].lead = call[k].lead /\ call'[k].creator = call[k].creator
             /\ call'[k].claims = call[k].claims
    BY <2>2 DEF Facts, Known, KnownCalls, Asked, Step, Grown
  <2> QED BY <1>4, <2>1, <2>2 DEF CallsKept
<1>5. JoiningKept => KnownClaims'
  BY DEF Facts, Known, KnownClaims, Step, Grown, JoiningKept
<1> QED BY <1>1, <1>2, <1>3, <1>4, <1>5 DEF Step

LEMMA JournalFacts ==
  ASSUME journal \in Records
  PROVE  /\ \A O : Erase(O) => journal'.claims = journal.claims \ O
         /\ \A o : Put(o) => journal'.claims = journal.claims \union {o}
         /\ \A O : Add(O) => /\ journal.claims \subseteq journal'.claims
                             /\ journal'.claims \subseteq journal.claims \union O
                             /\ journal.claims = {} => journal'.claims = {}
         /\ RecordFailure => journal'.claims = journal.claims
         /\ NoRecord.claims = {}
<1>1. \A O : Erase(O) => journal'.claims = journal.claims \ O
  BY DEF Erase
<1>2. \A o : Put(o) => journal'.claims = journal.claims \union {o}
  BY DEF Put, Records
<1>3. \A O : Add(O) => /\ journal.claims \subseteq journal'.claims
                       /\ journal'.claims \subseteq journal.claims \union O
                       /\ journal.claims = {} => journal'.claims = {}
  BY DEF Add, Adds, Records
<1>4. RecordFailure => journal'.claims = journal.claims
  BY DEF RecordFailure, Records
<1> QED BY <1>1, <1>2, <1>3, <1>4 DEF NoRecord

LEMMA PlanClaims ==
  ASSUME NEW p \in Plans, NEW m
  PROVE  \A n \in Manifests :
           /\ \A b : /\ [p EXCEPT ![m].waiting = b][n].claims = p[n].claims
                     /\ [p EXCEPT ![m].halted = b][n].claims = p[n].claims
                     /\ [p EXCEPT ![m].cancelled = b][n].claims = p[n].claims
           /\ \A c : [p EXCEPT ![m].urgent = @ \union {c}][n].claims = p[n].claims
  BY DEF Plans, Plan

(* A call that stops: its consumers are answered.                          *)
LEMMA StopSteps ==
  ASSUME Facts, NEW k, NEW what \in {"done", "failed"}, Stop(k, what)
  PROVE  Grown /\ CallsKept /\ JoiningKept
         /\ (k = "prep" => \A o \in Consumers : consumer'[o] # "waiting")
<1>1. call' = [call EXCEPT ![k] = NoCall] /\ joining' = joining
      /\ \A o \in Consumers : consumer'[o] = consumer[o]
                              \/ (k = "prep" /\ consumer[o] = "waiting" /\ consumer'[o] = what)
  BY StopTyped DEF Facts, Shape, Stop
<1>2. CallsKept
  BY <1>1 DEF CallsKept, Facts, Shape, CalledTyped, CallsOf
<1>3. ASSUME k = "prep" PROVE \A o \in Consumers : consumer'[o] # "waiting"
  <2>1. consumer' = [o \in Consumers |-> IF o \in prep.consumers THEN what ELSE consumer[o]]
    BY <1>3 DEF Stop, Answer
  <2> QED BY <2>1 DEF Facts, Shape, Waiting
<1> QED BY <1>1, <1>2, <1>3 DEF Grown, JoiningKept

LEMMA HearSteps ==
  ASSUME Facts, NEW event, NEW what \in {"done", "failed"}, Hear(event, what)
  PROVE  Grown /\ CallsKept /\ JoiningKept
<1>1. CASE Stop("prep", what)
  BY <1>1, StopSteps
<1>2. CASE UNCHANGED <<callVars, refused>>
  BY <1>2 DEF Grown, CallsKept, JoiningKept, callVars
<1> QED BY <1>1, <1>2 DEF Hear

(* Abort takes one claim out: that of a creator who does not wait any more.*)
LEMMA AbortSteps ==
  ASSUME Facts, NEW k \in Calls, Abort(k)
  PROVE  Grown /\ CallsKept /\ JoiningKept /\ Leaves /\ journal'.claims \subseteq journal.claims
<1>1. Stop(k, "failed") /\ journal'.claims = journal.claims \ {call[k].creator}
  BY JournalFacts DEF Abort, Facts, Shape, KeptTyped
<1>2. Grown /\ CallsKept /\ JoiningKept /\ (k = "prep" => \A o \in Consumers : consumer'[o] # "waiting")
  BY <1>1, StopSteps
<1>3. ASSUME NEW o \in Consumers, o = call[k].creator PROVE consumer'[o] # "waiting"
  <2>1. CASE k = "prep"
    BY <1>2, <2>1
  <2>2. CASE k # "prep"
    <3>1. consumer[o] \notin {"idle", "waiting"}
      BY <1>3, <2>2 DEF Facts, Known, KnownCalls, Asked
    <3> QED BY <1>2, <3>1 DEF Grown
  <2> QED BY <2>1, <2>2
<1> QED BY <1>1, <1>2, <1>3 DEF Leaves, Excused

(* Steps that leave the journal and the callers alone.                     *)
LEMMA QuietSteps ==
  ASSUME UNCHANGED <<journal, released, book, current>>, Grown
  PROVE  Step
  BY DEF Step, Leaves

LEMMA SameCallers ==
  ASSUME UNCHANGED <<call, joining, consumer>>
  PROVE  Grown /\ CallsKept /\ JoiningKept
  BY DEF Grown, CallsKept, JoiningKept

-----------------------------------------------------------------------------
(* The steps of the rounds.                                                *)

LEMMA StartRoundSteps ==
  ASSUME Facts, NEW m \in Manifests, NEW s \in Signals, StartRound(m, s)
  PROVE  Step /\ PlansKept /\ CallsKept /\ JoiningKept
<1> DEFINE lost    == {c \in Chunks : chunk[m][c] = "lost"}
           adopted == {c \in lost : Adoptable(c)}
           ch      == [c \in Chunks |-> IF c \in adopted THEN "ready"
                                        ELSE IF c \in lost THEN "pending" ELSE chunk[m][c]]
           settled == adopted # {} /\ \A c \in Chunks : ch[c] = "ready"
           desired == FirstOf(m, {c \in Chunks : ch[c] \notin {"ready", "error"}}, Limit)
           victims == IF \E c \in desired : ch[c] = "pending"
                      THEN {c \in Chunks \ desired : ch[c] = "queued"} ELSE {}
           kept    == [c \in Chunks |-> IF c \in victims THEN "pending" ELSE ch[c]]
           jobs    == [c \in Chunks |-> IF c \in victims THEN Cancelled(job[c]) ELSE job[c]]
<1>1. /\ chunk' = Forget([chunk EXCEPT ![m] = kept], Ended(jobs))
      /\ plan' = [plan EXCEPT ![m].waiting = FALSE]
      /\ journal' = IF settled THEN NoRecord ELSE journal
      /\ Hear(settled, "done")
      /\ UNCHANGED <<current, claimVars>>
  BY DEF StartRound
<1>2. Grown /\ CallsKept /\ JoiningKept
  BY <1>1, HearSteps
<1>3. PlansKept
  BY <1>1, PlanClaims DEF PlansKept, Facts, Shape, BuiltTyped
<1>4. ASSUME settled PROVE Complete(m)'
  <2>1. \A c \in Chunks : kept[c] = "ready"
    BY <1>4 DEF FirstOf
  <2>2. \A c \in Chunks : chunk'[m][c] = "ready"
    <3> HIDE DEF kept, jobs
    <3>1. \A c \in Chunks : [chunk EXCEPT ![m] = kept][m][c] = "ready"
      BY <2>1 DEF Facts, Shape, BuiltTyped, Tables
    <3> QED BY <1>1, <3>1 DEF Forget, Held
  <2> QED BY <2>2 DEF Complete
<1>5. Leaves
  BY <1>1, <1>4 DEF Leaves, Excused
<1>6. journal'.claims \subseteq journal.claims
  BY <1>1 DEF NoRecord
<1> QED BY <1>1, <1>2, <1>3, <1>5, <1>6 DEF Step, claimVars

LEMMA RoundSteps ==
  ASSUME Facts, NEW m \in Manifests,
         \/ \E s \in Signals : SkipRound(m, s)
         \/ Materialize(m) \/ AtCapacity(m) \/ AbandonMaterialize(m)
  PROVE  Step /\ PlansKept /\ CallsKept /\ JoiningKept
<1>1. UNCHANGED <<journal, released, book, current, call, joining, consumer>>
      /\ (plan' = plan \/ plan' = [plan EXCEPT ![m].waiting = TRUE])
  BY DEF SkipRound, Materialize, AtCapacity, AbandonMaterialize, durableVars, claimVars, callVars, manifestVars
<1>2. PlansKept
  <2>1. CASE plan' = plan
    BY <2>1 DEF PlansKept
  <2>2. CASE plan' = [plan EXCEPT ![m].waiting = TRUE]
    BY <2>2, PlanClaims DEF PlansKept, Facts, Shape, BuiltTyped
  <2> QED BY <1>1, <2>1, <2>2
<1> QED BY <1>1, <1>2, QuietSteps, SameCallers

LEMMA MaterializeFailsSteps ==
  ASSUME Facts, NEW m \in Manifests, MaterializeFails(m)
  PROVE  Step /\ PlansKept /\ CallsKept /\ JoiningKept
<1>1. /\ plan' = [plan EXCEPT ![m].halted = TRUE] /\ RecordFailure /\ Hear(TRUE, "failed")
      /\ UNCHANGED <<released, book, current>>
  BY DEF MaterializeFails, claimVars
<1>2. Grown /\ CallsKept /\ JoiningKept
  BY <1>1, HearSteps
<1>3. PlansKept
  BY <1>1, PlanClaims DEF PlansKept, Facts, Shape, BuiltTyped
<1>4. journal'.claims = journal.claims
  BY <1>1, JournalFacts DEF Facts, Shape, KeptTyped
<1> QED BY <1>1, <1>2, <1>3, <1>4 DEF Step, Leaves

-----------------------------------------------------------------------------
(* The events of the queue.                                                *)

LEMMA JobCompletesSteps ==
  ASSUME Facts, NEW c \in Chunks, JobCompletes(c)
  PROVE  Step /\ PlansKept /\ CallsKept /\ JoiningKept
<1> DEFINE all == Routed(c) /\ \A d \in Chunks \ {c} : chunk[current][d] = "ready"
<1>1. /\ Settle(c, "ready") /\ journal' = (IF all THEN NoRecord ELSE journal) /\ Hear(all, "done")
      /\ UNCHANGED <<plan, released, book, current>>
  BY DEF JobCompletes, claimVars
<1>2. Grown /\ CallsKept /\ JoiningKept
  BY <1>1, HearSteps
<1>3. ASSUME all PROVE current \in Manifests /\ Complete(current)'
  <2>1. current \in Manifests
    BY <1>3, Constants DEF Routed, Facts, Shape, BuiltTyped
  <2>2. chunk' = Forget([chunk EXCEPT ![current][c] = "ready"], {c})
    BY <1>1, <1>3 DEF Settle
  <2>3. \A d \in Chunks : [chunk EXCEPT ![current][c] = "ready"][current][d] = "ready"
    BY <1>3, <2>1 DEF Facts, Shape, BuiltTyped, Tables
  <2>4. \A d \in Chunks : chunk'[current][d] = "ready"
    BY <2>1, <2>2, <2>3 DEF Forget, Held
  <2> QED BY <1>1, <2>1, <2>4 DEF Complete
<1>4. Leaves
  BY <1>1, <1>3 DEF Leaves, Excused
<1>5. journal'.claims \subseteq journal.claims
  BY <1>1 DEF NoRecord
<1> QED BY <1>1, <1>2, <1>4, <1>5 DEF Step, PlansKept

LEMMA QueueSteps ==
  ASSUME Facts, NEW c \in Chunks, JobStarts(c) \/ JobStops(c) \/ JobFails(c)
  PROVE  Step /\ PlansKept /\ CallsKept /\ JoiningKept
<1>1. CASE JobStarts(c) \/ JobStops(c)
  <2>1. UNCHANGED <<journal, released, book, current, call, joining, consumer, plan>>
    BY <1>1 DEF JobStarts, JobStops, durableVars, claimVars, callVars
  <2> QED BY <2>1, QuietSteps, SameCallers DEF PlansKept
<1>2. CASE JobFails(c)
  <2>1. /\ plan' = plan \/ plan' = [plan EXCEPT ![current].halted = TRUE]
        /\ RecordFailure \/ journal' = journal
        /\ Hear(Routed(c), "failed") /\ UNCHANGED <<released, book, current>>
    BY <1>2 DEF JobFails, claimVars
  <2>2. Grown /\ CallsKept /\ JoiningKept
    BY <2>1, HearSteps
  <2>3. PlansKept
    <3>1. CASE plan' = plan
      BY <3>1 DEF PlansKept
    <3>2. CASE plan' = [plan EXCEPT ![current].halted = TRUE]
      BY <3>2, PlanClaims DEF PlansKept, Facts, Shape, BuiltTyped
    <3> QED BY <2>1, <3>1, <3>2
  <2>4. journal'.claims = journal.claims
    BY <2>1, JournalFacts DEF Facts, Shape, KeptTyped
  <2> QED BY <2>1, <2>2, <2>3, <2>4 DEF Step, Leaves
<1> QED BY <1>1, <1>2

-----------------------------------------------------------------------------
(* The steps of generateChapter.                                           *)

LEMMA AbortStep ==
  ASSUME Facts, NEW k \in Calls, Abort(k), UNCHANGED <<released, book>>, current' \in {current, None}
  PROVE  Step /\ CallsKept /\ JoiningKept
  BY AbortSteps DEF Step

(* Owners that a call may write: they asked, and are not retired.          *)
LEMMA LeadsKnown ==
  ASSUME Facts, NEW k \in Calls
  PROVE  /\ Asked(Wanted(k)) /\ Asked(Leads(k)) /\ Asked({call[k].lead, call[k].creator} \union call[k].claims)
         /\ IsFresh(k) => Leads(k) \intersect retired = {}
         /\ Wanted(k) \subseteq Owners /\ Leads(k) \subseteq Owners
<1>1. Asked({call[k].lead, call[k].creator} \union call[k].claims)
  BY DEF Facts, Known, KnownCalls
<1>2. Asked(Wanted("prep"))
  BY DEF Asked, Wanted, Facts, Shape, Waiting
<1>3. Asked(Wanted(k)) /\ Asked(Leads(k))
  BY <1>1, <1>2 DEF Asked, Wanted, Leads
<1>4. IsFresh(k) => Leads(k) \intersect retired = {}
  BY DEF IsFresh, Leads, Wanted
<1> QED BY <1>1, <1>3, <1>4, LeadsTyped DEF Facts

(* The owners of a call are rewritten: by those who asked.                 *)
LEMMA CallKnown ==
  ASSUME Facts, Grown, NEW k \in Calls, NEW r, call' = [call EXCEPT ![k] = r],
         \A o \in ({r.lead, r.creator} \union r.claims) \intersect Consumers : consumer'[o] # "idle",
         k # "prep" /\ r.creator \in Consumers => consumer'[r.creator] # "waiting"
  PROVE  KnownCalls'
<1>1. \A j \in Calls : call'[j] = IF j = k THEN r ELSE call[j]
  BY DEF Facts, Shape, CalledTyped, CallsOf
<1>2. \A j \in Calls : /\ \A o \in ({call[j].lead, call[j].creator} \union call[j].claims) \intersect Consumers :
                            consumer'[o] # "idle"
                       /\ j # "prep" /\ call[j].creator \in Consumers => consumer'[call[j].creator] # "waiting"
  <2> SUFFICES ASSUME NEW j \in Calls
               PROVE  /\ \A o \in ({call[j].lead, call[j].creator} \union call[j].claims) \intersect Consumers :
                            consumer'[o] # "idle"
                      /\ j # "prep" /\ call[j].creator \in Consumers => consumer'[call[j].creator] # "waiting"
    OBVIOUS
  <2> QED BY DEF Facts, Known, KnownCalls, Asked, Grown
<1>3. ASSUME NEW j \in Calls
      PROVE  /\ \A o \in ({call'[j].lead, call'[j].creator} \union call'[j].claims) \intersect Consumers :
                  consumer'[o] # "idle"
             /\ j # "prep" /\ call'[j].creator \in Consumers => consumer'[call'[j].creator] # "waiting"
  <2>1. CASE j = k
    BY <1>1, <2>1
  <2>2. CASE j # k
    BY <1>1, <1>2, <2>2
  <2> QED BY <2>1, <2>2
<1> QED BY <1>3 DEF KnownCalls, Asked

(* The owners of a call stay those it has.                                 *)
LEMMA CallMoves ==
  ASSUME Facts, NEW k \in Calls
  PROVE  /\ \A pc : call' = [call EXCEPT ![k].pc = pc] => CallsKept
         /\ \A pc, w, s : call' = [call EXCEPT ![k].pc = pc, ![k].was = w, ![k].seen = s] => CallsKept
         /\ \A pc, w : call' = [call EXCEPT ![k].pc = pc, ![k].mine = w] => CallsKept
<1> USE DEF Facts, Shape, CalledTyped, CallsOf, CallOf, CallsKept
<1>1. \A pc : call' = [call EXCEPT ![k].pc = pc] => CallsKept
  OBVIOUS
<1>2. ASSUME NEW pc, NEW w, NEW s, call' = [call EXCEPT ![k].pc = pc, ![k].was = w, ![k].seen = s] PROVE CallsKept
  <2>1. \A j \in Calls : call'[j] = IF j = k THEN [call[j] EXCEPT !.pc = pc, !.was = w, !.seen = s] ELSE call[j]
    BY <1>2
  <2> QED BY <2>1
<1>3. ASSUME NEW pc, NEW w, call' = [call EXCEPT ![k].pc = pc, ![k].mine = w] PROVE CallsKept
  <2>1. \A j \in Calls : call'[j] = IF j = k THEN [call[j] EXCEPT !.pc = pc, !.mine = w] ELSE call[j]
    BY <1>3
  <2> QED BY <2>1
<1> QED BY <1>1, <1>2, <1>3

(* The journal gains owners that are wanted now.                           *)
LEMMA GainStep ==
  ASSUME Facts, UNCHANGED <<consumer, released, book>>, ~book.deleted, NEW O,
         Asked(O), O \subseteq Owners, O \intersect retired = {},
         journal.claims \subseteq journal'.claims, journal'.claims \subseteq journal.claims \union O
  PROVE  Step
<1>1. Grown
  BY DEF Grown
<1>2. O \subseteq Entering
  BY DEF Entering, Asked
<1> QED BY <1>1, <1>2 DEF Step, Leaves

LEMMA PutIntentSteps ==
  ASSUME Facts, NEW k \in Calls, PutIntent(k)
  PROVE  Step /\ PlansKept /\ KnownCalls' /\ JoiningKept
<1>1. UNCHANGED <<released, book, current, plan>>
  BY DEF PutIntent, manifestVars, claimVars
<1>2. CASE Abort(k)
  BY <1>1, <1>2, AbortStep, StepEffect DEF PlansKept
<1>3. CASE /\ Stop(k, "failed")
           /\ IF call[k].creator \in retired THEN Erase({call[k].creator}) ELSE UNCHANGED journal
  <2>1. Grown /\ CallsKept /\ JoiningKept
    BY <1>3, StopSteps
  <2>2. journal'.claims = journal.claims \ (retired \intersect {call[k].creator})
    BY <1>3, JournalFacts DEF Facts, Shape, KeptTyped
  <2>3. retired' = retired
    BY DEF PutIntent, claimVars
  <2>4. Step
    BY <1>1, <2>1, <2>2, <2>3 DEF Step, Leaves, Excused
  <2> QED BY <1>1, <2>1, <2>4, StepEffect DEF PlansKept
<1>4. ASSUME NEW o \in Leads(k), Put(o), call' = [call EXCEPT ![k].pc = "put", ![k].lead = o], IsFresh(k),
             UNCHANGED <<refused, prep, joining, consumer, strands>>
      PROVE  Step /\ PlansKept /\ KnownCalls' /\ JoiningKept
  <2> DEFINE r == [call[k] EXCEPT !.pc = "put", !.lead = o]
  <2>1. journal'.claims = journal.claims \union {o}
    BY <1>4, JournalFacts DEF Facts, Shape, KeptTyped
  <2>2. Asked({o}) /\ o \in Owners /\ o \notin retired /\ ~book.deleted
    BY <1>4, LeadsKnown DEF Asked, IsFresh
  <2>3. Step
    BY <1>1, <1>4, <2>1, <2>2, GainStep
  <2>4. call[k] \in CallOf /\ call \in CallsOf
    BY LeadsTyped DEF Facts, Shape, CalledTyped
  <2>5. call' = [call EXCEPT ![k] = r] /\ r.lead = o /\ r.creator = call[k].creator /\ r.claims = call[k].claims
    BY <1>4, <2>4 DEF CallsOf, CallOf
  <2>6. KnownCalls'
    <3> HIDE DEF r
    <3>1. Asked({call[k].lead, call[k].creator} \union call[k].claims)
          /\ (k # "prep" /\ call[k].creator \in Consumers => consumer[call[k].creator] # "waiting")
      BY DEF Facts, Known, KnownCalls
    <3>2. \A p \in ({r.lead, r.creator} \union r.claims) \intersect Consumers : consumer'[p] # "idle"
      BY <1>4, <2>2, <2>5, <3>1 DEF Asked
    <3>3. k # "prep" /\ r.creator \in Consumers => consumer'[r.creator] # "waiting"
      BY <1>4, <2>5, <3>1
    <3> QED BY <2>3, <2>5, <3>2, <3>3, CallKnown DEF Step
  <2> QED BY <1>1, <1>4, <2>3, <2>6 DEF PlansKept, JoiningKept
<1> QED BY <1>2, <1>3, <1>4 DEF PutIntent

LEMMA StartBuildSteps ==
  ASSUME Facts, NEW k \in Calls, StartBuild(k)
  PROVE  Step /\ PlansKept /\ CallsKept /\ JoiningKept
<1>1. UNCHANGED <<retired, released, book, current, plan>>
  BY DEF StartBuild, manifestVars, claimVars
<1>2. CASE Abort(k)
  BY <1>1, <1>2, AbortStep DEF PlansKept
<1>3. CASE ~Abort(k)
  <2> DEFINE rec == IF call[k].lead \in retired THEN Recorded(k) ELSE journal.claims
             more == IF rec = {} \/ journal.held \/ k = "listen" THEN {} ELSE Wanted(k) \ retired
  <2>1. /\ journal' = [journal EXCEPT !.claims = rec \union more] /\ IsFresh(k)
        /\ call' = [call EXCEPT ![k].pc = "build", ![k].was = current, ![k].seen = audio]
        /\ UNCHANGED <<refused, prep, joining, consumer, strands>>
    BY <1>3 DEF StartBuild
  <2>2. journal'.claims = rec \union more /\ ~book.deleted
    BY <2>1 DEF Facts, Shape, KeptTyped, Records, IsFresh
  <2>3. journal.claims \ (retired \intersect {call[k].lead}) \subseteq rec /\ rec \subseteq journal.claims \union Leads(k)
    BY DEF Recorded
  <2>4. Leads(k) \subseteq Entering /\ more \subseteq Entering
    BY <2>1, LeadsKnown DEF Entering, Asked
  <2>5. Grown
    BY <2>1 DEF Grown
  <2>6. Leaves
    BY <1>1, <2>2, <2>3 DEF Leaves, Excused
  <2>7. journal'.claims \subseteq journal.claims \union Entering
    BY <2>2, <2>3, <2>4
  <2>8. Step
    BY <1>1, <2>2, <2>5, <2>6, <2>7 DEF Step
  <2>9. CallsKept
    BY <2>1, CallMoves
  <2> QED BY <1>1, <2>1, <2>8, <2>9 DEF PlansKept, JoiningKept
<1> QED BY <1>2, <1>3

LEMMA EndBuildSteps ==
  ASSUME Facts, NEW k \in Calls, EndBuild(k)
  PROVE  Step /\ PlansKept /\ CallsKept /\ JoiningKept
<1>1. UNCHANGED <<retired, released, book>>
  BY DEF EndBuild, claimVars
<1>2. CASE Abort(k) /\ UNCHANGED manifestVars
  BY <1>1, <1>2, AbortStep DEF PlansKept, manifestVars
<1>3. CASE ~(Abort(k) /\ UNCHANGED manifestVars)
  <2> DEFINE O == IF k = "listen" THEN {} ELSE Wanted(k) \ retired
  <2>1. /\ Add(O) /\ IsFresh(k) /\ call' = [call EXCEPT ![k].pc = "persist", ![k].mine = builds']
        /\ UNCHANGED <<refused, prep, joining, consumer, strands, plan>>
    BY <1>3 DEF EndBuild
  <2>2. Asked(O) /\ O \subseteq Owners /\ O \intersect retired = {}
    BY LeadsKnown DEF Asked
  <2>3. journal.claims \subseteq journal'.claims /\ journal'.claims \subseteq journal.claims \union O
    BY <2>1, JournalFacts DEF Facts, Shape, KeptTyped
  <2> HIDE DEF O
  <2>4. Step
    BY <1>1, <2>1, <2>2, <2>3, GainStep DEF IsFresh
  <2>5. CallsKept
    BY <2>1, CallMoves
  <2> QED BY <2>1, <2>4, <2>5 DEF PlansKept, JoiningKept
<1> QED BY <1>2, <1>3

LEMMA InstallSteps ==
  ASSUME Facts, NEW k \in Calls, Install(k)
  PROVE  Step /\ KnownPlans' /\ CallsKept /\ JoiningKept
<1> DEFINE m == call[k].mine
           was == IF call[k].epoch = book.epoch /\ ~book.deleted THEN call[k].was ELSE None
<1>1. UNCHANGED <<retired, released, book, chunk>> /\ At(k, "persist")
  BY DEF Install, claimVars
<1>2. CASE Abort(k) /\ current' = (IF current = m THEN was ELSE current) /\ UNCHANGED <<due, plan>>
  <2>1. Grown /\ CallsKept /\ JoiningKept /\ Leaves /\ journal'.claims \subseteq journal.claims
    BY <1>2, AbortSteps
  <2>2. book.deleted => current' \in {current, None}
    BY <1>2
  <2>3. Step
    BY <1>1, <2>1, <2>2 DEF Step
  <2> QED BY <1>2, <2>1, <2>3, StepEffect DEF PlansKept
<1>3. CASE ~(Abort(k) /\ current' = (IF current = m THEN was ELSE current) /\ UNCHANGED <<due, plan>>)
  <2>1. /\ \E o \in Leads(k) :
             plan' = [plan EXCEPT ![m] = [NoPlan EXCEPT !.on = TRUE, !.claims = Installed(k), !.base = o]]
        /\ IF Complete(m) THEN journal' = NoRecord ELSE UNCHANGED journal
        /\ UNCHANGED current
        /\ IF k = "prep"
           THEN Goto(k, "pump") /\ UNCHANGED <<refused, prep, joining, consumer, strands>>
           ELSE Stop(k, "done")
    BY <1>3 DEF Install
  <2>2. m \in Manifests
    <3>1. m # None /\ m \in 0 .. MaxBuilds
      BY <1>1, LeadsTyped DEF Facts, Shape, Suffice, CallOf
    <3> QED BY <3>1, Constants
  <2>3. Grown /\ CallsKept /\ JoiningKept
    <3>1. CASE k = "prep"
      BY <2>1, <3>1, CallMoves DEF Goto, Grown, JoiningKept
    <3>2. CASE k # "prep"
      BY <2>1, <3>2, StopSteps
    <3> QED BY <3>1, <3>2
  <2>4. Leaves
    <3>1. \A n \in Manifests : Complete(n) => Complete(n)'
      BY <1>1 DEF Complete
    <3> HIDE DEF m
    <3>2. journal' = journal \/ \E n \in Manifests : Complete(n)'
      BY <2>1, <2>2, <3>1
    <3> QED BY <3>2 DEF Leaves, Excused
  <2>5. Step
    BY <1>1, <2>1, <2>3, <2>4 DEF Step, NoRecord
  <2>6. KnownPlans'
    <3>1. PICK o \in Leads(k) :
             plan' = [plan EXCEPT ![m] = [NoPlan EXCEPT !.on = TRUE, !.claims = Installed(k), !.base = o]]
      BY <2>1
    <3>2. Asked(Installed(k))
      BY LeadsKnown DEF Installed, Asked
    <3>3. [NoPlan EXCEPT !.on = TRUE, !.claims = Installed(k), !.base = o].claims = Installed(k)
      BY DEF NoPlan
    <3> HIDE DEF m
    <3>4. \A n \in Manifests : plan'[n].claims = IF n = m THEN Installed(k) ELSE plan[n].claims
      BY <3>1, <3>3 DEF Facts, Shape, BuiltTyped, Plans
    <3>5. \A n \in Manifests : Asked(plan'[n].claims)
      <4>1. \A n \in Manifests : Asked(plan[n].claims)
        BY DEF Facts, Known, KnownPlans
      <4> QED BY <3>2, <3>4, <4>1
    <3> QED BY <2>3, <3>5 DEF KnownPlans, Asked, Grown
  <2> QED BY <2>3, <2>5, <2>6
<1> QED BY <1>2, <1>3

-----------------------------------------------------------------------------
(* The steps of the prepare job and of claimChapter.                       *)

LEMMA StartClaimSteps ==
  ASSUME Facts, NEW o \in Owners, NEW s, StartClaim(o, s), o \notin retired,
         o \in Consumers => consumer'[o] # "idle", Grown, UNCHANGED <<released, book, current>>
  PROVE  Step /\ KnownClaims'
<1>1. CASE current = None
  <2>1. UNCHANGED <<journal, joining>>
    BY <1>1 DEF StartClaim
  <2> QED BY <2>1, QuietSteps, StepEffect DEF JoiningKept
<1>2. CASE current # None
  <2>1. Add({o}) /\ joining' = [joining EXCEPT ![o] = [pc |-> "adding", m |-> current, sig |-> s,
                        changed |-> o \in Adds({o}) \ journal.claims]]
    BY <1>2 DEF StartClaim
  <2>2. journal.claims \subseteq journal'.claims /\ journal'.claims \subseteq journal.claims \union {o}
    BY <2>1, JournalFacts DEF Facts, Shape, KeptTyped
  <2>3. o \in Entering /\ ~book.deleted
    BY <1>2, Constants DEF Entering, Facts, Remembered
  <2>4. Step
    BY <2>2, <2>3 DEF Step, Leaves
  <2>5. \A p \in Consumers : p # o => joining'[p] = joining[p]
    BY <2>1 DEF Facts, Shape, CalledTyped, Joinings
  <2>6. \A p \in Consumers : joining'[p].pc # "none" => consumer'[p] # "idle"
    BY <2>5 DEF Facts, Known, KnownClaims, Grown
  <2> QED BY <2>4, <2>6 DEF KnownClaims
<1> QED BY <1>1, <1>2

LEMMA RequestSteps ==
  ASSUME Facts, NEW o \in Consumers, Request(o)
  PROVE  Step /\ PlansKept /\ KnownCalls' /\ KnownClaims'
<1>1. /\ consumer[o] = "idle" /\ o \notin retired /\ consumer' = [consumer EXCEPT ![o] = "waiting"]
      /\ UNCHANGED <<released, book, current, plan>>
  BY DEF Request, claimVars, manifestVars
<1>2. Grown /\ consumer'[o] = "waiting" /\ PlansKept
  BY <1>1 DEF Grown, PlansKept, Facts, Shape, CalledTyped, Fates
<1>3. CASE prep.open
  <2>1. StartClaim(o, o) /\ call' = call
    BY <1>3 DEF Request
  <2>2. Step /\ KnownClaims'
    BY <1>1, <1>2, <2>1, Constants, StartClaimSteps
  <2>3. CallsKept
    BY <2>1 DEF CallsKept
  <2> QED BY <1>2, <2>2, <2>3, StepEffect
<1>4. CASE ~prep.open
  <2> DEFINE r == [NoCall EXCEPT !.pc = "load", !.creator = o]
  <2>1. call' = [call EXCEPT !["prep"] = r] /\ UNCHANGED <<journal, joining>>
    BY <1>4 DEF Request
  <2>2. r.creator = o /\ r.lead = Anon /\ r.claims = {} /\ "prep" \in Calls
    BY DEF NoCall, Calls
  <2>3. Step
    BY <1>1, <1>2, <2>1, QuietSteps
  <2>4. KnownCalls'
    <3> HIDE DEF r
    <3>1. \A p \in ({r.lead, r.creator} \union r.claims) \intersect Consumers : consumer'[p] # "idle"
      BY <1>2, <2>2, Constants
    <3> QED BY <1>2, <2>1, <2>2, <3>1, CallKnown
  <2>5. JoiningKept
    BY <2>1 DEF JoiningKept
  <2> QED BY <1>2, <2>3, <2>4, <2>5, StepEffect
<1> QED BY <1>3, <1>4

(* A new generation for owners that asked.                                 *)
LEMMA GenerateSteps ==
  ASSUME Facts, NEW k \in Calls, NEW lead, NEW O, Generate(k, lead, O), Asked({lead} \union O),
         k # "prep" => lead \notin Consumers, UNCHANGED <<journal, joining, consumer, released, current, plan>>
  PROVE  Step /\ PlansKept /\ KnownCalls' /\ JoiningKept
<1> DEFINE r == [NoCall EXCEPT !.pc = "plan", !.epoch = book.epoch, !.lead = lead, !.creator = lead, !.claims = O]
<1>1. call' = [call EXCEPT ![k] = r] /\ ~book'.deleted
  BY DEF Generate, Facts, Shape, KeptTyped, Books
<1>2. r.lead = lead /\ r.creator = lead /\ r.claims = O
  BY DEF NoCall
<1>3. Grown /\ Leaves /\ PlansKept /\ JoiningKept
  BY DEF Grown, Leaves, PlansKept, JoiningKept
<1>4. Step
  BY <1>1, <1>3 DEF Step
<1>5. KnownCalls'
  <2> HIDE DEF r
  <2>1. \A p \in ({r.lead, r.creator} \union r.claims) \intersect Consumers : consumer'[p] # "idle"
    BY <1>2 DEF Asked
  <2> QED BY <1>1, <1>2, <1>3, <2>1, CallKnown
<1> QED BY <1>3, <1>4, <1>5

LEMMA PrepareSteps ==
  ASSUME Facts, Prepare
  PROVE  Step /\ PlansKept /\ KnownCalls' /\ KnownClaims'
<1>1. UNCHANGED <<retired, released, current, plan>> /\ call["prep"].pc = "load" /\ "prep" \in Calls
  BY DEF Prepare, At, manifestVars, Calls
<1>2. PlansKept
  BY <1>1 DEF PlansKept
<1>3. Asked({call["prep"].creator})
  BY <1>1, LeadsKnown DEF Asked
<1>4. CASE Stop("prep", "failed") /\ UNCHANGED <<book, journal>>
  <2>1. Grown /\ CallsKept /\ JoiningKept
    BY <1>4, StopSteps
  <2> QED BY <1>1, <1>2, <1>4, <2>1, QuietSteps, StepEffect
<1>5. CASE Abort("prep") /\ book' = [book EXCEPT !.deleted = FALSE]
  <2>1. Grown /\ CallsKept /\ JoiningKept /\ Leaves /\ journal'.claims \subseteq journal.claims
    BY <1>1, <1>5, AbortSteps
  <2>2. ~book'.deleted
    BY <1>5 DEF Facts, Shape, KeptTyped, Books
  <2>3. Step
    BY <1>1, <2>1, <2>2 DEF Step
  <2> QED BY <1>2, <2>1, <2>3, StepEffect
<1>6. CASE Generate("prep", call["prep"].creator, {})
           /\ UNCHANGED <<journal, refused, prep, joining, consumer, strands>>
  <2>1. Asked({call["prep"].creator} \union {})
    BY <1>3 DEF Asked
  <2> QED BY <1>1, <1>6, <2>1, GenerateSteps, StepEffect
<1>7. CASE /\ call["prep"].creator \notin retired
           /\ StartClaim(call["prep"].creator, "prep") /\ Goto("prep", "claim")
           /\ UNCHANGED <<refused, prep, consumer, strands, book>>
  <2>1. Grown /\ CallsKept
    BY <1>1, <1>7, CallMoves DEF Grown, Goto
  <2>2. call["prep"].creator \in Owners
    BY <1>1, LeadsTyped DEF Facts, CallOf
  <2>3. Step /\ KnownClaims'
    BY <1>1, <1>3, <1>7, <2>1, <2>2, StartClaimSteps DEF Asked
  <2> QED BY <1>2, <2>1, <2>3, StepEffect
<1> QED BY <1>4, <1>5, <1>6, <1>7 DEF Prepare

(* A claim that fails leaves with its owner, or with the prepare job.      *)
LEMMA FailClaimSteps ==
  ASSUME Facts, NEW o \in Consumers, FailClaim(o), UndoClaim(o), UNCHANGED <<released, book, current>>
  PROVE  Step /\ CallsKept /\ JoiningKept
<1>1. joining' = [joining EXCEPT ![o] = NoClaim] /\ call' = call
  BY DEF FailClaim
<1>2. JoiningKept /\ CallsKept
  BY <1>1 DEF JoiningKept, CallsKept, NoClaim, Facts, Shape, CalledTyped, Joinings
<1>3. /\ \A p \in Consumers : consumer'[p] = consumer[p] \/ (consumer[p] = "waiting" /\ consumer'[p] = "failed")
      /\ "prep" \in refused' \/ consumer'[o] # "waiting"
  BY DEF FailClaim, Facts, Shape, CalledTyped, Fates
<1>4. journal'.claims \subseteq journal.claims /\ journal.claims \subseteq journal'.claims \union {o}
  BY JournalFacts DEF UndoClaim, Facts, Shape, KeptTyped
<1>5. Grown
  BY <1>3 DEF Grown
<1>6. Leaves
  BY <1>3, <1>4 DEF Leaves, Excused
<1> QED BY <1>2, <1>4, <1>5, <1>6 DEF Step

LEMMA ClaimSteps ==
  ASSUME Facts, NEW o \in Consumers, Claim(o)
  PROVE  Step /\ KnownPlans' /\ CallsKept /\ JoiningKept
<1>1. UNCHANGED <<released, book, current>> /\ joining[o].pc = "adding"
  BY DEF Claim, claimVars
<1>2. CASE UndoClaim(o) /\ FailClaim(o) /\ UNCHANGED <<job, due, plan>>
  BY <1>1, <1>2, FailClaimSteps, StepEffect DEF PlansKept
<1>3. CASE ~(UndoClaim(o) /\ FailClaim(o) /\ UNCHANGED <<job, due, plan>>)
  <2> DEFINE m == joining[o].m
  <2>1. /\ plan' = plan \/ plan' = [plan EXCEPT ![m].claims = @ \union {o}]
        /\ joining' = [joining EXCEPT ![o].pc = "pump"]
        /\ UNCHANGED <<journal, refused, call, prep, consumer, strands>>
    BY <1>3 DEF Claim
  <2>2. Grown /\ CallsKept
    BY <2>1 DEF Grown, CallsKept
  <2>3. JoiningKept
    BY <1>1, <2>1 DEF JoiningKept, Facts, Shape, CalledTyped, Joinings
  <2>4. Step
    BY <1>1, <2>1, <2>2, QuietSteps
  <2>5. consumer[o] # "idle"
    BY <1>1 DEF Facts, Known, KnownClaims
  <2>6. \A n \in Manifests : plan'[n].claims \subseteq plan[n].claims \union {o}
    <3> HIDE DEF m
    <3>1. CASE plan' = plan
      BY <3>1
    <3>2. CASE plan' = [plan EXCEPT ![m].claims = @ \union {o}]
      BY <3>2 DEF Facts, Shape, BuiltTyped, Plans, Plan
    <3> QED BY <2>1, <3>1, <3>2
  <2>7. KnownPlans'
    <3>1. \A n \in Manifests : Asked(plan'[n].claims)
      BY <2>5, <2>6 DEF Asked, Facts, Known, KnownPlans
    <3> QED BY <2>1, <3>1 DEF KnownPlans, Asked
  <2> QED BY <2>2, <2>3, <2>4, <2>7
<1> QED BY <1>2, <1>3

LEMMA ClaimedSteps ==
  ASSUME Facts, NEW o \in Consumers, Claimed(o)
  PROVE  Step /\ PlansKept /\ CallsKept /\ JoiningKept
<1>1. UNCHANGED <<released, book, current, plan>>
  BY DEF Claimed, claimVars
<1>2. CASE UndoClaim(o) /\ FailClaim(o)
  BY <1>1, <1>2, FailClaimSteps DEF PlansKept
<1>3. CASE ~(UndoClaim(o) /\ FailClaim(o))
  <2>1. joining' = [joining EXCEPT ![o] = NoClaim]
        /\ UNCHANGED <<journal, refused, call, prep, consumer, strands>>
    BY <1>3 DEF Claimed
  <2>2. Grown /\ CallsKept
    BY <2>1 DEF Grown, CallsKept
  <2>3. JoiningKept
    BY <2>1 DEF JoiningKept, NoClaim, Facts, Shape, CalledTyped, Joinings
  <2> QED BY <1>1, <2>1, <2>2, <2>3, QuietSteps DEF PlansKept
<1> QED BY <1>2, <1>3

LEMMA WaitSteps ==
  ASSUME Facts, Await \/ EndWait \/ CheckLiveness
  PROVE  Step /\ PlansKept /\ CallsKept /\ JoiningKept
<1>1. UNCHANGED <<released, book, current, plan>> /\ "prep" \in Calls
  BY DEF Await, EndWait, CheckLiveness, claimVars, manifestVars, Calls
<1>2. CASE Abort("prep")
  BY <1>1, <1>2, AbortStep DEF PlansKept
<1>3. CASE (Stop("prep", "failed") \/ Stop("prep", "done")) /\ UNCHANGED journal
  <2>1. Grown /\ CallsKept /\ JoiningKept
    BY <1>3, StopSteps
  <2> QED BY <1>1, <1>3, <2>1, QuietSteps DEF PlansKept
<1>4. CASE Goto("prep", "wait") /\ UNCHANGED <<journal, refused, prep, joining, consumer, strands>>
  <2>1. Grown /\ CallsKept /\ JoiningKept
    BY <1>1, <1>4, CallMoves DEF Goto, Grown, JoiningKept
  <2> QED BY <1>1, <1>4, <2>1, QuietSteps DEF PlansKept
<1>5. CASE UNCHANGED <<journal, call, prep, joining, consumer, refused>>
  BY <1>1, <1>5, QuietSteps, SameCallers DEF PlansKept
<1> QED BY <1>2, <1>3, <1>4, <1>5 DEF Await, EndWait, CheckLiveness, durableVars

-----------------------------------------------------------------------------
(* The steps of the callers.                                               *)

LEMMA LeaveSteps ==
  ASSUME Facts, NEW o \in Consumers, Leave(o)
  PROVE  Step /\ PlansKept /\ CallsKept /\ JoiningKept
<1>1. UNCHANGED <<call, joining, journal, released, book, current, plan>>
      /\ consumer' = [consumer EXCEPT ![o] = "gone"]
  BY DEF Leave, durableVars, manifestVars, claimVars
<1>2. Grown
  BY <1>1 DEF Grown, Facts, Shape, CalledTyped, Fates
<1> QED BY <1>1, <1>2, QuietSteps DEF PlansKept, CallsKept, JoiningKept

LEMMA ReleaseSteps ==
  ASSUME Facts, NEW o \in Consumers, Release(o)
  PROVE  Step /\ PlansKept /\ CallsKept /\ JoiningKept
<1>1. /\ retired' = retired \union {o}
      /\ plan' = IF current = None THEN plan
                 ELSE [plan EXCEPT ![current].claims = @ \ {o},
                                   ![current].base = IF @ = o THEN Anon ELSE @]
      /\ Erase({o}) \/ UNCHANGED journal
      /\ UNCHANGED <<released, book, current, call, joining, consumer>>
  BY DEF Release, callVars
<1>2. PlansKept
  <2>1. plan \in Plans
    BY DEF Facts, Shape, BuiltTyped
  <2>2. CASE current = None
    BY <1>1, <2>2 DEF PlansKept
  <2>3. CASE current # None
    <3> SUFFICES ASSUME NEW m \in Manifests PROVE plan'[m].claims \subseteq plan[m].claims
      BY DEF PlansKept
    <3>1. plan[m] \in Plan
      BY <2>1 DEF Plans
    <3>2. CASE m = current
      <4>1. plan'[m] = [plan[m] EXCEPT !.claims = @ \ {o}, !.base = IF @ = o THEN Anon ELSE @]
        BY <1>1, <2>1, <2>3, <3>2 DEF Plans
      <4> QED BY <3>1, <4>1 DEF Plan
    <3>3. CASE m # current
      BY <1>1, <2>1, <2>3, <3>3 DEF Plans
    <3> QED BY <3>2, <3>3
  <2> QED BY <2>2, <2>3
<1>3. Grown /\ CallsKept /\ JoiningKept
  BY <1>1, SameCallers
<1>4. journal'.claims \subseteq journal.claims /\ journal.claims \subseteq journal'.claims \union {o}
  BY <1>1, JournalFacts DEF Facts, Shape, KeptTyped
<1>5. Leaves
  BY <1>1, <1>4 DEF Leaves, Excused
<1> QED BY <1>1, <1>2, <1>3, <1>4, <1>5 DEF Step

LEMMA ReleasedSteps ==
  ASSUME Facts, NEW o \in Consumers, Released(o)
  PROVE  Remembered' /\ Known' /\ Leaves
<1>1. /\ o \in retired /\ released' = released \union {o}
      /\ UNCHANGED <<retired, book, current, plan, call, joining, consumer>>
  BY DEF Released, callVars, manifestVars
<1>2. journal'.claims = journal.claims \ {o}
  BY JournalFacts DEF Released, Facts, Shape, KeptTyped
<1>3. Remembered'
  BY <1>1, <1>2 DEF Remembered, Facts
<1>4. Known'
  BY <1>1, <1>2 DEF Known, KnownJournal, KnownPlans, KnownCalls, KnownClaims, Asked, Facts
<1> QED BY <1>1, <1>2, <1>3, <1>4 DEF Leaves, Excused

LEMMA ListenSteps ==
  ASSUME Facts, Listen \/ ResumeErrors
  PROVE  Step /\ PlansKept /\ KnownCalls' /\ JoiningKept
<1>1. CASE Listen
  <2>1. UNCHANGED <<journal, joining, consumer, released, current>>
    BY <1>1 DEF Listen
  <2>2. CASE Generate("listen", Listener, {Listener}) /\ plan' = plan
    <3>1. Asked({Listener} \union {Listener}) /\ Listener \notin Consumers /\ "listen" \in Calls
      BY Constants DEF Asked, Calls
    <3> QED BY <2>1, <2>2, <3>1, GenerateSteps
  <2>3. CASE (\E c \in Chunks : plan' = [plan EXCEPT ![current].urgent = @ \union {c}])
             /\ UNCHANGED <<call, book>>
    <3>1. PICK c \in Chunks : plan' = [plan EXCEPT ![current].urgent = @ \union {c}]
      BY <2>3
    <3>2. PlansKept
      BY <3>1, PlanClaims DEF PlansKept, Facts, Shape, BuiltTyped
    <3> QED BY <2>1, <2>3, <3>2, QuietSteps, SameCallers, StepEffect
  <2> QED BY <1>1, <2>2, <2>3 DEF Listen
<1>2. CASE ResumeErrors
  <2>1. Generate("resume", Anon, plan[current].claims) /\ current # None
        /\ UNCHANGED <<journal, joining, consumer, released, current, plan>>
    BY <1>2 DEF ResumeErrors, durableVars, manifestVars
  <2>2. current \in Manifests
    BY <2>1, Constants DEF Facts, Shape, BuiltTyped
  <2>3. Asked({Anon} \union plan[current].claims) /\ Anon \notin Consumers /\ "resume" \in Calls
    BY <2>2, Constants DEF Asked, Calls, Facts, Known, KnownPlans
  <2> QED BY <2>1, <2>3, GenerateSteps
<1> QED BY <1>1, <1>2

LEMMA CancelBookSteps ==
  ASSUME Facts, CancelBook
  PROVE  Remembered' /\ Known' /\ Leaves
<1>1. /\ book'.deleted /\ current' = None /\ journal' = NoRecord /\ Hear(TRUE, "failed")
      /\ plan' = plan \/ plan' = [plan EXCEPT ![current].cancelled = TRUE]
  BY DEF CancelBook
<1>2. Grown /\ CallsKept /\ JoiningKept
  BY <1>1, HearSteps
<1>3. PlansKept
  <2>1. CASE plan' = plan
    BY <2>1 DEF PlansKept
  <2>2. CASE plan' = [plan EXCEPT ![current].cancelled = TRUE]
    BY <2>2, PlanClaims DEF PlansKept, Facts, Shape, BuiltTyped
  <2> QED BY <1>1, <2>1, <2>2
<1>4. Remembered'
  BY <1>1 DEF Remembered, NoRecord
<1>5. KnownJournal'
  BY <1>1 DEF KnownJournal, NoRecord, Asked
<1>6. KnownPlans'
  BY <1>2, <1>3 DEF Facts, Known, KnownPlans, Asked, Grown, PlansKept
<1>7. KnownCalls'
  <2> SUFFICES ASSUME NEW k \in Calls
               PROVE  /\ \A o \in ({call'[k].lead, call'[k].creator} \union call'[k].claims) \intersect Consumers :
                           consumer'[o] # "idle"
                      /\ k # "prep" /\ call'[k].creator \in Consumers => consumer'[call'[k].creator] # "waiting"
    BY DEF KnownCalls, Asked
  <2>1. CASE call'[k] = NoCall
    BY <2>1, Blanks, Constants
  <2>2. CASE /\ call'[k].lead = call[k].lead /\ call'[k].creator = call[k].creator
             /\ call'[k].claims = call[k].claims
    BY <1>2, <2>2 DEF Facts, Known, KnownCalls, Asked, Grown
  <2> QED BY <1>2, <2>1, <2>2 DEF CallsKept
<1>8. KnownClaims'
  BY <1>2 DEF Facts, Known, KnownClaims, Grown, JoiningKept
<1>9. Leaves
  BY <1>1 DEF Leaves, Excused
<1> QED BY <1>4, <1>5, <1>6, <1>7, <1>8, <1>9 DEF Known

LEMMA QuietCallers ==
  ASSUME Facts, Quiesce \/ Reconcile \/ \E c \in Chunks : Invalidate(c)
  PROVE  Step /\ PlansKept /\ CallsKept /\ JoiningKept
<1>1. UNCHANGED <<journal, released, book, current, call, joining, consumer>>
  BY DEF Quiesce, Reconcile, Invalidate, durableVars, claimVars, callVars, manifestVars
<1>2. PlansKept
  <2>1. CASE plan' = plan
    BY <2>1 DEF PlansKept
  <2>2. CASE plan' = [plan EXCEPT ![current].cancelled = TRUE]
    BY <2>2, PlanClaims DEF PlansKept, Facts, Shape, BuiltTyped
  <2>3. CASE \E c \in Chunks : plan' = [plan EXCEPT ![current].urgent = @ \union {c}]
    <3>1. PICK c \in Chunks : plan' = [plan EXCEPT ![current].urgent = @ \union {c}]
      BY <2>3
    <3> QED BY <3>1, PlanClaims DEF PlansKept, Facts, Shape, BuiltTyped
  <2> QED BY <2>1, <2>2, <2>3 DEF Quiesce, Reconcile, Invalidate, manifestVars
<1> QED BY <1>1, <1>2, QuietSteps, SameCallers

LEMMA QuiescedSteps ==
  ASSUME Facts, Quiesced
  PROVE  Step /\ PlansKept /\ CallsKept /\ JoiningKept
<1>1. current' = None /\ Hear(TRUE, "failed") /\ UNCHANGED <<journal, released, book, plan>>
  BY DEF Quiesced, claimVars
<1>2. Grown /\ CallsKept /\ JoiningKept
  BY <1>1, HearSteps
<1> QED BY <1>1, <1>2 DEF Step, Leaves, PlansKept

LEMMA RestartSteps ==
  ASSUME Facts, Restart
  PROVE  Step /\ PlansKept /\ KnownCalls' /\ JoiningKept
<1>1. /\ Erase({Listener}) /\ released' = {} /\ ~book'.deleted
      /\ plan' = [m \in Manifests |-> NoPlan] /\ joining' = [o \in Consumers |-> NoClaim]
      /\ consumer' = [o \in Consumers |-> IF consumer[o] = "waiting" THEN "failed" ELSE consumer[o]]
  BY DEF Restart
<1>2. \/ call' = [k \in Calls |-> NoCall]
      \/ \E lead \in journal'.claims :
           call' = [k \in Calls |-> IF k = "resume" THEN [NoCall EXCEPT !.pc = "plan", !.lead = lead,
                                      !.creator = lead, !.claims = journal'.claims]
                                    ELSE NoCall]
  BY DEF Restart
<1>3. journal'.claims = journal.claims \ {Listener}
  BY <1>1, JournalFacts DEF Facts, Shape, KeptTyped
<1>4. Grown /\ \A o \in Consumers : consumer'[o] # "waiting"
  BY <1>1 DEF Grown, Facts, Shape, CalledTyped, Fates
<1>5. Leaves
  BY <1>3, Constants DEF Leaves
<1>6. PlansKept /\ JoiningKept
  BY <1>1 DEF PlansKept, JoiningKept, NoPlan, NoClaim
<1>7. Step
  BY <1>1, <1>3, <1>4, <1>5 DEF Step
<1>8. KnownCalls'
  <2>1. CASE call' = [k \in Calls |-> NoCall]
    BY <2>1, Blanks, Constants DEF KnownCalls, Asked
  <2>2. ASSUME NEW lead \in journal'.claims,
               call' = [k \in Calls |-> IF k = "resume" THEN [NoCall EXCEPT !.pc = "plan", !.lead = lead,
                                      !.creator = lead, !.claims = journal'.claims]
                                    ELSE NoCall]
        PROVE  KnownCalls'
    <3> DEFINE r == [NoCall EXCEPT !.pc = "plan", !.lead = lead, !.creator = lead, !.claims = journal'.claims]
    <3>1. r.lead = lead /\ r.creator = lead /\ r.claims = journal'.claims
      BY DEF NoCall
    <3>2. \A o \in journal'.claims \intersect Consumers : consumer'[o] # "idle"
      BY <1>3, <1>4 DEF Grown, Facts, Known, KnownJournal, Asked
    <3> HIDE DEF r
    <3>3. \A k \in Calls : call'[k] = r \/ call'[k] = NoCall
      BY <2>2 DEF r
    <3>4. ASSUME NEW k \in Calls
          PROVE  /\ \A o \in ({call'[k].lead, call'[k].creator} \union call'[k].claims) \intersect Consumers :
                      consumer'[o] # "idle"
                 /\ k # "prep" /\ call'[k].creator \in Consumers => consumer'[call'[k].creator] # "waiting"
      <4>1. CASE call'[k] = r
        BY <1>4, <2>2, <3>1, <3>2, <4>1
      <4>2. CASE call'[k] = NoCall
        BY <4>2, Blanks, Constants
      <4> QED BY <3>3, <4>1, <4>2
    <3> QED BY <3>4 DEF KnownCalls, Asked
  <2> QED BY <1>2, <2>1, <2>2
<1> QED BY <1>6, <1>7, <1>8

-----------------------------------------------------------------------------
(* The theorems.                                                           *)

IInv == Facts /\ JobsSound

LEMMA InitIInv == Init => IInv
<1> SUFFICES ASSUME Init PROVE IInv
  OBVIOUS
<1>1. Shape
  BY InitShape
<1>2. Remembered
  BY DEF Init, Remembered
<1>3. Known
  BY Blanks, Constants
     DEF Init, Known, KnownJournal, KnownPlans, KnownCalls, KnownClaims, Asked, NoRecord, NoPlan, NoClaim
<1>4. JobsSound
  BY NoJobSound DEF Init, JobsSound, Running
<1> QED BY <1>1, <1>2, <1>3, <1>4 DEF IInv, Facts

LEMMA NextSteps ==
  ASSUME Facts, [Next]_vars PROVE Remembered' /\ Known' /\ Leaves
<1>1. CASE Generation
  BY <1>1, PutIntentSteps, StartBuildSteps, EndBuildSteps, InstallSteps, StepEffect DEF Generation, Known
<1>2. CASE Preparation
  BY <1>2, PrepareSteps, WaitSteps, StepEffect DEF Preparation, Known
<1>3. CASE Claiming
  BY <1>3, ClaimSteps, ClaimedSteps, ReleasedSteps, StepEffect DEF Claiming, Known
<1>4. CASE Pumping
  BY <1>4, StartRoundSteps, RoundSteps, MaterializeFailsSteps, StepEffect DEF Pumping, Known
<1>5. CASE Queue
  BY <1>5, JobCompletesSteps, QueueSteps, StepEffect DEF Queue, Known
<1>6. CASE Reconcile
  BY <1>6, QuietCallers, StepEffect DEF Known
<1>7. CASE Callers
  <2>1. ASSUME NEW o \in Consumers, Request(o) \/ Leave(o) \/ Release(o)
        PROVE  Remembered' /\ Known' /\ Leaves
    BY <2>1, RequestSteps, LeaveSteps, ReleaseSteps, StepEffect DEF Known
  <2>2. CASE Listen \/ ResumeErrors
    BY <2>2, ListenSteps, StepEffect DEF Known
  <2>3. CASE CancelBook
    BY <2>3, CancelBookSteps
  <2>4. CASE Quiesce \/ \E c \in Chunks : Invalidate(c)
    BY <2>4, QuietCallers, StepEffect DEF Known
  <2>5. CASE Quiesced
    BY <2>5, QuiescedSteps, StepEffect DEF Known
  <2>6. CASE Restart
    BY <2>6, RestartSteps, StepEffect DEF Known
  <2> QED BY <1>7, <2>1, <2>2, <2>3, <2>4, <2>5, <2>6 DEF Callers
<1>8. CASE UNCHANGED vars
  <2>1. UNCHANGED <<journal, released, book, current, call, joining, consumer, plan>>
    BY <1>8 DEF vars, durableVars, claimVars, callVars, manifestVars
  <2> QED BY <2>1, QuietSteps, SameCallers, StepEffect DEF PlansKept, Known
<1> QED BY <1>1, <1>2, <1>3, <1>4, <1>5, <1>6, <1>7, <1>8 DEF Next

LEMMA NextIInv == IInv /\ [Next]_vars => IInv' /\ Leaves
<1> SUFFICES ASSUME IInv, [Next]_vars PROVE IInv' /\ Leaves
  OBVIOUS
<1>1. Shape' /\ JobsSound'
  BY NextShape, NextJobs DEF IInv, Facts
<1> QED BY <1>1, NextSteps DEF IInv, Facts

(* The chapter's state is of its types, in every state of every run: in    *)
(* particular no round is on without a chunk to enqueue, and no build runs *)
(* out of manifests.                                                       *)
THEOREM ChunkedTypeOK == Spec => []TypeOK
<1>1. IInv => TypeOK
  BY TypeParts DEF IInv, Facts, Shape
<1> QED BY <1>1, InitIInv, NextIInv, PTL DEF Spec

(* A request that is released has no claim on any job, whatever await      *)
(* still carries it, and once its release has returned none in the journal *)
(* either (releaseRequestClaims, and the checks after every await).        *)
THEOREM NothingIsLeft == Spec => []RetiredLeaveNothing
<1>1. IInv => RetiredLeaveNothing
  BY DEF IInv, Facts, JobsSound, Remembered, RetiredLeaveNothing
<1> QED BY <1>1, InitIInv, NextIInv, PTL DEF Spec

(* A deleted book keeps no intent, no manifest and no wanted render, what- *)
(* ever was in flight when it was cancelled (cancelBook).                  *)
THEOREM DeletedIsForgotten == Spec => []DeletedBookForgotten
<1>1. IInv => DeletedBookForgotten
  BY DEF IInv, Facts, JobsSound, Remembered, DeletedBookForgotten
<1> QED BY <1>1, InitIInv, NextIInv, PTL DEF Spec

(* A claim of a consumer leaves the journal only with its owner, or with   *)
(* the record of a chapter that is complete or a book that is deleted: no  *)
(* failure of one call takes the claim of another along (the handlers of   *)
(* AbortError in generateChapter and claimChapter).                        *)
THEOREM ClaimsAreKept == Spec => ClaimsLeaveWithOwners
<1>1. IInv /\ [Next]_vars =>
        [\A o \in Consumers :
           o \in journal.claims /\ o \notin journal'.claims
           => \/ o \in retired' \/ consumer'[o] # "waiting" \/ "prep" \in refused'
              \/ book'.deleted \/ \E m \in Manifests : Complete(m)']_vars
  BY NextIInv DEF Leaves, Excused
<1> QED BY <1>1, InitIInv, NextIInv, PTL DEF Spec, ClaimsLeaveWithOwners
=============================================================================
