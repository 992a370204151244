----------------------------- MODULE HlsSessions -----------------------------
(***************************************************************************)
(* lib/hls-audio-stream.js: transports that encode a chapter for a player  *)
(* which polls a playlist, together with the permits its requests hold     *)
(* (lib/concurrency-limit.js, the group hls).                              *)
(*                                                                         *)
(* A session prepares a source, which may wait for narration and ignore    *)
(* cancellation, and then runs an encoder.  A session can be evicted, that *)
(* is leave the maps, long before that work stops; until it does it counts *)
(* against the capacity.  A request looks its session up, awaits the       *)
(* admission gate, looks again, perhaps creates a session and waits for    *)
(* it to be ready, for its end, or for its own client to leave.            *)
(*                                                                         *)
(* A key stands for owner, chapter, narrator and offset.  Directories,     *)
(* playlists, byte counts and access times are left out: maintenance may   *)
(* find the lease of any session run out, and any ones the oldest.         *)
(***************************************************************************)
EXTENDS Integers, FiniteSets, Sequences

CONSTANTS
  Sessions,      \* bound: sessions that may ever be created
  Clients,       \* bound: requests at a time
  OwnerKeys,     \* those who listen
  Places,        \* chapters, narrators and offsets
  Account,       \* Account[o]: the rate key of the owner's requests
  None,
  MaxActive,     \* maxActiveSessions
  MaxAccount,    \* maxActiveSessionsPerAccount
  MaxStarted,    \* maxCreationsPerAccount
  MaxRetained,   \* maxRetainedSessions
  Permits,       \* the group's limit
  Sittings       \* bound: [keys: the keys asked for, may: how often each event may come]

ASSUME HlsAssumption ==
  /\ Sessions \subseteq Nat /\ IsFiniteSet(Sessions) /\ None \notin Sessions
  /\ Clients \subseteq Nat /\ IsFiniteSet(Clients) /\ None \notin OwnerKeys \X Places
  /\ MaxActive \in Nat /\ MaxAccount \in Nat \ {0}
  /\ MaxStarted \in Nat /\ MaxRetained \in Nat /\ Permits \in Nat

VARIABLES
  hls,       \* sessions: s[i] the session, byKey and byOwner the maps
  started,   \* started[a]: creations of the account in the window
  req,       \* req[r]: a playlist request
  left,      \* sessions whose last waiter disconnected
  sitting    \* how often each event may still come, and the keys

hlsVars == <<hls, started, req, left, sitting>>

Keys == OwnerKeys \X Places
OwnerOf(k) == k[1]
AccountOf(k) == Account[k[1]]

Unused == [key |-> None, prep |-> "off", run |-> "off", readiness |-> "pending",
           running |-> FALSE, aborted |-> FALSE, error |-> FALSE, evicted |-> FALSE, waiters |-> 0]
NoRequest == [pc |-> "off", key |-> None, session |-> None, gone |-> FALSE]

Session == [key : Keys \union {None}, prep : {"off", "source", "poll", "over"},
            run : {"off", "on", "failing", "over"}, readiness : {"pending", "ok", "no"},
            running : BOOLEAN, aborted : BOOLEAN, error : BOOLEAN, evicted : BOOLEAN, waiters : Nat]

HlsTypeOK ==
  /\ hls \in [s : [Sessions -> Session], byKey : [Keys -> Sessions \union {None}],
               byOwner : [OwnerKeys -> Sessions \union {None}]]
  /\ started \in [{Account[o] : o \in OwnerKeys} -> Nat]
  /\ req \in [Clients -> [pc : {"off", "admit", "wait", "drop"}, key : Keys \union {None},
                          session : Sessions \union {None}, gone : BOOLEAN]]
  /\ left \subseteq Sessions

HlsInit ==
  /\ hls = [s |-> [i \in Sessions |-> Unused], byKey |-> [k \in Keys |-> None],
            byOwner |-> [o \in OwnerKeys |-> None]]
  /\ started = [a \in {Account[o] : o \in OwnerKeys} |-> 0]
  /\ req = [r \in Clients |-> NoRequest] /\ left = {}
  /\ sitting \in Sittings

SpendSitting(e) == sitting.may[e] > 0 /\ sitting' = [sitting EXCEPT !.may[e] = @ - 1]

Used(h)   == {i \in Sessions : h.s[i].key # None}
Mapped(h) == {i \in Used(h) : ~h.s[i].evicted}     \* sessionsById
Preparing(h) == {i \in Used(h) : h.s[i].prep # "over"}
Encoding(h)  == {i \in Used(h) : h.s[i].run \in {"on", "failing"}}

-----------------------------------------------------------------------------
(* Abort and eviction. *)

(* removeSessionMappings: byKey and byOwner hold a session under its own   *)
(* key and owner alone.                                                    *)
Without(map, S) == [x \in DOMAIN map |-> IF map[x] \in S THEN None ELSE map[x]]

(* The controller is aborted: a pending readiness rejects, which evicts.   *)
Aborted(s) ==
  IF s.readiness # "pending" THEN [s EXCEPT !.aborted = TRUE]
  ELSE [s EXCEPT !.aborted = TRUE, !.readiness = "no", !.error = TRUE, !.running = FALSE,
                 !.evicted = TRUE]

Evicted(s) ==
  IF s.evicted THEN s
  ELSE IF s.running THEN Aborted([s EXCEPT !.evicted = TRUE]) ELSE [s EXCEPT !.evicted = TRUE]

(* The sessions of S, if there are any, are evicted.                       *)
Evict(h, S) ==
  [s |-> [i \in Sessions |-> IF i \in S THEN Evicted(h.s[i]) ELSE h.s[i]],
   byKey |-> Without(h.byKey, S), byOwner |-> Without(h.byOwner, S)]

(* The session i becomes s; the maps forget it if it was evicted.          *)
Becomes(h, i, s) ==
  LET out == IF s.evicted THEN {i} ELSE {}
  IN [s |-> [h.s EXCEPT ![i] = s],
      byKey |-> Without(h.byKey, out), byOwner |-> Without(h.byOwner, out)]

-----------------------------------------------------------------------------
(* Requests. *)

(* The session of the key; one that failed is evicted instead.             *)
Found(h, k) ==
  LET i == h.byKey[k]
  IN IF i # None /\ h.s[i].error THEN [h |-> Evict(h, {i}), session |-> None]
     ELSE [h |-> h, session |-> i]

Joined(h, i) == [h EXCEPT !.s[i].waiters = @ + 1]
Waits(r, i)  == [req EXCEPT ![r] = [@ EXCEPT !.pc = "wait", !.session = i]]
Closed(r)    == [req EXCEPT ![r] = NoRequest]

Arrive(r, k) ==
  /\ req[r].pc = "off" /\ \A q \in Clients : req[q].pc = "off" => r <= q
  /\ sitting.keys # <<>> /\ k = Head(sitting.keys)
  /\ sitting' = [sitting EXCEPT !.keys = Tail(@)]
  /\ Cardinality({q \in Clients : req[q].pc # "off"}) < Permits
  /\ LET found == Found(hls, k)
         new == [NoRequest EXCEPT !.key = k]
     IN IF found.session = None
        THEN hls' = found.h /\ req' = [req EXCEPT ![r] = [new EXCEPT !.pc = "admit"]]
        ELSE /\ hls' = Joined(found.h, found.session)
             /\ req' = [req EXCEPT ![r] = [new EXCEPT !.pc = "wait", !.session = found.session]]
  /\ UNCHANGED <<started, left>>

(* Fault: an evicted session counts no longer.                             *)
Active_Mapped(h) == {i \in Mapped(h) : h.s[i].running}
Active(h) == {i \in Mapped(h) : h.s[i].running} \union Preparing(h) \union Encoding(h)

OfAccount(h, S, a) == {i \in S : AccountOf(h.s[i].key) = a}

(* What admission makes of the sessions: nobody is cancelled for a source  *)
(* that is still being prepared, and a slot is free when its work stops.   *)
Cancellable(h, S) == {i \in S : h.s[i].running /\ ~h.s[i].evicted /\ i \notin Preparing(h)}

Admission(h, k) ==
  LET prior == h.byOwner[OwnerOf(k)]
      g     == IF prior # None /\ h.s[prior].key # k THEN Evict(h, {prior}) ELSE h
      mine  == OfAccount(g, Active(g), AccountOf(k))
      over  == Cardinality(mine) - MaxAccount + 1
      free  == Cancellable(g, mine)
  IN IF started[AccountOf(k)] >= MaxStarted THEN {[h |-> h, ok |-> FALSE]}
     ELSE IF Cardinality(Active(g)) >= MaxActive THEN {[h |-> g, ok |-> FALSE]}
     ELSE IF Cardinality(mine) < MaxAccount THEN {[h |-> g, ok |-> TRUE]}
     ELSE IF (\E i \in mine : g.s[i].evicted) \/ Cardinality(free) < over
          THEN {[h |-> g, ok |-> FALSE]}
     ELSE {[h |-> Evict(g, S), ok |-> S \intersect Encoding(g) = {}] :
             S \in {T \in SUBSET free : Cardinality(T) = over}}

Created(h, k, i) ==
  [h EXCEPT !.s[i] = [Unused EXCEPT !.key = k, !.prep = "source", !.running = TRUE, !.waiters = 1],
            !.byKey[k] = i, !.byOwner[OwnerOf(k)] = i]

(* Fault: what was found before the gate is not looked up again.           *)
Again_Not(k) == [h |-> hls, session |-> None]
Again(k) == Found(hls, k)

(* The gate lets the request pass.                                         *)
Admitted(r) ==
  LET k == req[r].key  found == Again(k)
  IN /\ req[r].pc = "admit"
     /\ \/ /\ req[r].gone
           /\ req' = Closed(r) /\ UNCHANGED <<hls, started>>
        \/ /\ ~req[r].gone /\ found.session # None
           /\ hls' = Joined(found.h, found.session)
           /\ req' = Waits(r, found.session) /\ UNCHANGED started
        \/ /\ ~req[r].gone /\ found.session = None
           /\ \E a \in Admission(found.h, k) :
                \/ ~a.ok /\ hls' = a.h /\ req' = Closed(r) /\ UNCHANGED started
                \/ /\ a.ok
                   /\ \E i \in Sessions \ Used(a.h) :
                        /\ \A j \in Sessions \ Used(a.h) : i <= j
                        /\ hls' = Created(a.h, k, i) /\ req' = Waits(r, i)
                   /\ started' = [started EXCEPT ![AccountOf(k)] = @ + 1]
     /\ UNCHANGED <<left, sitting>>

(* The gate refuses: the chapter is not far enough rendered.               *)
Refused(r) ==
  /\ req[r].pc = "admit" /\ req' = Closed(r) /\ SpendSitting("refuse")
  /\ UNCHANGED <<hls, started, left>>

(* The session is ready or has failed: the request is answered.            *)
Answer(r) ==
  LET i == req[r].session
  IN /\ req[r].pc = "wait" /\ hls.s[i].readiness # "pending"
     /\ hls' = [hls EXCEPT !.s[i].waiters = @ - 1]
     /\ req' = Closed(r)
     /\ UNCHANGED <<started, left, sitting>>

(* Fault: whoever leaves takes the session along.                          *)
Abandoned_Any(h, i) == h.s[i].readiness # "ok"
Abandoned(h, i) == h.s[i].readiness # "ok" /\ h.s[i].waiters = 0

Holds(h, i) == [NoRequest EXCEPT !.pc = "drop", !.key = h.s[i].key, !.session = i]

(* The client leaves; the last one to wait for an unready session evicts   *)
(* it, and its permit is held until the work has stopped.                  *)
Disconnect(r) ==
  /\ req[r].pc \in {"admit", "wait"} /\ ~req[r].gone /\ SpendSitting("leave")
  /\ \/ /\ req[r].pc = "admit"
        /\ req' = [req EXCEPT ![r].gone = TRUE] /\ UNCHANGED <<hls, left>>
     \/ /\ req[r].pc = "wait" /\ hls.s[req[r].session].readiness = "pending"
        /\ LET i == req[r].session
               g == [hls EXCEPT !.s[i].waiters = @ - 1]
           IN IF Abandoned(g, i)
              THEN /\ hls' = Evict(g, {i}) /\ left' = left \union {i}
                   /\ req' = [req EXCEPT ![r] = Holds(g, i)]
              ELSE hls' = g /\ req' = Closed(r) /\ UNCHANGED left
  /\ UNCHANGED started

(* backendCompletion *)
Stopped(i) == hls.s[i].prep = "over" /\ hls.s[i].run \in {"off", "over"}
Dropped(r) ==
  /\ req[r].pc = "drop" /\ Stopped(req[r].session) /\ req' = Closed(r)
  /\ UNCHANGED <<hls, started, left, sitting>>

-----------------------------------------------------------------------------
(* Sessions. *)

PrepFails(i) == hls' = Becomes(hls, i, Aborted([hls.s[i] EXCEPT !.prep = "over"]))

(* The directory is made and createSource answers at last: the encoder     *)
(* starts, unless the session was aborted.                                 *)
SourceReady(i) ==
  /\ hls.s[i].prep = "source"
  /\ \/ /\ PrepFails(i)
        /\ IF hls.s[i].aborted THEN UNCHANGED sitting ELSE SpendSitting("fail")
     \/ /\ ~hls.s[i].aborted /\ UNCHANGED sitting
        /\ hls' = [hls EXCEPT !.s[i].prep = "poll", !.s[i].run = "on"]
  /\ UNCHANGED <<started, req, left>>

(* The loop that looks for the playlist.                                   *)
Poll(i) ==
  /\ hls.s[i].prep = "poll"
  /\ \/ hls.s[i].error /\ PrepFails(i)
     \/ /\ ~hls.s[i].error
        /\ hls' = [hls EXCEPT !.s[i].prep = "over",
                     !.s[i].readiness = IF @ = "pending" THEN "ok" ELSE @]
  /\ UNCHANGED <<started, req, left, sitting>>

(* Fault: the deadline covers the encoder alone.                           *)
Deadline_Late(i) == hls.s[i].prep = "poll"
Deadline(i) == hls.s[i].readiness = "pending"

(* readinessTimeout *)
Timeout(i) ==
  /\ i \in Used(hls) /\ hls.s[i].readiness = "pending" /\ Deadline(i)
  /\ hls' = Becomes(hls, i, Aborted(hls.s[i]))
  /\ UNCHANGED <<started, req, left, sitting>>

(* All input is encoded.                                                   *)
EncoderEnds(i) ==
  /\ hls.s[i].run = "on" /\ ~hls.s[i].aborted
  /\ hls' = [hls EXCEPT !.s[i].run = "over", !.s[i].running = FALSE]
  /\ UNCHANGED <<started, req, left, sitting>>

(* Input or encoder fail, or are cancelled; the other one may go on.       *)
EncoderFails(i) ==
  /\ hls.s[i].run = "on"
  /\ IF hls.s[i].aborted THEN UNCHANGED sitting ELSE SpendSitting("fail")
  /\ hls' = Becomes(hls, i, Aborted([hls.s[i] EXCEPT !.run = "failing", !.error = TRUE]))
  /\ UNCHANGED <<started, req, left>>

EncoderSettles(i) ==
  /\ hls.s[i].run = "failing"
  /\ hls' = [hls EXCEPT !.s[i].run = "over", !.s[i].running = FALSE]
  /\ UNCHANGED <<started, req, left, sitting>>

-----------------------------------------------------------------------------
(* Time and maintenance. *)

(* The window of the account's creations moves on.                         *)
Window(a) ==
  /\ started[a] > 0 /\ started' = [started EXCEPT ![a] = @ - 1] /\ SpendSitting("expire")
  /\ UNCHANGED <<hls, req, left>>

(* maintain: finished sessions beyond the number retained, then sessions   *)
(* without waiters whose lease has run out, while storage is short.        *)
Maintain ==
  LET finished == {i \in Mapped(hls) : ~hls.s[i].running}
  IN /\ \E S \in SUBSET finished :
          /\ Cardinality(finished \ S) <= MaxRetained
          /\ S = {} \/ Cardinality(finished \ S) = MaxRetained
          /\ \E T \in SUBSET {i \in Mapped(hls) \ S : hls.s[i].waiters = 0} :
               S \union T # {} /\ hls' = Evict(hls, S \union T)
     /\ SpendSitting("maintain")
     /\ UNCHANGED <<started, req, left>>

Prompt == \/ \E r \in Clients : Answer(r) \/ Dropped(r)
          \/ \E i \in Sessions : Poll(i)
Gate == \E r \in Clients : Admitted(r)
HlsNext ==
  \/ Prompt \/ Gate \/ Maintain
  \/ \E r \in Clients :
       \/ Refused(r) \/ Disconnect(r)
       \/ \E k \in Keys : Arrive(r, k)
  \/ \E i \in Sessions :
       \/ SourceReady(i) \/ Timeout(i) \/ EncoderEnds(i) \/ EncoderFails(i)
       \/ EncoderSettles(i)
  \/ \E a \in DOMAIN started : Window(a)

(* The gate answers; timers fire; a source may hang forever.               *)
HlsSpec == HlsInit /\ [][HlsNext]_hlsVars
Goes == Prompt \/ Gate \/ \E i \in Sessions : Timeout(i)
FairHls == HlsSpec /\ WF_hlsVars(Goes)

-----------------------------------------------------------------------------
(* The sources being prepared and encoders still at work are no more than  *)
(* the capacity, in all and of one account, whatever was evicted ("its     *)
(* physical work remains counted until it settles").                       *)
AtWork(h) == Preparing(h) \union Encoding(h)
CapacityBounded ==
  /\ Cardinality(AtWork(hls)) <= MaxActive
  /\ \A a \in DOMAIN started : Cardinality(OfAccount(hls, AtWork(hls), a)) <= MaxAccount

(* An owner has one transport at a time, and the maps lead to it ("another *)
(* request can admit this identity while the gate is pending").            *)
OneTransport ==
  \A i \in Mapped(hls) :
    LET k == hls.s[i].key IN hls.byKey[k] = i /\ hls.byOwner[OwnerOf(k)] = i

(* Neither a client that leaves nor a request of another owner ends the    *)
(* wait of a client that is still there.                                   *)
Spared ==
  \A i \in Sessions :
    ~hls.s[i].evicted /\ hls'.s[i].evicted /\ hls.s[i].readiness = "pending"
    /\ hls'.s[i].waiters > 0 =>
      \A r \in Clients : req'[r] # req[r] =>
        req[r].pc = "admit" /\ OwnerOf(req[r].key) = OwnerOf(hls.s[i].key)
WaitersSpared == [][Spared]_hlsVars

(* While work goes on that nobody waits for any more, the permit of the    *)
(* client that left last is held ("releasing there would let disconnect    *)
(* loops bypass the limit").                                               *)
PermitsCoverWork ==
  \A i \in left : ~Stopped(i) => \E r \in Clients : req[r].pc = "drop" /\ req[r].session = i

(* Work and permits are accounted for until they are done.                 *)
WorkAccounted == HlsTypeOK /\ CapacityBounded /\ PermitsCoverWork

(* A client that waits is answered, even if the source never is.           *)
WaitsAnswered == \A r \in Clients : req[r].pc = "wait" ~> req[r].pc # "wait"
=============================================================================
