--------------------------- MODULE BookLocksProofs ---------------------------
(***************************************************************************)
(* What holds of the per-book locks for every set of books, operations and *)
(* nests: the chains are accounted for, nobody is inside a book he has no  *)
(* claim to, sections exclude each other when no timer outlives one, and   *)
(* ascending nests cannot wait on each other in a cycle.                   *)
(*                                                                         *)
(* The invariant adds what a section's ownership store is made of: a book  *)
(* in it was chained by an enclosing section or came with the task.        *)
(***************************************************************************)
EXTENDS BookLocks, TLAPS

(* b was chained by one of the first n sections of t, or came with t.      *)
Claimed(t, b, n) ==
  \/ b \in held[t][0]
  \/ \E j \in queued[t] : j <= n /\ plan[t][j].book = b

Nested(t) ==
  /\ queued[t] \subseteq 1..at[t]
  /\ phase[t] = "idle" => at[t] = 0
  /\ \A i, j \in queued[t] : plan[t][i].book = plan[t][j].book => i = j
  /\ \A i \in 0..at[t] : \A b \in held[t][i] : Claimed(t, b, i)
  /\ \A i \in 1..at[t] : i \notin queued[t] => Claimed(t, plan[t][i].book, i)

IInv == TypeOK /\ LocksAccounted /\ \A t \in Tasks : Nested(t)

LEMMA InitInvariant == Init => IInv
  <1> SUFFICES ASSUME Init PROVE IInv
    OBVIOUS
  <1>1. TypeOK
    BY LocksAssumption DEF Init, TypeOK, LocksAssumption, Request
  <1>2. LocksAccounted
    BY LocksAssumption DEF Init, LocksAccounted, LocksAssumption
  <1>3. \A t \in Tasks : Nested(t)
    BY LocksAssumption DEF Init, Nested, Claimed, LocksAssumption
  <1> QED BY <1>1, <1>2, <1>3 DEF IInv

(* The request a task makes is one of its plan's.                          *)
LEMMA AskedTyped ==
  ASSUME IInv, NEW t \in Tasks, phase[t] \in {"entering", "waiting"}
  PROVE  /\ Asked(t) \in Request
         /\ at[t] + 1 \in 1..Depth /\ at[t] \in 0..Depth /\ at[t] < Len(plan[t])
         /\ Cur(t) \in SUBSET Books
  BY LocksAssumption DEF IInv, TypeOK, LocksAssumption, Asked, Cur

(* The counts only change with queued, holder and mutationActive.          *)
LEMMA AccountedKept ==
  ASSUME LocksAccounted, queued' = queued, holder' = holder,
         mutationActive' = mutationActive,
         \A u \in Tasks : \A i \in queued[u] : plan'[u][i] = plan[u][i]
  PROVE  LocksAccounted'
  <1> SUFFICES ASSUME NEW c \in Books
               PROVE  /\ c \in mutationActive <=>
                           \E u \in Tasks : \E i \in queued[u] :
                             plan'[u][i].book = c /\ plan'[u][i].kind = "mutation"
                      /\ \A u \in Tasks :
                           holder[c] = u <=> \E i \in queued[u] : plan'[u][i].book = c
    BY DEF LocksAccounted
  <1>1. c \in mutationActive <=>
          \E u \in Tasks : \E i \in queued[u] :
            plan[u][i].book = c /\ plan[u][i].kind = "mutation"
    BY DEF LocksAccounted
  <1>2. \A u \in Tasks : holder[c] = u <=> \E i \in queued[u] : plan[u][i].book = c
    BY DEF LocksAccounted
  <1>3. \A u \in Tasks : (\E i \in queued[u] : plan'[u][i].book = c)
                           <=> \E i \in queued[u] : plan[u][i].book = c
    OBVIOUS
  <1>4. (\E u \in Tasks : \E i \in queued[u] :
           plan'[u][i].book = c /\ plan'[u][i].kind = "mutation")
        <=> \E u \in Tasks : \E i \in queued[u] :
              plan[u][i].book = c /\ plan[u][i].kind = "mutation"
    OBVIOUS
  <1> QED BY <1>1, <1>2, <1>3, <1>4

(* A task whose variables do not change stays nested.                      *)
LEMMA NestedKept ==
  ASSUME NEW u, Nested(u), queued'[u] = queued[u], at'[u] = at[u],
         held'[u] = held[u], plan'[u] = plan[u], phase'[u] = "idle" => at[u] = 0
  PROVE  Nested(u)'
  BY DEF Nested, Claimed

LEMMA BeginInvariant ==
  ASSUME IInv, NEW t \in Tasks, Begin(t)
  PROVE  IInv'
  <1> USE LocksAssumption DEF LocksAssumption
  <1>1. PICK p \in Plans : plan' = [plan EXCEPT ![t] = p]
    BY DEF Begin
  <1>2. p \in Seq(Request) /\ Len(p) \in 1..Depth
    BY <1>1
  <1>3. at[t] = 0 /\ queued[t] = {}
    BY DEF Begin, IInv, Nested, TypeOK
  <1>4. TypeOK'
    BY <1>1, <1>2, <1>3 DEF Begin, IInv, TypeOK
  <1>5. \A u \in Tasks : \A i \in queued[u] : plan'[u][i] = plan[u][i]
    BY <1>1, <1>3 DEF IInv, TypeOK
  <1>6. LocksAccounted'
    BY <1>5, AccountedKept DEF Begin, IInv
  <1>7. ASSUME NEW u \in Tasks PROVE Nested(u)'
    <2>1. CASE u = t
      BY <1>1, <1>3, <2>1 DEF Begin, IInv, Nested, Claimed, TypeOK
    <2>2. CASE u # t
      <3>1. plan'[u] = plan[u] /\ phase'[u] = phase[u]
        BY <1>1, <2>2 DEF Begin, IInv, TypeOK
      <3> QED BY <3>1, NestedKept DEF Begin, IInv, Nested
    <2> QED BY <2>1, <2>2
  <1> QED BY <1>4, <1>6, <1>7 DEF IInv

(* Going back to k enclosing sections keeps the types and the other tasks. *)
LEMMA UnwindTyped ==
  ASSUME IInv, NEW t \in Tasks, NEW k \in 0..Depth, k <= at[t], Unwind(t, k)
  PROVE  /\ phase' \in [Tasks -> {"idle", "entering", "waiting", "leaving"}]
         /\ plan' \in [Tasks -> Seq(Request)]
         /\ held' \in [Tasks -> [0..Depth -> SUBSET Books]]
         /\ phase'[t] = IF k = 0 THEN "idle" ELSE "leaving"
         /\ plan'[t] = IF k = 0 THEN <<>> ELSE plan[t]
         /\ \A i \in 0..Depth :
              held'[t][i] = IF k > 0 /\ i <= k THEN held[t][i] ELSE {}
         /\ \A u \in Tasks \ {t} : /\ phase'[u] = phase[u]
                                   /\ plan'[u] = plan[u] /\ held'[u] = held[u]
  BY LocksAssumption DEF LocksAssumption, IInv, TypeOK, Unwind

LEMMA ReturnBusyInvariant ==
  ASSUME IInv, NEW t \in Tasks, ReturnBusy(t)
  PROVE  IInv'
  <1> USE LocksAssumption DEF LocksAssumption
  <1>1. at[t] \in 0..Depth /\ Unwind(t, at[t])
    BY DEF ReturnBusy, IInv, TypeOK
  <1>2. /\ at' = at /\ queued' = queued /\ tail' = tail
        /\ holder' = holder /\ mutationActive' = mutationActive
    BY DEF ReturnBusy
  <1>3. at[t] <= Len(plan[t]) /\ Len(plan[t]) <= Depth
    BY DEF IInv, TypeOK
  <1>4. TypeOK'
    <2>1. ASSUME NEW u \in Tasks
          PROVE  /\ at[u] <= Len(plan'[u])
                 /\ Len(plan'[u]) <= Depth
                 /\ phase'[u] \in {"entering", "waiting"} => at[u] < Len(plan'[u])
      <3>1. CASE u = t
        BY <1>1, <1>3, <3>1, UnwindTyped
      <3>2. CASE u # t
        BY <1>1, <3>2, UnwindTyped DEF IInv, TypeOK
      <3> QED BY <3>1, <3>2
    <2> QED BY <1>1, <1>2, <2>1, UnwindTyped DEF IInv, TypeOK
  <1>5. \A u \in Tasks : \A i \in queued[u] : plan'[u][i] = plan[u][i]
    <2>1. queued[t] \subseteq 1..at[t]
      BY DEF IInv, Nested
    <2>2. ASSUME NEW i \in queued[t] PROVE plan'[t][i] = plan[t][i]
      BY <1>1, <2>1, UnwindTyped
    <2> QED BY <1>1, <2>2, UnwindTyped
  <1>6. LocksAccounted'
    BY <1>2, <1>5, AccountedKept DEF IInv
  <1>7. ASSUME NEW u \in Tasks PROVE Nested(u)'
    <2>1. Nested(u)
      BY DEF IInv
    <2>2. CASE u = t /\ at[t] = 0
      <3>1. queued[t] = {}
        BY <2>1, <2>2 DEF Nested
      <3>2. 0 \in 0..Depth /\ ~(at[t] > 0)
        BY <2>2
      <3>3. held'[t][0] = {}
        BY <1>1, <3>2, UnwindTyped
      <3> QED BY <1>1, <1>2, <2>2, <3>1, <3>3 DEF Nested
    <2>3. CASE u = t /\ at[t] # 0
      <3>1. at[t] > 0 /\ phase'[t] = "leaving" /\ plan'[t] = plan[t]
        BY <1>1, <2>3, UnwindTyped
      <3>2. \A i \in 0..at[t] : held'[t][i] = held[t][i]
        <4> SUFFICES ASSUME NEW i \in 0..at[t] PROVE held'[t][i] = held[t][i]
          OBVIOUS
        <4>1. i \in 0..Depth /\ i <= at[t]
          BY <1>1
        <4> QED BY <1>1, <3>1, <4>1, UnwindTyped
      <3>3. \A b, n : Claimed(t, b, n) => Claimed(t, b, n)'
        BY <1>1, <1>2, <3>1, <3>2 DEF Claimed
      <3> QED BY <1>1, <1>2, <2>1, <2>3, <3>1, <3>2, <3>3 DEF Nested
    <2>4. CASE u # t
      <3>1. phase'[u] = phase[u] /\ plan'[u] = plan[u] /\ held'[u] = held[u]
        BY <1>1, <2>4, UnwindTyped
      <3> QED BY <1>2, <2>1, <3>1, NestedKept DEF Nested
    <2> QED BY <2>2, <2>3, <2>4
  <1> QED BY <1>4, <1>6, <1>7 DEF IInv

(* Entering one more section only adds a store.                            *)
LEMMA InsideTyped ==
  ASSUME IInv, NEW t \in Tasks, phase[t] \in {"entering", "waiting"},
         NEW books \in SUBSET Books, Inside(t, books)
  PROVE  /\ at' \in [Tasks -> 0..Depth] /\ at'[t] = at[t] + 1
         /\ held' \in [Tasks -> [0..Depth -> SUBSET Books]]
         /\ held'[t][at[t] + 1] = books
         /\ \A i \in 0..at[t] : held'[t][i] = held[t][i]
         /\ \A u \in Tasks \ {t} : at'[u] = at[u] /\ held'[u] = held[u]
  <1>1. at[t] + 1 \in 1..Depth /\ at[t] \in 0..Depth
    BY AskedTyped
  <1>2. at' = [at EXCEPT ![t] = @ + 1] /\ held' = [held EXCEPT ![t][at[t] + 1] = books]
    BY DEF Inside
  <1> QED BY <1>1, <1>2, LocksAssumption DEF LocksAssumption, IInv, TypeOK

LEMMA ReenterInvariant ==
  ASSUME IInv, NEW t \in Tasks, Reenter(t)
  PROVE  IInv'
  <1> USE LocksAssumption DEF LocksAssumption
  <1>1. phase[t] = "entering" /\ Inside(t, Cur(t)) /\ Asked(t).book \in Cur(t)
    BY DEF Reenter, Requests, Owned
  <1>2. /\ plan' = plan /\ queued' = queued /\ tail' = tail
        /\ holder' = holder /\ mutationActive' = mutationActive
    BY DEF Reenter
  <1>3. /\ phase' \in [Tasks -> {"idle", "entering", "waiting", "leaving"}]
        /\ phase'[t] = IF at'[t] = Len(plan[t]) THEN "leaving" ELSE "entering"
        /\ \A u \in Tasks \ {t} : phase'[u] = phase[u]
    BY <1>1 DEF Reenter, IInv, TypeOK
  <1>4. TypeOK'
    <2>1. ASSUME NEW u \in Tasks
          PROVE  /\ at'[u] <= Len(plan[u])
                 /\ Len(plan[u]) <= Depth
                 /\ phase'[u] \in {"entering", "waiting"} => at'[u] < Len(plan[u])
      <3>1. CASE u = t
        <4>1. at'[t] = at[t] + 1 /\ at[t] \in 0..Depth /\ at[t] < Len(plan[t])
          BY <1>1, AskedTyped, InsideTyped
        <4>2. Len(plan[t]) \in Nat /\ Len(plan[t]) <= Depth
          BY DEF IInv, TypeOK
        <4> QED BY <1>3, <3>1, <4>1, <4>2
      <3>2. CASE u # t
        <4>1. at'[u] = at[u] /\ phase'[u] = phase[u]
          BY <1>1, <1>3, <3>2, AskedTyped, InsideTyped
        <4> QED BY <4>1 DEF IInv, TypeOK
      <3> QED BY <3>1, <3>2
    <2>2. /\ at' \in [Tasks -> 0..Depth]
          /\ held' \in [Tasks -> [0..Depth -> SUBSET Books]]
      BY <1>1, AskedTyped, InsideTyped
    <2> QED BY <1>2, <1>3, <2>1, <2>2 DEF IInv, TypeOK
  <1>5. LocksAccounted'
    BY <1>2, AccountedKept DEF IInv
  <1>6. ASSUME NEW u \in Tasks PROVE Nested(u)'
    <2>1. Nested(u)
      BY DEF IInv
    <2>2. CASE u = t
      <3>1. at'[t] = at[t] + 1 /\ at[t] \in 0..Depth
        BY <1>1, AskedTyped, InsideTyped
      <3>2. \A b \in Cur(t) : Claimed(t, b, at[t])
        BY <2>1, <2>2, <3>1 DEF Nested, Cur
      <3>3. \A b, n : Claimed(t, b, n)' <=> Claimed(t, b, n)
        BY <1>1, <1>2, <3>1, AskedTyped, InsideTyped DEF Claimed
      <3>4. \A b : Claimed(t, b, at[t]) => Claimed(t, b, at[t] + 1)
        BY <2>1, <2>2, <3>1 DEF Claimed, Nested
      <3>5. \A i \in 0..at'[t] : \A b \in held'[t][i] : Claimed(t, b, i)'
        <4> SUFFICES ASSUME NEW i \in 0..at'[t], NEW b \in held'[t][i] PROVE Claimed(t, b, i)
          BY <3>3
        <4>1. CASE i = at[t] + 1
          BY <1>1, <3>2, <3>4, <4>1, AskedTyped, InsideTyped
        <4>2. CASE i # at[t] + 1
          <5>1. i \in 0..at[t]
            BY <3>1, <4>2
          <5> QED BY <1>1, <2>1, <2>2, <5>1, AskedTyped, InsideTyped DEF Nested
        <4> QED BY <4>1, <4>2
      <3>6. \A i \in 1..at'[t] : i \notin queued'[t] => Claimed(t, plan[t][i].book, i)'
        <4> SUFFICES ASSUME NEW i \in 1..at'[t], i \notin queued[t]
                     PROVE  Claimed(t, plan[t][i].book, i)
          BY <1>2, <3>3 DEF Claimed
        <4>1. CASE i = at[t] + 1
          BY <1>1, <3>2, <3>4, <4>1 DEF Asked
        <4>2. CASE i # at[t] + 1
          <5>1. i \in 1..at[t]
            BY <3>1, <4>2
          <5> QED BY <2>1, <2>2, <5>1 DEF Nested
        <4> QED BY <4>1, <4>2
      <3>7. queued'[t] \subseteq 1..at'[t] /\ phase'[t] # "idle"
        BY <1>2, <1>3, <2>1, <2>2, <3>1 DEF Nested
      <3>8. \A i, j \in queued'[t] : plan'[t][i].book = plan'[t][j].book => i = j
        BY <1>2, <2>1, <2>2 DEF Nested
      <3> QED BY <2>2, <3>5, <3>6, <3>7, <3>8 DEF Nested
    <2>3. CASE u # t
      <3>1. at'[u] = at[u] /\ held'[u] = held[u] /\ phase'[u] = phase[u]
        BY <1>1, <1>3, <2>3, AskedTyped, InsideTyped
      <3> QED BY <1>2, <2>1, <3>1, NestedKept DEF Nested
    <2> QED BY <2>2, <2>3
  <1> QED BY <1>4, <1>5, <1>6 DEF IInv

LEMMA ChainInvariant ==
  ASSUME IInv, NEW t \in Tasks, Chain(t)
  PROVE  IInv'
  <1>1. Asked(t) \in Request /\ at[t] < Len(plan[t]) /\ phase[t] = "entering"
    BY AskedTyped DEF Chain, Requests
  <1>2. Asked(t).book \in Books
    BY <1>1 DEF Request
  <1>3. /\ plan' = plan /\ at' = at /\ queued' = queued /\ held' = held
        /\ holder' = holder /\ mutationActive' = mutationActive
    BY DEF Chain
  <1>4. /\ phase' \in [Tasks -> {"idle", "entering", "waiting", "leaving"}]
        /\ phase'[t] = "waiting"
        /\ \A u \in Tasks \ {t} : phase'[u] = phase[u]
    BY DEF Chain, IInv, TypeOK
  <1>5. tail' \in [Books -> Seq(Tasks)]
    BY <1>2 DEF Chain, IInv, TypeOK
  <1>6. TypeOK'
    BY <1>1, <1>3, <1>4, <1>5 DEF IInv, TypeOK
  <1>7. LocksAccounted'
    BY <1>3, AccountedKept DEF IInv
  <1>8. ASSUME NEW u \in Tasks PROVE Nested(u)'
    <2>1. Nested(u) /\ (phase'[u] = "idle" => phase[u] = "idle")
      BY <1>4 DEF IInv
    <2> QED BY <1>3, <2>1, NestedKept DEF Nested
  <1> QED BY <1>6, <1>7, <1>8 DEF IInv

LEMMA AdmitInvariant ==
  ASSUME IInv, NEW t \in Tasks, Admit(t)
  PROVE  IInv'
  <1> USE LocksAssumption DEF LocksAssumption
  <1>0. /\ phase[t] = "waiting" /\ Asked(t) \in Request /\ Asked(t).book \in Books
        /\ at[t] + 1 \in 1..Depth /\ at[t] < Len(plan[t])
    BY AskedTyped DEF Admit, Request
  <1>b. PICK b \in Books : b = Asked(t).book
    BY <1>0
  <1>n. PICK n \in 1..Depth : n = at[t] + 1
    BY <1>0
  <1>1. /\ phase[t] = "waiting" /\ Inside(t, SectionStore(t))
        /\ holder[b] = Nobody /\ holder' = [holder EXCEPT ![b] = t]
        /\ queued' = [queued EXCEPT ![t] = @ \union {n}]
        /\ plan' = plan
        /\ mutationActive' = IF Asked(t).kind = "mutation" THEN mutationActive \union {b}
                             ELSE mutationActive
    BY <1>b, <1>n DEF Admit
  <1>2. Asked(t) \in Request /\ b \in Books /\ n \in 1..Depth /\ at[t] < Len(plan[t])
    BY <1>0
  <1>3. SectionStore(t) \in SUBSET Books
    BY <1>0, AskedTyped DEF SectionStore
  <1>4. /\ phase' \in [Tasks -> {"idle", "entering", "waiting", "leaving"}]
        /\ phase'[t] = IF at'[t] = Len(plan[t]) THEN "leaving" ELSE "entering"
        /\ \A u \in Tasks \ {t} : phase'[u] = phase[u]
    BY DEF Admit, IInv, TypeOK
  <1>5. tail' \in [Books -> Seq(Tasks)]
    <2>1. tail' = [tail EXCEPT ![b] = Tail(@)] /\ tail[b] # <<>>
      BY <1>b DEF Admit
    <2>2. tail[b] \in Seq(Tasks) /\ tail[b] # <<>>
      BY <2>1 DEF IInv, TypeOK
    <2>3. Tail(tail[b]) \in Seq(Tasks)
      BY <2>2
    <2> QED BY <1>2, <2>1, <2>3 DEF IInv, TypeOK
  <1>6. TypeOK'
    <2>1. ASSUME NEW u \in Tasks
          PROVE  /\ at'[u] <= Len(plan[u])
                 /\ Len(plan[u]) <= Depth
                 /\ phase'[u] \in {"entering", "waiting"} => at'[u] < Len(plan[u])
      <3>1. CASE u = t
        <4>1. at'[t] = at[t] + 1 /\ at[t] \in 0..Depth /\ at[t] < Len(plan[t])
          BY <1>1, <1>3, AskedTyped, InsideTyped
        <4>2. Len(plan[t]) \in Nat /\ Len(plan[t]) <= Depth
          BY DEF IInv, TypeOK
        <4>3. phase'[t] \in {"entering", "waiting"} => at'[t] # Len(plan[t])
          BY <1>4
        <4> HIDE DEF LocksAssumption
        <4> QED BY <3>1, <4>1, <4>2, <4>3
      <3>2. CASE u # t
        <4>1. at'[u] = at[u] /\ phase'[u] = phase[u]
          BY <1>1, <1>3, <1>4, <3>2, InsideTyped
        <4> QED BY <4>1 DEF IInv, TypeOK
      <3> QED BY <3>1, <3>2
    <2>2. /\ at' \in [Tasks -> 0..Depth]
          /\ held' \in [Tasks -> [0..Depth -> SUBSET Books]]
      BY <1>1, <1>3, InsideTyped
    <2>3. /\ queued' \in [Tasks -> SUBSET (1..Depth)]
          /\ holder' \in [Books -> Tasks \union {Nobody}]
          /\ mutationActive' \subseteq Books
      BY <1>1, <1>2 DEF IInv, TypeOK
    <2> QED BY <1>1, <1>4, <1>5, <2>1, <2>2, <2>3 DEF IInv, TypeOK
  <1>7. /\ queued'[t] = queued[t] \union {n} /\ n \notin queued[t]
        /\ \A u \in Tasks \ {t} : queued'[u] = queued[u]
        /\ plan[t][n] = Asked(t) /\ plan[t][n].book = b
    BY <1>b, <1>n, <1>1, <1>2 DEF IInv, TypeOK, Nested, Asked
  <1>8. \A u \in Tasks : \A i \in queued[u] : plan[u][i].book # b
    <2>1. \A u \in Tasks : holder[b] # u
      BY <1>1, LocksAssumption
    <2>2. \A u \in Tasks : holder[b] = u <=> \E i \in queued[u] : plan[u][i].book = b
      BY <1>2 DEF IInv, LocksAccounted
    <2> QED BY <2>1, <2>2
  <1>9. LocksAccounted'
    <2> SUFFICES ASSUME NEW c \in Books
                 PROVE  /\ c \in mutationActive' <=>
                             \E u \in Tasks : \E i \in queued'[u] :
                               plan[u][i].book = c /\ plan[u][i].kind = "mutation"
                        /\ \A u \in Tasks :
                             holder'[c] = u <=> \E i \in queued'[u] : plan[u][i].book = c
      BY <1>1 DEF LocksAccounted
    <2>1. CASE c = b
      <3>1. holder'[c] = t
        BY <1>1, <1>2, <2>1 DEF IInv, TypeOK
      <3>2. c \notin mutationActive
        <4>1. c \in mutationActive =>
                \E u \in Tasks : \E i \in queued[u] : plan[u][i].book = c
          BY DEF IInv, LocksAccounted
        <4> QED BY <1>8, <2>1, <4>1
      <3>3. \A u \in Tasks : \A i \in queued'[u] :
              plan[u][i].book = c => u = t /\ i = n
        BY <1>7, <1>8, <2>1
      <3>4. n \in queued'[t] /\ plan[t][n].book = c
        BY <1>7, <2>1
      <3>5. c \in mutationActive' <=> plan[t][n].kind = "mutation"
        BY <1>1, <1>7, <2>1, <3>2
      <3> QED BY <3>1, <3>3, <3>4, <3>5
    <2>2. CASE c # b
      <3>1. holder'[c] = holder[c] /\ (c \in mutationActive' <=> c \in mutationActive)
        BY <1>1, <1>2, <2>2 DEF IInv, TypeOK
      <3>2. \A u \in Tasks : (\E i \in queued'[u] : plan[u][i].book = c)
                               <=> \E i \in queued[u] : plan[u][i].book = c
        BY <1>7, <2>2
      <3>3. (\E u \in Tasks : \E i \in queued'[u] :
               plan[u][i].book = c /\ plan[u][i].kind = "mutation")
            <=> \E u \in Tasks : \E i \in queued[u] :
                  plan[u][i].book = c /\ plan[u][i].kind = "mutation"
        BY <1>7, <2>2
      <3> QED BY <3>1, <3>2, <3>3 DEF IInv, LocksAccounted
    <2> QED BY <2>1, <2>2
  <1>10. ASSUME NEW u \in Tasks PROVE Nested(u)'
    <2>1. Nested(u)
      BY DEF IInv
    <2>2. CASE u = t
      <3>1. at'[t] = n /\ at[t] \in 0..Depth
        BY <1>n, <1>1, <1>3, AskedTyped, InsideTyped
      <3>2. held'[t][n] = SectionStore(t) /\ \A i \in 0..at[t] : held'[t][i] = held[t][i]
        BY <1>n, <1>1, <1>3, AskedTyped, InsideTyped
      <3>3. \A c, k : Claimed(t, c, k) => Claimed(t, c, k)'
        BY <1>1, <1>7, <3>1, <3>2 DEF Claimed
      <3>4. Claimed(t, b, n)'
        <4>1. n \in queued'[t] /\ n <= n /\ plan'[t][n].book = b
          BY <1>1, <1>2, <1>7
        <4> QED BY <4>1 DEF Claimed
      <3>5. \A c \in Cur(t) : Claimed(t, c, n)
        <4>1. \A c \in Cur(t) : Claimed(t, c, at[t])
          BY <2>1, <2>2, <3>1 DEF Nested, Cur
        <4> QED BY <1>n, <2>1, <2>2, <3>1, <4>1 DEF Claimed, Nested
      <3>6. \A i \in 0..at'[t] : \A c \in held'[t][i] : Claimed(t, c, i)'
        <4> SUFFICES ASSUME NEW i \in 0..at'[t], NEW c \in held'[t][i] PROVE Claimed(t, c, i)'
          OBVIOUS
        <4>1. CASE i = n
          <5>1. c \in Cur(t) \/ c = b
            BY <1>b, <3>2, <4>1 DEF SectionStore
          <5> QED BY <3>3, <3>4, <3>5, <4>1, <5>1
        <4>2. CASE i # n
          <5>1. i \in 0..at[t]
            BY <1>n, <3>1, <4>2
          <5> QED BY <2>1, <2>2, <3>2, <3>3, <5>1 DEF Nested
        <4> QED BY <4>1, <4>2
      <3>7. \A i \in 1..at'[t] : i \notin queued'[t] => Claimed(t, plan[t][i].book, i)'
        <4> SUFFICES ASSUME NEW i \in 1..at'[t], i \notin queued'[t]
                     PROVE  Claimed(t, plan[t][i].book, i)'
          OBVIOUS
        <4>1. i \in 1..at[t] /\ i \notin queued[t]
          BY <1>n, <1>7, <3>1
        <4>2. PICK c : c = plan[t][i].book
          OBVIOUS
        <4>3. Claimed(t, c, i)'
          BY <2>1, <2>2, <3>3, <4>1, <4>2 DEF Nested
        <4> QED BY <1>1, <4>2, <4>3 DEF Claimed
      <3>8. \A i, j \in queued'[t] : plan[t][i].book = plan[t][j].book => i = j
        BY <1>7, <1>8, <2>1, <2>2 DEF Nested
      <3>9. queued'[t] \subseteq 1..at'[t] /\ phase'[t] # "idle"
        BY <1>n, <1>2, <1>4, <1>7, <2>1, <2>2, <3>1 DEF Nested
      <3> QED BY <1>1, <2>2, <3>6, <3>7, <3>8, <3>9 DEF Nested
    <2>3. CASE u # t
      <3>1. /\ at'[u] = at[u] /\ held'[u] = held[u] /\ phase'[u] = phase[u]
            /\ queued'[u] = queued[u] /\ plan'[u] = plan[u]
        BY <1>1, <1>3, <1>4, <1>7, <2>3, InsideTyped
      <3> QED BY <2>1, <3>1, NestedKept DEF Nested
    <2> QED BY <2>2, <2>3
  <1> QED BY <1>6, <1>9, <1>10 DEF IInv

LEMMA LeaveInvariant ==
  ASSUME IInv, NEW t \in Tasks, Leave(t)
  PROVE  IInv'
  <1>0. /\ at[t] \in 1..Depth /\ at[t] <= Len(plan[t]) /\ Len(plan[t]) <= Depth
        /\ plan[t] \in Seq(Request)
    BY DEF Leave, IInv, TypeOK
  <1>n. PICK n \in 1..Depth : n = at[t]
    BY <1>0
  <1>b. PICK b \in Books : b = plan[t][n].book
    <2>1. plan[t][n] \in Request
      BY <1>0, <1>n
    <2> QED BY <2>1 DEF Request
  <1>k. PICK k \in 0..Depth : k = n - 1
    <2>1. n - 1 \in 0..Depth
      BY LocksAssumption DEF LocksAssumption
    <2> QED BY <2>1
  <1>1. /\ n \in 1..Len(plan[t]) /\ k < n /\ k <= at[t]
        /\ Unwind(t, k) /\ tail' = tail
        /\ queued' = [queued EXCEPT ![t] = @ \ {n}]
        /\ at' = [at EXCEPT ![t] = @ - 1]
    BY <1>0, <1>n, <1>k DEF Leave
  <1>2. /\ at'[t] = k /\ queued'[t] = queued[t] \ {n}
        /\ \A u \in Tasks \ {t} : at'[u] = at[u] /\ queued'[u] = queued[u]
        /\ at' \in [Tasks -> 0..Depth] /\ queued' \in [Tasks -> SUBSET (1..Depth)]
    BY <1>0, <1>n, <1>k, <1>1 DEF IInv, TypeOK
  <1>3. IF n \in queued[t]
        THEN /\ holder' = [holder EXCEPT ![b] = Nobody]
             /\ mutationActive' = IF plan[t][n].kind = "mutation" THEN mutationActive \ {b}
                                  ELSE mutationActive
        ELSE holder' = holder /\ mutationActive' = mutationActive
    BY <1>n, <1>b DEF Leave
  <1>4. TypeOK'
    <2>1. ASSUME NEW u \in Tasks
          PROVE  /\ at'[u] <= Len(plan'[u])
                 /\ Len(plan'[u]) <= Depth
                 /\ phase'[u] \in {"entering", "waiting"} => at'[u] < Len(plan'[u])
      <3>1. CASE u = t
        <4>1. phase'[t] \notin {"entering", "waiting"}
          BY <1>1, UnwindTyped
        <4>2. CASE k = 0
          BY <1>0, <1>1, <1>2, <3>1, <4>1, <4>2, UnwindTyped
        <4>3. CASE k # 0
          <5>1. plan'[t] = plan[t]
            BY <1>1, <4>3, UnwindTyped
          <5> QED BY <1>0, <1>1, <1>2, <3>1, <4>1, <5>1
        <4> QED BY <4>2, <4>3
      <3>2. CASE u # t
        <4>1. at'[u] = at[u] /\ plan'[u] = plan[u] /\ phase'[u] = phase[u]
          BY <1>1, <1>2, <3>2, UnwindTyped
        <4> QED BY <4>1 DEF IInv, TypeOK
      <3> QED BY <3>1, <3>2
    <2>2. /\ phase' \in [Tasks -> {"idle", "entering", "waiting", "leaving"}]
          /\ plan' \in [Tasks -> Seq(Request)]
          /\ held' \in [Tasks -> [0..Depth -> SUBSET Books]]
      BY <1>1, UnwindTyped
    <2>3. holder' \in [Books -> Tasks \union {Nobody}] /\ mutationActive' \subseteq Books
      BY <1>3 DEF IInv, TypeOK
    <2> QED BY <1>1, <1>2, <2>1, <2>2, <2>3 DEF IInv, TypeOK
  <1>5. Nested(t) /\ queued[t] \subseteq 1..n
    BY <1>n DEF IInv, Nested
  <1>6. \A i \in queued'[t] : i \in 1..k /\ plan'[t][i] = plan[t][i]
    <2> SUFFICES ASSUME NEW i \in queued'[t] PROVE i \in 1..k /\ plan'[t][i] = plan[t][i]
      OBVIOUS
    <2>1. i \in 1..k
      BY <1>k, <1>2, <1>5
    <2>2. k # 0
      BY <2>1
    <2> QED BY <1>1, <2>1, <2>2, UnwindTyped
  <1>7. \A u \in Tasks : \A i \in queued'[u] : i \in queued[u] /\ plan'[u][i] = plan[u][i]
    BY <1>1, <1>2, <1>6, UnwindTyped
  <1>8. LocksAccounted'
    <2>1. CASE n \notin queued[t]
      <3>1. queued' = queued
        BY <1>1, <2>1 DEF IInv, TypeOK
      <3> QED BY <1>3, <1>7, <2>1, <3>1, AccountedKept DEF IInv
    <2>2. CASE n \in queued[t]
      <3>1. holder[b] = t
        BY <1>b, <2>2 DEF IInv, LocksAccounted
      <3>2. \A u \in Tasks : \A i \in queued[u] : plan[u][i].book = b => u = t /\ i = n
        <4>1. \A u \in Tasks : \A i \in queued[u] : plan[u][i].book = b => u = t
          BY <3>1 DEF IInv, LocksAccounted
        <4>2. \A i \in queued[t] : plan[t][i].book = b => i = n
          BY <1>b, <1>5, <2>2 DEF Nested
        <4> QED BY <4>1, <4>2
      <3>3. \A u \in Tasks : \A i \in queued'[u] : plan'[u][i].book # b
        BY <1>2, <1>7, <3>2
      <3> SUFFICES ASSUME NEW c \in Books
                   PROVE  /\ c \in mutationActive' <=>
                               \E u \in Tasks : \E i \in queued'[u] :
                                 plan'[u][i].book = c /\ plan'[u][i].kind = "mutation"
                          /\ \A u \in Tasks :
                               holder'[c] = u <=> \E i \in queued'[u] : plan'[u][i].book = c
        BY DEF LocksAccounted
      <3>4. CASE c = b
        <4>1. holder'[b] = Nobody /\ Nobody \notin Tasks
          BY <1>3, <2>2, LocksAssumption DEF LocksAssumption, IInv, TypeOK
        <4>2. b \notin mutationActive'
          <5>1. b \in mutationActive => \E u \in Tasks : \E i \in queued[u] :
                                           plan[u][i].book = b /\ plan[u][i].kind = "mutation"
            BY DEF IInv, LocksAccounted
          <5>2. b \in mutationActive => plan[t][n].kind = "mutation"
            BY <3>2, <5>1
          <5> QED BY <1>3, <2>2, <5>2
        <4> QED BY <3>3, <3>4, <4>1, <4>2
      <3>5. CASE c # b
        <4>1. holder'[c] = holder[c] /\ (c \in mutationActive' <=> c \in mutationActive)
          BY <1>3, <2>2, <3>5 DEF IInv, TypeOK
        <4>2. \A u \in Tasks : \A i \in queued[u] :
                plan[u][i].book = c => i \in queued'[u]
          BY <1>2, <1>b, <3>5
        <4>3. \A u \in Tasks : (\E i \in queued'[u] : plan'[u][i].book = c)
                                 <=> \E i \in queued[u] : plan[u][i].book = c
          BY <1>7, <4>2
        <4>4. (\E u \in Tasks : \E i \in queued'[u] :
                 plan'[u][i].book = c /\ plan'[u][i].kind = "mutation")
              <=> \E u \in Tasks : \E i \in queued[u] :
                    plan[u][i].book = c /\ plan[u][i].kind = "mutation"
          BY <1>7, <4>2
        <4> QED BY <4>1, <4>3, <4>4 DEF IInv, LocksAccounted
      <3> QED BY <3>4, <3>5
    <2> QED BY <2>1, <2>2
  <1>9. ASSUME NEW u \in Tasks PROVE Nested(u)'
    <2>1. CASE u = t /\ k = 0
      <3>1. queued'[t] = {} /\ at'[t] = 0
        BY <1>2, <1>6, <2>1
      <3>2. 0 \in 0..Depth /\ ~(k > 0)
        BY <2>1
      <3>3. held'[t][0] = {}
        BY <1>1, <3>2, UnwindTyped
      <3> QED BY <2>1, <3>1, <3>3 DEF Nested
    <2>2. CASE u = t /\ k # 0
      <3>1. k > 0 /\ phase'[t] = "leaving" /\ plan'[t] = plan[t]
        BY <1>1, <2>2, UnwindTyped
      <3>2. \A i \in 0..k : held'[t][i] = held[t][i]
        <4> SUFFICES ASSUME NEW i \in 0..k PROVE held'[t][i] = held[t][i]
          OBVIOUS
        <4>1. i \in 0..Depth /\ i <= k
          BY LocksAssumption DEF LocksAssumption
        <4> QED BY <1>1, <3>1, <4>1, UnwindTyped
      <3>3. \A i \in 0..k : \A c : Claimed(t, c, i) => Claimed(t, c, i)'
        <4> SUFFICES ASSUME NEW i \in 0..k, NEW c, Claimed(t, c, i) PROVE Claimed(t, c, i)'
          OBVIOUS
        <4>1. \A j \in queued[t] : j <= i => j \in queued'[t]
          BY <1>1, <1>2
        <4> QED BY <3>1, <3>2, <4>1 DEF Claimed
      <3>4. \A i \in 0..at'[t] : \A c \in held'[t][i] : Claimed(t, c, i)'
        <4> SUFFICES ASSUME NEW i \in 0..k, NEW c \in held'[t][i] PROVE Claimed(t, c, i)'
          BY <1>2
        <4>1. Claimed(t, c, i)
          BY <1>n, <1>1, <1>5, <3>2 DEF Nested
        <4> QED BY <3>3, <4>1
      <3>5. \A i \in 1..at'[t] : i \notin queued'[t] => Claimed(t, plan[t][i].book, i)'
        <4> SUFFICES ASSUME NEW i \in 1..k, i \notin queued'[t]
                     PROVE  Claimed(t, plan[t][i].book, i)'
          BY <1>2
        <4>1. PICK c : c = plan[t][i].book
          OBVIOUS
        <4>2. Claimed(t, c, i)
          BY <1>n, <1>1, <1>2, <1>5, <4>1 DEF Nested
        <4>3. Claimed(t, c, i)'
          BY <3>3, <4>2
        <4> QED BY <3>1, <4>1, <4>3 DEF Claimed
      <3>6. queued'[t] \subseteq 1..at'[t]
        BY <1>2, <1>6
      <3>7. \A i, j \in queued'[t] : plan'[t][i].book = plan'[t][j].book => i = j
        BY <1>2, <1>5, <3>1 DEF Nested
      <3> QED BY <2>2, <3>1, <3>4, <3>5, <3>6, <3>7 DEF Nested
    <2>3. CASE u # t
      <3>1. /\ at'[u] = at[u] /\ held'[u] = held[u] /\ phase'[u] = phase[u]
            /\ queued'[u] = queued[u] /\ plan'[u] = plan[u] /\ Nested(u)
        BY <1>1, <1>2, <2>3, UnwindTyped DEF IInv
      <3> QED BY <3>1, NestedKept DEF Nested
    <2> QED BY <2>1, <2>2, <2>3
  <1> QED BY <1>4, <1>8, <1>9 DEF IInv

LEMMA DetachInvariant ==
  ASSUME IInv, NEW t \in Tasks, NEW c \in Tasks, Detach(t, c)
  PROVE  IInv'
  <1>1. /\ phase[t] \in {"entering", "leaving"} /\ phase[c] = "idle" /\ c # t
        /\ phase' = [phase EXCEPT ![c] = "entering"]
        /\ plan' = [plan EXCEPT ![c] = <<Mutation(plan[t][at[t]].book)>>]
        /\ held' = [held EXCEPT ![c][0] = Cur(t)]
        /\ at' = at /\ queued' = queued /\ tail' = tail /\ holder' = holder
        /\ mutationActive' = mutationActive
    BY DEF Detach
  <1>2. at[c] = 0 /\ queued[c] = {}
    BY <1>1 DEF IInv, Nested
  <1>3. Cur(t) \in SUBSET Books
    <2>1. at[t] \in 0..Depth /\ held[t] \in [0..Depth -> SUBSET Books]
      BY DEF IInv, TypeOK
    <2> QED BY <2>1 DEF Cur
  <1>4. Mutation(plan[t][at[t]].book) \in Request
    <2>1. plan[t][at[t]] \in Request
      BY DEF Detach, IInv, TypeOK
    <2> QED BY <2>1 DEF Request, Mutation
  <1>5. /\ phase' \in [Tasks -> {"idle", "entering", "waiting", "leaving"}]
        /\ plan' \in [Tasks -> Seq(Request)] /\ Len(plan'[c]) = 1
        /\ held' \in [Tasks -> [0..Depth -> SUBSET Books]]
        /\ phase'[c] = "entering"
        /\ \A u \in Tasks \ {c} :
             phase'[u] = phase[u] /\ plan'[u] = plan[u] /\ held'[u] = held[u]
    BY <1>1, <1>3, <1>4, LocksAssumption DEF LocksAssumption, IInv, TypeOK
  <1>6. TypeOK'
    <2>1. ASSUME NEW u \in Tasks
          PROVE  /\ at[u] <= Len(plan'[u])
                 /\ Len(plan'[u]) <= Depth
                 /\ phase'[u] \in {"entering", "waiting"} => at[u] < Len(plan'[u])
      <3>1. CASE u = c
        <4>1. at[u] = 0 /\ Len(plan'[u]) = 1 /\ Depth \in Nat \ {0}
          BY <1>2, <1>5, <3>1, LocksAssumption DEF LocksAssumption
        <4> QED BY <4>1
      <3>2. CASE u # c
        <4>1. plan'[u] = plan[u] /\ phase'[u] = phase[u]
          BY <1>5, <3>2
        <4> QED BY <4>1 DEF IInv, TypeOK
      <3> QED BY <3>1, <3>2
    <2> QED BY <1>1, <1>5, <2>1 DEF IInv, TypeOK
  <1>7. LocksAccounted'
    <2>1. \A u \in Tasks : \A i \in queued[u] : plan'[u][i] = plan[u][i]
      BY <1>2, <1>5
    <2> QED BY <1>1, <2>1, AccountedKept DEF IInv
  <1>8. ASSUME NEW u \in Tasks PROVE Nested(u)'
    <2>1. CASE u = c
      <3>1. queued'[c] = {} /\ at'[c] = 0 /\ phase'[c] # "idle"
        BY <1>1, <1>2, <1>5
      <3> QED BY <2>1, <3>1 DEF Nested, Claimed
    <2>2. CASE u # c
      <3>1. phase'[u] = phase[u] /\ plan'[u] = plan[u] /\ held'[u] = held[u] /\ Nested(u)
        BY <1>5, <2>2 DEF IInv
      <3> QED BY <1>1, <3>1, NestedKept DEF Nested
    <2> QED BY <2>1, <2>2
  <1> QED BY <1>6, <1>7, <1>8 DEF IInv

LEMMA NextInvariant == IInv /\ [Next]_vars => IInv'
  <1> SUFFICES ASSUME IInv, [Next]_vars PROVE IInv'
    OBVIOUS
  <1>1. CASE Next
    BY <1>1, BeginInvariant, ReturnBusyInvariant, ReenterInvariant, ChainInvariant,
       AdmitInvariant, LeaveInvariant, DetachInvariant DEF Next
  <1>2. CASE UNCHANGED vars
    <2>1. /\ phase' = phase /\ plan' = plan /\ at' = at /\ queued' = queued
          /\ held' = held /\ tail' = tail /\ holder' = holder
          /\ mutationActive' = mutationActive
      BY <1>2 DEF vars
    <2>2. TypeOK'
      BY <2>1 DEF IInv, TypeOK
    <2>3. LocksAccounted'
      BY <2>1, AccountedKept DEF IInv
    <2>4. \A u \in Tasks : Nested(u)'
      BY <2>1, NestedKept DEF IInv, Nested
    <2> QED BY <2>2, <2>3, <2>4 DEF IInv
  <1> QED BY <1>1, <1>2

LEMMA Invariant == Spec => []IInv
  BY InitInvariant, NextInvariant, PTL DEF Spec

(* Every variable of the lock module keeps its type.                       *)
THEOREM LocksTypeOK == Spec => []TypeOK
  <1>1. IInv => TypeOK
    BY DEF IInv
  <1> QED BY <1>1, Invariant, PTL

(* createBookMutationLocks: holder and mutationActive always say exactly   *)
(* which task is inside which book, so an error or a refused rebuild       *)
(* leaves nothing behind.                                                  *)
THEOREM LocksExact == Spec => []LocksAccounted
  <1>1. IInv => LocksAccounted
    BY DEF IInv
  <1> QED BY <1>1, Invariant, PTL

(* What the code of a section may touch, its chain admitted it to or its   *)
(* task came with: reentrancy invents no ownership.                        *)
LEMMA Justified == IInv => OwnershipJustified
  <1> SUFFICES ASSUME IInv, NEW t \in Tasks, NEW b \in Books,
                      NEW i \in 1..at[t], plan[t][i].book = b
               PROVE  holder[b] = t \/ b \in held[t][0]
    BY DEF OwnershipJustified, In
  <1>1. CASE i \in queued[t]
    BY <1>1 DEF IInv, LocksAccounted
  <1>2. CASE i \notin queued[t]
    <2>1. Claimed(t, b, i)
      BY <1>2 DEF IInv, Nested
    <2> QED BY <2>1 DEF Claimed, IInv, LocksAccounted
  <1> QED BY <1>1, <1>2

THEOREM OwnershipHolds == Spec => []OwnershipJustified
  BY Invariant, Justified, PTL

(* Both together: the records of the module and what sections inherit from *)
(* one another agree with the sections that run.                           *)
THEOREM OwnershipIsSound == Spec => []OwnershipSound
  <1>1. OwnershipJustified /\ LocksAccounted => OwnershipSound
    BY DEF OwnershipSound
  <1> QED BY <1>1, OwnershipHolds, LocksExact, PTL

-----------------------------------------------------------------------------
(* Only timers start with a store: for the others the chain is the only    *)
(* way in, and their sections of a book exclude each other.                *)

NoStores == \A t \in Tasks \ Timers : held[t][0] = {}

LEMMA NoStoresInvariant == Spec => []NoStores
  <1>1. Init => NoStores
    BY LocksAssumption DEF LocksAssumption, Init, NoStores
  <1>2. IInv /\ NoStores /\ [Next]_vars => NoStores'
    <2> SUFFICES ASSUME IInv, NoStores, [Next]_vars, NEW u \in Tasks \ Timers PROVE held'[u][0] = {}
      BY DEF NoStores
    <2>d. Depth \in Nat \ {0} /\ held \in [Tasks -> [0..Depth -> SUBSET Books]] /\ held[u][0] = {}
      BY LocksAssumption DEF LocksAssumption, IInv, TypeOK, NoStores
    <2>1. ASSUME NEW t \in Tasks, NEW k, Unwind(t, k) PROVE held'[u][0] = {}
      BY <2>1, <2>d DEF Unwind
    <2>2. ASSUME NEW t \in Tasks, NEW B, Inside(t, B) PROVE held'[u][0] = {}
      <3>1. at[t] + 1 # 0
        BY DEF IInv, TypeOK
      <3> QED BY <2>2, <2>d, <3>1 DEF Inside
    <2>3. CASE UNCHANGED held
      BY <2>3, <2>d
    <2>4. ASSUME NEW t \in Tasks, NEW c \in Tasks, Detach(t, c) PROVE held'[u][0] = {}
      <3>1. c \in Timers /\ c # u /\ held' = [held EXCEPT ![c][0] = Cur(t)]
        BY <2>4 DEF Detach
      <3> QED BY <2>d, <3>1
    <2>5. CASE Next
      BY <2>1, <2>2, <2>3, <2>5, <2>4 DEF Next, Begin, ReturnBusy, Reenter, Chain, Admit, Leave
    <2>6. CASE UNCHANGED vars
      BY <2>3, <2>6 DEF vars
    <2> QED BY <2>5, <2>6
  <1> QED BY <1>1, <1>2, Invariant, PTL DEF Spec

(* withBookMutationLock, withBookStateLock: two operations that no section *)
(* left behind as a timer are never inside the same book.                  *)
THEOREM SectionsExclude == Spec => []SectionsExclusive
  <1>1. OwnershipJustified /\ NoStores => SectionsExclusive
    BY DEF OwnershipJustified, NoStores, SectionsExclusive
  <1> QED BY <1>1, OwnershipHolds, NoStoresInvariant, PTL

-----------------------------------------------------------------------------
(* When every nest takes its books in ascending order, a task waits only   *)
(* above what it holds: its store names the mutations it was admitted to,  *)
(* so it never queues for a book it is mutating.                           *)

Climbing(t) ==
  /\ Ascending(plan[t])
  /\ \A i \in queued[t] : plan[t][i].kind = "mutation" => plan[t][i].book \in held[t][i]
  /\ phase[t] = "waiting" => ~Owned(t)

Climb == \A t \in Tasks : Climbing(t)

LEMMA ClimbingKept ==
  ASSUME NEW u, Climbing(u), queued'[u] = queued[u], at'[u] = at[u],
         held'[u] = held[u], plan'[u] = plan[u], phase'[u] = phase[u]
  PROVE  Climbing(u)'
  BY DEF Climbing, Ascending, Owned, Asked, Cur

LEMMA ClimbStep ==
  ASSUME \A p \in Plans : Ascending(p), IInv, Climb, [Next]_vars
  PROVE  Climb'
  <1> USE LocksAssumption DEF LocksAssumption
  <1> SUFFICES ASSUME NEW u \in Tasks PROVE Climbing(u)'
    BY DEF Climb
  <1>0. Climbing(u) /\ queued[u] \subseteq 1..at[u] /\ at[u] \in 0..Depth
    BY DEF Climb, IInv, Nested, TypeOK
  <1>1. ASSUME NEW t \in Tasks, Begin(t) PROVE Climbing(u)'
    <2>1. CASE u = t
      <3>1. queued'[u] = {} /\ phase'[u] = "entering" /\ Ascending(plan'[u])
        BY <1>0, <1>1, <2>1 DEF Begin, IInv, TypeOK, Nested
      <3> QED BY <3>1 DEF Climbing, Ascending
    <2>2. CASE u # t
      <3>1. plan'[u] = plan[u] /\ phase'[u] = phase[u]
        BY <1>1, <2>2 DEF Begin, IInv, TypeOK
      <3> QED BY <1>0, <1>1, <3>1, ClimbingKept DEF Begin
    <2> QED BY <2>1, <2>2
  <1>2. ASSUME NEW t \in Tasks, NEW k \in 0..Depth, k <= at[t], Unwind(t, k),
               queued'[t] \subseteq queued[t], k = 0 => queued'[t] = {},
               \A i \in queued'[t] : i <= k,
               \A v \in Tasks \ {t} : queued'[v] = queued[v] /\ at'[v] = at[v]
        PROVE  Climbing(u)'
    <2>1. CASE u = t /\ k = 0
      <3>1. plan'[t] = <<>> /\ queued'[t] = {} /\ phase'[t] = "idle"
        BY <1>2, <2>1, UnwindTyped
      <3>2. Ascending(<<>>)
        BY DEF Ascending
      <3> QED BY <2>1, <3>1, <3>2 DEF Climbing, Ascending
    <2>2. CASE u = t /\ k # 0
      <3>1. plan'[t] = plan[t] /\ phase'[t] = "leaving" /\ k > 0
        BY <1>2, <2>2, UnwindTyped
      <3>2. \A i \in queued'[t] : held'[t][i] = held[t][i]
        <4> SUFFICES ASSUME NEW i \in queued'[t] PROVE held'[t][i] = held[t][i]
          OBVIOUS
        <4>1. i \in 0..Depth /\ i <= k
          BY <1>0, <1>2, <2>2
        <4> QED BY <1>2, <3>1, <4>1, UnwindTyped
      <3> QED BY <1>0, <1>2, <2>2, <3>1, <3>2 DEF Climbing, Ascending
    <2>3. CASE u # t
      <3>1. plan'[u] = plan[u] /\ phase'[u] = phase[u] /\ held'[u] = held[u]
        BY <1>2, <2>3, UnwindTyped
      <3> QED BY <1>0, <1>2, <2>3, <3>1, ClimbingKept
    <2> QED BY <2>1, <2>2, <2>3
  <1>3. ASSUME NEW t \in Tasks, ReturnBusy(t) PROVE Climbing(u)'
    <2>1. at[t] \in 0..Depth /\ queued[t] \subseteq 1..at[t] /\ at' = at /\ queued' = queued /\ Unwind(t, at[t])
      BY <1>3 DEF ReturnBusy, IInv, TypeOK, Nested
    <2>2. \A i \in queued'[t] : i <= at[t]
      BY <2>1
    <2>3. at[t] = 0 => queued'[t] = {}
      BY <2>1
    <2> QED BY <1>2, <2>1, <2>2, <2>3
  <1>4. ASSUME NEW t \in Tasks, Leave(t) PROVE Climbing(u)'
    <2>1. /\ at[t] \in 1..Depth /\ queued[t] \subseteq 1..at[t] /\ Unwind(t, at[t] - 1)
          /\ queued'[t] = queued[t] \ {at[t]}
          /\ \A v \in Tasks \ {t} : queued'[v] = queued[v] /\ at'[v] = at[v]
      BY <1>4 DEF Leave, IInv, TypeOK, Nested
    <2>2. at[t] - 1 \in 0..Depth /\ at[t] - 1 <= at[t]
      BY <2>1
    <2>3. \A i \in queued'[t] : i <= at[t] - 1
      BY <2>1
    <2>4. at[t] - 1 = 0 => queued'[t] = {}
      BY <2>1, <2>3
    <2> QED BY <1>2, <2>1, <2>2, <2>3, <2>4
  <1>5. ASSUME NEW t \in Tasks, phase[t] \in {"entering", "waiting"}, NEW B \in SUBSET Books,
               Inside(t, B), plan' = plan, phase'[t] # "waiting",
               \A v \in Tasks \ {t} : phase'[v] = phase[v] /\ queued'[v] = queued[v],
               queued'[t] \subseteq queued[t] \union {at[t] + 1},
               at[t] + 1 \in queued'[t] /\ Asked(t).kind = "mutation" => Asked(t).book \in B
        PROVE  Climbing(u)'
    <2>1. CASE u = t
      <3>1. held'[t][at[t] + 1] = B /\ \A i \in 0..at[t] : held'[t][i] = held[t][i]
        BY <1>5, InsideTyped
      <3>2. ASSUME NEW i \in queued'[t], plan[t][i].kind = "mutation"
            PROVE  plan[t][i].book \in held'[t][i]
        <4>1. CASE i = at[t] + 1
          BY <1>5, <3>1, <3>2, <4>1 DEF Asked
        <4>2. CASE i # at[t] + 1
          <5>1. i \in queued[t] /\ i \in 0..at[t]
            BY <1>0, <1>5, <2>1, <4>2
          <5> QED BY <1>0, <2>1, <3>1, <3>2, <5>1 DEF Climbing
        <4> QED BY <4>1, <4>2
      <3>3. Ascending(plan[t])' /\ phase'[t] # "waiting"
        BY <1>0, <1>5, <2>1 DEF Climbing, Ascending
      <3>4. \A i \in queued'[t] : plan'[t][i].kind = "mutation" => plan'[t][i].book \in held'[t][i]
        BY <1>5, <3>2
      <3> QED BY <2>1, <3>3, <3>4 DEF Climbing
    <2>2. CASE u # t
      <3>1. at'[u] = at[u] /\ held'[u] = held[u]
        BY <1>5, <2>2, InsideTyped
      <3> QED BY <1>0, <1>5, <2>2, <3>1, ClimbingKept
    <2> QED BY <2>1, <2>2
  <1>6. ASSUME NEW t \in Tasks, Reenter(t) PROVE Climbing(u)'
    <2>1. /\ phase[t] = "entering" /\ Inside(t, Cur(t)) /\ plan' = plan /\ queued' = queued
          /\ phase'[t] # "waiting" /\ \A v \in Tasks \ {t} : phase'[v] = phase[v]
          /\ Asked(t).book \in Cur(t)
      BY <1>6 DEF Reenter, Requests, Owned, IInv, TypeOK
    <2>2. Cur(t) \in SUBSET Books
      BY <2>1, AskedTyped
    <2> QED BY <1>5, <2>1, <2>2
  <1>7. ASSUME NEW t \in Tasks, Admit(t) PROVE Climbing(u)'
    <2>1. /\ phase[t] = "waiting" /\ Inside(t, SectionStore(t)) /\ plan' = plan
          /\ queued'[t] = queued[t] \union {at[t] + 1}
          /\ phase'[t] # "waiting"
          /\ \A v \in Tasks \ {t} : phase'[v] = phase[v] /\ queued'[v] = queued[v]
      BY <1>7 DEF Admit, IInv, TypeOK
    <2>2. SectionStore(t) \in SUBSET Books
      BY <2>1, AskedTyped DEF SectionStore, Request
    <2>3. Asked(t).kind = "mutation" => Asked(t).book \in SectionStore(t)
      BY DEF SectionStore
    <2> QED BY <1>5, <2>1, <2>2, <2>3
  <1>8. ASSUME NEW t \in Tasks, Chain(t) PROVE Climbing(u)'
    <2>1. /\ plan' = plan /\ at' = at /\ queued' = queued /\ held' = held
          /\ \A v \in Tasks \ {t} : phase'[v] = phase[v]
          /\ ~Owned(t)
      BY <1>8 DEF Chain, IInv, TypeOK
    <2>2. CASE u = t
      <3>1. ~Owned(t)'
        BY <2>1 DEF Owned, Asked, Cur
      <3>2. Ascending(plan[t])' /\ Climbing(t)
        BY <1>0, <2>1, <2>2 DEF Climbing, Ascending
      <3>3. \A i \in queued'[t] : plan'[t][i].kind = "mutation" => plan'[t][i].book \in held'[t][i]
        BY <2>1, <3>2 DEF Climbing
      <3> QED BY <2>2, <3>1, <3>2, <3>3 DEF Climbing
    <2>3. CASE u # t
      BY <1>0, <2>1, <2>3, ClimbingKept
    <2> QED BY <2>2, <2>3
  <1>9. ASSUME NEW t \in Tasks, NEW c \in Tasks, Detach(t, c) PROVE Climbing(u)'
    <2>1. /\ at' = at /\ queued' = queued /\ phase[c] = "idle"
          /\ phase' = [phase EXCEPT ![c] = "entering"]
          /\ plan' = [plan EXCEPT ![c] = <<Mutation(plan[t][at[t]].book)>>]
          /\ held' = [held EXCEPT ![c][0] = Cur(t)]
      BY <1>9 DEF Detach
    <2>2. CASE u = c
      <3>1. queued'[u] = {} /\ phase'[u] = "entering"
        BY <2>1, <2>2 DEF IInv, TypeOK, Nested
      <3>2. PICK p : p = <<Mutation(plan[t][at[t]].book)>> /\ plan'[u] = p
        BY <2>1, <2>2 DEF IInv, TypeOK
      <3>3. Len(p) = 1
        BY <3>2
      <3>4. Ascending(p)
        BY <3>3 DEF Ascending
      <3> QED BY <3>1, <3>2, <3>4 DEF Climbing, Ascending
    <2>3. CASE u # c
      <3>1. phase'[u] = phase[u] /\ plan'[u] = plan[u] /\ held'[u] = held[u]
        BY <2>1, <2>3 DEF IInv, TypeOK
      <3> QED BY <1>0, <2>1, <3>1, ClimbingKept
    <2> QED BY <2>2, <2>3
  <1>10. CASE UNCHANGED vars
    BY <1>0, <1>10, ClimbingKept DEF vars
  <1> QED BY <1>1, <1>3, <1>4, <1>6, <1>7, <1>8, <1>9, <1>10 DEF Next

(* withBookMutationLocks: callers that nest books in ascending order never *)
(* wait on each other in a cycle, whatever else they do.                   *)
THEOREM NoWaitCycles ==
  ASSUME \A p \in Plans : Ascending(p)
  PROVE  Spec => []WaitsAscend
  <1>1. Init => Climb
    BY DEF Init, Climb, Climbing, Ascending
  <1>2. IInv /\ Climb /\ [Next]_vars => Climb'
    BY ClimbStep
  <1>3. IInv /\ Climb => WaitsAscend
    <2> SUFFICES ASSUME IInv, Climb, NEW t \in Tasks, phase[t] = "waiting",
                        NEW b \in Books, holder[b] = t
                 PROVE  b < Asked(t).book
      BY DEF WaitsAscend
    <2>1. PICK i \in queued[t] : plan[t][i].book = b
      BY DEF IInv, LocksAccounted
    <2>2. /\ i \in 1..at[t] /\ at[t] \in 0..Depth /\ at[t] < Len(plan[t])
          /\ plan[t] \in Seq(Request)
      BY DEF IInv, TypeOK, Nested
    <2>3. i \in 1..Len(plan[t]) /\ at[t] + 1 \in 1..Len(plan[t]) /\ i < at[t] + 1
      BY <2>2
    <2>4. \/ b < Asked(t).book
          \/ b = Asked(t).book /\ plan[t][i].kind = "mutation" /\ i = at[t]
      BY <2>1, <2>2, <2>3 DEF Climb, Climbing, Ascending, Asked
    <2>5. ~(b = Asked(t).book /\ plan[t][i].kind = "mutation" /\ i = at[t])
      BY <2>1 DEF Climb, Climbing, Owned, Cur
    <2> QED BY <2>4, <2>5
  <1> QED BY <1>1, <1>2, <1>3, Invariant, PTL DEF Spec
=============================================================================
