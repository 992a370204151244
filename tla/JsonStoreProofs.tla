-------------------------- MODULE JsonStoreProofs --------------------------
(***************************************************************************)
(* What holds of the JSON store for every number of processes, calls,      *)
(* kills, power losses, faults and damages: it implements AtomicStore, and *)
(* a critical store keeps what it replaces and takes no missing file for a *)
(* first run; corrupt bytes are copied before they go.                     *)
(*                                                                         *)
(* The invariant says who is where (Placed): a task in the critical        *)
(* section has the mutex, is the head of its chain and its process lives;  *)
(* and what it has prepared there (Prepared): what it is about to write is *)
(* made from the value the file still has.  On top of it, MarkInv says     *)
(* what the marker tells of the writes that were acknowledged, and KeptInv *)
(* what the copies tell of the bytes that could not be read.               *)
(***************************************************************************)
EXTENDS JsonStore, TLAPS

DefaultOf(v) == IF v \in Content THEN v ELSE {}

Section(t) == Kind[t] # "load" /\ pc[t] \in {"claim"} \union Reading \union Writing \union Leaving

Placed(t) ==
  /\ Kind[t] = "load" => pc[t] \in {"idle"} \union Reading \union Ended
  /\ pc[t] \notin Ended \union {"idle"} => pid[Home[t]] # NoPid
  /\ Section(t) => mutex = t /\ AtHead(t)
  /\ pc[t] = "preserve" => Critical \/ Kind[t] = "restore"
  /\ pc[t] \in {"mark", "confirm"} => Critical

Prepared(t) ==
  /\ Kind[t] # "load" /\ pc[t] = "check" => file = Missing
  /\ Kind[t] # "load" /\ pc[t] = "quarantine" => file = Corrupt
  /\ pc[t] \in {"check", "quarantine", "mutate"} => Kind[t] # "restore"
  /\ pc[t] = "mutate" /\ Kind[t] = "update" =>
       data[t] = DefaultOf(file) /\ (Critical => file # Corrupt)
  /\ pc[t] \in {"preserve", "write"} =>
       /\ Kind[t] = "update" => data[t] = DefaultOf(file) \union {Tag[t]}
       /\ Kind[t] = "save" => data[t] = {Tag[t]}
  /\ pc[t] = "write" /\ (Critical \/ Kind[t] = "restore") /\ file \in Content => file \in backups
  /\ pc[t] = "write" /\ Critical /\ Kind[t] # "restore" => file # Corrupt
  /\ pc[t] = "succeed" /\ ~Critical => maybe = {file}

IInv ==
  /\ TypeOK
  /\ file \in maybe
  /\ \A t \in Tasks : Placed(t) /\ Prepared(t)

LEMMA Values ==
  /\ {} \in Content /\ Missing \notin Content /\ Corrupt \notin Content
  /\ Missing # Corrupt /\ Nobody \notin Tasks
  /\ \A t \in Lockers : \A v \in Content : v \union {Tag[t]} \in Content
  BY StoreAssumption DEF StoreAssumption, Content

LEMMA SetTyped ==
  ASSUME data \in [Tasks -> Content], NEW t \in Tasks, NEW v \in Content, Set(t, v)
  PROVE  data' \in [Tasks -> Content]
  BY DEF Set

LEMMA SpendTyped ==
  ASSUME left \in [DOMAIN Budget -> Nat], NEW k \in DOMAIN Budget, Spend(k)
  PROVE  left' \in [DOMAIN Budget -> Nat]
  BY DEF Spend

LEMMA Hazards == DOMAIN Budget = {"kill", "power", "fault", "damage"}
  BY StoreAssumption DEF StoreAssumption

(* Two tasks are never in the section together.                            *)
LEMMA Alone ==
  ASSUME IInv, NEW t \in Tasks, NEW u \in Tasks, Section(t), Section(u)
  PROVE  t = u
  BY DEF IInv, Placed

(* What t does inside the section, or without touching the file, leaves    *)
(* the others where they are.                                              *)
LEMMA OthersKept ==
  ASSUME IInv, NEW t \in Tasks, NEW u \in Tasks, u # t,
         pc'[u] = pc[u], data'[u] = data[u], UNCHANGED locks,
         Section(t) \/ UNCHANGED <<file, maybe, backups>>
  PROVE  Placed(u)' /\ Prepared(u)'
  <1>2. Placed(u) /\ Prepared(u)
    BY DEF IInv
  <1>3. Placed(u)'
    BY <1>2 DEF Placed, Section, locks, AtHead
  <1>4. CASE ~Section(u)
    BY <1>2, <1>3, <1>4 DEF Prepared, Section, Placed, Reading, Writing, Leaving, Ended
  <1>5. CASE Section(u)
    <2>1. UNCHANGED <<file, maybe, backups>>
      BY <1>5, Alone
    <2> QED BY <1>2, <1>3, <2>1 DEF Prepared
  <1> QED BY <1>4, <1>5

LEMMA ReadValidKeeps ==
  ASSUME IInv, NEW t \in Tasks, ReadValid(t)
  PROVE  IInv'
  <1>1. TypeOK' /\ file' \in maybe'
    <2>1. pc' \in [Tasks -> Places]
      BY SMTT(20) DEF IInv, TypeOK, ReadValid, Reads, Loaded, Goto, Places, Waiting, Reading, Writing, Leaving, Ended
    <2>2. data' \in [Tasks -> Content]
      BY SetTyped, Values, SMTT(20) DEF IInv, TypeOK, ReadValid, Reads, Loaded, disk
    <2> QED
      BY <2>1, <2>2, Values, SMTT(20) DEF IInv, TypeOK, ReadValid, Reads, Loaded, disk, locks
  <1>2. ASSUME NEW u \in Tasks, u # t PROVE Placed(u)' /\ Prepared(u)'
    <2>1. pc'[u] = pc[u] /\ data'[u] = data[u] /\ UNCHANGED locks
      BY <1>2 DEF IInv, TypeOK, ReadValid, Reads, Loaded, Goto, Set, disk, locks
    <2>2. UNCHANGED <<file, maybe, backups>>
      BY DEF ReadValid, Reads, Loaded, Goto, disk
    <2> QED BY <1>2, <2>1, <2>2, OthersKept
  <1>3. Placed(t)'
    <2>1. UNCHANGED locks
      BY DEF ReadValid
    <2>2. Placed(t) /\ (pc[t] = "mutate" => Kind[t] # "load")
      BY DEF IInv, Placed, Reading, Ended
    <2>3. pc[t] \in Places /\ pc[t] \notin Ended \union {"idle"}
      BY DEF IInv, TypeOK, ReadValid, Reads, Loaded, Places, Waiting, Reading, Writing, Leaving, Ended
    <2> QED
      BY <2>1, <2>2, <2>3, SMTT(20) DEF IInv, TypeOK, Placed, Section, ReadValid, Reads, Loaded, Goto, locks, AtHead, Places, Waiting, Reading, Writing, Leaving, Ended
  <1>4. Prepared(t)'
    BY <1>1, <1>3, Values, SMTT(20) DEF IInv, TypeOK, Placed, Prepared, Section, ReadValid, Reads, Loaded, Goto, Set, disk, locks, DefaultOf, Places, Waiting, Reading, Writing, Leaving, Ended
  <1> QED BY <1>1, <1>2, <1>3, <1>4 DEF IInv

LEMMA ReadMissingKeeps ==
  ASSUME IInv, NEW t \in Tasks, ReadMissing(t)
  PROVE  IInv'
  <1>1. TypeOK' /\ file' \in maybe'
    <2>1. pc' \in [Tasks -> Places]
      BY SMTT(20) DEF IInv, TypeOK, ReadMissing, Reads, Loaded, Goto, Places, Waiting, Reading, Writing, Leaving, Ended
    <2>2. data' \in [Tasks -> Content]
      BY SetTyped, Values, SMTT(20) DEF IInv, TypeOK, ReadMissing, Reads, Loaded, disk
    <2> QED
      BY <2>1, <2>2, Values, SMTT(20) DEF IInv, TypeOK, ReadMissing, Reads, Loaded, disk, locks
  <1>2. ASSUME NEW u \in Tasks, u # t PROVE Placed(u)' /\ Prepared(u)'
    <2>1. pc'[u] = pc[u] /\ data'[u] = data[u] /\ UNCHANGED locks
      BY <1>2 DEF IInv, TypeOK, ReadMissing, Reads, Loaded, Goto, Set, disk, locks
    <2>2. UNCHANGED <<file, maybe, backups>>
      BY DEF ReadMissing, Reads, Loaded, Goto, disk
    <2> QED BY <1>2, <2>1, <2>2, OthersKept
  <1>3. Placed(t)'
    <2>1. UNCHANGED locks
      BY DEF ReadMissing
    <2>2. Placed(t) /\ (pc[t] = "mutate" => Kind[t] # "load")
      BY DEF IInv, Placed, Reading, Ended
    <2>3. pc[t] \in Places /\ pc[t] \notin Ended \union {"idle"}
      BY DEF IInv, TypeOK, ReadMissing, Reads, Loaded, Places, Waiting, Reading, Writing, Leaving, Ended
    <2> QED
      BY <2>1, <2>2, <2>3, SMTT(20) DEF IInv, TypeOK, Placed, Section, ReadMissing, Reads, Loaded, Goto, locks, AtHead, Places, Waiting, Reading, Writing, Leaving, Ended
  <1>4. Prepared(t)'
    BY <1>1, <1>3, Values, SMTT(20) DEF IInv, TypeOK, Placed, Prepared, Section, ReadMissing, Reads, Loaded, Goto, Set, disk, locks, DefaultOf, Places, Waiting, Reading, Writing, Leaving, Ended
  <1> QED BY <1>1, <1>2, <1>3, <1>4 DEF IInv

LEMMA CheckMarkerKeeps ==
  ASSUME IInv, NEW t \in Tasks, CheckMarker(t)
  PROVE  IInv'
  <1>1. TypeOK' /\ file' \in maybe'
    <2>1. pc' \in [Tasks -> Places]
      BY SMTT(20) DEF IInv, TypeOK, CheckMarker, Loaded, Failed, AfterFailure, Goto, Places, Waiting, Reading, Writing, Leaving, Ended
    <2>2. data' \in [Tasks -> Content]
      BY SetTyped, Values, SMTT(20) DEF IInv, TypeOK, CheckMarker, Loaded, Failed, AfterFailure, disk
    <2> QED
      BY <2>1, <2>2, Values, SMTT(20) DEF IInv, TypeOK, CheckMarker, Loaded, Failed, AfterFailure, disk, locks
  <1>2. ASSUME NEW u \in Tasks, u # t PROVE Placed(u)' /\ Prepared(u)'
    <2>1. pc'[u] = pc[u] /\ data'[u] = data[u] /\ UNCHANGED locks
      BY <1>2 DEF IInv, TypeOK, CheckMarker, Loaded, Failed, AfterFailure, Goto, Set, disk, locks
    <2>2. UNCHANGED <<file, maybe, backups>>
      BY DEF CheckMarker, Loaded, Failed, AfterFailure, Goto, disk
    <2> QED BY <1>2, <2>1, <2>2, OthersKept
  <1>3. Placed(t)'
    <2>1. UNCHANGED locks
      BY DEF CheckMarker
    <2>2. Placed(t) /\ (pc[t] = "mutate" => Kind[t] # "load")
      BY DEF IInv, Placed, Reading, Ended
    <2>3. pc[t] \in Places /\ pc[t] \notin Ended \union {"idle"}
      BY DEF IInv, TypeOK, CheckMarker, Loaded, Failed, AfterFailure, Places, Waiting, Reading, Writing, Leaving, Ended
    <2> QED
      BY <2>1, <2>2, <2>3, SMTT(20) DEF IInv, TypeOK, Placed, Section, CheckMarker, Loaded, Failed, AfterFailure, Goto, locks, AtHead, Places, Waiting, Reading, Writing, Leaving, Ended
  <1>4. Prepared(t)'
    BY <1>1, <1>3, Values, SMTT(20) DEF IInv, TypeOK, Placed, Prepared, Section, CheckMarker, Loaded, Failed, AfterFailure, Goto, Set, disk, locks, DefaultOf, Places, Waiting, Reading, Writing, Leaving, Ended
  <1> QED BY <1>1, <1>2, <1>3, <1>4 DEF IInv

LEMMA ReadCorruptKeeps ==
  ASSUME IInv, NEW t \in Tasks, ReadCorrupt(t)
  PROVE  IInv'
  <1>1. TypeOK' /\ file' \in maybe'
    <2>1. pc' \in [Tasks -> Places]
      BY SMTT(20) DEF IInv, TypeOK, ReadCorrupt, Reads, Salvaged, Loaded, Failed, AfterFailure, Goto, Places, Waiting, Reading, Writing, Leaving, Ended
    <2>2. data' \in [Tasks -> Content]
      BY SetTyped, Values, SMTT(20) DEF IInv, TypeOK, ReadCorrupt, Reads, Salvaged, Loaded, Failed, AfterFailure, disk
    <2> QED
      BY <2>1, <2>2, Values, SMTT(20) DEF IInv, TypeOK, ReadCorrupt, Reads, Salvaged, Loaded, Failed, AfterFailure, disk, locks
  <1>2. ASSUME NEW u \in Tasks, u # t PROVE Placed(u)' /\ Prepared(u)'
    <2>1. pc'[u] = pc[u] /\ data'[u] = data[u] /\ UNCHANGED locks
      BY <1>2 DEF IInv, TypeOK, ReadCorrupt, Reads, Salvaged, Loaded, Failed, AfterFailure, Goto, Set, disk, locks
    <2>2. UNCHANGED <<file, maybe, backups>>
      BY DEF ReadCorrupt, Reads, Salvaged, Loaded, Failed, AfterFailure, Goto, disk
    <2> QED BY <1>2, <2>1, <2>2, OthersKept
  <1>3. Placed(t)'
    <2>1. UNCHANGED locks
      BY DEF ReadCorrupt
    <2>2. Placed(t) /\ (pc[t] = "mutate" => Kind[t] # "load")
      BY DEF IInv, Placed, Reading, Ended
    <2>3. pc[t] \in Places /\ pc[t] \notin Ended \union {"idle"}
      BY DEF IInv, TypeOK, ReadCorrupt, Reads, Salvaged, Loaded, Failed, AfterFailure, Places, Waiting, Reading, Writing, Leaving, Ended
    <2> QED
      BY <2>1, <2>2, <2>3, SMTT(20) DEF IInv, TypeOK, Placed, Section, ReadCorrupt, Reads, Salvaged, Loaded, Failed, AfterFailure, Goto, locks, AtHead, Places, Waiting, Reading, Writing, Leaving, Ended
  <1>4. Prepared(t)'
    BY <1>1, <1>3, Values, SMTT(20) DEF IInv, TypeOK, Placed, Prepared, Section, ReadCorrupt, Reads, Salvaged, Loaded, Failed, AfterFailure, Goto, Set, disk, locks, DefaultOf, Places, Waiting, Reading, Writing, Leaving, Ended
  <1> QED BY <1>1, <1>2, <1>3, <1>4 DEF IInv

LEMMA QuarantinedKeeps ==
  ASSUME IInv, NEW t \in Tasks, Quarantined(t)
  PROVE  IInv'
  <1>1. TypeOK' /\ file' \in maybe'
    <2>1. pc' \in [Tasks -> Places]
      BY SMTT(20) DEF IInv, TypeOK, Quarantined, Salvaged, Loaded, Failed, AfterFailure, Goto, Places, Waiting, Reading, Writing, Leaving, Ended
    <2>2. data' \in [Tasks -> Content]
      BY SetTyped, Values, SMTT(20) DEF IInv, TypeOK, Quarantined, Salvaged, Loaded, Failed, AfterFailure, disk
    <2> QED
      BY <2>1, <2>2, Values, SMTT(20) DEF IInv, TypeOK, Quarantined, Salvaged, Loaded, Failed, AfterFailure, disk, locks
  <1>2. ASSUME NEW u \in Tasks, u # t PROVE Placed(u)' /\ Prepared(u)'
    <2>1. pc'[u] = pc[u] /\ data'[u] = data[u] /\ UNCHANGED locks
      BY <1>2 DEF IInv, TypeOK, Quarantined, Salvaged, Loaded, Failed, AfterFailure, Goto, Set, disk, locks
    <2>2. UNCHANGED <<file, maybe, backups>>
      BY DEF Quarantined, Salvaged, Loaded, Failed, AfterFailure, Goto, disk
    <2> QED BY <1>2, <2>1, <2>2, OthersKept
  <1>3. Placed(t)'
    <2>1. UNCHANGED locks
      BY DEF Quarantined
    <2>2. Placed(t) /\ (pc[t] = "mutate" => Kind[t] # "load")
      BY DEF IInv, Placed, Reading, Ended
    <2>3. pc[t] \in Places /\ pc[t] \notin Ended \union {"idle"}
      BY DEF IInv, TypeOK, Quarantined, Salvaged, Loaded, Failed, AfterFailure, Places, Waiting, Reading, Writing, Leaving, Ended
    <2> QED
      BY <2>1, <2>2, <2>3, SMTT(20) DEF IInv, TypeOK, Placed, Section, Quarantined, Salvaged, Loaded, Failed, AfterFailure, Goto, locks, AtHead, Places, Waiting, Reading, Writing, Leaving, Ended
  <1>4. Prepared(t)'
    BY <1>1, <1>3, Values, SMTT(20) DEF IInv, TypeOK, Placed, Prepared, Section, Quarantined, Salvaged, Loaded, Failed, AfterFailure, Goto, Set, disk, locks, DefaultOf, Places, Waiting, Reading, Writing, Leaving, Ended
  <1> QED BY <1>1, <1>2, <1>3, <1>4 DEF IInv

LEMMA RefuseKeeps ==
  ASSUME IInv, NEW t \in Tasks, Refuse(t)
  PROVE  IInv'
  <1>1. TypeOK' /\ file' \in maybe'
    <2>1. pc' \in [Tasks -> Places]
      BY SMTT(20) DEF IInv, TypeOK, Refuse, Failed, AfterFailure, Goto, Places, Waiting, Reading, Writing, Leaving, Ended
    <2>2. data' \in [Tasks -> Content]
      BY SetTyped, Values, SMTT(20) DEF IInv, TypeOK, Refuse, Failed, AfterFailure, disk
    <2> QED
      BY <2>1, <2>2, Values, SMTT(20) DEF IInv, TypeOK, Refuse, Failed, AfterFailure, disk, locks
  <1>2. ASSUME NEW u \in Tasks, u # t PROVE Placed(u)' /\ Prepared(u)'
    <2>1. pc'[u] = pc[u] /\ data'[u] = data[u] /\ UNCHANGED locks
      BY <1>2 DEF IInv, TypeOK, Refuse, Failed, AfterFailure, Goto, Set, disk, locks
    <2>2. UNCHANGED <<file, maybe, backups>>
      BY DEF Refuse, Failed, AfterFailure, Goto, disk
    <2> QED BY <1>2, <2>1, <2>2, OthersKept
  <1>3. Placed(t)'
    <2>1. UNCHANGED locks
      BY DEF Refuse
    <2>2. Placed(t) /\ (pc[t] = "mutate" => Kind[t] # "load")
      BY DEF IInv, Placed, Reading, Ended
    <2>3. pc[t] \in Places /\ pc[t] \notin Ended \union {"idle"}
      BY DEF IInv, TypeOK, Refuse, Failed, AfterFailure, Places, Waiting, Reading, Writing, Leaving, Ended
    <2> QED
      BY <2>1, <2>2, <2>3, SMTT(20) DEF IInv, TypeOK, Placed, Section, Refuse, Failed, AfterFailure, Goto, locks, AtHead, Places, Waiting, Reading, Writing, Leaving, Ended
  <1>4. Prepared(t)'
    BY <1>1, <1>3, Values, SMTT(20) DEF IInv, TypeOK, Placed, Prepared, Section, Refuse, Failed, AfterFailure, Goto, Set, disk, locks, DefaultOf, Places, Waiting, Reading, Writing, Leaving, Ended
  <1> QED BY <1>1, <1>2, <1>3, <1>4 DEF IInv

LEMMA SkipSaveKeeps ==
  ASSUME IInv, NEW t \in Tasks, SkipSave(t)
  PROVE  IInv'
  <1>1. TypeOK' /\ file' \in maybe'
    <2>1. pc' \in [Tasks -> Places]
      BY SMTT(20) DEF IInv, TypeOK, SkipSave, Goto, Places, Waiting, Reading, Writing, Leaving, Ended
    <2>2. data' \in [Tasks -> Content]
      BY SetTyped, Values, SMTT(20) DEF IInv, TypeOK, SkipSave, disk
    <2> QED
      BY <2>1, <2>2, Values, SMTT(20) DEF IInv, TypeOK, SkipSave, disk, locks
  <1>2. ASSUME NEW u \in Tasks, u # t PROVE Placed(u)' /\ Prepared(u)'
    <2>1. pc'[u] = pc[u] /\ data'[u] = data[u] /\ UNCHANGED locks
      BY <1>2 DEF IInv, TypeOK, SkipSave, Goto, Set, disk, locks
    <2>2. UNCHANGED <<file, maybe, backups>>
      BY DEF SkipSave, Goto, disk
    <2> QED BY <1>2, <2>1, <2>2, OthersKept
  <1>3. Placed(t)'
    <2>1. UNCHANGED locks
      BY DEF SkipSave
    <2>2. Placed(t) /\ (pc[t] = "mutate" => Kind[t] # "load")
      BY DEF IInv, Placed, Reading, Ended
    <2>3. pc[t] \in Places /\ pc[t] \notin Ended \union {"idle"}
      BY DEF IInv, TypeOK, SkipSave, Places, Waiting, Reading, Writing, Leaving, Ended
    <2> QED
      BY <2>1, <2>2, <2>3, SMTT(20) DEF IInv, TypeOK, Placed, Section, SkipSave, Goto, locks, AtHead, Places, Waiting, Reading, Writing, Leaving, Ended
  <1>4. Prepared(t)'
    BY <1>1, <1>3, Values, SMTT(20) DEF IInv, TypeOK, Placed, Prepared, Section, SkipSave, Goto, Set, disk, locks, DefaultOf, Places, Waiting, Reading, Writing, Leaving, Ended
  <1> QED BY <1>1, <1>2, <1>3, <1>4 DEF IInv

LEMMA MutateKeeps ==
  ASSUME IInv, NEW t \in Tasks, Mutate(t)
  PROVE  IInv'
  <1>1. TypeOK' /\ file' \in maybe'
    <2>1. pc' \in [Tasks -> Places]
      BY SMTT(20) DEF IInv, TypeOK, Mutate, Goto, Places, Waiting, Reading, Writing, Leaving, Ended
    <2>2. data' \in [Tasks -> Content]
      <3>1. t \in Lockers
        BY DEF IInv, Placed, Mutate, Lockers, Reading, Ended
      <3>2. (IF Kind[t] = "update" THEN data[t] ELSE {}) \union {Tag[t]} \in Content
        BY <3>1, Values DEF IInv, TypeOK
      <3> QED BY <3>2, SetTyped DEF IInv, TypeOK, Mutate
    <2> QED
      BY <2>1, <2>2, Values, SMTT(20) DEF IInv, TypeOK, Mutate, disk, locks
  <1>2. ASSUME NEW u \in Tasks, u # t PROVE Placed(u)' /\ Prepared(u)'
    <2>1. pc'[u] = pc[u] /\ data'[u] = data[u] /\ UNCHANGED locks
      BY <1>2 DEF IInv, TypeOK, Mutate, Goto, Set, disk, locks
    <2>2. UNCHANGED <<file, maybe, backups>>
      BY DEF Mutate, Goto, disk
    <2> QED BY <1>2, <2>1, <2>2, OthersKept
  <1>3. Placed(t)'
    <2>1. UNCHANGED locks
      BY DEF Mutate
    <2>2. Placed(t) /\ (pc[t] = "mutate" => Kind[t] # "load")
      BY DEF IInv, Placed, Reading, Ended
    <2>3. pc[t] \in Places /\ pc[t] \notin Ended \union {"idle"}
      BY DEF IInv, TypeOK, Mutate, Places, Waiting, Reading, Writing, Leaving, Ended
    <2> QED
      BY <2>1, <2>2, <2>3, SMTT(20) DEF IInv, TypeOK, Placed, Section, Mutate, Goto, locks, AtHead, Places, Waiting, Reading, Writing, Leaving, Ended
  <1>4. Prepared(t)'
    BY <1>1, <1>3, Values, SMTT(20) DEF IInv, TypeOK, Placed, Prepared, Section, Mutate, Goto, Set, disk, locks, DefaultOf, Places, Waiting, Reading, Writing, Leaving, Ended
  <1> QED BY <1>1, <1>2, <1>3, <1>4 DEF IInv

LEMMA PickCandidateKeeps ==
  ASSUME IInv, NEW t \in Tasks, PickCandidate(t)
  PROVE  IInv'
  <1>1. TypeOK' /\ file' \in maybe'
    <2>1. pc' \in [Tasks -> Places]
      BY SMTT(20) DEF IInv, TypeOK, PickCandidate, Goto, Places, Waiting, Reading, Writing, Leaving, Ended
    <2>2. data' \in [Tasks -> Content]
      BY SetTyped, Values, SMTT(20) DEF IInv, TypeOK, PickCandidate, disk
    <2> QED
      BY <2>1, <2>2, Values, SMTT(20) DEF IInv, TypeOK, PickCandidate, disk, locks
  <1>2. ASSUME NEW u \in Tasks, u # t PROVE Placed(u)' /\ Prepared(u)'
    <2>1. pc'[u] = pc[u] /\ data'[u] = data[u] /\ UNCHANGED locks
      BY <1>2 DEF IInv, TypeOK, PickCandidate, Goto, Set, disk, locks
    <2>2. UNCHANGED <<file, maybe, backups>>
      BY DEF PickCandidate, Goto, disk
    <2> QED BY <1>2, <2>1, <2>2, OthersKept
  <1>3. Placed(t)'
    <2>1. UNCHANGED locks
      BY DEF PickCandidate
    <2>2. Placed(t) /\ (pc[t] = "mutate" => Kind[t] # "load")
      BY DEF IInv, Placed, Reading, Ended
    <2>3. pc[t] \in Places /\ pc[t] \notin Ended \union {"idle"}
      BY DEF IInv, TypeOK, PickCandidate, Places, Waiting, Reading, Writing, Leaving, Ended
    <2> QED
      BY <2>1, <2>2, <2>3, SMTT(20) DEF IInv, TypeOK, Placed, Section, PickCandidate, Goto, locks, AtHead, Places, Waiting, Reading, Writing, Leaving, Ended
  <1>4. Prepared(t)'
    BY <1>1, <1>3, Values, SMTT(20) DEF IInv, TypeOK, Placed, Prepared, Section, PickCandidate, Goto, Set, disk, locks, DefaultOf, Places, Waiting, Reading, Writing, Leaving, Ended
  <1> QED BY <1>1, <1>2, <1>3, <1>4 DEF IInv

LEMMA PreserveKeeps ==
  ASSUME IInv, NEW t \in Tasks, Preserve(t)
  PROVE  IInv'
  <1>1. TypeOK' /\ file' \in maybe'
    <2>1. pc' \in [Tasks -> Places]
      BY SMTT(20) DEF IInv, TypeOK, Preserve, BackUp, Failed, AfterFailure, Goto, Places, Waiting, Reading, Writing, Leaving, Ended
    <2>2. data' \in [Tasks -> Content]
      BY SetTyped, Values, SMTT(20) DEF IInv, TypeOK, Preserve, BackUp, Failed, AfterFailure, disk
    <2> QED
      BY <2>1, <2>2, Values, SMTT(20) DEF IInv, TypeOK, Preserve, BackUp, Failed, AfterFailure, disk, locks
  <1>2. ASSUME NEW u \in Tasks, u # t PROVE Placed(u)' /\ Prepared(u)'
    <2>1. pc'[u] = pc[u] /\ data'[u] = data[u] /\ UNCHANGED locks
      BY <1>2 DEF IInv, TypeOK, Preserve, BackUp, Failed, AfterFailure, Goto, Set, disk, locks
    <2>2. Section(t)
      BY DEF IInv, Placed, Section, Reading, Writing, Ended, Preserve, BackUp, Failed, AfterFailure, Goto, disk
    <2> QED BY <1>2, <2>1, <2>2, OthersKept
  <1>3. Placed(t)'
    <2>1. UNCHANGED locks
      BY DEF Preserve
    <2>2. Placed(t) /\ (pc[t] = "mutate" => Kind[t] # "load")
      BY DEF IInv, Placed, Reading, Ended
    <2>3. pc[t] \in Places /\ pc[t] \notin Ended \union {"idle"}
      BY DEF IInv, TypeOK, Preserve, BackUp, Failed, AfterFailure, Places, Waiting, Reading, Writing, Leaving, Ended
    <2> QED
      BY <2>1, <2>2, <2>3, SMTT(20) DEF IInv, TypeOK, Placed, Section, Preserve, BackUp, Failed, AfterFailure, Goto, locks, AtHead, Places, Waiting, Reading, Writing, Leaving, Ended
  <1>4. Prepared(t)'
    BY <1>1, <1>3, Values, SMTT(20) DEF IInv, TypeOK, Placed, Prepared, Section, Preserve, BackUp, Failed, AfterFailure, Goto, Set, disk, locks, DefaultOf, Places, Waiting, Reading, Writing, Leaving, Ended
  <1> QED BY <1>1, <1>2, <1>3, <1>4 DEF IInv

LEMMA WriteKeeps ==
  ASSUME IInv, NEW t \in Tasks, Write(t)
  PROVE  IInv'
  <1>1. TypeOK' /\ file' \in maybe'
    <2>1. pc' \in [Tasks -> Places]
      BY SMTT(20) DEF IInv, TypeOK, Write, Goto, Places, Waiting, Reading, Writing, Leaving, Ended
    <2>2. data' \in [Tasks -> Content]
      BY SetTyped, Values, SMTT(20) DEF IInv, TypeOK, Write, disk
    <2> QED
      BY <2>1, <2>2, Values, SMTT(20) DEF IInv, TypeOK, Write, disk, locks
  <1>2. ASSUME NEW u \in Tasks, u # t PROVE Placed(u)' /\ Prepared(u)'
    <2>1. pc'[u] = pc[u] /\ data'[u] = data[u] /\ UNCHANGED locks
      BY <1>2 DEF IInv, TypeOK, Write, Goto, Set, disk, locks
    <2>2. Section(t)
      BY DEF IInv, Placed, Section, Reading, Writing, Ended, Write, Goto, disk
    <2> QED BY <1>2, <2>1, <2>2, OthersKept
  <1>3. Placed(t)'
    <2>1. UNCHANGED locks
      BY DEF Write
    <2>2. Placed(t) /\ (pc[t] = "mutate" => Kind[t] # "load")
      BY DEF IInv, Placed, Reading, Ended
    <2>3. pc[t] \in Places /\ pc[t] \notin Ended \union {"idle"}
      BY DEF IInv, TypeOK, Write, Places, Waiting, Reading, Writing, Leaving, Ended
    <2> QED
      BY <2>1, <2>2, <2>3, SMTT(20) DEF IInv, TypeOK, Placed, Section, Write, Goto, locks, AtHead, Places, Waiting, Reading, Writing, Leaving, Ended
  <1>4. Prepared(t)'
    BY <1>1, <1>3, Values, SMTT(20) DEF IInv, TypeOK, Placed, Prepared, Section, Write, Goto, Set, disk, locks, DefaultOf, Places, Waiting, Reading, Writing, Leaving, Ended
  <1> QED BY <1>1, <1>2, <1>3, <1>4 DEF IInv

LEMMA SyncKeeps ==
  ASSUME IInv, NEW t \in Tasks, Sync(t)
  PROVE  IInv'
  <1>1. TypeOK' /\ file' \in maybe'
    <2>1. pc' \in [Tasks -> Places]
      BY SMTT(20) DEF IInv, TypeOK, Sync, Goto, Places, Waiting, Reading, Writing, Leaving, Ended
    <2>2. data' \in [Tasks -> Content]
      BY SetTyped, Values, SMTT(20) DEF IInv, TypeOK, Sync, disk
    <2> QED
      BY <2>1, <2>2, Values, SMTT(20) DEF IInv, TypeOK, Sync, disk, locks
  <1>2. ASSUME NEW u \in Tasks, u # t PROVE Placed(u)' /\ Prepared(u)'
    <2>1. pc'[u] = pc[u] /\ data'[u] = data[u] /\ UNCHANGED locks
      BY <1>2 DEF IInv, TypeOK, Sync, Goto, Set, disk, locks
    <2>2. Section(t)
      BY DEF IInv, Placed, Section, Reading, Writing, Ended, Sync, Goto, disk
    <2> QED BY <1>2, <2>1, <2>2, OthersKept
  <1>3. Placed(t)'
    <2>1. UNCHANGED locks
      BY DEF Sync
    <2>2. Placed(t) /\ (pc[t] = "mutate" => Kind[t] # "load")
      BY DEF IInv, Placed, Reading, Ended
    <2>3. pc[t] \in Places /\ pc[t] \notin Ended \union {"idle"}
      BY DEF IInv, TypeOK, Sync, Places, Waiting, Reading, Writing, Leaving, Ended
    <2> QED
      BY <2>1, <2>2, <2>3, SMTT(20) DEF IInv, TypeOK, Placed, Section, Sync, Goto, locks, AtHead, Places, Waiting, Reading, Writing, Leaving, Ended
  <1>4. Prepared(t)'
    BY <1>1, <1>3, Values, SMTT(20) DEF IInv, TypeOK, Placed, Prepared, Section, Sync, Goto, Set, disk, locks, DefaultOf, Places, Waiting, Reading, Writing, Leaving, Ended
  <1> QED BY <1>1, <1>2, <1>3, <1>4 DEF IInv

LEMMA MarkInitializedKeeps ==
  ASSUME IInv, NEW t \in Tasks, MarkInitialized(t)
  PROVE  IInv'
  <1>1. TypeOK' /\ file' \in maybe'
    <2>1. pc' \in [Tasks -> Places]
      BY SMTT(20) DEF IInv, TypeOK, MarkInitialized, Goto, Places, Waiting, Reading, Writing, Leaving, Ended
    <2>2. data' \in [Tasks -> Content]
      BY SetTyped, Values, SMTT(20) DEF IInv, TypeOK, MarkInitialized, disk
    <2> QED
      BY <2>1, <2>2, Values, SMTT(20) DEF IInv, TypeOK, MarkInitialized, disk, locks
  <1>2. ASSUME NEW u \in Tasks, u # t PROVE Placed(u)' /\ Prepared(u)'
    <2>1. pc'[u] = pc[u] /\ data'[u] = data[u] /\ UNCHANGED locks
      BY <1>2 DEF IInv, TypeOK, MarkInitialized, Goto, Set, disk, locks
    <2>2. UNCHANGED <<file, maybe, backups>>
      BY DEF MarkInitialized, Goto, disk
    <2> QED BY <1>2, <2>1, <2>2, OthersKept
  <1>3. Placed(t)'
    <2>1. UNCHANGED locks
      BY DEF MarkInitialized
    <2>2. Placed(t) /\ (pc[t] = "mutate" => Kind[t] # "load")
      BY DEF IInv, Placed, Reading, Ended
    <2>3. pc[t] \in Places /\ pc[t] \notin Ended \union {"idle"}
      BY DEF IInv, TypeOK, MarkInitialized, Places, Waiting, Reading, Writing, Leaving, Ended
    <2> QED
      BY <2>1, <2>2, <2>3, SMTT(20) DEF IInv, TypeOK, Placed, Section, MarkInitialized, Goto, locks, AtHead, Places, Waiting, Reading, Writing, Leaving, Ended
  <1>4. Prepared(t)'
    BY <1>1, <1>3, Values, SMTT(20) DEF IInv, TypeOK, Placed, Prepared, Section, MarkInitialized, Goto, Set, disk, locks, DefaultOf, Places, Waiting, Reading, Writing, Leaving, Ended
  <1> QED BY <1>1, <1>2, <1>3, <1>4 DEF IInv

LEMMA FaultKeeps ==
  ASSUME IInv, NEW t \in Tasks, Fault(t)
  PROVE  IInv'
  <1>1. TypeOK' /\ file' \in maybe'
    <2>1. pc' \in [Tasks -> Places]
      BY SMTT(20) DEF IInv, TypeOK, Fault, Spend, AfterFailure, Goto, Places, Waiting, Reading, Writing, Leaving, Ended
    <2>2. data' \in [Tasks -> Content]
      BY SetTyped, Values, SMTT(20) DEF IInv, TypeOK, Fault, Spend, AfterFailure, disk
    <2> QED
      BY <2>1, <2>2, Values, SpendTyped, Hazards, SMTT(20) DEF IInv, TypeOK, Fault, AfterFailure, disk, locks
  <1>2. ASSUME NEW u \in Tasks, u # t PROVE Placed(u)' /\ Prepared(u)'
    <2>1. pc'[u] = pc[u] /\ data'[u] = data[u] /\ UNCHANGED locks
      BY <1>2 DEF IInv, TypeOK, Fault, Spend, AfterFailure, Goto, Set, disk, locks
    <2>2. UNCHANGED <<file, maybe, backups>>
      BY DEF Fault, Spend, AfterFailure, Goto, disk
    <2> QED BY <1>2, <2>1, <2>2, OthersKept
  <1>3. Placed(t)'
    <2>1. UNCHANGED locks
      BY DEF Fault
    <2>2. Placed(t) /\ (pc[t] = "mutate" => Kind[t] # "load")
      BY DEF IInv, Placed, Reading, Ended
    <2>3. pc[t] \in Places /\ pc[t] \notin Ended \union {"idle"}
      BY DEF IInv, TypeOK, Fault, Spend, AfterFailure, Places, Waiting, Reading, Writing, Leaving, Ended
    <2> QED
      BY <2>1, <2>2, <2>3, SMTT(20) DEF IInv, TypeOK, Placed, Section, Fault, Spend, AfterFailure, Goto, locks, AtHead, Places, Waiting, Reading, Writing, Leaving, Ended
  <1>4. Prepared(t)'
    BY <1>1, <1>3, Values, SMTT(20) DEF IInv, TypeOK, Placed, Prepared, Section, Fault, Spend, AfterFailure, Goto, Set, disk, locks, DefaultOf, Places, Waiting, Reading, Writing, Leaving, Ended
  <1> QED BY <1>1, <1>2, <1>3, <1>4 DEF IInv

(* The chain of a process keeps its head while calls join it.              *)
LEMMA AppendKeepsHead ==
  ASSUME NEW S, NEW s \in Seq(S), NEW e \in S
  PROVE  /\ Append(s, e) \in Seq(S)
         /\ s # <<>> => Append(s, e) # <<>> /\ Head(Append(s, e)) = Head(s)
         /\ s # <<>> => Tail(s) \in Seq(S)
  OBVIOUS

LEMMA CallKeeps ==
  ASSUME IInv, NEW t \in Tasks, Call(t)
  PROVE  IInv'
  <1> USE DEF Goto
  <1>1. chain' = chain \/ chain' = [chain EXCEPT ![Home[t]] = Append(@, t)]
    BY DEF Call
  <1>2. chain \in [Procs -> Seq(Tasks)] /\ Home[t] \in Procs
    BY StoreAssumption DEF IInv, TypeOK, StoreAssumption
  <1> DEFINE c == chain[Home[t]]
  <1>a. /\ Append(c, t) \in Seq(Tasks)
        /\ c # <<>> => Append(c, t) # <<>> /\ Head(Append(c, t)) = Head(c)
    BY <1>2, AppendKeepsHead
  <1>3. chain' \in [Procs -> Seq(Tasks)]
    BY <1>1, <1>2, <1>a
  <1>4. ASSUME NEW u \in Tasks, AtHead(u) PROVE AtHead(u)'
    <2>1. CASE Home[u] = Home[t] /\ chain' # chain
      BY <1>1, <1>2, <1>4, <1>a, <2>1 DEF AtHead
    <2>2. CASE Home[u] # Home[t] \/ chain' = chain
      <3>1. chain'[Home[u]] = chain[Home[u]]
        BY <1>1, <1>2, <2>2, StoreAssumption DEF StoreAssumption
      <3> QED BY <1>4, <3>1 DEF AtHead
    <2> QED BY <2>1, <2>2
  <1>5. TypeOK' /\ file' \in maybe'
    BY <1>3 DEF IInv, TypeOK, Call, disk, Places, Waiting, Reading
  <1>6. ASSUME NEW u \in Tasks PROVE Placed(u)' /\ Prepared(u)'
    <2>1. Placed(u) /\ Prepared(u)
      BY DEF IInv
    <2>2. CASE u # t
      <3>1. pc'[u] = pc[u] /\ data'[u] = data[u]
        BY <2>2 DEF IInv, TypeOK, Call
      <3> QED BY <2>1, <3>1, <1>4 DEF Call, Placed, Prepared, Section, disk
    <2>3. CASE u = t
      <3>1. /\ pid[Home[t]] # NoPid
            /\ pc'[t] = IF Kind[t] = "load" THEN "read" ELSE "queued"
        BY DEF Call, IInv, TypeOK
      <3> QED BY <2>3, <3>1 DEF Call, Placed, Prepared, Section, Waiting, Reading, Writing, Leaving, Ended
    <2> QED BY <2>2, <2>3
  <1> QED BY <1>5, <1>6 DEF IInv

(* EnterMutex, Claim and Steal: the chains stay.                           *)
LEMMA EnterMutexKeeps ==
  ASSUME IInv, NEW t \in Tasks, EnterMutex(t)
  PROVE  IInv'
  <1>1. TypeOK' /\ file' \in maybe'
    BY DEF IInv, TypeOK, EnterMutex, Goto, disk, Places, Waiting
  <1>2. ASSUME NEW u \in Tasks PROVE Placed(u)' /\ Prepared(u)'
    <2>1. Placed(u) /\ Prepared(u)
      BY DEF IInv
    <2>2. ~Section(u)
      BY Values DEF IInv, Placed, EnterMutex
    <2>3. CASE u # t
      <3>1. pc'[u] = pc[u] /\ data'[u] = data[u]
        BY <2>3 DEF IInv, TypeOK, EnterMutex, Goto
      <3> QED BY <2>1, <2>2, <3>1 DEF EnterMutex, Placed, Prepared, Section, disk
    <2>4. CASE u = t
      <3>1. pc'[t] = "claim" /\ pc[t] = "queued" /\ mutex' = t /\ AtHead(t)'
        BY DEF IInv, TypeOK, EnterMutex, Goto, AtHead
      <3>2. Kind[t] # "load"
        BY <2>1, <2>4, <3>1 DEF Placed, Reading, Ended
      <3> QED BY <2>1, <2>4, <3>1, <3>2 DEF EnterMutex, Placed, Prepared, Section, Waiting, Reading, Writing, Leaving, Ended
    <2> QED BY <2>3, <2>4
  <1> QED BY <1>1, <1>2 DEF IInv

LEMMA ClaimKeeps ==
  ASSUME IInv, NEW t \in Tasks, Claim(t)
  PROVE  IInv'
  <1>1. TypeOK' /\ file' \in maybe'
    BY StoreAssumption DEF IInv, TypeOK, StoreAssumption, Claim, Goto, disk, Places, Reading, Writing
  <1>2. ASSUME NEW u \in Tasks PROVE Placed(u)' /\ Prepared(u)'
    <2>1. Placed(u) /\ Prepared(u)
      BY DEF IInv
    <2>2. CASE u # t
      <3>1. pc'[u] = pc[u] /\ data'[u] = data[u]
        BY <2>2 DEF IInv, TypeOK, Claim, Goto
      <3> QED BY <2>1, <3>1 DEF Claim, Placed, Prepared, Section, AtHead, disk
    <2>3. CASE u = t
      <3>1. /\ pc[t] = "claim"
            /\ pc'[t] = IF Kind[t] = "save" THEN "mutate" ELSE "read"
        BY DEF IInv, TypeOK, Claim, Goto
      <3>2. Section(t) /\ Kind[t] # "load"
        BY <2>1, <2>3, <3>1 DEF Placed, Section, Reading, Ended
      <3> QED BY <2>1, <2>3, <3>1, <3>2 DEF Claim, Placed, Prepared, Section, AtHead, Reading, Writing, Leaving, Ended
    <2> QED BY <2>2, <2>3
  <1> QED BY <1>1, <1>2 DEF IInv

LEMMA StealKeeps ==
  ASSUME IInv, NEW t \in Tasks, Steal(t)
  PROVE  IInv'
  <1>1. TypeOK' /\ file' \in maybe'
    BY DEF IInv, TypeOK, Steal, disk
  <1>2. ASSUME NEW u \in Tasks PROVE Placed(u)' /\ Prepared(u)'
    BY DEF IInv, Steal, Placed, Prepared, Section, AtHead, disk
  <1> QED BY <1>1, <1>2 DEF IInv

(* A task that leaves the chain, from the section or from its head.        *)
LEMMA LeaveKeeps ==
  ASSUME IInv, NEW t \in Tasks, NEW x \in Ended \union {"confirm"},
         Section(t) \/ (pc[t] = "queued" /\ AtHead(t)),
         Goto(t, x), Unchained(t), UNCHANGED <<disk, pid, data>>,
         mutex' = IF Section(t) THEN Nobody ELSE mutex,
         pidlock' \in {pidlock, NoPid}, left' \in [DOMAIN Budget -> Nat],
         x = "confirm" => Critical
  PROVE  IInv'
  <1>1. Placed(t) /\ AtHead(t) /\ pid[Home[t]] # NoPid
    BY DEF IInv, Placed, Section, Reading, Writing, Leaving, Ended
  <1>2. /\ chain \in [Procs -> Seq(Tasks)] /\ Home[t] \in Procs
        /\ chain[Home[t]] # <<>> /\ Head(chain[Home[t]]) = t
    BY <1>1, StoreAssumption DEF IInv, TypeOK, StoreAssumption, AtHead
  <1>3. chain' \in [Procs -> Seq(Tasks)]
    BY <1>2, AppendKeepsHead DEF Unchained
  <1>4. TypeOK' /\ file' \in maybe'
    BY <1>3 DEF IInv, TypeOK, disk, Goto, Places
  <1>5. ASSUME NEW u \in Tasks, u # t PROVE Placed(u)' /\ Prepared(u)'
    <2>1. Placed(u) /\ Prepared(u)
      BY DEF IInv
    <2>2. pc'[u] = pc[u] /\ data'[u] = data[u]
      BY <1>5 DEF IInv, TypeOK, Goto
    <2>3. CASE Section(u)
      <3>1. ~Section(t) /\ mutex = u /\ AtHead(u)
        BY <1>5, <2>1, <2>3, Alone DEF Placed
      <3>2. Home[u] # Home[t]
        BY <1>2, <1>5, <3>1 DEF AtHead
      <3>3. AtHead(u)' /\ mutex' = u
        BY <1>2, <3>1, <3>2, StoreAssumption DEF AtHead, Unchained, StoreAssumption
      <3> QED BY <2>1, <2>2, <3>3 DEF Placed, Prepared, Section, disk
    <2>4. CASE ~Section(u)
      BY <2>1, <2>2, <2>4 DEF Placed, Prepared, Section, disk
    <2> QED BY <2>3, <2>4
  <1>6. Placed(t)' /\ Prepared(t)'
    <2>1. pc'[t] = x
      BY DEF IInv, TypeOK, Goto
    <2>2. Kind[t] # "load"
      BY <1>1 DEF Placed, Section, Reading, Ended
    <2> QED BY <1>1, <2>1, <2>2 DEF Placed, Prepared, Section, Reading, Writing, Leaving, Ended
  <1> QED BY <1>4, <1>5, <1>6 DEF IInv

LEMMA ReleaseKeeps ==
  ASSUME IInv, NEW t \in Tasks, Release(t)
  PROVE  IInv'
  <1> DEFINE x == CASE pc[t] = "skip" -> "skipped"
                    [] pc[t] = "fail" -> "failed"
                    [] OTHER -> IF Critical /\ Kind[t] = "restore" THEN "confirm" ELSE "ok"
  <1>1. Section(t)
    BY DEF IInv, Placed, Section, Release, Reading, Writing, Leaving, Ended
  <1>2. x \in Ended \union {"confirm"} /\ Goto(t, x)
    BY DEF Release, Ended
  <1>3. left' \in [DOMAIN Budget -> Nat]
    BY DEF Release, IInv, TypeOK
  <1>4. /\ Unchained(t) /\ UNCHANGED <<disk, pid, data>>
        /\ mutex' = Nobody /\ pidlock' = NoPid
    BY DEF Release
  <1>5. x = "confirm" => Critical
    OBVIOUS
  <1> HIDE DEF x
  <1> QED BY <1>1, <1>2, <1>3, <1>4, <1>5, LeaveKeeps

LEMMA LockFaultKeeps ==
  ASSUME IInv, NEW t \in Tasks, LockFault(t)
  PROVE  IInv'
  <1>1. left' \in [DOMAIN Budget -> Nat]
    BY SpendTyped, Hazards DEF LockFault, IInv, TypeOK
  <1>2. pc[t] \in {"queued", "claim"} /\ Placed(t)
    BY DEF LockFault, IInv
  <1>3. Section(t) <=> pc[t] = "claim"
    BY <1>2 DEF Section, Placed, Reading, Writing, Leaving, Ended
  <1>4. "failed" \in Ended
    BY DEF Ended
  <1>5. /\ Goto(t, "failed") /\ Unchained(t) /\ UNCHANGED <<disk, pid, data>>
        /\ pidlock' = pidlock
        /\ mutex' = IF Section(t) THEN Nobody ELSE mutex
        /\ Section(t) \/ (pc[t] = "queued" /\ AtHead(t))
    BY <1>3 DEF LockFault
  <1> QED BY <1>1, <1>4, <1>5, LeaveKeeps

-----------------------------------------------------------------------------
LEMMA StartKeeps ==
  ASSUME IInv, NEW p \in Procs, Start(p)
  PROVE  IInv'
  <1>1. TypeOK' /\ file' \in maybe'
    BY DEF IInv, TypeOK, Start, disk
  <1>2. \A r \in Procs : pid[r] # NoPid => pid'[r] # NoPid
    BY StoreAssumption DEF StoreAssumption, IInv, TypeOK, Start
  <1>3. ASSUME NEW u \in Tasks PROVE Placed(u)' /\ Prepared(u)'
    <2>1. Placed(u) /\ Prepared(u) /\ Home[u] \in Procs
      BY StoreAssumption DEF IInv, StoreAssumption
    <2> QED BY <2>1, <1>2 DEF Start, Placed, Prepared, Section, AtHead, disk
  <1> QED BY <1>1, <1>3 DEF IInv

(* When processes die, what is left of the others' work is as it was.      *)
LEMMA DieKeeps ==
  ASSUME IInv, NEW P \in SUBSET Procs, Die(P),
         left' \in [DOMAIN Budget -> Nat],
         pidlock' \in {pidlock, NoPid},
         marker' \in {"no", "unsynced", "yes"},
         quarantine' \in {"none", "partial", "whole"},
         P = Procs \/ UNCHANGED <<file, maybe>>,
         file' \in maybe', maybe' \subseteq maybe
  PROVE  IInv'
  <1>1. Home \in [Tasks -> Procs]
    BY StoreAssumption DEF StoreAssumption
  <1>2. TypeOK'
    <2>1. pid' \in [Procs -> Pids \union {NoPid}] /\ chain' \in [Procs -> Seq(Tasks)]
      BY DEF IInv, TypeOK, Die
    <2>2. pc' \in [Tasks -> Places]
      BY DEF IInv, TypeOK, Die, Places, Ended
    <2>3. mutex' \in Tasks \union {Nobody} /\ data' = data
      BY DEF IInv, TypeOK, Die
    <2>4. backups' \subseteq Content \union {Corrupt}
      BY DEF IInv, TypeOK, Die
    <2> QED BY <2>1, <2>2, <2>3, <2>4 DEF IInv, TypeOK
  <1>3. ASSUME NEW u \in Tasks PROVE Placed(u)' /\ Prepared(u)'
    <2>1. Placed(u) /\ Prepared(u)
      BY DEF IInv
    <2>2. CASE Home[u] \in P
      <3>1. pc'[u] \in Ended \union {"idle"}
        BY <2>2 DEF Die, Ended
      <3>2. Placed(u)'
        BY <3>1 DEF Placed, Section, Reading, Writing, Leaving, Ended
      <3> QED BY <3>1, <3>2 DEF Prepared, Ended
    <2>3. CASE Home[u] \notin P
      <3>1. pc'[u] = pc[u] /\ data' = data /\ UNCHANGED <<file, maybe>> /\ backups \subseteq backups'
        BY <1>1, <2>3 DEF Die
      <3>2. pid'[Home[u]] = pid[Home[u]] /\ chain'[Home[u]] = chain[Home[u]]
        BY <1>1, <2>3 DEF Die
      <3>3. mutex = u => mutex' = u
        BY <2>3, Values DEF Die
      <3>4. Placed(u)'
        BY <2>1, <3>1, <3>2, <3>3 DEF Placed, Section, AtHead
      <3> QED BY <2>1, <3>1, <3>4 DEF Prepared
    <2> QED BY <2>2, <2>3
  <1> QED BY <1>2, <1>3 DEF IInv

LEMMA KillKeeps ==
  ASSUME IInv, NEW p \in Procs, Kill(p)
  PROVE  IInv'
  <1>1. left' \in [DOMAIN Budget -> Nat]
    BY SpendTyped, Hazards DEF Kill, IInv, TypeOK
  <1>2. /\ Die({p}) /\ UNCHANGED <<file, maybe, marker, quarantine, pidlock>>
        /\ {p} \in SUBSET Procs
    BY DEF Kill
  <1> QED BY <1>1, <1>2, DieKeeps DEF IInv, TypeOK

LEMMA PowerLossKeeps ==
  ASSUME IInv, PowerLoss
  PROVE  IInv'
  <1>1. left' \in [DOMAIN Budget -> Nat]
    BY SpendTyped, Hazards DEF PowerLoss, IInv, TypeOK
  <1>2. marker' \in {"no", "unsynced", "yes"} /\ quarantine' \in {"none", "partial", "whole"}
    BY DEF PowerLoss, IInv, TypeOK
  <1>3. /\ Die(Procs) /\ pidlock' \in {pidlock, NoPid}
        /\ file' \in maybe' /\ maybe' \subseteq maybe
    BY DEF PowerLoss
  <1> QED BY <1>1, <1>2, <1>3, DieKeeps

LEMMA AllDead ==
  ASSUME IInv, LivePids = {}, NEW u \in Tasks
  PROVE  pc[u] \in Ended \union {"idle"}
  <1>1. Placed(u) /\ Home[u] \in Procs
    BY StoreAssumption DEF IInv, StoreAssumption
  <1>2. pid[Home[u]] = NoPid
    BY <1>1 DEF LivePids
  <1> QED BY <1>1, <1>2 DEF Placed

LEMMA DamageKeeps ==
  ASSUME IInv, Damage
  PROVE  IInv'
  <1>1. left' \in [DOMAIN Budget -> Nat]
    BY SpendTyped, Hazards DEF Damage, IInv, TypeOK
  <1>2. TypeOK' /\ file' \in maybe'
    BY <1>1 DEF Damage, IInv, TypeOK, locks
  <1>3. ASSUME NEW u \in Tasks PROVE Placed(u)' /\ Prepared(u)'
    <2>1. pc[u] \in Ended \union {"idle"} /\ pc' = pc
      BY AllDead DEF Damage
    <2>2. Placed(u)'
      BY <2>1 DEF Damage, IInv, Placed, Section, AtHead, locks
    <2> QED BY <2>1, <2>2 DEF Prepared, Ended
  <1> QED BY <1>2, <1>3 DEF IInv

LEMMA InitKeeps == Init => IInv
  <1> SUFFICES ASSUME Init PROVE IInv
    OBVIOUS
  <1>1. TypeOK /\ file \in maybe
    <2>1. pc \in [Tasks -> Places] /\ chain \in [Procs -> Seq(Tasks)]
      BY DEF Init, Places
    <2>2. left \in [DOMAIN Budget -> Nat]
      BY StoreAssumption DEF Init, StoreAssumption
    <2>3. data \in [Tasks -> Content] /\ file \in Content \union {Missing, Corrupt}
      BY Values DEF Init
    <2> QED BY <2>1, <2>2, <2>3 DEF Init, TypeOK
  <1>2. ASSUME NEW u \in Tasks PROVE Placed(u) /\ Prepared(u)
    BY DEF Init, Placed, Prepared, Section, Reading, Writing, Leaving, Ended
  <1> QED BY <1>1, <1>2 DEF IInv

LEMMA StutterKeeps == IInv /\ UNCHANGED vars => IInv'
  BY DEF IInv, TypeOK, Placed, Prepared, Section, AtHead, vars, disk, locks

LEMMA NextKeeps == IInv /\ [Next]_vars => IInv'
  <1> SUFFICES ASSUME IInv, [Next]_vars PROVE IInv'
    OBVIOUS
  <1>1. ASSUME NEW t \in Tasks, Call(t) \/ Step(t) \/ LockFault(t) \/ Fault(t) PROVE IInv'
    BY <1>1, CallKeeps, EnterMutexKeeps, ClaimKeeps, StealKeeps, ReleaseKeeps, ReadValidKeeps,
       ReadMissingKeeps, CheckMarkerKeeps, ReadCorruptKeeps, QuarantinedKeeps, RefuseKeeps,
       SkipSaveKeeps, MutateKeeps, PickCandidateKeeps, PreserveKeeps, WriteKeeps, SyncKeeps,
       MarkInitializedKeeps, LockFaultKeeps, FaultKeeps
    DEF Step
  <1>2. ASSUME NEW p \in Procs, Start(p) \/ Kill(p) PROVE IInv'
    BY <1>2, StartKeeps, KillKeeps
  <1> QED BY <1>1, <1>2, PowerLossKeeps, DamageKeeps, StutterKeeps DEF Next

(* The strengthened invariant, of which type correctness is a part.        *)
THEOREM StoreInvariant == Spec => []IInv
  BY InitKeeps, NextKeeps, PTL DEF Spec

THEOREM StoreTypeOK == Spec => []TypeOK
  <1>1. IInv => TypeOK
    BY DEF IInv
  <1> QED BY <1>1, StoreInvariant, PTL
-----------------------------------------------------------------------------
(* Refinement.                                                             *)

(* A step of a load is none of the atomic store.                           *)
LEMMA LoadMoves ==
  ASSUME IInv, NEW t \in Tasks, Kind[t] = "load", NEW x, Goto(t, x)
  PROVE  Phase' = Phase
  BY DEF IInv, TypeOK, Goto, Phase, Lockers

LEMMA TaskMoves ==
  ASSUME IInv, NEW t \in Lockers, NEW x, Goto(t, x)
  PROVE  /\ Phase[t] = PhaseOf(pc[t])
         /\ Phase' = [Phase EXCEPT ![t] = PhaseOf(x)]
  BY DEF IInv, TypeOK, Goto, Phase, Lockers

LEMMA TaskStays ==
  ASSUME IInv, NEW t \in Tasks, NEW x, Goto(t, x), PhaseOf(x) = PhaseOf(pc[t]),
         UNCHANGED <<file, maybe>>
  PROVE  UNCHANGED Atomic!vars
  <1>1. CASE t \in Lockers
    BY <1>1, TaskMoves DEF Atomic!vars, Phase
  <1>2. CASE t \notin Lockers
    BY <1>2, LoadMoves DEF Atomic!vars, Lockers
  <1> QED BY <1>1, <1>2

LEMMA TaskFails ==
  ASSUME IInv, NEW t \in Tasks, NEW x, Goto(t, x), UNCHANGED <<file, maybe>>,
         t \in Lockers => PhaseOf(pc[t]) \in {"open", "took"} /\ PhaseOf(x) = "void"
  PROVE  [Atomic!Next]_(Atomic!vars)
  <1>1. CASE t \in Lockers
    BY <1>1, TaskMoves DEF Atomic!Next, Atomic!Void, Atomic!Moves
  <1>2. CASE t \notin Lockers
    BY <1>2, LoadMoves DEF Atomic!vars, Lockers
  <1> QED BY <1>1, <1>2

LEMMA TaskTakes ==
  ASSUME IInv, NEW t \in Lockers, NEW x, Goto(t, x),
         PhaseOf(pc[t]) = "open", PhaseOf(x) = "took",
         file' = data[t], maybe' = maybe \union {file'},
         pc[t] \in {"preserve", "write"}, Critical /\ Kind[t] # "restore" => file # Corrupt
  PROVE  Atomic!Take(t)
  <1>1. Prepared(t) /\ data[t] \in Content /\ Kind[t] \in {"save", "update", "restore"}
    BY StoreAssumption DEF IInv, TypeOK, Lockers, StoreAssumption
  <1>2. Atomic!Content = Content
    BY DEF Atomic!Content, Content
  <1>3. Atomic!Base(file) = DefaultOf(file)
    BY <1>2 DEF Atomic!Base, DefaultOf
  <1>4. file' \in Atomic!Effects(t, file)
    BY <1>1, <1>2, <1>3 DEF Atomic!Effects, Prepared
  <1>5. Atomic!Moves(t, {"open"}, "took")
    BY TaskMoves DEF Atomic!Moves
  <1> QED BY <1>4, <1>5 DEF Atomic!Take

LEMMA TaskAcknowledges ==
  ASSUME IInv, NEW t \in Lockers, Goto(t, "ok"), PhaseOf(pc[t]) = "took",
         ~Critical => maybe = {file}, UNCHANGED <<file, maybe>>
  PROVE  Atomic!Acknowledge(t)
  BY TaskMoves DEF Atomic!Acknowledge, Atomic!Moves, PhaseOf

LEMMA Reaches ==
  /\ \A t \in Lockers : Atomic!Take(t) \/ Atomic!Acknowledge(t) \/ Atomic!Call(t)
                           \/ Atomic!Settle(t) => Atomic!Next
  BY DEF Atomic!Next

LEMMA StealRefines ==
  ASSUME IInv, NEW t \in Tasks, Steal(t) PROVE UNCHANGED Atomic!vars
  BY DEF Steal, Atomic!vars, Phase, disk

LEMMA EnterMutexRefines ==
  ASSUME IInv, NEW t \in Tasks, EnterMutex(t) PROVE UNCHANGED Atomic!vars
  <1>1. Goto(t, "claim") /\ UNCHANGED <<file, maybe>>
    BY DEF EnterMutex, disk
  <1>2. PhaseOf("claim") = PhaseOf(pc[t])
    BY DEF EnterMutex, PhaseOf
  <1> QED BY <1>1, <1>2, TaskStays

LEMMA ClaimRefines ==
  ASSUME IInv, NEW t \in Tasks, Claim(t) PROVE UNCHANGED Atomic!vars
  <1>1. Goto(t, (IF Kind[t] = "save" THEN "mutate" ELSE "read")) /\ UNCHANGED <<file, maybe>>
    BY DEF Claim, disk
  <1>2. PhaseOf((IF Kind[t] = "save" THEN "mutate" ELSE "read")) = PhaseOf(pc[t])
    BY DEF Claim, PhaseOf
  <1> QED BY <1>1, <1>2, TaskStays

LEMMA SkipSaveRefines ==
  ASSUME IInv, NEW t \in Tasks, SkipSave(t) PROVE UNCHANGED Atomic!vars
  <1>1. Goto(t, "skip") /\ UNCHANGED <<file, maybe>>
    BY DEF SkipSave, disk
  <1>2. PhaseOf("skip") = PhaseOf(pc[t])
    BY DEF SkipSave, PhaseOf
  <1> QED BY <1>1, <1>2, TaskStays

LEMMA MutateRefines ==
  ASSUME IInv, NEW t \in Tasks, Mutate(t) PROVE UNCHANGED Atomic!vars
  <1>1. Goto(t, (IF Critical THEN "preserve" ELSE "write")) /\ UNCHANGED <<file, maybe>>
    BY DEF Mutate, disk
  <1>2. PhaseOf((IF Critical THEN "preserve" ELSE "write")) = PhaseOf(pc[t])
    BY DEF Mutate, PhaseOf
  <1> QED BY <1>1, <1>2, TaskStays

LEMMA PickCandidateRefines ==
  ASSUME IInv, NEW t \in Tasks, PickCandidate(t) PROVE UNCHANGED Atomic!vars
  <1>1. Goto(t, "preserve") /\ UNCHANGED <<file, maybe>>
    BY DEF PickCandidate, disk
  <1>2. PhaseOf("preserve") = PhaseOf(pc[t])
    BY DEF PickCandidate, PhaseOf
  <1> QED BY <1>1, <1>2, TaskStays

LEMMA CallRefines ==
  ASSUME IInv, NEW t \in Tasks, Call(t) PROVE [Atomic!Next]_(Atomic!vars)
  <1>1. CASE Kind[t] = "load"
    BY <1>1, LoadMoves DEF Call, Atomic!vars, disk
  <1>2. CASE Kind[t] # "load"
    <2>1. t \in Lockers /\ Goto(t, "queued") /\ pc[t] = "idle" /\ UNCHANGED <<file, maybe>>
      BY <1>2 DEF Call, Lockers, disk
    <2>2. Atomic!Call(t)
      BY <2>1, TaskMoves DEF Atomic!Call, Atomic!Moves, PhaseOf
    <2> QED BY <2>1, <2>2, Reaches
  <1> QED BY <1>1, <1>2

LEMMA ReleaseRefines ==
  ASSUME IInv, NEW t \in Tasks, Release(t) PROVE [Atomic!Next]_(Atomic!vars)
  <1>1. UNCHANGED <<file, maybe>> /\ pc[t] \in Leaving /\ t \in Lockers
    BY DEF Release, disk, IInv, Placed, Lockers, Leaving, Reading, Ended
  <1>2. CASE pc[t] = "skip"
    <2>1. Goto(t, "skipped")
      BY <1>2 DEF Release
    <2> QED BY <1>1, <1>2, <2>1, TaskFails DEF PhaseOf
  <1>3. CASE pc[t] = "fail"
    <2>1. Goto(t, "failed")
      BY <1>3 DEF Release
    <2>2. PhaseOf("failed") = PhaseOf(pc[t])
      BY <1>3 DEF PhaseOf
    <2> QED BY <1>1, <2>1, <2>2, TaskStays
  <1>4. CASE pc[t] = "succeed" /\ Critical /\ Kind[t] = "restore"
    <2>1. Goto(t, "confirm")
      BY <1>4 DEF Release
    <2>2. PhaseOf("confirm") = PhaseOf(pc[t])
      BY <1>4 DEF PhaseOf
    <2> QED BY <1>1, <2>1, <2>2, TaskStays
  <1>5. CASE pc[t] = "succeed" /\ ~(Critical /\ Kind[t] = "restore")
    <2>1. Goto(t, "ok")
      BY <1>5 DEF Release
    <2>2. (~Critical => maybe = {file}) /\ PhaseOf(pc[t]) = "took"
      BY <1>5 DEF IInv, Prepared, PhaseOf
    <2> QED BY <1>1, <2>1, <2>2, TaskAcknowledges, Reaches
  <1> QED BY <1>1, <1>2, <1>3, <1>4, <1>5 DEF Leaving

LEMMA LoadedRefines ==
  ASSUME IInv, NEW t \in Tasks, NEW v, Loaded(t, v), pc[t] \in Reading, UNCHANGED <<file, maybe>>
  PROVE  UNCHANGED Atomic!vars
  <1>1. CASE Kind[t] = "load"
    BY <1>1, LoadMoves DEF Loaded, Atomic!vars
  <1>2. CASE Kind[t] # "load"
    <2>1. Goto(t, "mutate") /\ PhaseOf("mutate") = PhaseOf(pc[t])
      BY <1>2 DEF Loaded, PhaseOf, Reading
    <2> QED BY <2>1, TaskStays
  <1> QED BY <1>1, <1>2

LEMMA FailedRefines ==
  ASSUME IInv, NEW t \in Tasks, Failed(t), UNCHANGED <<file, maybe>>,
         pc[t] \in Reading \union {"mutate", "preserve", "write", "sync", "mark"}
  PROVE  [Atomic!Next]_(Atomic!vars)
  <1>1. Goto(t, AfterFailure(t)) /\ (t \in Lockers => AfterFailure(t) = "fail")
    BY DEF Failed, AfterFailure, Lockers
  <1> QED BY <1>1, TaskFails DEF PhaseOf, Reading

LEMMA SalvagedRefines ==
  ASSUME IInv, NEW t \in Tasks, Salvaged(t), pc[t] \in Reading, UNCHANGED <<file, maybe>>
  PROVE  [Atomic!Next]_(Atomic!vars)
  BY LoadedRefines, FailedRefines DEF Salvaged

LEMMA ReadValidRefines ==
  ASSUME IInv, NEW t \in Tasks, ReadValid(t) PROVE [Atomic!Next]_(Atomic!vars)
  BY LoadedRefines DEF ReadValid, Reads, Reading

LEMMA ReadMissingRefines ==
  ASSUME IInv, NEW t \in Tasks, ReadMissing(t) PROVE [Atomic!Next]_(Atomic!vars)
  <1>1. UNCHANGED <<file, maybe>> /\ pc[t] = "read"
    BY DEF ReadMissing, Reads, disk
  <1>2. CASE Critical
    <2>1. Goto(t, "check") /\ PhaseOf("check") = PhaseOf(pc[t])
      BY <1>1, <1>2 DEF ReadMissing, PhaseOf
    <2> QED BY <1>1, <2>1, TaskStays
  <1>3. CASE ~Critical
    BY <1>1, <1>3, LoadedRefines DEF ReadMissing, Reading
  <1> QED BY <1>2, <1>3

LEMMA CheckMarkerRefines ==
  ASSUME IInv, NEW t \in Tasks, CheckMarker(t) PROVE [Atomic!Next]_(Atomic!vars)
  BY LoadedRefines, FailedRefines DEF CheckMarker, Reading, disk

LEMMA ReadCorruptRefines ==
  ASSUME IInv, NEW t \in Tasks, ReadCorrupt(t) PROVE [Atomic!Next]_(Atomic!vars)
  <1>1. UNCHANGED <<file, maybe>> /\ pc[t] = "read"
    BY DEF ReadCorrupt, Reads
  <1>2. CASE Goto(t, "quarantine")
    <2>1. PhaseOf("quarantine") = PhaseOf(pc[t])
      BY <1>1 DEF PhaseOf
    <2> QED BY <1>1, <1>2, <2>1, TaskStays
  <1>3. CASE Salvaged(t) \/ Failed(t)
    BY <1>1, <1>3, SalvagedRefines, FailedRefines DEF Reading
  <1> QED BY <1>2, <1>3 DEF ReadCorrupt

LEMMA QuarantinedRefines ==
  ASSUME IInv, NEW t \in Tasks, Quarantined(t) PROVE [Atomic!Next]_(Atomic!vars)
  BY SalvagedRefines DEF Quarantined, Reading

LEMMA RefuseRefines ==
  ASSUME IInv, NEW t \in Tasks, Refuse(t) PROVE [Atomic!Next]_(Atomic!vars)
  BY FailedRefines DEF Refuse, Reading, disk

LEMMA PreserveRefines ==
  ASSUME IInv, NEW t \in Tasks, Preserve(t) PROVE [Atomic!Next]_(Atomic!vars)
  <1>1. UNCHANGED <<file, maybe>> /\ pc[t] = "preserve" /\ t \in Lockers
    BY DEF Preserve, IInv, Placed, Lockers, Reading, Ended
  <1>2. CASE Goto(t, "write")
    <2>1. PhaseOf("write") = PhaseOf(pc[t])
      BY <1>1 DEF PhaseOf
    <2> QED BY <1>1, <1>2, <2>1, TaskStays
  <1>3. CASE Goto(t, "mark") /\ file = data[t]
    <2>1. PhaseOf(pc[t]) = "open" /\ PhaseOf("mark") = "took"
      BY <1>1 DEF PhaseOf
    <2>2. file \in Content /\ file \in maybe
      BY <1>3 DEF IInv, TypeOK
    <2>3. file # Corrupt
      BY <2>2, Values
    <2>4. file' = data[t] /\ maybe' = maybe \union {file'}
      BY <1>1, <1>3, <2>2
    <2>5. Goto(t, "mark") /\ pc[t] \in {"preserve", "write"}
      BY <1>1, <1>3
    <2>6. Atomic!Take(t)
      BY <1>1, <2>1, <2>3, <2>4, <2>5, TaskTakes
    <2> QED BY <1>1, <2>6, Reaches
  <1>4. CASE Failed(t)
    BY <1>1, <1>4, FailedRefines
  <1> QED BY <1>2, <1>3, <1>4 DEF Preserve

LEMMA WriteRefines ==
  ASSUME IInv, NEW t \in Tasks, Write(t) PROVE [Atomic!Next]_(Atomic!vars)
  <1>1. t \in Lockers /\ Goto(t, "sync") /\ pc[t] = "write"
    BY DEF Write, IInv, Placed, Lockers, Reading, Ended
  <1>2. Critical /\ Kind[t] # "restore" => file # Corrupt
    BY <1>1 DEF IInv, Prepared
  <1>3. file' = data[t] /\ maybe' = maybe \union {file'}
    BY DEF Write
  <1>4. PhaseOf(pc[t]) = "open" /\ PhaseOf("sync") = "took"
    BY <1>1 DEF PhaseOf
  <1>5. Atomic!Take(t)
    BY <1>1, <1>2, <1>3, <1>4, TaskTakes
  <1> QED BY <1>1, <1>5, Reaches

LEMMA SyncRefines ==
  ASSUME IInv, NEW t \in Tasks, Sync(t) PROVE [Atomic!Next]_(Atomic!vars)
  <1> DEFINE x == IF Critical /\ Kind[t] # "restore" THEN "mark" ELSE "succeed"
  <1>1. t \in Lockers /\ Goto(t, x) /\ pc[t] = "sync"
    BY DEF Sync, IInv, Placed, Lockers, Reading, Ended
  <1>2. PhaseOf(x) = "took" /\ PhaseOf(pc[t]) = "took"
    BY <1>1 DEF PhaseOf
  <1> HIDE DEF x
  <1>3. Phase[t] = "took" /\ Phase' = Phase
    BY <1>1, <1>2, TaskMoves DEF Phase
  <1>4. Atomic!Settle(t)
    BY <1>3 DEF Atomic!Settle, Sync
  <1> QED BY <1>1, <1>4, Reaches

LEMMA MarkInitializedRefines ==
  ASSUME IInv, NEW t \in Tasks, MarkInitialized(t) PROVE [Atomic!Next]_(Atomic!vars)
  <1>1. UNCHANGED <<file, maybe>> /\ t \in Lockers /\ Critical
    BY DEF MarkInitialized, IInv, Placed, Lockers, Reading, Ended
  <1>2. CASE pc[t] = "mark"
    <2>1. Goto(t, "succeed") /\ PhaseOf("succeed") = PhaseOf(pc[t])
      BY <1>2 DEF MarkInitialized, PhaseOf
    <2> QED BY <1>1, <2>1, TaskStays
  <1>3. CASE pc[t] = "confirm"
    <2>1. Goto(t, "ok") /\ PhaseOf(pc[t]) = "took"
      BY <1>3 DEF MarkInitialized, PhaseOf
    <2> QED BY <1>1, <2>1, TaskAcknowledges, Reaches
  <1> QED BY <1>2, <1>3 DEF MarkInitialized

LEMMA FaultRefines ==
  ASSUME IInv, NEW t \in Tasks, Fault(t) PROVE [Atomic!Next]_(Atomic!vars)
  <1>1. UNCHANGED <<file, maybe>>
    BY DEF Fault
  <1>2. CASE pc[t] = "confirm"
    BY <1>1, <1>2, TaskFails DEF Fault, PhaseOf
  <1>3. CASE pc[t] # "confirm"
    BY <1>1, <1>3, FailedRefines DEF Fault, Failed, Reading
  <1> QED BY <1>2, <1>3

LEMMA LockFaultRefines ==
  ASSUME IInv, NEW t \in Tasks, LockFault(t) PROVE [Atomic!Next]_(Atomic!vars)
  <1>1. UNCHANGED <<file, maybe>> /\ Goto(t, "failed") /\ pc[t] \in {"queued", "claim"}
    BY DEF LockFault, disk
  <1> QED BY <1>1, TaskFails DEF PhaseOf

(* The tasks of dead processes that had not ended are void.                *)
LEMMA DieVoids ==
  ASSUME IInv, NEW P \in SUBSET Procs, Die(P)
  PROVE  Phase' = Atomic!Voided({t \in Atomic!Running : Home[t] \in P})
  <1>1. ASSUME NEW t \in Lockers
        PROVE  Phase'[t] = IF t \in Atomic!Running /\ Home[t] \in P THEN "void" ELSE Phase[t]
    <2>1. t \in Tasks /\ Phase[t] = PhaseOf(pc[t]) /\ Phase'[t] = PhaseOf(pc'[t])
      BY DEF Phase, Lockers
    <2>2. pc[t] \in Places
      BY <2>1 DEF IInv, TypeOK
    <2>3. pc'[t] = IF Home[t] \in P /\ pc[t] \notin Ended \union {"idle"} THEN "lost" ELSE pc[t]
      BY <2>1 DEF Die
    <2>4. PhaseOf("lost") = "void"
      BY DEF PhaseOf
    <2>5. t \in Atomic!Running <=> PhaseOf(pc[t]) \in {"open", "took"}
      BY <2>1 DEF Atomic!Running
    <2>6. pc[t] \in Ended \union {"idle"} => PhaseOf(pc[t]) \notin {"open", "took"}
      BY DEF PhaseOf, Ended
    <2>7. pc[t] \notin Ended \union {"idle"} /\ PhaseOf(pc[t]) \notin {"open", "took"}
            => PhaseOf(pc[t]) = "void"
      BY <2>2 DEF PhaseOf, Places, Waiting, Reading, Writing, Leaving, Ended
    <2> QED BY <2>1, <2>3, <2>4, <2>5, <2>6, <2>7
  <1> QED BY <1>1 DEF Phase, Atomic!Voided

LEMMA KillRefines ==
  ASSUME IInv, NEW p \in Procs, Kill(p) PROVE [Atomic!Next]_(Atomic!vars)
  <1>1. Phase' = Atomic!Voided({t \in Atomic!Running : Home[t] \in {p}})
    BY DieVoids DEF Kill
  <1>2. Atomic!Kill
    BY <1>1 DEF Atomic!Kill, Kill
  <1> QED BY <1>2 DEF Atomic!Next

LEMMA PowerLossRefines ==
  ASSUME IInv, PowerLoss PROVE [Atomic!Next]_(Atomic!vars)
  <1>1. Phase' = Atomic!Voided({t \in Atomic!Running : Home[t] \in Procs})
    BY DieVoids DEF PowerLoss
  <1>2. {t \in Atomic!Running : Home[t] \in Procs} = Atomic!Running
    BY StoreAssumption DEF StoreAssumption, Atomic!Running, Lockers
  <1>3. Atomic!PowerLoss
    BY <1>1, <1>2 DEF Atomic!PowerLoss, PowerLoss
  <1> QED BY <1>3 DEF Atomic!Next

LEMMA DamageRefines ==
  ASSUME IInv, Damage PROVE [Atomic!Next]_(Atomic!vars)
  <1>1. \A t \in Lockers : pc[t] \in Ended \union {"idle"}
    BY AllDead DEF Damage, Lockers
  <1>2. \A t \in Lockers : Phase[t] \notin {"open", "took"}
    BY <1>1 DEF Phase, PhaseOf, Ended
  <1>3. Atomic!Running = {}
    BY <1>2 DEF Atomic!Running
  <1>4. Atomic!Damage
    BY <1>3 DEF Atomic!Damage, Damage, Phase
  <1> QED BY <1>4 DEF Atomic!Next

LEMMA InitRefines == Init => Atomic!Init
  <1> SUFFICES ASSUME Init PROVE Atomic!Init
    OBVIOUS
  <1>1. file \in Content \union {Missing, Corrupt} /\ maybe = {file}
    BY Values DEF Init
  <1>2. Phase = [t \in Lockers |-> "idle"]
    BY DEF Init, Phase, PhaseOf, Lockers
  <1> QED BY <1>1, <1>2 DEF Atomic!Init, Atomic!Content, Content

LEMMA NextRefines == IInv /\ [Next]_vars => [Atomic!Next]_(Atomic!vars)
  <1> SUFFICES ASSUME IInv, [Next]_vars PROVE [Atomic!Next]_(Atomic!vars)
    OBVIOUS
  <1>1. ASSUME NEW t \in Tasks, Call(t) \/ Step(t) \/ LockFault(t) \/ Fault(t)
        PROVE  [Atomic!Next]_(Atomic!vars)
    BY <1>1, CallRefines, EnterMutexRefines, ClaimRefines, StealRefines, ReleaseRefines,
       ReadValidRefines, ReadMissingRefines, CheckMarkerRefines, ReadCorruptRefines,
       QuarantinedRefines, RefuseRefines, SkipSaveRefines, MutateRefines, PickCandidateRefines,
       PreserveRefines, WriteRefines, SyncRefines, MarkInitializedRefines,
       LockFaultRefines, FaultRefines
    DEF Step
  <1>2. ASSUME NEW p \in Procs, Start(p) \/ Kill(p) PROVE [Atomic!Next]_(Atomic!vars)
    BY <1>2, KillRefines DEF Start, Atomic!vars, Phase, disk
  <1>3. CASE UNCHANGED vars
    BY <1>3 DEF vars, disk, Atomic!vars, Phase
  <1> QED BY <1>1, <1>2, <1>3, PowerLossRefines, DamageRefines DEF Next

(* Operations take effect one at a time, each on the value the one before  *)
(* it left, whoever dies in between, and what an ordinary store            *)
(* acknowledged survives a power loss.                                     *)
THEOREM StoreIsAtomic == Spec => ImplementsAtomicStore
  BY InitRefines, NextRefines, StoreInvariant, PTL DEF Spec, Atomic!Spec, ImplementsAtomicStore

LEMMA GoesElsewhere ==
  ASSUME IInv, NEW u \in Tasks, NEW x, Goto(u, x), x # "sync", NEW t \in Tasks
  PROVE  ~Replaces(t)
  BY DEF IInv, TypeOK, Goto, Replaces

LEMMA LoadedReplacesNothing ==
  ASSUME IInv, NEW u \in Tasks, NEW v, Loaded(u, v), NEW t \in Tasks
  PROVE  ~Replaces(t)
  BY GoesElsewhere DEF Loaded

LEMMA FailedReplacesNothing ==
  ASSUME IInv, NEW u \in Tasks, Failed(u), NEW t \in Tasks
  PROVE  ~Replaces(t)
  BY GoesElsewhere DEF Failed, AfterFailure

(* The file is replaced by the task that renames its temporary file.       *)
LEMMA OnlyWriteReplaces ==
  ASSUME IInv, [Next]_vars, NEW t \in Tasks, Replaces(t)
  PROVE  pc[t] = "write"
  <1>1. ASSUME NEW u \in Tasks, Write(u) PROVE pc[t] = "write"
    <2>1. u = t
      BY <1>1 DEF Write, Goto, Replaces, IInv, TypeOK
    <2> QED BY <1>1, <2>1 DEF Write
  <1>2. ASSUME NEW u \in Tasks, Call(u) \/ EnterMutex(u) \/ Claim(u) \/ LockFault(u) PROVE FALSE
    BY <1>2, GoesElsewhere DEF Call, EnterMutex, Claim, LockFault
  <1>3. ASSUME NEW u \in Tasks, Release(u) PROVE FALSE
    <2> DEFINE x == CASE pc[u] = "skip" -> "skipped"
                      [] pc[u] = "fail" -> "failed"
                      [] OTHER -> IF Critical /\ Kind[u] = "restore" THEN "confirm" ELSE "ok"
    <2>1. Goto(u, x) /\ x # "sync"
      BY <1>3 DEF Release
    <2> QED BY <2>1, GoesElsewhere
  <1>4. ASSUME NEW u \in Tasks, ReadValid(u) \/ ReadMissing(u) \/ CheckMarker(u) PROVE FALSE
    BY <1>4, GoesElsewhere, LoadedReplacesNothing, FailedReplacesNothing
    DEF ReadValid, ReadMissing, CheckMarker
  <1>5. ASSUME NEW u \in Tasks, ReadCorrupt(u) \/ Quarantined(u) PROVE FALSE
    BY <1>5, GoesElsewhere, LoadedReplacesNothing, FailedReplacesNothing
    DEF ReadCorrupt, Quarantined, Salvaged
  <1>6. ASSUME NEW u \in Tasks, Refuse(u) \/ SkipSave(u) \/ Mutate(u) \/ PickCandidate(u) PROVE FALSE
    BY <1>6, GoesElsewhere, FailedReplacesNothing DEF Refuse, SkipSave, Mutate, PickCandidate
  <1>7. ASSUME NEW u \in Tasks, Preserve(u) PROVE FALSE
    BY <1>7, GoesElsewhere, FailedReplacesNothing DEF Preserve
  <1>8. ASSUME NEW u \in Tasks, Sync(u) \/ MarkInitialized(u) \/ Fault(u) PROVE FALSE
    BY <1>8, GoesElsewhere DEF Sync, MarkInitialized, Fault, AfterFailure
  <1>9. ASSUME pc' = pc PROVE FALSE
    BY <1>9 DEF Replaces
  <1>10. ASSUME NEW P, Die(P) PROVE FALSE
    BY <1>10 DEF Die, Replaces
  <1> QED
    BY <1>1, <1>2, <1>3, <1>4, <1>5, <1>6, <1>7, <1>8, <1>9, <1>10
    DEF Next, Step, Steal, Start, Kill, PowerLoss, Damage, vars

(* Whatever dies and whatever rotation removes, a critical store and a     *)
(* restore replace only what is among the backups.                         *)
THEOREM BackupsKept == Spec => BackupBeforeReplace
  <1>1. IInv /\ [Next]_vars =>
          [\A t \in Tasks :
             Replaces(t) /\ (Critical \/ Kind[t] = "restore") /\ file \in Content
               => file \in backups \union {file'}]_vars
    <2> SUFFICES ASSUME IInv, [Next]_vars, NEW t \in Tasks, Replaces(t), file \in Content,
                        Critical \/ Kind[t] = "restore"
                 PROVE  file \in backups
      OBVIOUS
    <2>1. pc[t] = "write"
      BY OnlyWriteReplaces
    <2> QED BY <2>1 DEF IInv, Prepared
  <1> QED BY <1>1, StoreInvariant, PTL DEF Spec, BackupBeforeReplace

-----------------------------------------------------------------------------
(* The marker of a critical store.                                         *)

(* A task that acknowledged its write, or is about to.                     *)
Acknowledges(t) ==
  Kind[t] # "load" /\ (pc[t] = "ok" \/ (pc[t] = "succeed" /\ Kind[t] # "restore"))

(* An update that works on a missing file found no marker.                 *)
FirstRun(t) ==
  Kind[t] = "update" /\ pc[t] \in {"mutate", "preserve", "write"} /\ file = Missing
    => marker = "no"

(* What a task wrote is there, though the marker may not be yet.           *)
Wrote(t) ==
  pc[t] \in {"sync", "mark", "confirm"} \/ (pc[t] = "succeed" /\ Kind[t] = "restore") => file # Missing

PowerStayed == left.power = Budget.power

MarkInv ==
  Critical =>
    /\ left.power <= Budget.power
    /\ \A t \in Tasks : FirstRun(t) /\ Wrote(t)
    /\ PowerStayed => \A t \in Tasks : Acknowledges(t) => marker # "no"

(* A step of t that leaves the file alone, and may set the marker if t is  *)
(* in the section or the file is there, is good if it is for t.            *)
LEMMA MarkStep ==
  ASSUME IInv, MarkInv, NEW t \in Tasks,
         \A u \in Tasks : u # t => pc'[u] = pc[u],
         file' = file, left'.power = left.power, marker' = "no" => marker = "no",
         marker' = marker \/ Section(t) \/ file # Missing,
         Critical => /\ FirstRun(t)' /\ Wrote(t)'
                     /\ PowerStayed => (Acknowledges(t)' => marker' # "no")
  PROVE  MarkInv'
<1> SUFFICES ASSUME Critical PROVE MarkInv'
  BY DEF MarkInv
<1>1. ASSUME NEW u \in Tasks, u # t
      PROVE  /\ FirstRun(u)' /\ Wrote(u)'
             /\ PowerStayed => (Acknowledges(u)' => marker' # "no")
  <2>1. Section(u) => ~Section(t)
    BY <1>1, Alone
  <2>2. FirstRun(u)'
    BY <1>1, <2>1 DEF MarkInv, FirstRun, Section, Writing
  <2>3. Wrote(u)' /\ (PowerStayed => (Acknowledges(u)' => marker' # "no"))
    BY <1>1 DEF MarkInv, Wrote, Acknowledges
  <2> QED BY <2>2, <2>3
<1>2. PowerStayed' <=> PowerStayed
  BY DEF PowerStayed
<1>3. left'.power <= Budget.power
  BY DEF MarkInv
<1> QED BY <1>1, <1>2, <1>3 DEF MarkInv

(* Steps that neither touch the disk nor lead to a place MarkInv is about. *)
LEMMA MarkGoto ==
  ASSUME IInv, MarkInv, NEW t \in Tasks, NEW x, Goto(t, x), file' = file, marker' = marker,
         left'.power = left.power,
         x \notin {"sync", "mark", "confirm", "succeed", "ok"},
         x \in {"mutate", "preserve", "write"} => FirstRun(t)'
  PROVE  MarkInv'
<1>1. pc \in [Tasks -> Places]
  BY DEF IInv, TypeOK
<1>2. pc'[t] = x /\ \A u \in Tasks : u # t => pc'[u] = pc[u]
  BY <1>1 DEF Goto
<1>3. FirstRun(t)' /\ Wrote(t)' /\ ~Acknowledges(t)'
  BY <1>2 DEF FirstRun, Wrote, Acknowledges
<1> QED BY <1>2, <1>3, MarkStep

LEMMA FaultLeavesPower ==
  ASSUME IInv, Spend("fault") PROVE left'.power = left.power
  BY Hazards DEF Spend, IInv, TypeOK

LEMMA MarkLocks ==
  ASSUME IInv, MarkInv, NEW t \in Tasks,
         Call(t) \/ EnterMutex(t) \/ Claim(t) \/ Steal(t) \/ LockFault(t)
  PROVE  MarkInv'
<1>1. CASE Call(t)
  BY <1>1, MarkGoto DEF Call, disk
<1>2. CASE EnterMutex(t)
  BY <1>2, MarkGoto DEF EnterMutex, disk
<1>3. CASE Claim(t)
  <2>1. IF Kind[t] = "save" THEN Goto(t, "mutate") ELSE Goto(t, "read")
    BY <1>3 DEF Claim
  <2>2. file' = file /\ marker' = marker /\ left'.power = left.power
    BY <1>3 DEF Claim, disk
  <2>3. Kind[t] = "save" => FirstRun(t)'
    BY DEF FirstRun
  <2> QED BY <2>1, <2>2, <2>3, MarkGoto
<1>4. CASE Steal(t)
  <2>1. UNCHANGED <<disk, pc, left>>
    BY <1>4 DEF Steal
  <2> QED BY <2>1 DEF MarkInv, FirstRun, Wrote, Acknowledges, PowerStayed, disk
<1>5. CASE LockFault(t)
  BY <1>5, MarkGoto, FaultLeavesPower DEF LockFault, disk
<1> QED BY <1>1, <1>2, <1>3, <1>4, <1>5

LEMMA MarkRelease ==
  ASSUME IInv, MarkInv, NEW t \in Tasks, Release(t) PROVE MarkInv'
<1>1. pc \in [Tasks -> Places]
  BY DEF IInv, TypeOK
<1>2. file' = file /\ marker' = marker /\ left' = left
  BY DEF Release, disk
<1>3. \A u \in Tasks : u # t => pc'[u] = pc[u]
  BY <1>1 DEF Release, Goto
<1>4. pc[t] \in Leaving
      /\ pc'[t] = CASE pc[t] = "skip" -> "skipped"
                    [] pc[t] = "fail" -> "failed"
                    [] OTHER -> IF Critical /\ Kind[t] = "restore" THEN "confirm" ELSE "ok"
  BY <1>1 DEF Release, Goto
<1>5. FirstRun(t)'
  BY <1>4 DEF FirstRun, Leaving
<1>6. ASSUME Critical
      PROVE  Wrote(t)' /\ (PowerStayed => (Acknowledges(t)' => marker' # "no"))
  <2>1. CASE pc[t] = "succeed" /\ Kind[t] = "restore"
    BY <1>2, <1>4, <1>6, <2>1 DEF MarkInv, Wrote, Acknowledges
  <2>2. CASE pc[t] = "succeed" /\ Kind[t] # "restore"
    <3>1. pc'[t] = "ok"
      BY <1>4, <2>2
    <3> QED BY <1>2, <1>6, <2>2, <3>1 DEF MarkInv, Wrote, Acknowledges
  <2>3. CASE pc[t] \in {"skip", "fail"}
    BY <1>4, <2>3 DEF Wrote, Acknowledges
  <2> QED BY <1>4, <2>1, <2>2, <2>3 DEF Leaving
<1> QED BY <1>2, <1>3, <1>5, <1>6, MarkStep

LEMMA MarkRead ==
  ASSUME IInv, MarkInv, NEW t \in Tasks,
         ReadValid(t) \/ ReadMissing(t) \/ CheckMarker(t) \/ ReadCorrupt(t) \/ Quarantined(t)
  PROVE  MarkInv'
<1>1. pc \in [Tasks -> Places]
  BY DEF IInv, TypeOK
<1>2. file' = file /\ left' = left
  BY DEF ReadValid, ReadMissing, CheckMarker, ReadCorrupt, Quarantined, disk
<1>3. CASE ReadValid(t)
  <2>1. \A u \in Tasks : u # t => pc'[u] = pc[u]
    BY <1>1, <1>3 DEF ReadValid, Loaded, Goto
  <2>2. pc'[t] = IF Kind[t] = "load" THEN "ok" ELSE "mutate"
    BY <1>1, <1>3 DEF ReadValid, Loaded, Goto
  <2>3. file # Missing
    BY <1>3, Values DEF ReadValid
  <2>4. marker' = "no" => marker = "no"
    BY <1>3 DEF ReadValid
  <2>5. FirstRun(t)' /\ Wrote(t)' /\ ~Acknowledges(t)'
    BY <1>2, <2>2, <2>3 DEF FirstRun, Wrote, Acknowledges
  <2> QED BY <1>2, <2>1, <2>3, <2>4, <2>5, MarkStep
<1>4. CASE ReadMissing(t) \/ CheckMarker(t) \/ ReadCorrupt(t) \/ Quarantined(t)
  <2>1. marker' = marker
    BY <1>4 DEF ReadMissing, CheckMarker, ReadCorrupt, Quarantined, disk
  <2>2. \A u \in Tasks : u # t => pc'[u] = pc[u]
    BY <1>1, <1>4 DEF ReadMissing, CheckMarker, ReadCorrupt, Quarantined, Loaded, Goto, Failed, Salvaged
  <2>3. pc'[t] \in {"check", "quarantine", "failed", "fail"}
        \/ /\ pc'[t] = IF Kind[t] = "load" THEN "ok" ELSE "mutate"
           /\ ~Critical \/ marker = "no"
    BY <1>1, <1>4 DEF ReadMissing, CheckMarker, ReadCorrupt, Quarantined, Loaded, Goto, Failed,
                      AfterFailure, Salvaged
  <2>4. Critical => FirstRun(t)' /\ Wrote(t)' /\ ~Acknowledges(t)'
    BY <2>1, <2>3 DEF FirstRun, Wrote, Acknowledges
  <2> QED BY <1>2, <2>1, <2>2, <2>4, MarkStep
<1> QED BY <1>3, <1>4

LEMMA MarkWork ==
  ASSUME IInv, MarkInv, NEW t \in Tasks,
         Refuse(t) \/ SkipSave(t) \/ Mutate(t) \/ PickCandidate(t) \/ Preserve(t)
  PROVE  MarkInv'
<1>1. pc \in [Tasks -> Places] /\ Prepared(t) /\ data[t] # Missing
  BY Values DEF IInv, TypeOK
<1>2. file' = file /\ left' = left /\ marker' = marker
  BY DEF Refuse, SkipSave, Mutate, PickCandidate, Preserve, disk
<1>3. \A u \in Tasks : u # t => pc'[u] = pc[u]
  BY <1>1 DEF Refuse, SkipSave, Mutate, PickCandidate, Preserve, Goto, Failed
<1>4. \/ pc'[t] \in {"failed", "fail", "skip"}
      \/ pc'[t] = "mark" /\ file # Missing
      \/ /\ pc'[t] \in {"preserve", "write"}
         /\ pc[t] \in {"mutate", "preserve"} \/ Kind[t] = "restore"
  BY <1>1 DEF Refuse, SkipSave, Mutate, PickCandidate, Preserve, Goto, Failed, AfterFailure
<1>5. Critical => FirstRun(t)' /\ Wrote(t)' /\ ~Acknowledges(t)'
  BY <1>2, <1>4 DEF FirstRun, Wrote, Acknowledges, MarkInv
<1> QED BY <1>2, <1>3, <1>5, MarkStep

LEMMA MarkWrite ==
  ASSUME IInv, MarkInv, NEW t \in Tasks, Write(t) \/ Sync(t) \/ MarkInitialized(t) \/ Fault(t)
  PROVE  MarkInv'
<1>1. pc \in [Tasks -> Places] /\ data \in [Tasks -> Content]
  BY DEF IInv, TypeOK
<1>2. \A u \in Tasks : u # t => pc'[u] = pc[u]
  BY <1>1 DEF Write, Sync, MarkInitialized, Fault, Goto
<1>3. CASE Write(t)
  <2>1. file' # Missing /\ marker' = marker /\ left' = left /\ pc'[t] = "sync"
    BY <1>1, <1>3, Values DEF Write, Goto
  <2>2. \A u \in Tasks : FirstRun(u)' /\ Wrote(u)'
    BY <2>1 DEF FirstRun, Wrote
  <2>3. \A u \in Tasks : Acknowledges(u)' => Acknowledges(u)
    BY <1>2, <2>1 DEF Acknowledges
  <2> QED BY <2>1, <2>2, <2>3 DEF MarkInv, PowerStayed
<1>4. CASE Sync(t)
  <2>1. file' = file /\ left' = left /\ (marker' = "no" <=> marker = "no") /\ Section(t)
    BY <1>4 DEF Sync, Section, Writing, IInv, Placed, Reading, Ended
  <2>2. pc[t] = "sync" /\ pc'[t] = IF Critical /\ Kind[t] # "restore" THEN "mark" ELSE "succeed"
    BY <1>1, <1>4 DEF Sync, Goto
  <2>3. Critical => FirstRun(t)' /\ Wrote(t)' /\ ~Acknowledges(t)'
    BY <2>1, <2>2 DEF FirstRun, Wrote, Acknowledges, MarkInv
  <2> QED BY <1>2, <2>1, <2>3, MarkStep
<1>5. CASE MarkInitialized(t)
  <2>1. file' = file /\ left' = left /\ marker' # "no" /\ pc[t] \in {"mark", "confirm"}
        /\ pc'[t] = IF pc[t] = "mark" THEN "succeed" ELSE "ok"
    BY <1>1, <1>5 DEF MarkInitialized, Goto
  <2>2. Critical => Section(t) \/ file # Missing
    BY <2>1 DEF MarkInv, Wrote, Section, Writing, IInv, Placed, Reading, Ended
  <2>3. Critical => Wrote(t)'
    BY <2>1 DEF MarkInv, Wrote
  <2>4. FirstRun(t)'
    BY <2>1 DEF FirstRun
  <2> QED BY <1>2, <2>1, <2>2, <2>3, <2>4, MarkStep DEF MarkInv
<1>6. CASE Fault(t)
  <2>1. file' = file /\ marker' = marker /\ left'.power = left.power
    BY <1>6, FaultLeavesPower DEF Fault
  <2>2. pc'[t] \in {"failed", "fail"}
    BY <1>1, <1>6 DEF Fault, Goto, AfterFailure
  <2>3. FirstRun(t)' /\ Wrote(t)' /\ ~Acknowledges(t)'
    BY <2>2 DEF FirstRun, Wrote, Acknowledges
  <2> QED BY <1>2, <2>1, <2>3, MarkStep
<1> QED BY <1>3, <1>4, <1>5, <1>6

(* Processes that die take their tasks with them.                          *)
LEMMA MarkDeath ==
  ASSUME IInv, MarkInv, NEW P, Die(P), marker' = marker, file' = file, left'.power = left.power
  PROVE  MarkInv'
<1>1. ASSUME NEW t \in Tasks PROVE pc'[t] \in {pc[t], "lost"}
  BY <1>1 DEF Die
<1>2. ASSUME NEW t \in Tasks
      PROVE  /\ FirstRun(t) => FirstRun(t)'
             /\ Wrote(t) => Wrote(t)'
             /\ Acknowledges(t)' => Acknowledges(t)
  BY <1>1, <1>2 DEF FirstRun, Wrote, Acknowledges
<1>3. PowerStayed' <=> PowerStayed
  BY DEF PowerStayed
<1> QED BY <1>2, <1>3 DEF MarkInv

LEMMA MarkHazards ==
  ASSUME IInv, MarkInv, (\E p \in Procs : Start(p) \/ Kill(p)) \/ PowerLoss \/ Damage
  PROVE  MarkInv'
<1>1. ASSUME NEW p \in Procs, Start(p) PROVE MarkInv'
  BY <1>1 DEF Start, disk, MarkInv, FirstRun, Wrote, Acknowledges, PowerStayed
<1>2. ASSUME NEW p \in Procs, Kill(p) PROVE MarkInv'
  <2>1. left'.power = left.power
    BY <1>2, Hazards DEF Kill, Spend, IInv, TypeOK
  <2> QED BY <1>2, <2>1, MarkDeath DEF Kill
<1>3. CASE PowerLoss
  <2>1. ASSUME NEW t \in Tasks PROVE pc'[t] \in Ended \union {"idle"}
    <3>1. Home[t] \in Procs /\ pc[t] \in Places
      BY StoreAssumption DEF StoreAssumption, IInv, TypeOK
    <3> QED BY <1>3, <3>1 DEF PowerLoss, Die, Ended
  <2>2. ASSUME NEW t \in Tasks PROVE FirstRun(t)' /\ Wrote(t)'
    BY <2>1, <2>2 DEF FirstRun, Wrote, Ended
  <2>3. left.power \in Nat /\ left.power > 0 /\ left'.power = left.power - 1
    BY <1>3, Hazards DEF PowerLoss, Spend, IInv, TypeOK
  <2>4. Budget.power \in Nat
    BY StoreAssumption DEF StoreAssumption
  <2>5. Critical => left'.power < Budget.power
    BY <2>3, <2>4 DEF MarkInv
  <2> QED BY <2>2, <2>4, <2>5, <2>3 DEF MarkInv, PowerStayed
<1>4. CASE Damage
  <2>1. left'.power = left.power /\ pc' = pc /\ marker' = marker
    BY <1>4, Hazards DEF Damage, Spend, IInv, TypeOK
  <2>2. ASSUME NEW t \in Tasks PROVE FirstRun(t)' /\ Wrote(t)' /\ (Acknowledges(t)' => Acknowledges(t))
    <3>1. pc[t] \in Ended \union {"idle"}
      BY <1>4, AllDead DEF Damage
    <3> QED BY <2>1, <3>1 DEF FirstRun, Wrote, Acknowledges, Ended
  <2> QED BY <2>1, <2>2 DEF MarkInv, PowerStayed
<1> QED BY <1>1, <1>2, <1>3, <1>4

LEMMA MarkInitially == Init => MarkInv
  BY StoreAssumption DEF Init, MarkInv, FirstRun, Wrote, Acknowledges, PowerStayed, StoreAssumption

LEMMA MarkNext == IInv /\ MarkInv /\ [Next]_vars => MarkInv'
<1> SUFFICES ASSUME IInv, MarkInv, [Next]_vars PROVE MarkInv'
  OBVIOUS
<1>1. ASSUME NEW t \in Tasks, Call(t) \/ Step(t) \/ LockFault(t) \/ Fault(t) PROVE MarkInv'
  BY <1>1, MarkLocks, MarkRelease, MarkRead, MarkWork, MarkWrite DEF Step
<1>2. CASE UNCHANGED vars
  BY <1>2 DEF vars, disk, locks, MarkInv, FirstRun, Wrote, Acknowledges, PowerStayed
<1> QED BY <1>1, <1>2, MarkHazards DEF Next

LEMMA MarkInvariant == Spec => []MarkInv
  BY MarkInitially, MarkNext, StoreInvariant, PTL DEF Spec

(* As long as the power stays on, no update of a critical store takes a    *)
(* missing file for a first run once a write was acknowledged.             *)
THEOREM StoreFailsClosed == Spec => FailsClosed
<1>1. IInv /\ MarkInv /\ [Next]_vars =>
        [\A t, u \in Tasks :
           Replaces(t) /\ Kind[t] = "update" /\ file = Missing /\ left.power = Budget.power
             => ~(Critical /\ Kind[u] # "load" /\ pc[u] = "ok")]_vars
  <2> SUFFICES ASSUME IInv, MarkInv, [Next]_vars, NEW t \in Tasks, NEW u \in Tasks,
                      Replaces(t), Kind[t] = "update", file = Missing,
                      left.power = Budget.power, Critical, Kind[u] # "load", pc[u] = "ok"
               PROVE  FALSE
    OBVIOUS
  <2>1. pc[t] = "write"
    BY OnlyWriteReplaces
  <2>2. marker = "no"
    BY <2>1 DEF MarkInv, FirstRun
  <2>3. marker # "no"
    BY DEF MarkInv, Acknowledges, PowerStayed
  <2> QED BY <2>2, <2>3
<1> QED BY <1>1, StoreInvariant, MarkInvariant, PTL DEF Spec, FailsClosed

-----------------------------------------------------------------------------
(* The corrupt bytes.                                                      *)

(* An update that works on a corrupt file has a copy, a restore a backup.  *)
Salvages(t) ==
  Kind[t] = "update" /\ pc[t] \in {"mutate", "preserve", "write"} /\ file = Corrupt
    => quarantine = "whole"
Restores(t) == Kind[t] = "restore" /\ pc[t] = "write" /\ file = Corrupt => Corrupt \in backups

(* One task at a time copies, and nobody else takes its copy for a whole.  *)
KeptInv ==
  /\ \A t \in Tasks : Salvages(t) /\ Restores(t)
  /\ \A t \in Tasks : pc[t] = "quarantine" => quarantine = "partial"
  /\ \A t, u \in Tasks : pc[t] = "quarantine" /\ pc[u] = "quarantine" => t = u

(* A step of t that leaves the file alone is good if it is for t.          *)
LEMMA KeptStep ==
  ASSUME IInv, KeptInv, NEW t \in Tasks,
         \A u \in Tasks : u # t => pc'[u] = pc[u],
         file' = file, quarantine = "whole" => quarantine' = "whole",
         pc[t] = "quarantine" \/ quarantine = "none" \/ quarantine' = quarantine,
         pc'[t] = "quarantine" => quarantine = "none" /\ quarantine' = "partial",
         Section(t) \/ backups' = backups,
         Salvages(t)' /\ Restores(t)'
  PROVE  KeptInv'
<1>1. ASSUME NEW u \in Tasks, u # t PROVE Salvages(u)' /\ Restores(u)'
  <2>1. Section(u) => ~Section(t)
    BY <1>1, Alone
  <2>2. Salvages(u)'
    BY <1>1 DEF KeptInv, Salvages
  <2>3. Restores(u)'
    BY <1>1, <2>1 DEF KeptInv, Restores, Section, Writing
  <2> QED BY <2>2, <2>3
<1>2. ASSUME NEW u \in Tasks, pc'[u] = "quarantine", u # t
      PROVE  quarantine' = "partial" /\ pc'[t] # "quarantine"
  BY <1>2 DEF KeptInv
<1>3. ASSUME NEW u \in Tasks, NEW w \in Tasks, pc'[u] = "quarantine", pc'[w] = "quarantine"
      PROVE  u = w
  BY <1>2, <1>3 DEF KeptInv
<1> QED BY <1>1, <1>2, <1>3 DEF KeptInv

(* Steps that leave the disk alone and lead to no copy.                    *)
LEMMA KeptGoto ==
  ASSUME IInv, KeptInv, NEW t \in Tasks, NEW x, Goto(t, x), x # "quarantine",
         UNCHANGED <<file, quarantine, backups>>,
         x \in {"mutate", "preserve"} /\ Kind[t] = "update" => pc[t] = "mutate" \/ file # Corrupt,
         x = "write" => Kind[t] # "restore" /\ pc[t] \in {"mutate", "preserve"}
  PROVE  KeptInv'
<1>1. pc \in [Tasks -> Places]
  BY DEF IInv, TypeOK
<1>2. pc'[t] = x /\ \A u \in Tasks : u # t => pc'[u] = pc[u]
  BY <1>1 DEF Goto
<1>3. Salvages(t)' /\ Restores(t)'
  BY <1>2 DEF KeptInv, Salvages, Restores
<1> QED BY <1>2, <1>3, KeptStep

LEMMA KeptLocks ==
  ASSUME IInv, KeptInv, NEW t \in Tasks,
         Call(t) \/ EnterMutex(t) \/ Claim(t) \/ Steal(t) \/ Release(t) \/ LockFault(t)
  PROVE  KeptInv'
<1>1. UNCHANGED <<file, quarantine, backups>>
  BY DEF Call, EnterMutex, Claim, Steal, Release, LockFault, disk
<1>2. CASE Call(t)
  BY <1>1, <1>2, KeptGoto DEF Call
<1>3. CASE EnterMutex(t)
  BY <1>1, <1>3, KeptGoto DEF EnterMutex
<1>4. CASE Claim(t)
  <2>1. CASE Kind[t] = "save"
    BY <1>1, <1>4, <2>1, KeptGoto DEF Claim
  <2>2. CASE Kind[t] # "save"
    BY <1>1, <1>4, <2>2, KeptGoto DEF Claim
  <2> QED BY <2>1, <2>2
<1>5. CASE Steal(t)
  BY <1>1, <1>5 DEF Steal, KeptInv, Salvages, Restores
<1>6. CASE Release(t)
  <2>1. \A u \in Tasks : u # t => pc'[u] = pc[u]
    BY <1>6 DEF Release, Goto, IInv, TypeOK
  <2>2. pc'[t] \in {"skipped", "failed", "confirm", "ok"}
    BY <1>6 DEF Release, Goto, Leaving, IInv, TypeOK
  <2>3. Salvages(t)' /\ Restores(t)'
    BY <2>2 DEF Salvages, Restores
  <2> QED BY <1>1, <2>1, <2>2, <2>3, KeptStep
<1>7. CASE LockFault(t)
  BY <1>1, <1>7, KeptGoto DEF LockFault
<1> QED BY <1>2, <1>3, <1>4, <1>5, <1>6, <1>7

LEMMA KeptRead ==
  ASSUME IInv, KeptInv, NEW t \in Tasks,
         ReadValid(t) \/ ReadMissing(t) \/ CheckMarker(t) \/ ReadCorrupt(t) \/ Quarantined(t)
  PROVE  KeptInv'
<1>1. pc \in [Tasks -> Places] /\ Prepared(t) /\ Kind[t] \in {"load", "save", "update", "restore"}
  BY StoreAssumption DEF IInv, TypeOK, StoreAssumption
<1>2. file' = file /\ backups' = backups
  BY DEF ReadValid, ReadMissing, CheckMarker, ReadCorrupt, Quarantined, disk
<1>3. \A u \in Tasks : u # t => pc'[u] = pc[u]
  BY <1>1 DEF ReadValid, ReadMissing, CheckMarker, ReadCorrupt, Quarantined, Loaded, Goto, Failed,
              Salvaged
<1>4. CASE ReadValid(t) \/ ReadMissing(t) \/ CheckMarker(t)
  <2>1. quarantine' = quarantine
    BY <1>4 DEF ReadValid, ReadMissing, CheckMarker, disk
  <2>2. pc'[t] \in {"ok", "check", "failed", "fail", "mutate"}
    BY <1>1, <1>4 DEF ReadValid, ReadMissing, CheckMarker, Loaded, Goto, Failed, AfterFailure
  <2>3. Kind[t] = "update" => file # Corrupt
    BY <1>1, <1>4, Values DEF ReadValid, ReadMissing, CheckMarker, Prepared
  <2>4. Salvages(t)' /\ Restores(t)'
    BY <1>2, <2>2, <2>3 DEF Salvages, Restores
  <2> QED BY <1>2, <1>3, <2>1, <2>2, <2>4, KeptStep
<1>5. CASE ReadCorrupt(t)
  <2>1. CASE quarantine = "none"
    <3>1. quarantine' = "partial" /\ pc'[t] = "quarantine"
      BY <1>1, <1>5, <2>1 DEF ReadCorrupt, Goto
    <3>2. Salvages(t)' /\ Restores(t)'
      BY <3>1 DEF Salvages, Restores
    <3> QED BY <1>2, <1>3, <2>1, <3>1, <3>2, KeptStep
  <2>2. CASE quarantine # "none"
    <3>1. quarantine' = quarantine
      BY <1>5, <2>2 DEF ReadCorrupt
    <3>2. \/ pc'[t] \in {"failed", "fail"}
          \/ pc'[t] \in {"ok", "mutate"} /\ quarantine = "whole"
      BY <1>1, <1>5, <2>2 DEF ReadCorrupt, Salvaged, Loaded, Failed, AfterFailure, Goto
    <3>3. Salvages(t)' /\ Restores(t)'
      BY <3>1, <3>2 DEF Salvages, Restores
    <3> QED BY <1>2, <1>3, <3>1, <3>2, <3>3, KeptStep
  <2> QED BY <2>1, <2>2
<1>6. CASE Quarantined(t)
  <2>1. pc[t] = "quarantine" /\ quarantine' = "whole"
    BY <1>6 DEF Quarantined
  <2>2. pc'[t] \in {"failed", "fail", "ok", "mutate"}
    BY <1>1, <1>6 DEF Quarantined, Salvaged, Loaded, Failed, AfterFailure, Goto
  <2>3. Salvages(t)' /\ Restores(t)'
    BY <2>1, <2>2 DEF Salvages, Restores
  <2> QED BY <1>2, <1>3, <2>1, <2>2, <2>3, KeptStep
<1> QED BY <1>4, <1>5, <1>6

LEMMA KeptWork ==
  ASSUME IInv, KeptInv, NEW t \in Tasks,
         Refuse(t) \/ SkipSave(t) \/ Mutate(t) \/ PickCandidate(t) \/ Preserve(t)
  PROVE  KeptInv'
<1>1. pc \in [Tasks -> Places] /\ Prepared(t) /\ Placed(t)
      /\ Kind[t] \in {"load", "save", "update", "restore"}
  BY StoreAssumption DEF IInv, TypeOK, StoreAssumption
<1>2. file' = file /\ quarantine' = quarantine
  BY DEF Refuse, SkipSave, Mutate, PickCandidate, Preserve, disk
<1>3. \A u \in Tasks : u # t => pc'[u] = pc[u]
  BY <1>1 DEF Refuse, SkipSave, Mutate, PickCandidate, Preserve, Goto, Failed
<1>4. CASE Refuse(t) \/ SkipSave(t) \/ Mutate(t) \/ PickCandidate(t)
  <2>1. backups' = backups
    BY <1>4 DEF Refuse, SkipSave, Mutate, PickCandidate, disk
  <2>2. \/ pc'[t] \in {"failed", "fail", "skip"}
        \/ pc[t] = "mutate" /\ pc'[t] \in {"preserve", "write"}
        \/ Kind[t] = "restore" /\ pc'[t] = "preserve"
    BY <1>1, <1>4 DEF Refuse, SkipSave, Mutate, PickCandidate, Goto, Failed, AfterFailure
  <2>3. Salvages(t)' /\ Restores(t)'
    BY <1>1, <1>2, <2>2 DEF Salvages, Restores, KeptInv, Prepared
  <2> QED BY <1>2, <1>3, <2>1, <2>2, <2>3, KeptStep
<1>5. CASE Preserve(t)
  <2>1. pc[t] = "preserve" /\ Section(t)
    BY <1>1, <1>5 DEF Preserve, Section, Placed, Reading, Writing, Ended
  <2>2. \/ pc'[t] \in {"failed", "fail", "mark"}
        \/ pc'[t] = "write" /\ (Kind[t] = "restore" /\ file = Corrupt => Corrupt \in backups')
    BY <1>1, <1>5, Values DEF Preserve, BackUp, Goto, Failed, AfterFailure
  <2>3. Salvages(t)' /\ Restores(t)'
    BY <1>2, <2>1, <2>2 DEF Salvages, Restores, KeptInv
  <2> QED BY <1>2, <1>3, <2>1, <2>2, <2>3, KeptStep
<1> QED BY <1>4, <1>5

LEMMA KeptWrite ==
  ASSUME IInv, KeptInv, NEW t \in Tasks, Write(t) \/ Sync(t) \/ MarkInitialized(t) \/ Fault(t)
  PROVE  KeptInv'
<1>1. pc \in [Tasks -> Places] /\ data \in [Tasks -> Content]
  BY DEF IInv, TypeOK
<1>2. \A u \in Tasks : u # t => pc'[u] = pc[u]
  BY <1>1 DEF Write, Sync, MarkInitialized, Fault, Goto
<1>3. CASE Write(t)
  <2>1. file' # Corrupt /\ quarantine' = quarantine /\ pc'[t] = "sync"
    BY <1>1, <1>3, Values DEF Write, Goto
  <2>2. \A u \in Tasks : pc'[u] = "quarantine" => pc[u] = "quarantine"
    BY <1>2, <2>1
  <2> QED BY <2>1, <2>2 DEF KeptInv, Salvages, Restores
<1>4. CASE Sync(t) \/ MarkInitialized(t)
  <2>1. UNCHANGED <<file, quarantine, backups>>
    BY <1>4 DEF Sync, MarkInitialized
  <2>2. pc'[t] \in {"mark", "succeed", "ok"}
    BY <1>1, <1>4 DEF Sync, MarkInitialized, Goto
  <2>3. Salvages(t)' /\ Restores(t)'
    BY <2>2 DEF Salvages, Restores
  <2> QED BY <1>2, <2>1, <2>2, <2>3, KeptStep
<1>5. CASE Fault(t)
  <2>1. UNCHANGED <<file, backups>> /\ quarantine' = IF pc[t] = "quarantine" THEN "none" ELSE quarantine
    BY <1>5 DEF Fault
  <2>2. pc'[t] \in {"failed", "fail"}
    BY <1>1, <1>5 DEF Fault, Goto, AfterFailure
  <2>3. quarantine = "whole" => quarantine' = "whole"
    BY <2>1 DEF KeptInv
  <2>4. Salvages(t)' /\ Restores(t)'
    BY <2>2 DEF Salvages, Restores
  <2> QED BY <1>2, <2>1, <2>2, <2>3, <2>4, KeptStep
<1> QED BY <1>3, <1>4, <1>5

LEMMA KeptHazards ==
  ASSUME IInv, KeptInv, (\E p \in Procs : Start(p) \/ Kill(p)) \/ PowerLoss \/ Damage
  PROVE  KeptInv'
<1>1. ASSUME NEW p \in Procs, Start(p) PROVE KeptInv'
  BY <1>1 DEF Start, disk, KeptInv, Salvages, Restores
<1>2. ASSUME NEW p \in Procs, Kill(p) PROVE KeptInv'
  <2>1. \A t \in Tasks : pc'[t] \in {pc[t], "lost"}
    BY <1>2 DEF Kill, Die
  <2>2. UNCHANGED <<file, quarantine>> /\ backups \subseteq backups'
    BY <1>2 DEF Kill, Die
  <2>3. ASSUME NEW t \in Tasks PROVE Salvages(t)' /\ Restores(t)'
    BY <2>1, <2>2 DEF KeptInv, Salvages, Restores
  <2>4. \A t \in Tasks : pc'[t] = "quarantine" => pc[t] = "quarantine"
    BY <2>1
  <2> QED BY <2>2, <2>3, <2>4 DEF KeptInv
<1>3. ASSUME \A t \in Tasks : pc'[t] \in Ended \union {"idle"} PROVE KeptInv'
  BY <1>3 DEF KeptInv, Salvages, Restores, Ended
<1>4. CASE PowerLoss
  <2>1. ASSUME NEW t \in Tasks PROVE pc'[t] \in Ended \union {"idle"}
    <3>1. Home[t] \in Procs /\ pc[t] \in Places
      BY StoreAssumption DEF StoreAssumption, IInv, TypeOK
    <3> QED BY <1>4, <3>1 DEF PowerLoss, Die, Ended
  <2> QED BY <1>3, <2>1
<1>5. CASE Damage
  BY <1>3, <1>5, AllDead DEF Damage
<1> QED BY <1>1, <1>2, <1>4, <1>5

LEMMA KeptNext == IInv /\ KeptInv /\ [Next]_vars => KeptInv'
<1> SUFFICES ASSUME IInv, KeptInv, [Next]_vars PROVE KeptInv'
  OBVIOUS
<1>1. ASSUME NEW t \in Tasks, Call(t) \/ Step(t) \/ LockFault(t) \/ Fault(t) PROVE KeptInv'
  BY <1>1, KeptLocks, KeptRead, KeptWork, KeptWrite DEF Step
<1>2. CASE UNCHANGED vars
  BY <1>2 DEF vars, disk, KeptInv, Salvages, Restores
<1> QED BY <1>1, <1>2, KeptHazards DEF Next

LEMMA KeptInvariant == Spec => []KeptInv
<1>1. Init => KeptInv
  BY DEF Init, KeptInv, Salvages, Restores
<1> QED BY <1>1, KeptNext, StoreInvariant, PTL DEF Spec

(* Corrupt bytes are replaced only when a whole copy of them exists.       *)
THEOREM CorruptBytesAreKept == Spec => CorruptBytesKept
<1>1. IInv /\ KeptInv /\ [Next]_vars =>
        [\A t \in Tasks :
           Replaces(t) /\ file = Corrupt /\ (Critical \/ Kind[t] # "save")
             => quarantine = "whole" \/ Corrupt \in backups]_vars
  <2> SUFFICES ASSUME IInv, KeptInv, [Next]_vars, NEW t \in Tasks, Replaces(t), file = Corrupt,
                      Critical \/ Kind[t] # "save"
               PROVE  quarantine = "whole" \/ Corrupt \in backups
    OBVIOUS
  <2>1. pc[t] = "write"
    BY OnlyWriteReplaces
  <2>2. Kind[t] \in {"update", "save", "restore"}
    BY <2>1, StoreAssumption DEF StoreAssumption, IInv, Placed, Reading, Ended
  <2> QED BY <2>1, <2>2 DEF IInv, Prepared, KeptInv, Salvages, Restores
<1> QED BY <1>1, StoreInvariant, KeptInvariant, PTL DEF Spec, CorruptBytesKept

(* Whatever dies, fails or is damaged, in any order: the operations take   *)
(* effect one at a time, an acknowledged write of an ordinary store        *)
(* survives a power loss, and corrupt bytes are copied before they go.     *)
THEOREM StoreIsKept == Spec => StoreKept
  BY CorruptBytesAreKept, StoreIsAtomic DEF StoreKept
=============================================================================
