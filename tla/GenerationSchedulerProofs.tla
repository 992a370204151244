---------------------- MODULE GenerationSchedulerProofs ----------------------
(***************************************************************************)
(* Proofs that the admission scheduler respects and uses its capacity and  *)
(* never loses a wakeup, for every set of callers, capacity and burst.     *)
(***************************************************************************)
EXTENDS GenerationScheduler, FiniteSetTheorems, TLAPS

ActiveCount == Cardinality(InPhase(phase, "active"))

(* The scheduler's accounting agrees with what really executes.            *)
Accounting ==
  /\ working = InPhase(phase, "active")
  /\ ActiveCount <= Capacity

IInv == TypeOK /\ Accounting /\ WorkConserving /\ NoLostWakeup

(* A drain starts from a state in which a handler has just freed or added  *)
(* at most one slot; HandlerState is what it may rely on.                  *)
HandlerState(ph, pr, ah, running) ==
  /\ ph \in [Items -> {"idle", "pending", "active"}]
  /\ pr \in [Items -> Priorities]
  /\ ah \in [Items -> SUBSET Items]
  /\ running = InPhase(ph, "active")
  /\ Cardinality(InPhase(ph, "active")) <= Capacity
  /\ \/ Cardinality(InPhase(ph, "active")) + 1 >= Capacity
     \/ \E x \in Items : InPhase(ph, "pending") \subseteq {x}

(* InPhase selects a finite set of items.                                  *)
LEMMA InPhaseFinite ==
  ASSUME NEW ph, NEW x
  PROVE  /\ IsFiniteSet(InPhase(ph, x))
         /\ Cardinality(InPhase(ph, x)) \in Nat
  <1>1. InPhase(ph, x) \subseteq Items
    BY DEF InPhase
  <1>2. QED
    BY <1>1, SchedulerAssumption, FS_Subset, FS_CardinalityType

(* _drain restores the invariant from any state a handler leaves.          *)
LEMMA DrainRestores ==
  ASSUME TypeOK, NEW ph, NEW pr, NEW ah, NEW running,
         HandlerState(ph, pr, ah, running),
         Drain(ph, pr, ah, running),
         aged' \in [Items -> BOOLEAN], aborted' \subseteq Items
  PROVE  IInv'
  <1> DEFINE act == InPhase(ph, "active")
             pend == InPhase(ph, "pending")
             room == Cardinality(act) < Capacity /\ pend # {}
  <1>0. /\ priority' = pr
        /\ ahead' = ah
        /\ producer' = [p \in Producers |-> IF producer[p] = "waiting" THEN "woken" ELSE producer[p]]
        /\ \/ ~room /\ phase' = ph /\ working' = running /\ UNCHANGED consecutiveLookahead
           \/ /\ room
              /\ \E i \in TakeNext(ph, pr, ah) :
                   /\ phase' = [ph EXCEPT ![i] = "active"]
                   /\ working' = running \union {i}
                   /\ consecutiveLookahead' = LookaheadCount(pr[i])
    BY DEF Drain, Notify
  <1>1. NoLostWakeup'
    BY <1>0 DEF NoLostWakeup, TypeOK
  <1>2. /\ IsFiniteSet(act)
        /\ Cardinality(act) \in Nat
    BY InPhaseFinite
  <1>3. producer' \in [Producers -> {"away", "waiting", "woken"}]
    BY <1>0 DEF TypeOK
  <1>4. CASE ~room
    <2>1. phase' = ph /\ working' = running /\ consecutiveLookahead' = consecutiveLookahead
      BY <1>0, <1>4
    <2>2. TypeOK'
      BY <1>0, <1>3, <2>1 DEF TypeOK, HandlerState, InPhase
    <2>3. Accounting' /\ WorkConserving'
      BY <1>2, <1>4, <2>1, SchedulerAssumption
      DEF Accounting, ActiveCount, WorkConserving, HandlerState, InPhase
    <2>4. QED
      BY <1>1, <2>2, <2>3 DEF IInv
  <1>5. CASE room
    <2>1. PICK i \in TakeNext(ph, pr, ah) :
            /\ phase' = [ph EXCEPT ![i] = "active"]
            /\ working' = running \union {i}
            /\ consecutiveLookahead' = LookaheadCount(pr[i])
      BY <1>0, <1>5
    <2>2. i \in Items /\ ph[i] = "pending"
      BY DEF TakeNext, InPhase
    <2>3. consecutiveLookahead' \in 0..LookaheadBurst
      BY <2>1, SchedulerAssumption DEF LookaheadCount, TypeOK
    <2>4. InPhase(phase', "active") = act \union {i}
      BY <2>1, <2>2 DEF InPhase, HandlerState
    <2>5. Cardinality(act \union {i}) = Cardinality(act) + 1
      BY <1>2, <2>2, FS_AddElement DEF InPhase
    <2>6. /\ Cardinality(act) + 1 <= Capacity
          /\ Cardinality(act) + 1 >= Capacity \/ InPhase(phase', "pending") = {}
      <3>1. InPhase(phase', "pending") = pend \ {i}
        BY <2>1, <2>2 DEF InPhase, HandlerState
      <3>2. i \in pend
        BY <2>2 DEF InPhase
      <3>3. QED
        BY <3>1, <3>2, <1>2, <1>5, SchedulerAssumption DEF HandlerState
    <2>7. TypeOK'
      BY <1>0, <1>3, <2>1, <2>2, <2>3 DEF TypeOK, HandlerState, InPhase
    <2>8. Accounting' /\ WorkConserving'
      BY <2>1, <2>4, <2>5, <2>6, SchedulerAssumption
      DEF Accounting, ActiveCount, WorkConserving, HandlerState, InPhase
    <2>9. QED
      BY <1>1, <2>7, <2>8 DEF IInv
  <1>6. QED
    BY <1>4, <1>5

(* The initial state satisfies the inductive invariant.                    *)
LEMMA InitIInv == Init => IInv
  <1> SUFFICES ASSUME Init PROVE IInv
    OBVIOUS
  <1>1. InPhase(phase, "active") = {} /\ InPhase(phase, "pending") = {}
    BY DEF Init, InPhase
  <1>2. TypeOK
    BY SchedulerAssumption DEF Init, TypeOK, Priorities
  <1>3. Accounting /\ WorkConserving /\ NoLostWakeup
    BY <1>1, FS_EmptySet, SchedulerAssumption
    DEF Init, Accounting, ActiveCount, WorkConserving, NoLostWakeup
  <1>4. QED
    BY <1>2, <1>3 DEF IInv

(* Every handler preserves the inductive invariant.                        *)
LEMMA NextIInv == IInv /\ [Next]_vars => IInv'
  <1> SUFFICES ASSUME IInv, [Next]_vars PROVE IInv'
    OBVIOUS
  <1> DEFINE act == InPhase(phase, "active")
             pend == InPhase(phase, "pending")
  <1>0. /\ UsedPriorities \subseteq Priorities
        /\ IsFiniteSet(act) /\ Cardinality(act) \in Nat
        /\ TypeOK /\ working = act /\ Cardinality(act) <= Capacity
        /\ pend # {} => Cardinality(act) >= Capacity
    BY InPhaseFinite, SchedulerAssumption
    DEF IInv, Accounting, ActiveCount, WorkConserving, Priorities, Foreground, Strict
  <1>1. ASSUME NEW i \in Items, NEW p \in UsedPriorities, Run(i, p) PROVE IInv'
    <2> DEFINE ph == [phase EXCEPT ![i] = "pending"]
               pr == [priority EXCEPT ![i] = p]
               ah == [ahead EXCEPT ![i] = pend]
    <2>1. InPhase(ph, "active") = act /\ InPhase(ph, "pending") = pend \union {i}
      BY <1>0, <1>1 DEF Run, InPhase, TypeOK
    <2>2. HandlerState(ph, pr, ah, working)
      <3>1. /\ ph \in [Items -> {"idle", "pending", "active"}]
            /\ pr \in [Items -> Priorities]
            /\ ah \in [Items -> SUBSET Items]
        BY <1>0 DEF TypeOK, InPhase
      <3>2. \/ Cardinality(act) + 1 >= Capacity
            \/ \E x \in Items : InPhase(ph, "pending") \subseteq {x}
        <4>1. CASE pend = {}
          BY <2>1, <4>1
        <4>2. CASE pend # {}
          BY <1>0, <4>2, SchedulerAssumption
        <4>3. QED
          BY <4>1, <4>2
      <3>3. QED
        BY <1>0, <2>1, <3>1, <3>2 DEF HandlerState
    <2>3. Drain(ph, pr, ah, working) /\ aged' \in [Items -> BOOLEAN] /\ aborted' \subseteq Items
      BY <1>0, <1>1 DEF Run, TypeOK
    <2>4. QED
      BY <1>0, <2>2, <2>3, DrainRestores
  <1>2. ASSUME NEW i \in Items, NEW p \in UsedPriorities, Reprioritize(i, p) PROVE IInv'
    <2> DEFINE pr == [priority EXCEPT ![i] = p]
    <2>1. HandlerState(phase, pr, ahead, working)
      <3>1. pr \in [Items -> Priorities]
        BY <1>0 DEF TypeOK
      <3>2. i \in pend
        BY <1>2 DEF Reprioritize, InPhase
      <3>3. QED
        BY <1>0, <3>1, <3>2, SchedulerAssumption DEF HandlerState, TypeOK
    <2>2. Drain(phase, pr, ahead, working) /\ aged' \in [Items -> BOOLEAN] /\ aborted' \subseteq Items
      BY <1>0, <1>2 DEF Reprioritize, TypeOK
    <2>3. QED
      BY <1>0, <2>1, <2>2, DrainRestores
  <1>3. ASSUME NEW i \in Items, NEW p \in UsedPriorities, Promote(i, p) PROVE IInv'
    BY <1>2, <1>3 DEF Promote
  <1>4. ASSUME NEW i \in Items, Settle(i) PROVE IInv'
    <2> DEFINE ph == [phase EXCEPT ![i] = "idle"]
    <2>1. InPhase(ph, "active") = act \ {i} /\ InPhase(ph, "pending") = pend /\ i \in act
      BY <1>0, <1>4 DEF Settle, InPhase, TypeOK
    <2>2. Cardinality(act \ {i}) = Cardinality(act) - 1
      BY <1>0, <2>1, FS_RemoveElement
    <2>3. HandlerState(ph, priority, Forget(i), working \ {i})
      <3>1. /\ ph \in [Items -> {"idle", "pending", "active"}]
            /\ Forget(i) \in [Items -> SUBSET Items]
        BY <1>0 DEF TypeOK, Forget
      <3>2. \/ Cardinality(act \ {i}) + 1 >= Capacity
            \/ \E x \in Items : InPhase(ph, "pending") \subseteq {x}
        BY <1>0, <2>1, <2>2, SchedulerAssumption
      <3>3. QED
        <4>1. /\ working \ {i} = InPhase(ph, "active")
              /\ Cardinality(InPhase(ph, "active")) <= Capacity
          <5>1. Cardinality(act) - 1 <= Capacity
            BY <1>0, SchedulerAssumption
          <5>2. QED
            BY <1>0, <2>1, <2>2, <5>1
        <4>2. \/ Cardinality(InPhase(ph, "active")) + 1 >= Capacity
              \/ \E x \in Items : InPhase(ph, "pending") \subseteq {x}
          BY <2>1, <3>2
        <4>3. priority \in [Items -> Priorities]
          BY <1>0 DEF TypeOK
        <4>4. QED
          BY <3>1, <4>1, <4>2, <4>3 DEF HandlerState
    <2>4. /\ Drain(ph, priority, Forget(i), working \ {i})
          /\ aged' \in [Items -> BOOLEAN] /\ aborted' \subseteq Items
      BY <1>0, <1>4 DEF Settle, TypeOK
    <2>5. QED
      BY <1>0, <2>3, <2>4, DrainRestores
  <1>5. ASSUME NEW i \in Items, CancelPending(i) PROVE IInv'
    <2>1. InPhase(phase', "active") = act /\ InPhase(phase', "pending") \subseteq pend
      BY <1>0, <1>5 DEF CancelPending, InPhase, TypeOK
    <2>2. TypeOK'
      BY <1>0, <1>5 DEF CancelPending, TypeOK, Forget, Notify
    <2>3. Accounting' /\ WorkConserving'
      BY <1>0, <1>5, <2>1 DEF CancelPending, Accounting, ActiveCount, WorkConserving, InPhase
    <2>4. NoLostWakeup'
      BY <1>0, <1>5 DEF CancelPending, NoLostWakeup, Notify, TypeOK
    <2>5. QED
      BY <2>2, <2>3, <2>4 DEF IInv
  <1>6. ASSUME NEW i \in Items, CancelActive(i) \/ Age(i) PROVE IInv'
    <2>1. /\ phase' = phase /\ priority' = priority /\ ahead' = ahead /\ working' = working
          /\ consecutiveLookahead' = consecutiveLookahead /\ producer' = producer
          /\ aged' \in [Items -> BOOLEAN] /\ aborted' \subseteq Items
      BY <1>0, <1>6 DEF CancelActive, Age, TypeOK
    <2>2. TypeOK'
      BY <1>0, <2>1 DEF TypeOK
    <2>3. Accounting' /\ WorkConserving' /\ NoLostWakeup'
      BY <2>1 DEF IInv, Accounting, ActiveCount, WorkConserving, NoLostWakeup,
                  InPhase, HasForegroundWork
    <2>4. QED
      BY <2>2, <2>3 DEF IInv
  <1>7. ASSUME NEW p \in Producers, WaitForBackgroundTurn(p) PROVE IInv'
    BY <1>7 DEF IInv, WaitForBackgroundTurn, TypeOK, Accounting, ActiveCount,
                WorkConserving, NoLostWakeup, InPhase, HasForegroundWork
  <1>8. CASE UNCHANGED vars
    BY <1>8 DEF vars, IInv, TypeOK, Accounting, ActiveCount,
                WorkConserving, NoLostWakeup, InPhase, HasForegroundWork
  <1>9. QED
    BY <1>1, <1>2, <1>3, <1>4, <1>5, <1>6, <1>7, <1>8 DEF Next

(* The inductive invariant holds in every reachable state.                 *)
LEMMA SpecIInv == Spec => []IInv
  BY InitIInv, NextIInv, PTL DEF Spec

(* Every variable of the scheduler keeps its type.                         *)
THEOREM SchedulerTypeOK == Spec => []TypeOK
  <1>1. IInv => TypeOK
    BY DEF IInv
  <1>2. QED
    BY <1>1, SpecIInv, PTL

(* Executing renders never exceed the capacity of the resource, those      *)
(* already cancelled but not yet stopped included.                         *)
THEOREM CapacityRespected == Spec => []WorkBounded
  <1>1. IInv => WorkBounded
    BY DEF IInv, Accounting, ActiveCount, WorkBounded
  <1>2. QED
    BY <1>1, SpecIInv, PTL

(* The scheduler never leaves capacity idle while work is pending, so the  *)
(* single admission per handler is all that the loop of _drain ever does.  *)
THEOREM CapacityUsed == Spec => []WorkConserving
  <1>1. IInv => WorkConserving
    BY DEF IInv
  <1>2. QED
    BY <1>1, SpecIInv, PTL

(* No background producer stays parked when no live work is left.          *)
THEOREM WakeupsDelivered == Spec => []NoLostWakeup
  <1>1. IInv => NoLostWakeup
    BY DEF IInv
  <1>2. QED
    BY <1>1, SpecIInv, PTL

(* Both together: every step that frees a slot or ends the last live work  *)
(* admits or wakes whoever waited for it.                                  *)
THEOREM WaitsHaveReasons == Spec => []NobodyWaitsInVain
  <1>1. WorkConserving /\ NoLostWakeup => NobodyWaitsInVain
    BY DEF NobodyWaitsInVain
  <1>2. QED
    BY <1>1, CapacityUsed, WakeupsDelivered, PTL

(* What a drain starts is the oldest of its priority, and live playback    *)
(* unless none of it waits.                                                *)
LEMMA DrainInOrder ==
  ASSUME NEW ph \in [Items -> {"idle", "pending", "active"}], NEW pr, NEW ah,
         NEW running \in SUBSET working, Drain(ph, pr, ah, running)
  PROVE  StartsInOrder
<1> SUFFICES ASSUME NEW i \in Items, i \notin working, i \in working'
             PROVE  /\ priority'[i] \notin Strict => Waiting(phase', priority', Strict) = {}
                    /\ \A j \in Items : (phase'[j] = "pending" /\ priority'[j] = priority'[i])
                                          => j \notin ahead'[i]
  BY DEF StartsInOrder
<1>1. priority' = pr /\ ahead' = ah
  BY DEF Drain
<1>2. i \in TakeNext(ph, pr, ah) /\ phase' = [ph EXCEPT ![i] = "active"]
  BY DEF Drain
<1>3. \A j \in Items : phase'[j] = "pending" => ph[j] = "pending"
  BY <1>2
<1>4. ASSUME pr[i] \notin Strict PROVE Waiting(phase', pr, Strict) = {}
  <2>1. Waiting(ph, pr, Strict) = {}
    BY <1>2, <1>4 DEF TakeNext
  <2> QED BY <1>3, <2>1 DEF Waiting, InPhase
<1>5. ASSUME NEW j \in Items, phase'[j] = "pending", pr[j] = pr[i]
      PROVE  j \notin ah[i]
  <2>1. ah[i] \intersect Waiting(ph, pr, {pr[i]}) = {}
    BY <1>2 DEF TakeNext, FirstOf
  <2> QED BY <1>3, <1>5, <2>1 DEF Waiting, InPhase
<1> QED BY <1>1, <1>4, <1>5

LEMMA StepInOrder == IInv /\ [Next]_vars => StartsInOrder
<1> SUFFICES ASSUME IInv, [Next]_vars PROVE StartsInOrder
  OBVIOUS
<1>1. phase \in [Items -> {"idle", "pending", "active"}]
  BY DEF IInv, TypeOK
<1>2. CASE working' \subseteq working
  BY <1>2 DEF StartsInOrder
<1>3. ASSUME NEW i \in Items, NEW p \in UsedPriorities, Run(i, p) PROVE StartsInOrder
  BY <1>1, <1>3, DrainInOrder DEF Run
<1>4. ASSUME NEW i \in Items, NEW p \in UsedPriorities, Promote(i, p) \/ Reprioritize(i, p)
      PROVE  StartsInOrder
  BY <1>1, <1>4, DrainInOrder DEF Promote, Reprioritize
<1>5. ASSUME NEW i \in Items, Settle(i) PROVE StartsInOrder
  BY <1>1, <1>5, DrainInOrder DEF Settle
<1>6. ASSUME NEW i \in Items, CancelPending(i) \/ CancelActive(i) \/ Age(i) PROVE working' = working
  BY <1>6 DEF CancelPending, CancelActive, Age
<1>7. ASSUME NEW p \in Producers, WaitForBackgroundTurn(p) PROVE working' = working
  BY <1>7 DEF WaitForBackgroundTurn
<1>8. UNCHANGED vars => working' = working
  BY DEF vars
<1> QED BY <1>2, <1>3, <1>4, <1>5, <1>6, <1>7, <1>8 DEF Next

(* Live playback is never admitted behind speculative work, and work of a  *)
(* priority starts in the order in which it came, whatever is promoted,    *)
(* cancelled or reprioritized in between.                                  *)
THEOREM LivePlaybackStartsFirst == Spec => LivePlaybackFirst
  BY StepInOrder, SpecIInv, PTL DEF Spec, LivePlaybackFirst
=============================================================================
