----------------------- MODULE AdmissionControl_proofs ----------------------
(***************************************************************************)
(* Proofs about AdmissionControl for any set of threads and teams, any     *)
(* capacity and any quantum.                                               *)
(*                                                                         *)
(* The inductive invariant IInv joins the counter to the guards, bounds    *)
(* the deficit on both sides and says that a team with no slot taken owes  *)
(* nothing.  The last conjunct is what the fairness check needs, and it is *)
(* inductive only because the deficit never falls below minus one quantum, *)
(* so that a single release repays it whole.                               *)
(***************************************************************************)
EXTENDS AdmissionControl, FiniteSetTheorems, TLAPS

\* A team without a slot has no negative deficit.
IdleHasCredit ==
    \A t \in Teams : inflight[t] = 0 => deficit[t] >= 0

\* The counter never exceeds the capacity (when there is any).
WithinCapacity ==
    \A t \in Teams : inflight[t] > 0 => inflight[t] <= MaxPerTeam

IInv ==
    /\ TypeOK
    /\ InflightMatchesGuards
    /\ IdleHasCredit
    /\ WithinCapacity

-----------------------------------------------------------------------------
\* The set of guards of a team is finite, as there are finitely many threads.
LEMMA HoldersFinite ==
    ASSUME NEW t \in Teams
    PROVE  /\ IsFiniteSet(Holders(t))
           /\ Cardinality(Holders(t)) \in Nat
           /\ Cardinality(Holders(t)) = 0 <=> Holders(t) = {}
<1>1. Holders(t) \in SUBSET Threads
    BY DEF Holders
<1>2. IsFiniteSet(Holders(t))
    BY <1>1, ThreadsAssumption, FS_Subset
<1> QED
    BY <1>2, FS_CardinalityType, FS_EmptySet

\* What the constructor does to the sets of guards.
LEMMA AdmitHolders ==
    ASSUME TypeOK, NEW h \in Threads, NEW t \in Teams, NEW u \in Teams,
           Admit(h, t)
    PROVE  IF u = t THEN h \notin Holders(u) /\ Holders(u)' = Holders(u) \cup {h}
                    ELSE Holders(u)' = Holders(u)
<1>1. /\ guard \in [Threads -> Guards]
      /\ guard[h] = NoGuard
      /\ guard' = [guard EXCEPT ![h] = [team |-> t, acquired |-> TRUE]]
    BY DEF TypeOK, Admit
<1>2. NoGuard # [team |-> u, acquired |-> TRUE]
    BY DEF NoGuard
<1>3. [team |-> t, acquired |-> TRUE] = [team |-> u, acquired |-> TRUE]
        <=> u = t
  <2>1. /\ [team |-> t, acquired |-> TRUE].team = t
        /\ [team |-> u, acquired |-> TRUE].team = u
      OBVIOUS
  <2> QED
      BY <2>1
<1> DEFINE G(v) == [team |-> v, acquired |-> TRUE]
<1>4. \A g \in Threads : guard'[g] = IF g = h THEN G(t) ELSE guard[g]
    BY <1>1
<1> HIDE DEF G
<1>5. CASE u = t
  <2>1. h \notin Holders(u)
      BY <1>1, <1>2 DEF Holders
  <2>2. \A g \in Threads : guard'[g] = G(u) <=> (g = h \/ guard[g] = G(u))
      BY <1>4, <1>5
  <2> QED
      BY <1>5, <2>1, <2>2 DEF Holders, G
<1>6. CASE u # t
  <2>1. G(t) # G(u) /\ guard[h] # G(u)
      BY <1>1, <1>2, <1>3, <1>6 DEF G
  <2>2. \A g \in Threads : guard'[g] = G(u) <=> guard[g] = G(u)
      BY <1>4, <2>1
  <2> QED
      BY <1>6, <2>2 DEF Holders, G
<1> QED
    BY <1>5, <1>6

\* What the destructor does to the sets of guards.
LEMMA DestroyHolders ==
    ASSUME TypeOK, NEW h \in Threads, NEW u \in Teams, Destroy(h)
    PROVE  /\ guard[h] = [team |-> u, acquired |-> TRUE] =>
                 h \in Holders(u) /\ Holders(u)' = Holders(u) \ {h}
           /\ guard[h] # [team |-> u, acquired |-> TRUE] =>
                 Holders(u)' = Holders(u)
<1>1. /\ guard \in [Threads -> Guards]
      /\ guard' = [guard EXCEPT ![h] = NoGuard]
    BY DEF TypeOK, Destroy
<1> QED
    BY <1>1 DEF Holders, NoGuard

\* The two arithmetic facts about the deficit.
LEMMA ChargedBounds ==
    ASSUME NEW d \in -QUANTUM .. 3 * QUANTUM
    PROVE  Charged(d) \in -QUANTUM .. 3 * QUANTUM
    BY QuantumAssumption DEF Charged

\* A credit keeps the deficit in range, and pays any debt back.
LEMMA CreditedBounds ==
    ASSUME NEW d \in -QUANTUM .. 3 * QUANTUM
    PROVE  Credited(d) \in 0 .. 3 * QUANTUM
    BY QuantumAssumption DEF Credited

-----------------------------------------------------------------------------
\* The invariant holds of a new scheduler.
LEMMA InitIInv == Init => IInv
<1> SUFFICES ASSUME Init PROVE IInv
    OBVIOUS
<1> USE DEF Init, SchedInit
<1>1. TypeOK
    BY QuantumAssumption DEF TypeOK, Guards, NoGuard
<1>2. InflightMatchesGuards
  <2> SUFFICES ASSUME NEW t \in Teams
               PROVE  inflight[t] = Cardinality(Holders(t))
      BY DEF InflightMatchesGuards
  <2>1. Holders(t) = {}
      BY DEF Holders, NoGuard
  <2> QED
      BY <2>1, FS_EmptySet
<1>3. IdleHasCredit /\ WithinCapacity
    BY DEF IdleHasCredit, WithinCapacity
<1> QED
    BY <1>1, <1>2, <1>3 DEF IInv

\* An acquisition preserves it: the counter and the holders grow by one.
LEMMA AdmitIInv ==
    ASSUME IInv, NEW h \in Threads, NEW t \in Teams, Admit(h, t)
    PROVE  IInv'
<1> USE DEF IInv
<1>1. /\ inflight'   = [inflight EXCEPT ![t] = @ + 1]
      /\ deficit'    = [deficit EXCEPT ![t] = Charged(@)]
      /\ lastServed' = t
      /\ guard' = [guard EXCEPT ![h] = [team |-> t, acquired |-> TRUE]]
      /\ ~(inflight[t] >= MaxPerTeam)
    BY DEF Admit, TryAcquire, CanAcquire, AtCapacity
<1>2. TypeOK'
    BY <1>1, ChargedBounds DEF TypeOK, Guards
<1>3. InflightMatchesGuards'
  <2> SUFFICES ASSUME NEW u \in Teams
               PROVE  inflight'[u] = Cardinality(Holders(u)')
      BY DEF InflightMatchesGuards
  <2>1. CASE u = t
    <3>1. Cardinality(Holders(u)') = Cardinality(Holders(u)) + 1
        BY <2>1, AdmitHolders, HoldersFinite, FS_AddElement
    <3> QED
        BY <1>1, <2>1, <3>1 DEF TypeOK, InflightMatchesGuards
  <2>2. CASE u # t
      BY <1>1, <2>2, AdmitHolders DEF TypeOK, InflightMatchesGuards
  <2> QED
      BY <2>1, <2>2
<1>4. \A u \in Teams : inflight[u] \in Nat
    BY HoldersFinite DEF InflightMatchesGuards
<1>5. IdleHasCredit'
    BY <1>1, <1>4 DEF TypeOK, IdleHasCredit
<1>6. WithinCapacity'
    BY <1>1, MaxAssumption DEF TypeOK, WithinCapacity
<1> QED
    BY <1>2, <1>3, <1>5, <1>6

\* The destructor preserves it: a guard that acquired gives back its slot.
LEMMA DestroyIInv ==
    ASSUME IInv, NEW h \in Threads, Destroy(h)
    PROVE  IInv'
<1> USE DEF IInv
<1>1. guard[h] \in Guards /\ guard[h] # NoGuard
    BY DEF TypeOK, Destroy
<1>2. guard' = [guard EXCEPT ![h] = NoGuard]
    BY DEF Destroy
<1>3. CASE guard[h].acquired
  <2>1. PICK t \in Teams : guard[h] = [team |-> t, acquired |-> TRUE]
      BY <1>1, <1>3 DEF Guards, NoGuard
  <2>2. /\ inflight' = [inflight EXCEPT ![t] = IF @ > 0 THEN @ - 1 ELSE @]
        /\ deficit'  = [deficit EXCEPT ![t] = Credited(@)]
        /\ lastServed' = lastServed
      BY <2>1 DEF Destroy, Release
  <2>3. /\ Cardinality(Holders(t)) \in Nat \ {0}
        /\ Cardinality(Holders(t)') = Cardinality(Holders(t)) - 1
    <3>1. h \in Holders(t) /\ Holders(t)' = Holders(t) \ {h}
        BY <2>1, DestroyHolders
    <3>2. /\ IsFiniteSet(Holders(t))
          /\ Cardinality(Holders(t)) \in Nat
          /\ Cardinality(Holders(t)) = 0 <=> Holders(t) = {}
        BY <2>1, HoldersFinite
    <3>3. Cardinality(Holders(t) \ {h}) = Cardinality(Holders(t)) - 1
        BY <3>1, <3>2, FS_RemoveElement
    <3> QED
        BY <3>1, <3>2, <3>3
  <2>4. TypeOK'
      BY <1>2, <2>1, <2>2, CreditedBounds, QuantumAssumption
      DEF TypeOK, Guards
  <2>5. InflightMatchesGuards'
    <3> SUFFICES ASSUME NEW u \in Teams
                 PROVE  inflight'[u] = Cardinality(Holders(u)')
        BY DEF InflightMatchesGuards
    <3>1. inflight[u] = Cardinality(Holders(u))
        BY DEF InflightMatchesGuards
    <3>2. CASE u = t
        BY <2>1, <2>2, <2>3, <3>1, <3>2 DEF TypeOK
    <3>3. CASE u # t
      <4>1. guard[h] # [team |-> u, acquired |-> TRUE]
        <5>1. /\ [team |-> u, acquired |-> TRUE].team = u
              /\ [team |-> t, acquired |-> TRUE].team = t
            OBVIOUS
        <5> QED
            BY <2>1, <3>3, <5>1
      <4>2. Holders(u)' = Holders(u)
          BY <4>1, DestroyHolders
      <4> QED
          BY <2>1, <2>2, <3>1, <3>3, <4>2 DEF TypeOK
    <3> QED
        BY <3>2, <3>3
  <2>6. deficit'[t] >= 0
      BY <2>1, <2>2, CreditedBounds, QuantumAssumption DEF TypeOK
  <2>7. IdleHasCredit'
      BY <2>1, <2>2, <2>6 DEF TypeOK, IdleHasCredit
  <2>8. WithinCapacity'
      BY <2>1, <2>2, MaxAssumption DEF TypeOK, WithinCapacity
  <2> QED
      BY <2>4, <2>5, <2>7, <2>8
<1>4. CASE ~guard[h].acquired
  <2>1. UNCHANGED sched
      BY <1>4 DEF Destroy
  <2>2. \A u \in Teams : Holders(u)' = Holders(u)
    <3>1. ASSUME NEW u \in Teams
          PROVE  guard[h] # [team |-> u, acquired |-> TRUE]
        BY <1>4
    <3> QED
        BY <3>1, DestroyHolders
  <2>3. TypeOK'
      BY <1>2, <2>1 DEF TypeOK, sched, Guards
  <2>4. InflightMatchesGuards'
      BY <2>1, <2>2 DEF sched, InflightMatchesGuards
  <2>5. IdleHasCredit' /\ WithinCapacity'
      BY <2>1 DEF sched, IdleHasCredit, WithinCapacity
  <2> QED
      BY <2>3, <2>4, <2>5
<1> QED
    BY <1>3, <1>4

\* A refusal preserves it: the guard it leaves holds nothing.
LEMMA RefuseIInv ==
    ASSUME IInv, NEW h \in Threads, NEW t \in Teams, Refuse(h, t)
    PROVE  IInv'
<1> USE DEF IInv
<1>1. /\ UNCHANGED sched
      /\ guard[h] = NoGuard
      /\ guard' = [guard EXCEPT ![h] = [team |-> t, acquired |-> FALSE]]
    BY DEF Refuse
<1>2. \A u \in Teams : Holders(u)' = Holders(u)
    BY <1>1 DEF TypeOK, Holders, NoGuard
<1>3. TypeOK'
    BY <1>1 DEF TypeOK, sched, Guards
<1>4. InflightMatchesGuards'
    BY <1>1, <1>2 DEF sched, InflightMatchesGuards
<1>5. IdleHasCredit' /\ WithinCapacity'
    BY <1>1 DEF sched, IdleHasCredit, WithinCapacity
<1> QED
    BY <1>3, <1>4, <1>5

\* A new process starts from it.
LEMMA RestartIInv ==
    ASSUME Restart
    PROVE  IInv'
<1> USE DEF Restart, SchedReset
<1>1. TypeOK'
    BY QuantumAssumption DEF TypeOK, Guards, NoGuard
<1>2. \A t \in Teams : Holders(t)' = {}
    BY DEF Holders, NoGuard
<1>3. InflightMatchesGuards'
    BY <1>2, FS_EmptySet DEF InflightMatchesGuards
<1>4. IdleHasCredit' /\ WithinCapacity'
    BY DEF IdleHasCredit, WithinCapacity
<1> QED
    BY <1>1, <1>3, <1>4 DEF IInv

\* Every step preserves the inductive invariant.
LEMMA NextIInv == IInv /\ [Next]_vars => IInv'
<1> SUFFICES ASSUME IInv, [Next]_vars PROVE IInv'
    OBVIOUS
<1>1. ASSUME NEW h \in Threads, NEW t \in Teams, Admit(h, t) PROVE IInv'
    BY <1>1, AdmitIInv
<1>2. ASSUME NEW h \in Threads, NEW t \in Teams, Refuse(h, t) PROVE IInv'
    BY <1>2, RefuseIInv
<1>3. ASSUME NEW h \in Threads, Destroy(h) PROVE IInv'
    BY <1>3, DestroyIInv
<1>4. CASE Restart
    BY <1>4, RestartIInv
<1>5. CASE UNCHANGED vars
  <2>1. /\ inflight' = inflight /\ deficit' = deficit
        /\ lastServed' = lastServed /\ guard' = guard
      BY <1>5 DEF vars
  <2>2. \A t \in Teams : Holders(t)' = Holders(t)
      BY <2>1 DEF Holders
  <2> QED
      BY <2>1, <2>2
      DEF IInv, TypeOK, InflightMatchesGuards, IdleHasCredit, WithinCapacity
<1> QED
    BY <1>1, <1>2, <1>3, <1>4, <1>5 DEF Next

\* The inductive invariant holds in every reachable state of the scheduler.
THEOREM Invariance == Spec => []IInv
    BY InitIInv, NextIInv, PTL DEF Spec

-----------------------------------------------------------------------------
(***************************************************************************)
(* The properties, from the invariant.                                     *)
(***************************************************************************)
\* Type correctness, with the bounds of the deficit counter.
THEOREM TypeCorrect == Spec => []TypeOK
<1>1. IInv => TypeOK
    BY DEF IInv
<1> QED
    BY <1>1, Invariance, PTL

\* The slot counter of admission_control.cc is exactly the number of guards
\* alive, so no slot is ever leaked or released twice.
THEOREM NoSlotLost == Spec => []InflightMatchesGuards
<1>1. IInv => InflightMatchesGuards
    BY DEF IInv
<1> QED
    BY <1>1, Invariance, PTL

\* A team never has more calls in progress than its share.
THEOREM CapacityHolds == Spec => []CapacityRespected
<1>1. IInv => CapacityRespected
  <2> SUFFICES ASSUME IInv, NEW t \in Teams, Holders(t) # {}
               PROVE  Cardinality(Holders(t)) <= MaxPerTeam
      BY DEF CapacityRespected
  <2> QED
      BY HoldersFinite DEF IInv, InflightMatchesGuards, WithinCapacity
<1> QED
    BY <1>1, Invariance, PTL

\* A team with nothing in progress is always admitted.
THEOREM IdleNeverRefused == Spec => []IdleTeamAdmitted
<1>1. IInv => IdleTeamAdmitted
  <2> SUFFICES ASSUME IInv, MaxPerTeam > 0,
                      NEW t \in Teams, Holders(t) = {}
               PROVE  CanAcquire(t)
      BY DEF IdleTeamAdmitted
  <2>1. inflight[t] = 0
      BY HoldersFinite DEF IInv, InflightMatchesGuards
  <2>2. deficit[t] \in Int /\ deficit[t] >= 0
      BY <2>1 DEF IInv, IdleHasCredit, TypeOK
  <2> QED
      BY <2>1, <2>2, MaxAssumption
      DEF CanAcquire, AtCapacity, OutOfCredit
<1> QED
    BY <1>1, Invariance, PTL

\* Every release re-opens its team.
THEOREM ReleaseReopens == Spec => ReleaseReadmits
<1> DEFINE Reopens == \A h \in Threads, t \in Teams :
             (h \in Holders(t) /\ h \notin Holders(t)' /\ MaxPerTeam > 0)
                => CanAcquire(t)'
<1>1. IInv /\ [Next]_vars => [Reopens]_vars
  <2> SUFFICES ASSUME IInv, Next, MaxPerTeam > 0,
                      NEW h \in Threads, NEW t \in Teams,
                      h \in Holders(t), h \notin Holders(t)'
               PROVE  CanAcquire(t)'
      BY DEF vars
  <2>1. ASSUME NEW g \in Threads, NEW u \in Teams, Admit(g, u)
        PROVE  FALSE
      BY <2>1, AdmitHolders DEF IInv
  <2>2. ASSUME NEW g \in Threads, NEW u \in Teams, Refuse(g, u)
        PROVE  FALSE
    <3>1. h = g
        BY <2>2 DEF IInv, TypeOK, Refuse, Holders
    <3>2. NoGuard.acquired = FALSE /\ [team |-> t, acquired |-> TRUE].acquired
        BY DEF NoGuard
    <3> QED
        BY <2>2, <3>1, <3>2 DEF Refuse, Holders
  <2>3. ASSUME NEW g \in Threads, Destroy(g) PROVE CanAcquire(t)'
    <3>1. guard[g] = [team |-> t, acquired |-> TRUE]
        BY <2>3, DestroyHolders DEF IInv
    <3>2. /\ inflight' = [inflight EXCEPT ![t] = IF @ > 0 THEN @ - 1 ELSE @]
          /\ deficit'  = [deficit EXCEPT ![t] = Credited(@)]
        BY <2>3, <3>1 DEF Destroy, Release
    <3>3. inflight[t] \in Int /\ inflight[t] > 0 /\ inflight[t] <= MaxPerTeam
      <4>1. Cardinality(Holders(t)) \in Nat /\ Cardinality(Holders(t)) # 0
          BY HoldersFinite
      <4> QED
          BY <4>1 DEF IInv, InflightMatchesGuards, WithinCapacity
    <3>4. deficit'[t] \in Int /\ deficit'[t] >= 0
        BY <3>2, CreditedBounds, QuantumAssumption DEF IInv, TypeOK
    <3>5. inflight'[t] = inflight[t] - 1
        BY <3>2, <3>3 DEF IInv, TypeOK
    <3> QED
        BY <3>3, <3>4, <3>5, MaxAssumption
        DEF CanAcquire, AtCapacity, OutOfCredit
  <2>4. CASE Restart
      BY <2>4, MaxAssumption
      DEF Restart, SchedReset, CanAcquire, AtCapacity, OutOfCredit
  <2> QED
      BY <2>1, <2>2, <2>3, <2>4 DEF Next
<1> QED
    BY <1>1, Invariance, PTL DEF Spec, ReleaseReadmits
=============================================================================
