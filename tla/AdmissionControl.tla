-------------------------- MODULE AdmissionControl --------------------------
(***************************************************************************)
(* The admission control of leader A: FairScheduler, a Deficit Round Robin *)
(* counter per team, and AdmissionGuard, the RAII object with which a      *)
(* handler thread takes a slot for the duration of one neighbour call.     *)
(*                                                                         *)
(* Every method of FairScheduler runs under its mutex, so one method call  *)
(* is one step.  The two std::maps give 0 for a team never seen, hence     *)
(* total functions.                                                        *)
(*                                                                         *)
(* A definition marked "Fault" is not part of the model: it is a bug the   *)
(* code could have had, and one of the properties fails with it.           *)
(***************************************************************************)
EXTENDS Integers, FiniteSets

CONSTANTS
    Threads,     \* handler threads of the process (gRPC server threads)
    Teams,       \* team names passed to the scheduler: "GREEN", "PINK"
    NoTeam,      \* the empty string last_served_ starts with
    MaxPerTeam,  \* max_inflight / 2, the constructor argument
    QUANTUM      \* 5 in the code

ASSUME ThreadsAssumption == IsFiniteSet(Threads)
ASSUME NoTeamAssumption  == NoTeam \notin Teams
ASSUME MaxAssumption     == MaxPerTeam \in Int
ASSUME QuantumAssumption == QUANTUM \in Nat \ {0}

VARIABLES
    inflight,    \* inflight_: team -> slots taken
    deficit,     \* deficit_: team -> DRR deficit counter
    lastServed,  \* last_served_
    guard        \* thread -> the AdmissionGuard alive in it, if any

sched == <<inflight, deficit, lastServed>>
vars  == <<inflight, deficit, lastServed, guard>>

\* A thread has at most one guard: the two guards of InitQueryLeader live in
\* two blocks, one after the other.
NoGuard == [team |-> NoTeam, acquired |-> FALSE]
Guards  == [team : Teams, acquired : BOOLEAN] \cup {NoGuard}

Holders(t) == {h \in Threads : guard[h] = [team |-> t, acquired |-> TRUE]}

-----------------------------------------------------------------------------
(***************************************************************************)
(* FairScheduler                                                           *)
(***************************************************************************)
SchedInit ==
    /\ inflight   = [t \in Teams |-> 0]
    /\ deficit    = [t \in Teams |-> 0]
    /\ lastServed = NoTeam

\* A new process constructs a new scheduler.
SchedReset ==
    /\ inflight'   = [t \in Teams |-> 0]
    /\ deficit'    = [t \in Teams |-> 0]
    /\ lastServed' = NoTeam

\* Fault: the capacity is compared with > instead of >=.
AtCapacityOffByOne(t) == inflight[t] > MaxPerTeam

\* The two early returns of TryAcquire.
AtCapacity(t)   == inflight[t] >= MaxPerTeam
OutOfCredit(t)  == lastServed = t /\ deficit[t] < 0
CanAcquire(t)   == ~AtCapacity(t) /\ ~OutOfCredit(t)

\* Fault: the deficit is reset one step too late.
ChargedLate(d) == IF d - 1 < -QUANTUM - 1 THEN 0 ELSE d - 1

\* The deficit after one acquisition: decremented, and reset once it falls
\* below minus one quantum.
Charged(d) == IF d - 1 < -QUANTUM THEN 0 ELSE d - 1

\* Faults: no credit at all; a credit one unit short of a quantum.
CreditedNothing(d) == d
CreditedShort(d) == IF d + QUANTUM - 1 > QUANTUM * 3 THEN QUANTUM * 3
                    ELSE d + QUANTUM - 1

\* The deficit after one release: one quantum more, capped at three.
Credited(d) == IF d + QUANTUM > QUANTUM * 3 THEN QUANTUM * 3 ELSE d + QUANTUM

\* TryAcquire(team) returning true.
TryAcquire(t) ==
    /\ CanAcquire(t)
    /\ inflight'   = [inflight EXCEPT ![t] = @ + 1]
    /\ deficit'    = [deficit EXCEPT ![t] = Charged(@)]
    /\ lastServed' = t

\* Release(team).
Release(t) ==
    /\ inflight' = [inflight EXCEPT ![t] = IF @ > 0 THEN @ - 1 ELSE @]
    /\ deficit'  = [deficit EXCEPT ![t] = Credited(@)]
    /\ UNCHANGED lastServed

-----------------------------------------------------------------------------
(***************************************************************************)
(* AdmissionGuard                                                          *)
(***************************************************************************)
Init ==
    /\ SchedInit
    /\ guard = [h \in Threads |-> NoGuard]

\* The constructor, when TryAcquire returns true.
Admit(h, t) ==
    /\ guard[h] = NoGuard
    /\ TryAcquire(t)
    /\ guard' = [guard EXCEPT ![h] = [team |-> t, acquired |-> TRUE]]

\* The constructor, when TryAcquire returns false.
Refuse(h, t) ==
    /\ guard[h] = NoGuard
    /\ ~CanAcquire(t)
    /\ guard' = [guard EXCEPT ![h] = [team |-> t, acquired |-> FALSE]]
    /\ UNCHANGED sched

\* Fault: the destructor releases although nothing was acquired.
DestroyAlways(h) ==
    /\ guard[h] # NoGuard
    /\ Release(guard[h].team)
    /\ guard' = [guard EXCEPT ![h] = NoGuard]

\* The destructor: it releases only what the constructor acquired.
Destroy(h) ==
    /\ guard[h] # NoGuard
    /\ IF guard[h].acquired THEN Release(guard[h].team) ELSE UNCHANGED sched
    /\ guard' = [guard EXCEPT ![h] = NoGuard]

\* The process dies and is started again: nothing here is persistent.
Restart ==
    /\ SchedReset
    /\ guard' = [h \in Threads |-> NoGuard]

Next ==
    \/ \E h \in Threads, t \in Teams : Admit(h, t) \/ Refuse(h, t)
    \/ \E h \in Threads : Destroy(h)
    \/ Restart

Spec == Init /\ [][Next]_vars

\* A guard is destroyed when its block is left, and the call inside the block
\* returns by its deadline.
FairSpec == Spec /\ \A h \in Threads : WF_vars(Destroy(h))

-----------------------------------------------------------------------------
(***************************************************************************)
(* Properties                                                              *)
(***************************************************************************)
TypeOK ==
    /\ inflight \in [Teams -> Int]
    /\ deficit \in [Teams -> -QUANTUM .. 3 * QUANTUM]
    /\ lastServed \in Teams \cup {NoTeam}
    /\ guard \in [Threads -> Guards]

\* The counter is the number of guards alive: no path through the two maps,
\* the guarded decrement and the destructors loses or invents a slot.
InflightMatchesGuards ==
    \A t \in Teams : inflight[t] = Cardinality(Holders(t))

\* No team has more calls in progress than its share of the capacity.
CapacityRespected ==
    \A t \in Teams : Holders(t) # {} => Cardinality(Holders(t)) <= MaxPerTeam

\* The fairness check never turns away a team that has nothing in progress:
\* its deficit was paid back by the releases.  Without this a team could be
\* refused for ever, as only its own releases restore its credit.
IdleTeamAdmitted ==
    MaxPerTeam > 0 => \A t \in Teams : Holders(t) = {} => CanAcquire(t)

\* Every release makes its team admissible at once, whatever the deficit was.
ReleaseReadmits ==
    [][\A h \in Threads, t \in Teams :
          (h \in Holders(t) /\ h \notin Holders(t)' /\ MaxPerTeam > 0)
              => CanAcquire(t)']_vars

\* A refusal is never final: every team becomes admissible again and again.
AlwaysReadmitted ==
    \A t \in Teams : []<>CanAcquire(t)
=============================================================================
