---------------------------- MODULE LeaderProofs -----------------------------
(***************************************************************************)
(* Proofs about the leader lease, for any number of replicas, any ttl and  *)
(* any bound on the duration of an attempt.                                *)
(***************************************************************************)
EXTENDS Leader, TLAPS

USE LeaderAssumption

\* Every step keeps the types
LEMMA TypeStep ==
  ASSUME TypeOK, [Next]_vars
  PROVE  TypeOK'
<1>1. ASSUME NEW r \in Replica, Start(r) \/ Stop(r) \/ LoopEnds(r) \/ Crash(r) PROVE TypeOK'
  BY <1>1 DEF TypeOK, Start, Stop, LoopEnds, Crash, row, attempt, gate
<1>2. ASSUME NEW r \in Replica, ReadClock(r) \/ AttemptFails(r) PROVE TypeOK'
  BY <1>2 DEF TypeOK, ReadClock, AttemptFails, row, gate
<1>3. ASSUME NEW r \in Replica, Upsert(r) \/ Release(r) PROVE TypeOK'
  BY <1>3 DEF TypeOK, Upsert, Release, row, attempt, gate
<1>4. ASSUME NEW r \in Replica, ReadBack(r) PROVE TypeOK'
  BY <1>4 DEF TypeOK, ReadBack, row, gate
<1>5. ASSUME NEW r \in Replica, Record(r) PROVE TypeOK'
  BY <1>5 DEF TypeOK, Record, FreshFor, row
<1>6. CASE Tick
  BY <1>6 DEF TypeOK, Tick, Later, Floor
<1>7. CASE UNCHANGED vars
  BY <1>7 DEF TypeOK, vars, row, attempt, gate
<1>. QED BY <1>1, <1>2, <1>3, <1>4, <1>5, <1>6, <1>7 DEF Next

\* Only a replica whose loop runs has an attempt under way, and only one that was
\* started ever held the lease
LoopsRunAttempts ==
  \A r \in Replica :
    /\ pc[r] # "idle" => Alive(r)
    /\ life[r] = "none" => ~held[r]

\* The gate's clock runs at most the attempt and a second behind the lease
GateClock ==
  \A r \in Replica :
    (held[r] /\ fresh[r] > 0) => fresh[r] <= leaseLeft[r] + MaxLag + Second - 1

\* A reading is not older than the second the database is in, and no lease was
\* confirmed with a later reading than the next attempt's
Readings ==
  \A r \in Replica :
    /\ leaseLeft[r] <= TTL - sub
    /\ pc[r] # "idle" => cut[r] + age[r] >= sub
    /\ pc[r] = "upsert" => leaseLeft[r] <= TTL - cut[r] - age[r]

\* A lease that has not run out is the row's: the confirmed one, the one read back
\* and the one written
Leases ==
  \A r \in Replica :
    /\ (Alive(r) /\ held[r] /\ leaseLeft[r] > 0) => (holder = r /\ rowLeft >= leaseLeft[r])
    /\ (pc[r] = "readback" /\ holder = r) => rowLeft >= TTL - cut[r] - age[r]
    /\ (pc[r] = "record" /\ won[r] /\ TTL - cut[r] - age[r] > 0) =>
         (holder = r /\ rowLeft >= TTL - cut[r] - age[r])

IInv == TypeOK /\ LoopsRunAttempts /\ GateClock /\ Readings /\ Leases

-----------------------------------------------------------------------------
(* The steps *)

\* Attempts belong to loops that run
LEMMA LoopsStep ==
  ASSUME IInv, [Next]_vars
  PROVE  LoopsRunAttempts'
<1>. USE DEF IInv, LoopsRunAttempts, Alive
<1>1. ASSUME NEW r \in Replica, Start(r) \/ Stop(r) \/ LoopEnds(r) \/ Crash(r) PROVE LoopsRunAttempts'
  BY <1>1 DEF TypeOK, Start, Stop, LoopEnds, Crash, attempt, gate
<1>2. ASSUME NEW r \in Replica, ReadClock(r) \/ AttemptFails(r) \/ Upsert(r) \/ ReadBack(r) \/ Record(r) \/ Release(r)
      PROVE  LoopsRunAttempts'
  BY <1>2 DEF TypeOK, ReadClock, AttemptFails, Upsert, ReadBack, Record, Release, attempt, gate
<1>3. CASE Tick \/ UNCHANGED vars BY <1>3 DEF Tick, vars, attempt, gate
<1>. QED BY <1>1, <1>2, <1>3 DEF Next

\* The gate is restarted with a lease that is an attempt and a second old at most
LEMMA GateStep ==
  ASSUME IInv, [Next]_vars
  PROVE  GateClock'
<1>. USE DEF IInv
<1>1. ASSUME UNCHANGED gate PROVE GateClock' BY <1>1 DEF GateClock, gate
<1>2. ASSUME NEW r \in Replica, Record(r) PROVE GateClock'
  BY <1>2 DEF GateClock, TypeOK, Record, FreshFor
<1>3. CASE Tick BY <1>3 DEF GateClock, TypeOK, Tick, Later, Floor
<1>4. ASSUME NEW r \in Replica,
             \/ Start(r) \/ ReadClock(r) \/ Upsert(r) \/ ReadBack(r) \/ AttemptFails(r)
             \/ Stop(r) \/ LoopEnds(r) \/ Release(r) \/ Crash(r)
      PROVE  UNCHANGED gate
  BY <1>4 DEF Start, ReadClock, Upsert, ReadBack, AttemptFails, Stop, LoopEnds, Release, Crash
<1>. QED BY <1>1, <1>2, <1>3, <1>4 DEF Next, vars

\* Readings of the database's clock only move forward
LEMMA ReadingsStep ==
  ASSUME IInv, [Next]_vars
  PROVE  Readings'
<1>. USE DEF IInv
<1>1. ASSUME UNCHANGED <<sub, leaseLeft, pc, age, cut>> PROVE Readings' BY <1>1 DEF Readings
<1>2. ASSUME NEW r \in Replica, Start(r) \/ Stop(r) \/ LoopEnds(r) \/ Release(r)
      PROVE  UNCHANGED <<sub, leaseLeft, pc, age, cut>>
  BY <1>2 DEF Start, Stop, LoopEnds, Release, attempt, gate
<1>3. ASSUME NEW r \in Replica, ReadClock(r) PROVE Readings'
  BY <1>3 DEF Readings, TypeOK, ReadClock, gate
<1>4. ASSUME NEW r \in Replica, Upsert(r) \/ ReadBack(r) \/ AttemptFails(r) \/ Crash(r) PROVE Readings'
  BY <1>4 DEF Readings, TypeOK, Upsert, ReadBack, AttemptFails, Crash, gate
<1>5. ASSUME NEW r \in Replica, Record(r) PROVE Readings'
  BY <1>5 DEF Readings, TypeOK, Record
<1>6. CASE Tick BY <1>6 DEF Readings, TypeOK, Tick, Later, Floor
<1>7. CASE UNCHANGED vars BY <1>1, <1>7 DEF vars, attempt, gate
<1>. QED BY <1>1, <1>2, <1>3, <1>4, <1>5, <1>6, <1>7 DEF Next

\* The row is only taken when it has run out, renewed only forward and deleted
\* only by a holder that no longer leads
LEMMA LeasesStep ==
  ASSUME IInv, [Next]_vars
  PROVE  Leases'
<1>. USE DEF IInv
<1>1. ASSUME NEW r \in Replica, Start(r) \/ Stop(r) \/ LoopEnds(r) PROVE Leases'
  BY <1>1 DEF Leases, LoopsRunAttempts, Alive, TypeOK, Start, Stop, LoopEnds, row, attempt, gate
<1>2. ASSUME NEW r \in Replica, ReadClock(r) \/ AttemptFails(r) \/ Crash(r) PROVE Leases'
  BY <1>2 DEF Leases, Alive, TypeOK, ReadClock, AttemptFails, Crash, row, gate
<1>3. ASSUME NEW r \in Replica, Upsert(r) PROVE Leases'
  BY <1>3 DEF Leases, Readings, Alive, TypeOK, Upsert, Takeable, row, gate
<1>4. ASSUME NEW r \in Replica, ReadBack(r) PROVE Leases'
  BY <1>4 DEF Leases, Alive, TypeOK, ReadBack, row, gate
<1>5. ASSUME NEW r \in Replica, Record(r) PROVE Leases'
  BY <1>5 DEF Leases, Alive, TypeOK, Record, row
<1>6. ASSUME NEW r \in Replica, Release(r) PROVE Leases'
  BY <1>6 DEF Leases, LoopsRunAttempts, Alive, TypeOK, Release, attempt, gate
<1>7. CASE Tick
  BY <1>7 DEF Leases, LoopsRunAttempts, Alive, TypeOK, Tick, Later, Floor
<1>8. CASE UNCHANGED vars
  BY <1>8 DEF Leases, Alive, vars, row, attempt, gate
<1>. QED BY <1>1, <1>2, <1>3, <1>4, <1>5, <1>6, <1>7, <1>8 DEF Next

-----------------------------------------------------------------------------
(* Theorems *)

LEMMA LeaseInvariant == Spec => []IInv
<1>1. Init => IInv
  BY DEF Init, IInv, TypeOK, LoopsRunAttempts, GateClock, Readings, Leases, Alive
<1>2. IInv /\ [Next]_vars => IInv'
  BY TypeStep, LoopsStep, GateStep, ReadingsStep, LeasesStep DEF IInv
<1>. QED BY <1>1, <1>2, PTL DEF Spec

\* The row, the attempts and the gates keep their types: no attempt outlasts the
\* bound and no gate is fresh for longer than the ttl, under every interleaving.
THEOREM LeaseTypes == Spec => []TypeOK
<1>1. IInv => TypeOK BY DEF IInv
<1>. QED BY <1>1, LeaseInvariant, PTL

\* At most one replica that acts as leader has a lease that has not run out, for
\* any number of replicas and any delay between the steps of TryAcquire.
THEOREM LeasesAreExclusive == Spec => []OneLease
<1>1. IInv => OneLease BY DEF IInv, Leases, OneLease, IsLeader, Fresh
<1>. QED BY <1>1, LeaseInvariant, PTL

\* IsLeader turns false less than one attempt and one second of the database's
\* clock after the lease it confirmed has run out.
THEOREM GateFollowsLease == Spec => []GateOutlivesLeaseBriefly
<1>1. IInv => GateOutlivesLeaseBriefly
  BY DEF IInv, TypeOK, GateClock, GateOutlivesLeaseBriefly, IsLeader, Fresh
<1>. QED BY <1>1, LeaseInvariant, PTL
=============================================================================
