------------------------------- MODULE Leader -------------------------------
(***************************************************************************)
(* The scheduler's leader lease: internal/leader.  Replicas contend for    *)
(* one row of scheduler_leader; the row is arbitrated by the database's    *)
(* clock, which counts whole seconds, and the gate by each replica's own   *)
(* monotonic clock.                                                        *)
(*                                                                         *)
(* Times are kept as the ticks that are left, so nothing grows: a lease    *)
(* with rowLeft <= 0 has expired -rowLeft ticks ago.  One tick is the      *)
(* resolution of the local clocks, Second ticks are one of the database's. *)
(***************************************************************************)
EXTENDS Integers

CONSTANTS
  Replica,   \* processes, each with its own holder id
  NoOne,     \* the holder of a row that does not exist
  TTL,       \* the lease's ttl in ticks, a whole number of seconds
  Second,    \* ticks per second
  MaxLag     \* bound: the ticks one attempt may take

ASSUME LeaderAssumption ==
  /\ NoOne \notin Replica
  /\ TTL \in Nat \ {0} /\ Second \in Nat \ {0} /\ MaxLag \in Nat
  /\ TTL % Second = 0

VARIABLES
  holder, rowLeft,  \* the row: holder_id, and expires_at as ticks left
  sub,              \* ticks since the database's clock last changed
  pc,               \* where each replica's attempt is
  age,              \* ticks since the attempt read the database's clock
  cut,              \* what truncation to seconds took from that reading
  won,              \* what the attempt read back: TryAcquire's answer
  life,             \* the renewal loop: none, up, stopping, stopped, dead
  held,             \* l.held
  fresh,            \* ticks until the last confirmation is a TTL old
  leaseLeft         \* ticks left of the lease that was confirmed last

row == <<holder, rowLeft>>
attempt == <<pc, age, cut, won>>
gate == <<held, fresh, leaseLeft>>
vars == <<row, sub, attempt, life, gate>>

\* An expiry further back than any attempt makes no difference
Floor == -(MaxLag + Second + 1)
Later(left) == IF left > Floor THEN left - 1 ELSE Floor

Init ==
  /\ holder = NoOne /\ rowLeft = 0 /\ sub = 0
  /\ pc = [r \in Replica |-> "idle"]
  /\ age = [r \in Replica |-> 0]
  /\ cut = [r \in Replica |-> 0]
  /\ won = [r \in Replica |-> FALSE]
  /\ life = [r \in Replica |-> "none"]
  /\ held = [r \in Replica |-> FALSE]
  /\ fresh = [r \in Replica |-> 0]
  /\ leaseLeft = [r \in Replica |-> 0]

\* IsLeader: the loop has not ended, and the confirmation is fresh
Alive(r) == life[r] \in {"up", "stopping"}
\* Mutant: the gate trusts held and forgets how old the confirmation is
FreshAlways(r) == held[r]
Fresh(r) == held[r] /\ fresh[r] > 0
IsLeader(r) == Alive(r) /\ Fresh(r)

\* Start
Start(r) ==
  /\ life[r] = "none"
  /\ life' = [life EXCEPT ![r] = "up"]
  /\ UNCHANGED <<row, sub, attempt, gate>>

\* attempt, by Start or by the ticker: TryAcquire reads the database's clock
ReadClock(r) ==
  /\ life[r] = "up" /\ pc[r] = "idle"
  /\ pc' = [pc EXCEPT ![r] = "upsert"]
  /\ age' = [age EXCEPT ![r] = 0]
  /\ cut' = [cut EXCEPT ![r] = sub]
  /\ UNCHANGED <<row, sub, won, life, gate>>

\* Mutant: the row is taken from a holder whose lease has not expired yet
TakeableEarly(r) ==
  holder \in {NoOne, r} \/ rowLeft <= 1 - age[r]
\* Mutant: an expired row is not taken over
NeverTakeable(r) == holder \in {NoOne, r}
\* No row, our row, or expires_at <= the reading
Takeable(r) ==
  holder \in {NoOne, r} \/ rowLeft <= -age[r]

\* The upsert: expires_at is the reading, in whole seconds, plus the ttl
Upsert(r) ==
  /\ pc[r] = "upsert"
  /\ pc' = [pc EXCEPT ![r] = "readback"]
  /\ IF Takeable(r) THEN holder' = r /\ rowLeft' = TTL - cut[r] - age[r]
                    ELSE UNCHANGED row
  /\ UNCHANGED <<sub, age, cut, won, life, gate>>

ReadBack(r) ==
  /\ pc[r] = "readback"
  /\ pc' = [pc EXCEPT ![r] = "record"]
  /\ won' = [won EXCEPT ![r] = holder = r]
  /\ UNCHANGED <<row, sub, age, cut, life, gate>>

\* An error of the database: held stays as it is
AttemptFails(r) ==
  /\ pc[r] \in {"upsert", "readback"}
  /\ pc' = [pc EXCEPT ![r] = "idle"]
  /\ UNCHANGED <<row, sub, age, cut, won, life, gate>>

FreshFor == TTL

\* The end of attempt: the gate's clock starts now
Record(r) ==
  /\ pc[r] = "record"
  /\ pc' = [pc EXCEPT ![r] = "idle"]
  /\ held' = [held EXCEPT ![r] = won[r]]
  /\ IF won[r]
       THEN /\ fresh' = [fresh EXCEPT ![r] = FreshFor]
            /\ leaseLeft' = [leaseLeft EXCEPT ![r] = TTL - cut[r] - age[r]]
       ELSE UNCHANGED <<fresh, leaseLeft>>
  /\ UNCHANGED <<row, sub, age, cut, won, life>>

\* Stop closes stopCh, waits for the loop, and then releases the row
Stop(r) ==
  /\ life[r] = "up"
  /\ life' = [life EXCEPT ![r] = "stopping"]
  /\ UNCHANGED <<row, sub, attempt, gate>>

LoopEnds(r) ==
  /\ life[r] = "stopping" /\ pc[r] = "idle"
  /\ life' = [life EXCEPT ![r] = "stopped"]
  /\ UNCHANGED <<row, sub, attempt, gate>>

\* Release, with a database that answers
Release(r) ==
  /\ life[r] = "stopped" /\ held[r] /\ holder = r
  /\ holder' = NoOne /\ rowLeft' = 0
  /\ UNCHANGED <<sub, attempt, life, gate>>

\* The loop's context ends, or the process dies: the row stays behind
Crash(r) ==
  /\ life[r] \in {"up", "stopping"}
  /\ life' = [life EXCEPT ![r] = "dead"]
  /\ pc' = [pc EXCEPT ![r] = "idle"]
  /\ UNCHANGED <<row, sub, age, cut, won, gate>>

\* Time passes, unless an attempt would take longer than MaxLag
Tick ==
  /\ \A r \in Replica : pc[r] # "idle" => age[r] < MaxLag
  /\ sub' = IF sub + 1 = Second THEN 0 ELSE sub + 1
  /\ rowLeft' = Later(rowLeft)
  /\ age' = [r \in Replica |-> IF pc[r] = "idle" THEN age[r] ELSE age[r] + 1]
  /\ fresh' = [r \in Replica |-> IF fresh[r] > 0 THEN fresh[r] - 1 ELSE 0]
  /\ leaseLeft' = [r \in Replica |-> Later(leaseLeft[r])]
  /\ UNCHANGED <<holder, pc, cut, won, life, held>>

Next ==
  \/ \E r \in Replica :
       \/ Start(r) \/ ReadClock(r) \/ Upsert(r) \/ ReadBack(r)
       \/ AttemptFails(r) \/ Record(r)
       \/ Stop(r) \/ LoopEnds(r) \/ Release(r) \/ Crash(r)
  \/ Tick

Spec == Init /\ [][Next]_vars

\* Time passes and the loops run; nobody has to start, stop or crash
FairSpec ==
  /\ Spec
  /\ WF_vars(Tick)
  /\ \A r \in Replica :
       /\ WF_vars(ReadClock(r)) /\ WF_vars(Upsert(r)) /\ WF_vars(ReadBack(r))
       /\ WF_vars(Record(r)) /\ WF_vars(LoopEnds(r))

-----------------------------------------------------------------------------
(* Properties *)

\* Types of the row, the attempts and the gates; a gate is fresh for at most the
\* ttl of the lease.
TypeOK ==
  /\ holder \in Replica \cup {NoOne} /\ rowLeft \in Int
  /\ sub \in 0..(Second - 1)
  /\ pc \in [Replica -> {"idle", "upsert", "readback", "record"}]
  /\ age \in [Replica -> 0..MaxLag]
  /\ cut \in [Replica -> 0..(Second - 1)]
  /\ won \in [Replica -> BOOLEAN]
  /\ life \in [Replica -> {"none", "up", "stopping", "stopped", "dead"}]
  /\ held \in [Replica -> BOOLEAN]
  /\ fresh \in [Replica -> 0..TTL]
  /\ leaseLeft \in [Replica -> Int]

\* The row arbitrates: of two replicas that act as leader at most one has a lease
\* that has not run out, although each upsert uses a clock reading of an earlier
\* moment and a stopping replica deletes the row ("two replicas racing a
\* free/expired row cannot both win").
OneLease ==
  \A r, s \in Replica :
    (IsLeader(r) /\ IsLeader(s) /\ leaseLeft[r] > 0 /\ leaseLeft[s] > 0) => r = s

\* A replica whose renewals stop ceases to act as leader: its gate outlives its
\* lease by less than the attempt took plus one second of the database's clock.  The
\* package comment's "only while it holds a non-expired lease" holds up to that.
GateOutlivesLeaseBriefly ==
  \A r \in Replica : IsLeader(r) => leaseLeft[r] + MaxLag + Second > 1

DatabaseFails == \E r \in Replica : AttemptFails(r)

\* While some replica stays up and the database does not fail for ever there is a
\* leader again and again: crashes, rows left behind by the dead and lost races
\* only delay it.
SomeoneLeads ==
  \/ []<><<DatabaseFails>>_vars
  \/ \A r \in Replica : <>[](life[r] = "up") => []<>(\E s \in Replica : IsLeader(s))

=============================================================================
