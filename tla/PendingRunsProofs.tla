-------------------------- MODULE PendingRunsProofs --------------------------
(***************************************************************************)
(* Proofs about deferred runs, for any number of rows, workers, triggers   *)
(* and dates, any retry budget and any number of faults and restarts.      *)
(***************************************************************************)
EXTENDS PendingRuns, FiniteSetTheorems, TLAPS

\* What the proofs use of the constants throughout
LEMMA Constants ==
  /\ Kinds \subseteq [Row -> Kind]
  /\ DepthOf \in [Trigger -> Nat]
  /\ None \notin Row \cup Trigger \cup Nat \cup Date \cup {"accepted", "refused"}
BY PendingAssumption

USE Constants

Maybe(S) == S \cup {None}
Pin == Maybe({PinOf[t] : t \in Trigger})
Status == {"none", "pending", "fired", "cancelled", "expired", "failed"}
Step == {"reserve", "acquire", "persist", "link", "running", "deduped",
         "capacity", "interrupted", "error"}

RowRecord ==
  [status : Status, attempts : Nat, at : Maybe(Date), run : Maybe(Nat), linked : Maybe(Nat),
   unknown : BOOLEAN, payload : Maybe(Trigger), pin : Pin, depth : Nat, burst : Seq(Trigger)]

Claim ==
  [pc : Step, row : Row, attempts : Nat, at : Maybe(Date), run : Maybe(Nat),
   payload : Maybe(Trigger), pin : Pin, depth : Nat]

\* What a worker has between its reading of the clock and its claim
Reading == [pc : {"claim"}, row : Row, at : Maybe(Date)]

Run == [id : Nat, row : Row, at : Maybe(Date), payload : Maybe(Trigger), pin : Pin, depth : Nat]

\* A worker that has a claim
Busy(w) == work[w].pc \notin {"idle", "claim"}

-----------------------------------------------------------------------------
(* The inductive invariant *)

Types ==
  /\ kind \in [Row -> Kind]
  /\ row \in [Row -> RowRecord]
  /\ lapsed \subseteq Row /\ late \subseteq Row /\ past \subseteq Date
  /\ reserved \in [Row \X Maybe(Date) -> Maybe(Nat)]
  /\ runs \subseteq Run
  /\ minted \in Nat
  /\ work \in [Worker -> {Idle} \cup Reading \cup Claim]
  /\ seen \in [Trigger -> {None} \cup [row : Maybe(Row), pin : Pin]]
  /\ answer \in [Trigger -> {None, "accepted", "refused"}]

\* Only a once start has a date, and a parked one has it always; a planned run
\* belongs to an occurrence; what waits is not linked
Rows ==
  \A r \in Row :
    /\ kind[r] # "once" => row[r].at = None
    /\ (kind[r] = "once" /\ row[r].status # "none") => row[r].at # None
    /\ row[r].run # None => kind[r] = "scheduled"
    /\ row[r].status \in {"none", "pending"} => row[r].linked = None
    /\ row[r].status = "none" => r \notin lapsed

\* The date of the start that a worker is about to claim has come
Readings ==
  \A w \in Worker :
    (work[w].pc = "claim" /\ kind[work[w].row] = "once") => work[w].at \in past

\* A worker still owns its claim, or its row was set to another date since; two
\* workers never have a claim of the same occurrence
Claims ==
  /\ \A w \in Worker : Busy(w) =>
       /\ Owns(w) \/ row[work[w].row].at # work[w].at
       /\ IF kind[work[w].row] = "once" THEN work[w].at \in past ELSE work[w].at = None
  /\ \A v, w \in Worker : (Busy(v) /\ Busy(w) /\ Key(v) = Key(w)) => v = w

\* A run id stands for one occurrence, planned or reserved
Ids ==
  /\ \A k \in DOMAIN reserved : reserved[k] # None => reserved[k] <= minted
  /\ \A k, l \in DOMAIN reserved : (reserved[k] # None /\ reserved[k] = reserved[l]) => k = l
  /\ \A r \in Row : row[r].run # None =>
       /\ row[r].run <= minted
       /\ \A k \in DOMAIN reserved : reserved[k] = row[r].run => k = <<r, None>>
       /\ \A s \in Row : row[s].run = row[r].run => s = r

\* The reservation of an occurrence outlives its run
RunsReserved ==
  \A x \in runs : /\ reserved[<<x.row, x.at>>] = x.id
                  /\ kind[x.row] # "once" => x.at = None

\* A worker has its own reservation from the moment it made it, finds no run before
\* it starts one, and the one it started afterwards
Relies(w) ==
  /\ work[w].pc = "reserve" => work[w].run \in {None, row[work[w].row].run}
  /\ work[w].pc \in {"acquire", "persist", "link", "running", "deduped"} =>
       work[w].run # None /\ reserved[Key(w)] = work[w].run
  /\ work[w].pc \in {"acquire", "persist"} =>
       \A x \in runs : <<x.row, x.at>> # Key(w)
  /\ work[w].pc \in {"link", "running"} => RunOf(w) \in runs

Reservations == RunsReserved /\ \A w \in Worker : Relies(w)

IInv == Types /\ Rows /\ Readings /\ Claims /\ Ids /\ Reservations /\ OneRunPerOccurrence

\* The rows that stand for an occurrence that waits and was not claimed after its TTL
Waiting ==
  {r \in Row : /\ r \notin late
               /\ kind[r] = "scheduled" /\ row[r].linked = None
               /\ row[r].status \in {"pending", "fired"}
               /\ row[r].status = "pending" => r \notin lapsed}

\* What a row says of its burst is what its workers and its runs have, and it does
\* not change once the row was claimed
Bursts ==
  /\ \A r \in Row :
       /\ (kind[r] # "debounced" \/ row[r].status = "none") => row[r].burst = <<>>
       /\ (kind[r] = "debounced" /\ row[r].status # "none") =>
            Len(row[r].burst) > 0 /\ StartsAs(row[r].burst, row[r])
  /\ \A w \in Worker : (Busy(w) /\ kind[work[w].row] = "debounced") =>
       /\ row[work[w].row].attempts > 0
       /\ work[w].payload = row[work[w].row].payload
       /\ work[w].pin = row[work[w].row].pin /\ work[w].depth = row[work[w].row].depth
  /\ \A x \in runs : kind[x.row] = "debounced" =>
       /\ row[x.row].attempts > 0 /\ row[x.row].status # "none"
       /\ x.payload = row[x.row].payload
       /\ x.pin = row[x.row].pin /\ x.depth = row[x.row].depth

\* A trigger that is looking has no answer, and a receipt stands for one burst
InBurst(t, r) == \E i \in DOMAIN row[r].burst : row[r].burst[i] = t

Receipts ==
  \A t \in Trigger :
    /\ seen[t] # None => answer[t] = None
    /\ answer[t] = "accepted" => \E r \in Row : InBurst(t, r)
    /\ \A r \in Row : InBurst(t, r) => answer[t] = "accepted"
    /\ \A r, s \in Row : (InBurst(t, r) /\ InBurst(t, s)) => r = s

-----------------------------------------------------------------------------
(* What a step of a worker does *)

\* The part of a row that a claim copies, and that finishing a claim leaves alone
SameOccurrence(x, y) ==
  /\ x.at = y.at /\ x.attempts = y.attempts /\ x.run = y.run
  /\ x.payload = y.payload /\ x.pin = y.pin /\ x.depth = y.depth /\ x.burst = y.burst

\* The row of a claim changes only under the worker that owns it, and when the
\* claim is given up
RowsMove(w) ==
  /\ row' \in [Row -> RowRecord]
  /\ \A r \in Row : row'[r] # row[r] =>
       /\ r = work[w].row /\ Owns(w)
       /\ SameOccurrence(row'[r], row[r])
       /\ row'[r].status # "none"
       /\ row'[r].status = "pending" =>
            row'[r].linked = None /\ (kind[r] = "scheduled" => r \notin lapsed)
       /\ row'[r].linked = None => row[r].linked = None

\* The worker keeps its claim, with the status of the row, or gives it up
WorkMoves(w) ==
  /\ work' \in [Worker -> {Idle} \cup Reading \cup Claim]
  /\ \A v \in Worker : v # w => work'[v] = work[v]
  /\ work'[w] # Idle =>
       /\ work'[w] \in Claim
       /\ work'[w].row = work[w].row /\ work'[w].attempts = work[w].attempts
       /\ work'[w].at = work[w].at /\ work'[w].payload = work[w].payload
       /\ work'[w].pin = work[w].pin /\ work'[w].depth = work[w].depth
       /\ row'[work[w].row].status = row[work[w].row].status

LEMMA BusyClaims ==
  ASSUME Types, NEW w \in Worker, Busy(w)
  PROVE  work[w] \in Claim
BY DEF Types, Busy, Idle, Reading

\* Which steps keep the claim and which give it up
LEMMA GoesMoves ==
  ASSUME Types, NEW w \in Worker, Busy(w), NEW p \in Step, Goes(w, p),
         row'[work[w].row].status = row[work[w].row].status
  PROVE  WorkMoves(w)
<1>1. work[w] \in Claim BY BusyClaims
<1>. QED BY <1>1 DEF WorkMoves, Goes, Types, Claim

LEMMA IdleMoves ==
  ASSUME Types, NEW w \in Worker, work' = [work EXCEPT ![w] = Idle]
  PROVE  WorkMoves(w)
BY DEF WorkMoves, Types

LEMMA RowsStay ==
  ASSUME Types, NEW w \in Worker, UNCHANGED row
  PROVE  RowsMove(w)
BY DEF RowsMove, Types

\* Linking a claim to the run it started
LEMMA LinkingMoves ==
  ASSUME Types, NEW w \in Worker, Busy(w), work[w].run # None, row' = SetFiredRunID(w)
  PROVE  RowsMove(w) /\ row'[work[w].row].status = row[work[w].row].status
<1>1. work[w] \in Claim BY BusyClaims
<1>2. CASE Owns(w)
  <2>. DEFINE r == work[w].row
  <2>1. r \in Row /\ work[w].run \in Nat BY <1>1 DEF Claim, Maybe
  <2>2. row' = [row EXCEPT ![r].linked = work[w].run, ![r].unknown = FALSE]
    BY <1>2 DEF SetFiredRunID
  <2>3. row[r] \in RowRecord BY <2>1 DEF Types
  <2>4. PICK x : x = [row[r] EXCEPT !.linked = work[w].run, !.unknown = FALSE] OBVIOUS
  <2>5. /\ x \in RowRecord /\ SameOccurrence(x, row[r])
        /\ x.status = row[r].status /\ x.linked = work[w].run
    BY <2>1, <2>3, <2>4 DEF RowRecord, SameOccurrence, Maybe
  <2>6. row' = [row EXCEPT ![r] = x] BY <2>2, <2>4
  <2>. HIDE DEF r
  <2>7. row[r].status = "fired" BY <1>2 DEF Owns, r
  <2>. QED BY <1>2, <2>1, <2>5, <2>6, <2>7 DEF RowsMove, Types, r
<1>3. CASE ~ Owns(w) BY <1>3, RowsStay DEF SetFiredRunID
<1>. QED BY <1>2, <1>3

\* Ending a claim without a run
LEMMA FinishingMoves ==
  ASSUME Types, NEW w \in Worker, Busy(w), NEW unknown \in BOOLEAN,
         NEW status \in {"fired", "failed", "expired", "pending"},
         (status = "pending" /\ kind[work[w].row] = "scheduled") => work[w].row \notin lapsed,
         row' = FinishDispatchError(w, status, unknown)
  PROVE  RowsMove(w)
<1>1. work[w] \in Claim BY BusyClaims
<1>2. CASE Owns(w) /\ row[work[w].row].linked = None
  <2>. DEFINE r == work[w].row
  <2>1. r \in Row BY <1>1 DEF Claim
  <2>2. row' = [row EXCEPT ![r].status = status, ![r].unknown = unknown]
    BY <1>2 DEF FinishDispatchError
  <2>3. row[r] \in RowRecord BY <2>1 DEF Types
  <2>4. PICK x : x = [row[r] EXCEPT !.status = status, !.unknown = unknown] OBVIOUS
  <2>5. /\ x \in RowRecord /\ SameOccurrence(x, row[r])
        /\ x.status = status /\ x.linked = row[r].linked
    BY <2>1, <2>3, <2>4 DEF RowRecord, SameOccurrence, Status
  <2>6. row' = [row EXCEPT ![r] = x] BY <2>2, <2>4
  <2>. HIDE DEF r
  <2>. QED BY <1>2, <2>1, <2>5, <2>6 DEF RowsMove, Types, r
<1>3. CASE ~ (Owns(w) /\ row[work[w].row].linked = None) BY <1>3, RowsStay DEF FinishDispatchError
<1>. QED BY <1>2, <1>3

\* What recovery makes of an unlinked claim: it is linked to a run that exists, held
\* for inspection, or waits again
LEMMA RecoveredIs ==
  ASSUME Types, NEW r \in Row, row[r].status = "fired", row[r].linked = None
  PROVE  /\ Recovered(r) \in RowRecord
         /\ SameOccurrence(Recovered(r), row[r])
         /\ Recovered(r).status \in {"fired", "pending"}
         /\ Recovered(r).status = "pending" =>
              /\ Recovered(r).linked = None
              /\ ~ Started(row[r].run, r) /\ reserved[<<r, None>>] \in {None, row[r].run}
         /\ Recovered(r).linked # None =>
              Recovered(r).linked = row[r].run /\ Started(row[r].run, r)
<1>1. row[r] \in RowRecord BY DEF Types
<1>2. CASE Started(row[r].run, r)
  <2>1. Recovered(r) = [row[r] EXCEPT !.linked = row[r].run] BY <1>2 DEF Recovered
  <2>. QED BY <1>1, <1>2, <2>1 DEF RowRecord, SameOccurrence
<1>3. CASE ~ Started(row[r].run, r) /\ reserved[<<r, None>>] \notin {None, row[r].run}
  <2>1. Recovered(r) = [row[r] EXCEPT !.unknown = TRUE] BY <1>3 DEF Recovered
  <2>. QED BY <1>1, <1>3, <2>1 DEF RowRecord, SameOccurrence
<1>4. CASE ~ Started(row[r].run, r) /\ reserved[<<r, None>>] \in {None, row[r].run}
  <2>1. Recovered(r) = [row[r] EXCEPT !.status = "pending"] BY <1>4 DEF Recovered
  <2>. QED BY <1>1, <1>4, <2>1 DEF RowRecord, SameOccurrence, Status
<1>. QED BY <1>2, <1>3, <1>4

LEMMA RequeueMoves ==
  ASSUME Types, NEW w \in Worker, Requeue(w)
  PROVE  RowsMove(w)
<1>. DEFINE r == work[w].row
<1>1. Busy(w) /\ work[w] \in Claim BY BusyClaims DEF Requeue, Busy
<1>2. r \in Row BY <1>1 DEF Claim
<1>3. r \notin lapsed
  <2>1. Verdicts(w) = {IF r \in lapsed THEN "expired" ELSE "pending"}
    BY DEF Requeue, Verdicts, Retryable
  <2>2. "pending" \in Verdicts(w) /\ "pending" # "expired" BY DEF Requeue
  <2>. QED BY <2>1, <2>2
<1>4. CASE Owns(w) /\ row[r].linked = None
  <2>1. row' = [row EXCEPT ![r] = Recovered(r)] BY <1>4 DEF Requeue
  <2>2. row[r].status = "fired" BY <1>4 DEF Owns
  <2>3. /\ Recovered(r) \in RowRecord /\ SameOccurrence(Recovered(r), row[r])
        /\ Recovered(r).status \in {"fired", "pending"}
        /\ Recovered(r).status = "pending" => Recovered(r).linked = None
    BY <1>2, <1>4, <2>2, RecoveredIs
  <2>. HIDE DEF r
  <2>. QED BY <1>2, <1>3, <1>4, <2>1, <2>3 DEF RowsMove, Types, r
<1>5. CASE ~ (Owns(w) /\ row[r].linked = None) BY <1>5, RowsStay DEF Requeue
<1>. QED BY <1>4, <1>5

LEMMA ReserveMoves ==
  ASSUME Types, NEW w \in Worker, Reserve(w)
  PROVE  WorkMoves(w) /\ reserved' \in [Row \X Maybe(Date) -> Maybe(Nat)] /\ minted' \in Nat
<1>1. Busy(w) /\ work[w] \in Claim BY BusyClaims DEF Reserve, Busy
<1>2. Key(w) \in Row \X Maybe(Date) BY <1>1 DEF Key, Claim
<1>3. PICK p \in Step, id \in Nat : work' = [work EXCEPT ![w].pc = p, ![w].run = id]
  <2>1. CASE reserved[Key(w)] = None
    <3>1. minted \in Nat /\ work[w].run \in Maybe(Nat) BY <1>1 DEF Types, Claim
    <3>2. PICK id \in Nat : id = IF work[w].run = None THEN minted + 1 ELSE work[w].run
      BY <3>1 DEF Maybe
    <3>. QED BY <2>1, <3>2 DEF Reserve, Step
  <2>2. CASE reserved[Key(w)] # None
    <3>1. reserved[Key(w)] \in Nat BY <1>2, <2>2 DEF Types, Maybe
    <3>. QED BY <2>2, <3>1 DEF Reserve, Step
  <2>. QED BY <2>1, <2>2
<1>4. UNCHANGED row BY DEF Reserve
<1>5. WorkMoves(w)
  BY <1>1, <1>3, <1>4 DEF WorkMoves, Types, Claim, Maybe
<1>6. minted' \in Nat BY DEF Reserve, Types
<1>7. reserved' \in [Row \X Maybe(Date) -> Maybe(Nat)]
  <2>1. CASE reserved[Key(w)] = None
    <3>1. PICK n \in Nat : reserved' = [reserved EXCEPT ![Key(w)] = n]
      BY <1>1, <2>1 DEF Reserve, Types, Claim, Maybe
    <3>. QED BY <1>2, <3>1 DEF Types, Maybe
  <2>2. CASE reserved[Key(w)] # None BY <2>2 DEF Reserve, Types
  <2>. QED BY <2>1, <2>2
<1>. QED BY <1>5, <1>6, <1>7

\* Every step of a worker moves its own claim and, if it owns it, its row
LEMMA WorkerMoves ==
  ASSUME Types, Reservations, NEW w \in Worker, Fire(w) \/ Trouble(w)
  PROVE  /\ Busy(w) /\ work[w] \in Claim
         /\ RowsMove(w) /\ WorkMoves(w) /\ UNCHANGED <<kind, clock, callers>>
<1>. USE DEF Step
<1>1. Busy(w)
  BY DEF Fire, Trouble, Busy, Reserve, AcquireSlot, Persist, Link, Backfill, Deduped, RecordError,
         Requeue, StartFails, PersistUnheard, RoutineFull, LinkFails, FinalWriteFails
<1>2. work[w] \in Claim BY <1>1, BusyClaims
<1>3. UNCHANGED <<kind, clock, callers>>
  BY DEF Fire, Trouble, Reserve, AcquireSlot, Persist, Link, Backfill, Deduped, RecordError,
         Requeue, StartFails, PersistUnheard, RoutineFull, LinkFails, FinalWriteFails
<1>4. CASE Reserve(w) BY <1>4, RowsStay, ReserveMoves, <1>1, <1>2, <1>3 DEF Reserve
<1>5. ASSUME NEW p \in Step, Goes(w, p), UNCHANGED row PROVE RowsMove(w) /\ WorkMoves(w)
  BY <1>1, <1>5, RowsStay, GoesMoves
<1>6. CASE AcquireSlot(w) \/ Persist(w) \/ RoutineFull(w) \/ LinkFails(w)
  BY <1>1, <1>2, <1>3, <1>5, <1>6 DEF AcquireSlot, Persist, RoutineFull, LinkFails
<1>7. CASE \E why \in {"error", "interrupted"} : StartFails(w, why) \/ PersistUnheard(w, why)
  BY <1>1, <1>2, <1>3, <1>5, <1>7 DEF StartFails, PersistUnheard
<1>8. CASE Link(w)
  <2>1. work[w].run # None BY <1>8 DEF Link, Reservations, Relies
  <2>2. RowsMove(w) /\ row'[work[w].row].status = row[work[w].row].status
    BY <1>1, <1>8, <2>1, LinkingMoves DEF Link
  <2>3. WorkMoves(w) BY <1>1, <1>8, <2>2, GoesMoves DEF Link
  <2>. QED BY <1>1, <1>2, <1>3, <2>2, <2>3
<1>9. CASE Backfill(w)
  <2>1. work[w].run # None BY <1>9 DEF Backfill, Reservations, Relies
  <2>. QED BY <1>1, <1>2, <1>3, <1>9, <2>1, LinkingMoves, IdleMoves DEF Backfill
<1>10. CASE Deduped(w)
  <2>1. work[w].run # None BY <1>10 DEF Deduped, Reservations, Relies
  <2>2. RowsMove(w)
    BY <1>1, <1>10, <2>1, LinkingMoves, FinishingMoves DEF Deduped
  <2>. QED BY <1>1, <1>2, <1>3, <1>10, <2>2, IdleMoves DEF Deduped
<1>11. CASE RecordError(w)
  <2>1. PICK verdict \in Verdicts(w) :
          /\ row' = FinishDispatchError(w, verdict, FALSE)
          /\ ~ (Planned(w) /\ verdict = "pending")
    BY <1>11 DEF RecordError
  <2>2. /\ verdict \in {"failed", "expired", "pending"}
        /\ verdict = "pending" => kind[work[w].row] # "scheduled"
    BY <2>1 DEF Verdicts, Planned
  <2>3. RowsMove(w) BY <1>1, <2>1, <2>2, FinishingMoves
  <2>. QED BY <1>1, <1>2, <1>3, <1>11, <2>3, IdleMoves DEF RecordError
<1>12. CASE Requeue(w) BY <1>1, <1>2, <1>3, <1>12, RequeueMoves, IdleMoves DEF Requeue
<1>13. CASE FinalWriteFails(w) BY <1>1, <1>2, <1>3, <1>13, RowsStay, IdleMoves DEF FinalWriteFails
<1>. QED BY <1>4, <1>6, <1>7, <1>8, <1>9, <1>10, <1>11, <1>12, <1>13 DEF Fire, Trouble

-----------------------------------------------------------------------------
(* Rows that are written afresh *)

\* The row of a new occurrence and of a once start
LEMMA OccurrenceRecord ==
  ASSUME NEW n \in Nat, NEW x, x = [Pending EXCEPT !.run = n]
  PROVE  /\ x \in RowRecord /\ x.status = "pending" /\ x.attempts = 0 /\ x.at = None
         /\ x.run = n /\ x.linked = None /\ x.burst = <<>>
<1>1. <<>> \in Seq(Trigger) OBVIOUS
<1>. QED BY <1>1 DEF Pending, NoRow, RowRecord, Status, Maybe, Pin

LEMMA OnceRecord ==
  ASSUME NEW at \in Date, NEW x, x = OnceAt(at)
  PROVE  /\ x \in RowRecord /\ x.status = "pending" /\ x.attempts = 0 /\ x.at = at
         /\ x.run = None /\ x.linked = None /\ x.burst = <<>>
<1>1. <<>> \in Seq(Trigger) OBVIOUS
<1>. QED BY <1>1 DEF OnceAt, Pending, NoRow, RowRecord, Status, Maybe, Pin

LEMMA FreshRowIs ==
  ASSUME NEW k, FreshRows(k) # {}
  PROVE  /\ FreshRow(k) \in Row /\ kind[FreshRow(k)] = k
         /\ row[FreshRow(k)].status = "none"
BY DEF FreshRow, FreshRows

\* A start is parked in a row that nobody has used, or that is set to another date
Parks(r, x) ==
  /\ row' = [row EXCEPT ![r] = x]
  /\ x \in RowRecord /\ x.status = "pending" /\ x.attempts = 0 /\ x.linked = None

LEMMA QueueParks ==
  ASSUME Types, QueueOccurrence
  PROVE  \E r \in Row, x \in RowRecord :
           /\ Parks(r, x) /\ kind[r] = "scheduled" /\ row[r].status = "none"
           /\ x.at = None /\ x.run = minted + 1 /\ x.burst = <<>>
<1>1. PICK r \in Row : /\ kind[r] = "scheduled" /\ row[r].status = "none"
                       /\ row' = [row EXCEPT ![r] = [Pending EXCEPT !.run = minted + 1]]
  BY FreshRowIs DEF QueueOccurrence
<1>2. minted + 1 \in Nat BY DEF Types
<1>3. PICK x : x = [Pending EXCEPT !.run = minted + 1] OBVIOUS
<1>4. /\ x \in RowRecord /\ x.status = "pending" /\ x.attempts = 0 /\ x.at = None
      /\ x.run = minted + 1 /\ x.linked = None /\ x.burst = <<>>
  BY <1>2, <1>3, OccurrenceRecord
<1>. QED BY <1>1, <1>3, <1>4 DEF Parks

LEMMA SaveParks ==
  ASSUME Types, NEW r \in Row, NEW at \in Date, SaveOnce(r, at)
  PROVE  \E x \in RowRecord :
           /\ Parks(r, x) /\ kind[r] = "once" /\ at \notin past
           /\ row[r].status = "none" \/ row[r].at # at
           /\ x.at = at /\ x.run = None /\ x.burst = <<>>
<1>1. PICK x : x = OnceAt(at) OBVIOUS
<1>2. /\ x \in RowRecord /\ x.status = "pending" /\ x.attempts = 0 /\ x.at = at
      /\ x.run = None /\ x.linked = None /\ x.burst = <<>>
  BY <1>1, OnceRecord
<1>. QED BY <1>1, <1>2 DEF Parks, SaveOnce

LEMMA InsertParks ==
  ASSUME Types, NEW t \in Trigger, InsertRow(t)
  PROVE  \E r \in Row, x \in RowRecord :
           /\ Parks(r, x) /\ kind[r] = "debounced" /\ row[r].status = "none"
           /\ x.at = None /\ x.run = None /\ x.burst = <<t>>
           /\ x.payload = t /\ x.pin = PinOf[t] /\ x.depth = DepthOf[t]
<1>1. PICK x : x = [Pending EXCEPT !.payload = t, !.pin = PinOf[t], !.depth = DepthOf[t],
                               !.burst = <<t>>]
  OBVIOUS
<1>3. /\ x \in RowRecord /\ x.status = "pending" /\ x.attempts = 0 /\ x.at = None
      /\ x.run = None /\ x.linked = None /\ x.burst = <<t>>
      /\ x.payload = t /\ x.pin = PinOf[t] /\ x.depth = DepthOf[t]
  <2>1. <<t>> \in Seq(Trigger) /\ DepthOf[t] \in Nat OBVIOUS
  <2>. QED BY <1>1, <2>1 DEF Pending, NoRow, RowRecord, Status, Maybe, Pin
<1>2. PICK r \in Row : /\ kind[r] = "debounced" /\ row[r].status = "none"
                       /\ row' = [row EXCEPT ![r] = x]
  BY <1>1, FreshRowIs DEF InsertRow
<1>. QED BY <1>2, <1>3 DEF Parks

\* A trigger joins a burst that nobody has claimed
LEMMA MergeJoins ==
  ASSUME Types, NEW t \in Trigger, Merge(t)
  PROVE  \E r \in Row, x \in RowRecord :
           /\ row' = [row EXCEPT ![r] = x] /\ Mergeable(r)
           /\ x.status = "pending" /\ x.attempts = 0
           /\ x.at = row[r].at /\ x.run = row[r].run /\ x.linked = row[r].linked
           /\ x.burst = Append(row[r].burst, t) /\ x.payload = t
           /\ x.pin = IF row[r].pin = None THEN PinOf[t] ELSE row[r].pin
           /\ x.depth = Deeper(r, t) /\ (t \in Checked => <<t, x.pin>> \in Fits)
<1>. DEFINE r == seen[t].row
<1>1. r \in Row /\ Mergeable(r) /\ row[r].pin = seen[t].pin BY DEF Merge, Types, Maybe
<1>2. row[r] \in RowRecord BY <1>1 DEF Types
<1>3. PICK x : x = [row[r] EXCEPT !.payload = t, !.pin = EffectivePin(t),
                             !.depth = Deeper(r, t), !.burst = Append(row[r].burst, t)]
  BY SMTT(30)
<1>4. row' = [row EXCEPT ![r] = x] BY <1>3 DEF Merge
<1>5. EffectivePin(t) \in Pin BY <1>1, <1>2 DEF EffectivePin, Pin, Maybe, RowRecord
<1>6. Deeper(r, t) \in Nat BY <1>2 DEF Deeper, RowRecord
<1>7. Append(row[r].burst, t) \in Seq(Trigger) BY <1>2 DEF RowRecord
<1>8. x \in RowRecord BY <1>2, <1>3, <1>5, <1>6, <1>7 DEF RowRecord, Maybe
<1>9. /\ x.status = row[r].status /\ x.attempts = row[r].attempts
      /\ x.at = row[r].at /\ x.run = row[r].run /\ x.linked = row[r].linked
      /\ x.burst = Append(row[r].burst, t) /\ x.payload = t
      /\ x.pin = EffectivePin(t) /\ x.depth = Deeper(r, t)
  BY <1>2, <1>3 DEF RowRecord
<1>10. t \in Checked => <<t, EffectivePin(t)>> \in Fits BY DEF Merge, Admitted
<1>11. EffectivePin(t) = IF row[r].pin = None THEN PinOf[t] ELSE row[r].pin BY <1>1 DEF EffectivePin
<1>12. row[r].status = "pending" /\ row[r].attempts = 0 BY <1>1 DEF Mergeable
<1>. HIDE DEF r
<1>13. r \in Row /\ x \in RowRecord BY <1>1, <1>8
<1>. USE <1>13
<1>. WITNESS r \in Row, x \in RowRecord
<1>. QED BY <1>1, <1>4, <1>9, <1>10, <1>11, <1>12

\* What a worker does before it has a claim: it reads the clock, or finds nothing
Reads(w) == NothingToClaim(w) \/ \E r \in Row : ReadClock(w, r)

\* The row it goes for, when it claims one
ClaimsRow(w, r) == ClaimDue(w) /\ r = work[w].row

LEMMA TakeIs ==
  ASSUME Types, NEW w \in Worker, Take(w)
  PROVE  Reads(w) \/ \E r \in Row : ClaimsRow(w, r)
<1>1. CASE ClaimDue(w)
  <2>1. work[w] \in {Idle} \cup Reading \cup Claim BY DEF Types
  <2>2. work[w].pc = "claim" BY <1>1 DEF ClaimDue
  <2>3. work[w] \in Reading BY <2>1, <2>2 DEF Claim, Step, Idle
  <2>. QED BY <1>1, <2>3 DEF ClaimsRow, Reading
<1>2. CASE NothingToClaim(w) BY <1>2 DEF Reads
<1>. QED BY <1>1, <1>2 DEF Take

\* A worker that reads changes no row and no claim
LEMMA ReadsKeep ==
  ASSUME Types, NEW w \in Worker, Reads(w)
  PROVE  /\ UNCHANGED <<kind, row, lapsed, late, reserved, runs, minted, callers>>
         /\ past \subseteq past' /\ past' \subseteq Date
         /\ work' \in [Worker -> {Idle} \cup Reading \cup Claim]
         /\ \A v \in Worker : Busy(v)' = Busy(v) /\ (Busy(v) => work'[v] = work[v])
<1>1. CASE NothingToClaim(w) BY <1>1 DEF NothingToClaim, clock, Types, Busy, Idle
<1>2. ASSUME NEW r \in Row, ReadClock(w, r)
      PROVE  /\ UNCHANGED <<kind, row, lapsed, late, reserved, runs, minted, callers>>
             /\ past \subseteq past' /\ past' \subseteq Date
             /\ work' \in [Worker -> {Idle} \cup Reading \cup Claim]
             /\ \A v \in Worker : Busy(v)' = Busy(v) /\ (Busy(v) => work'[v] = work[v])
  <2>1. row[r].at \in Maybe(Date) BY DEF Types, RowRecord
  <2>2. PICK c : c = [pc |-> "claim", row |-> r, at |-> row[r].at] OBVIOUS
  <2>3. c \in Reading /\ c.pc = "claim" BY <2>1, <2>2 DEF Reading
  <2>4. work' = [work EXCEPT ![w] = c] /\ work[w].pc = "idle" BY <1>2, <2>2 DEF ReadClock
  <2>5. past \subseteq past' /\ past' \subseteq Date
    BY <1>2, <2>1 DEF ReadClock, Types, Maybe
  <2>6. UNCHANGED <<kind, row, lapsed, late, reserved, runs, minted, callers>>
    BY <1>2 DEF ReadClock
  <2>. QED BY <2>3, <2>4, <2>5, <2>6 DEF Types, Busy
<1>. QED BY <1>1, <1>2 DEF Reads

\* A row that waits is claimed
LEMMA ClaimTakes ==
  ASSUME Types, NEW w \in Worker, NEW r \in Row, ClaimsRow(w, r)
  PROVE  /\ row[r].status = "pending" /\ work[w].row = r
         /\ work[w].pc = "claim" /\ work[w].at = row[r].at
         /\ \E x \in RowRecord :
              /\ row' = [row EXCEPT ![r] = x]
              /\ x.status = "fired" /\ x.attempts = row[r].attempts + 1
              /\ x.at = row[r].at /\ x.run = row[r].run /\ x.linked = None
              /\ x.payload = row[r].payload /\ x.pin = row[r].pin /\ x.depth = row[r].depth
              /\ x.burst = row[r].burst
         /\ ~ Busy(w)
         /\ \E c \in Claim :
              /\ work' = [work EXCEPT ![w] = c]
              /\ c.pc = "reserve" /\ c.row = r /\ c.attempts = row[r].attempts + 1
              /\ c.at = row[r].at /\ c.run = row[r].run
              /\ c.payload = row[r].payload /\ c.pin = row[r].pin /\ c.depth = row[r].depth
         /\ late' = late \cup ({r} \cap lapsed)
         /\ UNCHANGED <<kind, lapsed, past, reserved, runs, minted, callers>>
<1>1. row[r] \in RowRecord BY DEF Types
<1>2. PICK x : x = [row[r] EXCEPT !.status = "fired", !.linked = None, !.unknown = FALSE,
                                  !.attempts = row[r].attempts + 1]
  OBVIOUS
<1>3. row' = [row EXCEPT ![r] = x] BY <1>2 DEF ClaimDue, ClaimsRow
<1>4. /\ x \in RowRecord
      /\ x.status = "fired" /\ x.attempts = row[r].attempts + 1
      /\ x.at = row[r].at /\ x.run = row[r].run /\ x.linked = None
      /\ x.payload = row[r].payload /\ x.pin = row[r].pin /\ x.depth = row[r].depth
      /\ x.burst = row[r].burst
  <2>1. /\ x.status = "fired" /\ x.attempts = row[r].attempts + 1
        /\ x.at = row[r].at /\ x.run = row[r].run /\ x.linked = None
        /\ x.payload = row[r].payload /\ x.pin = row[r].pin /\ x.depth = row[r].depth
        /\ x.burst = row[r].burst
    BY <1>1, <1>2 DEF RowRecord
  <2>2. row[r].attempts + 1 \in Nat BY <1>1 DEF RowRecord
  <2>3. x \in RowRecord BY <1>1, <1>2, <2>2 DEF RowRecord, Status, Maybe
  <2>. QED BY <2>1, <2>3
<1>5. PICK c : c = [pc |-> "reserve", row |-> r, attempts |-> row[r].attempts + 1,
                 at |-> row[r].at, run |-> row[r].run, payload |-> row[r].payload,
                 pin |-> row[r].pin, depth |-> row[r].depth]
  OBVIOUS
<1>6. c \in Claim BY SMTT(30), <1>1, <1>5 DEF Claim, RowRecord, Step
<1>7. work' = [work EXCEPT ![w] = c] BY <1>5 DEF ClaimDue, ClaimsRow
<1>. QED BY ZenonT(60), <1>3, <1>4, <1>5, <1>6, <1>7 DEF ClaimDue, ClaimsRow, StillDue, Busy

\* The steps, as the proofs go through them
LEMMA Steps ==
  ASSUME Types, [Next]_vars
  PROVE  \/ QueueOccurrence
         \/ \E r \in Row, at \in Date : SaveOnce(r, at)
         \/ \E t \in Trigger : Enqueue(t)
         \/ \E r \in Row : Lapse(r) \/ Cancel(r) \/ ExpireDue(r)
         \/ \E w \in Worker, r \in Row : ClaimsRow(w, r)
         \/ \E w \in Worker : Reads(w) \/ Fire(w) \/ Trouble(w)
         \/ Restart
         \/ UNCHANGED vars
<1>1. CASE \E r \in Row : Sweep(r) BY <1>1 DEF Sweep, Reads
<1>2. CASE \E w \in Worker : Take(w) BY <1>2, TakeIs
<1>. QED BY <1>1, <1>2 DEF Next

\* A row that waits is given up
LEMMA EndsWaiting ==
  ASSUME Types, NEW r \in Row, Cancel(r) \/ ExpireDue(r)
  PROVE  /\ row[r].status = "pending"
         /\ \E x \in RowRecord :
              /\ row' = [row EXCEPT ![r] = x]
              /\ x.status \in {"cancelled", "expired"}
              /\ SameOccurrence(x, row[r]) /\ x.linked = row[r].linked
<1>1. row[r] \in RowRecord BY DEF Types
<1>2. PICK s \in {"cancelled", "expired"} : row' = [row EXCEPT ![r].status = s]
  BY DEF Cancel, ExpireDue
<1>3. PICK x : x = [row[r] EXCEPT !.status = s] OBVIOUS
<1>4. x \in RowRecord /\ x.status = s /\ SameOccurrence(x, row[r]) /\ x.linked = row[r].linked
  BY <1>1, <1>3 DEF RowRecord, SameOccurrence, Status
<1>5. row' = [row EXCEPT ![r] = x] BY <1>2, <1>3
<1>. QED BY <1>4, <1>5 DEF Cancel, ExpireDue

\* A restart drops the workers; an unlinked claim is recovered or held
LEMMA RestartRecovers ==
  ASSUME Types, Rows, Restart
  PROVE  /\ row' \in [Row -> RowRecord]
         /\ \A r \in Row : row'[r] # row[r] =>
              /\ row[r].status = "fired" /\ row[r].linked = None
              /\ SameOccurrence(row'[r], row[r])
              /\ row'[r].status \in {"fired", "pending"}
              /\ row'[r].status = "pending" =>
                   /\ row'[r].linked = None /\ row[r].run # None
                   /\ ~ Started(row[r].run, r) /\ reserved[<<r, None>>] \in {None, row[r].run}
              /\ row'[r].linked # None =>
                   row'[r].linked = row[r].run /\ Started(row[r].run, r) /\ row[r].run # None
<1>1. ASSUME NEW r \in Row
      PROVE  /\ row'[r] = IF Unlinked(r) THEN AtBoot(r) ELSE row[r]
             /\ row[r] \in RowRecord
  BY DEF Restart, Types
<1>2. ASSUME NEW r \in Row, Unlinked(r), row[r].run = None
      PROVE  /\ row'[r] \in RowRecord /\ SameOccurrence(row'[r], row[r])
             /\ row'[r].status = "fired" /\ row'[r].linked = None
  <2>1. row'[r] = [row[r] EXCEPT !.unknown = TRUE] BY <1>1, <1>2 DEF AtBoot
  <2>. QED BY <1>1, <1>2, <2>1 DEF RowRecord, SameOccurrence, Unlinked
<1>3. ASSUME NEW r \in Row, Unlinked(r), row[r].run # None
      PROVE  /\ row'[r] \in RowRecord /\ SameOccurrence(row'[r], row[r])
             /\ row'[r].status \in {"fired", "pending"}
             /\ row'[r].status = "pending" =>
                  /\ row'[r].linked = None
                  /\ ~ Started(row[r].run, r) /\ reserved[<<r, None>>] \in {None, row[r].run}
             /\ row'[r].linked # None => row'[r].linked = row[r].run /\ Started(row[r].run, r)
  BY <1>1, <1>3, RecoveredIs DEF AtBoot, Unlinked
<1>4. row' \in [Row -> RowRecord]
  <2>1. \A r \in Row : row'[r] \in RowRecord BY <1>1, <1>2, <1>3
  <2>2. row' = [r \in Row |-> IF Unlinked(r) THEN AtBoot(r) ELSE row[r]] BY DEF Restart
  <2>. QED BY <2>1, <2>2
<1>. QED BY <1>1, <1>2, <1>3, <1>4 DEF Unlinked

-----------------------------------------------------------------------------
(* Types *)

ledger == <<kind, row, clock, reserved, runs, minted, work>>

\* What a trigger does before it writes
LEMMA LookingKeeps ==
  ASSUME NEW t \in Trigger, Look(t) \/ Unfit(t) \/ \E end \in BOOLEAN : Moved(t, end)
  PROVE  UNCHANGED ledger
BY DEF Look, Unfit, Moved, ledger

LEMMA CallersTyped ==
  ASSUME Types, NEW t \in Trigger, Enqueue(t)
  PROVE  /\ seen' \in [Trigger -> {None} \cup [row : Maybe(Row), pin : Pin]]
         /\ answer' \in [Trigger -> {None, "accepted", "refused"}]
<1>1. CASE Look(t)
  <2>1. \A r \in Row : row[r].pin \in Pin BY DEF Types, RowRecord
  <2>. QED BY <1>1, <2>1 DEF Look, Types, Maybe, Pin
<1>2. CASE Merge(t) \/ Unfit(t) \/ InsertRow(t) \/ \E end \in BOOLEAN : Moved(t, end)
  BY <1>2 DEF Merge, Unfit, InsertRow, Moved, Types
<1>. QED BY <1>1, <1>2 DEF Enqueue

\* A worker that persists has a run id
LEMMA RunTyped ==
  ASSUME Types, Reservations, NEW w \in Worker, work[w].pc = "persist"
  PROVE  RunOf(w) \in Run
<1>1. work[w] \in Claim BY BusyClaims DEF Busy
<1>2. work[w].run \in Nat BY <1>1 DEF Reservations, Relies, Claim, Maybe
<1>. QED BY <1>1, <1>2 DEF RunOf, Run, Claim

LEMMA WorkerTypes ==
  ASSUME Types, Reservations, NEW w \in Worker, Fire(w) \/ Trouble(w)
  PROVE  Types'
<1>1. /\ work[w] \in Claim /\ RowsMove(w) /\ WorkMoves(w) /\ UNCHANGED <<kind, clock, callers>>
  BY WorkerMoves
<1>2. Key(w) \in Row \X Maybe(Date) BY <1>1 DEF Key, Claim
<1>3. runs' \subseteq Run
  <2>1. CASE Persist(w) \/ \E why \in {"error", "interrupted"} : PersistUnheard(w, why)
    BY <2>1, RunTyped DEF Persist, PersistUnheard, Types
  <2>2. CASE UNCHANGED runs BY <2>2 DEF Types
  <2>. QED BY <2>1, <2>2
    DEF Fire, Trouble, Reserve, AcquireSlot, Link, Backfill, Deduped, RecordError,
        Requeue, StartFails, RoutineFull, LinkFails, FinalWriteFails
<1>4. reserved' \in [Row \X Maybe(Date) -> Maybe(Nat)] /\ minted' \in Nat
  <2>1. CASE Reserve(w) BY <2>1, ReserveMoves
  <2>2. CASE RoutineFull(w) BY <1>2, <2>2 DEF RoutineFull, Types, Maybe
  <2>3. CASE Requeue(w)
    <3>1. reserved' \in {reserved, [reserved EXCEPT ![<<work[w].row, None>>] = None]} /\ UNCHANGED minted
      BY <2>3 DEF Requeue
    <3>2. <<work[w].row, None>> \in Row \X Maybe(Date) BY <1>1 DEF Claim, Maybe
    <3>. QED BY <3>1, <3>2 DEF Types, Maybe
  <2>4. CASE UNCHANGED <<reserved, minted>> BY <2>4 DEF Types
  <2>. QED BY <2>1, <2>2, <2>3, <2>4
    DEF Fire, Trouble, AcquireSlot, Persist, Link, Backfill, Deduped, RecordError,
        StartFails, PersistUnheard, LinkFails, FinalWriteFails
<1>. QED BY <1>1, <1>3, <1>4 DEF Types, RowsMove, WorkMoves, clock, callers

LEMMA TypesStep ==
  ASSUME IInv, [Next]_vars
  PROVE  Types'
<1>. USE DEF IInv
<1>1. CASE QueueOccurrence
  <2>1. row' \in [Row -> RowRecord] BY <1>1, QueueParks DEF Parks, Types
  <2>. QED BY <1>1, <2>1 DEF QueueOccurrence, Types, clock, callers
<1>2. ASSUME NEW r \in Row, NEW at \in Date, SaveOnce(r, at) PROVE Types'
  <2>1. row' \in [Row -> RowRecord] BY <1>2, SaveParks DEF Parks, Types
  <2>. QED BY <1>2, <2>1 DEF SaveOnce, Types, clock, callers
<1>3. ASSUME NEW t \in Trigger, Enqueue(t) PROVE Types'
  <2>1. row' \in [Row -> RowRecord]
    <3>1. CASE Merge(t)
      <4>1. PICK r \in Row, x \in RowRecord : row' = [row EXCEPT ![r] = x] /\ Mergeable(r)
        BY <3>1, MergeJoins
      <4>. QED BY <4>1 DEF Types
    <3>2. CASE InsertRow(t) BY <3>2, InsertParks DEF Parks, Types
    <3>3. CASE UNCHANGED ledger BY SMTT(30), <3>3 DEF Types, ledger
    <3>. QED BY <1>3, <3>1, <3>2, <3>3, LookingKeeps DEF Enqueue
  <2>2. UNCHANGED <<kind, clock, reserved, runs, minted, work>>
    BY <1>3 DEF Enqueue, Look, Merge, Unfit, InsertRow, Moved
  <2>. QED BY <1>3, <2>1, <2>2, CallersTyped DEF Types, clock
<1>4. ASSUME NEW r \in Row, Lapse(r) PROVE Types' BY <1>4 DEF Lapse, Types, callers
<1>5. ASSUME NEW r \in Row, Cancel(r) \/ ExpireDue(r) PROVE Types'
  <2>1. row' \in [Row -> RowRecord] BY <1>5, EndsWaiting DEF Types
  <2>. QED BY <1>5, <2>1 DEF Cancel, ExpireDue, Types, clock, callers
<1>6. ASSUME NEW w \in Worker, NEW r \in Row, ClaimsRow(w, r) PROVE Types'
  <2>1. row' \in [Row -> RowRecord] BY <1>6, ClaimTakes DEF Types
  <2>2. work' \in [Worker -> {Idle} \cup Reading \cup Claim] BY <1>6, ClaimTakes DEF Types
  <2>3. late' \subseteq Row BY <1>6, ClaimTakes DEF Types
  <2>4. UNCHANGED <<kind, lapsed, past, reserved, runs, minted, callers>> BY <1>6, ClaimTakes
  <2>. QED BY <1>6, <2>1, <2>2, <2>3, <2>4 DEF Types, callers
<1>7. ASSUME NEW w \in Worker, Fire(w) \/ Trouble(w) PROVE Types' BY <1>7, WorkerTypes
<1>8. CASE Restart
  <2>1. row' \in [Row -> RowRecord] BY <1>8, RestartRecovers
  <2>2. reserved' \in [Row \X Maybe(Date) -> Maybe(Nat)] BY <1>8 DEF Restart, Types, Maybe
  <2>. QED BY <1>8, <2>1, <2>2 DEF Restart, Types, clock
<1>9. CASE UNCHANGED vars BY <1>9 DEF vars, Types, clock, callers
<1>10. ASSUME NEW w \in Worker, Reads(w) PROVE Types'
  BY <1>10, ReadsKeep DEF Types, callers
<1>. QED BY <1>1, <1>2, <1>3, <1>4, <1>5, <1>6, <1>7, <1>8, <1>9, <1>10, Steps

-----------------------------------------------------------------------------
(* Rows and claims *)

LEMMA RowsStep ==
  ASSUME IInv, [Next]_vars
  PROVE  Rows'
<1>. USE DEF IInv
<1>1. CASE QueueOccurrence
  <2>1. UNCHANGED <<kind, lapsed>> BY <1>1 DEF QueueOccurrence, clock
  <2>2. row \in [Row -> RowRecord] BY DEF Types
  <2>3. PICK q \in Row, x \in RowRecord :
          /\ Parks(q, x) /\ kind[q] = "scheduled" /\ row[q].status = "none" /\ x.at = None
    BY <1>1, QueueParks
  <2>. QED BY <2>1, <2>2, <2>3 DEF Parks, Rows
<1>2. ASSUME NEW r \in Row, NEW at \in Date, SaveOnce(r, at) PROVE Rows'
  <2>1. UNCHANGED <<kind, lapsed>> BY <1>2 DEF SaveOnce, clock
  <2>2. PICK x \in RowRecord : /\ Parks(r, x) /\ kind[r] = "once"
                               /\ x.at = at /\ x.run = None
    BY <1>2, SaveParks
  <2>. QED BY <2>1, <2>2 DEF Parks, Types, Rows
<1>3. ASSUME NEW t \in Trigger, Enqueue(t) PROVE Rows'
  <2>1. CASE Merge(t)
    <3>1. UNCHANGED <<kind, lapsed>> BY <2>1 DEF Merge, clock
    <3>2. PICK r \in Row, x \in RowRecord :
            /\ row' = [row EXCEPT ![r] = x] /\ Mergeable(r)
            /\ x.status = "pending" /\ x.at = row[r].at /\ x.run = row[r].run /\ x.linked = row[r].linked
      BY <2>1, MergeJoins
    <3>. QED BY SMTT(30), <3>1, <3>2 DEF Mergeable, Types, Rows
  <2>2. CASE InsertRow(t)
    <3>1. UNCHANGED <<kind, lapsed>> BY <2>2 DEF InsertRow, clock
    <3>. QED BY <2>2, <3>1, InsertParks DEF Parks, Types, Rows
  <2>3. CASE UNCHANGED ledger BY <2>3 DEF Rows, ledger, clock
  <2>. QED BY <1>3, <2>1, <2>2, <2>3, LookingKeeps DEF Enqueue
<1>4. ASSUME NEW r \in Row, Lapse(r) PROVE Rows' BY <1>4 DEF Lapse, Rows
<1>5. ASSUME NEW r \in Row, Cancel(r) \/ ExpireDue(r) PROVE Rows'
  <2>1. UNCHANGED <<kind, lapsed>> BY <1>5 DEF Cancel, ExpireDue, clock
  <2>. QED BY <1>5, <2>1, EndsWaiting DEF Types, Rows, SameOccurrence
<1>6. ASSUME NEW w \in Worker, NEW r \in Row, ClaimsRow(w, r) PROVE Rows'
  <2>1. UNCHANGED <<kind, lapsed>> BY <1>6, ClaimTakes
  <2>. QED BY <1>6, <2>1, ClaimTakes DEF Types, Rows
<1>7. ASSUME NEW w \in Worker, Fire(w) \/ Trouble(w) PROVE Rows'
  <2>1. RowsMove(w) /\ UNCHANGED <<kind, lapsed>> BY <1>7, WorkerMoves DEF clock
  <2>2. Owns(w) => row[work[w].row].status = "fired" BY DEF Owns
  <2>. QED BY <2>1, <2>2 DEF Rows, RowsMove, SameOccurrence
<1>8. CASE Restart
  <2>1. UNCHANGED <<kind, lapsed>> BY <1>8 DEF Restart, clock
  <2>2. \A r \in Row : row'[r] # row[r] =>
          /\ row[r].status = "fired" /\ SameOccurrence(row'[r], row[r])
          /\ row'[r].status \in {"fired", "pending"}
          /\ row'[r].status = "pending" => row'[r].linked = None
    BY <1>8, RestartRecovers
  <2>. QED BY <2>1, <2>2 DEF Rows, SameOccurrence
<1>9. CASE UNCHANGED vars BY <1>9 DEF vars, Rows, clock
<1>10. ASSUME NEW w \in Worker, Reads(w) PROVE Rows'
  BY <1>10, ReadsKeep DEF Rows
<1>. QED BY <1>1, <1>2, <1>3, <1>4, <1>5, <1>6, <1>7, <1>8, <1>9, <1>10, Steps

\* No worker has a claim of a row that is not claimed, a once start aside
LEMMA NobodyOn ==
  ASSUME Types, Rows, Claims, NEW r \in Row, kind[r] # "once", row[r].status # "fired",
         NEW w \in Worker, Busy(w)
  PROVE  work[w].row # r
<1>1. CASE work[w].row = r
  <2>1. ~ Owns(w) BY <1>1 DEF Owns
  <2>2. row[r].at # work[w].at BY <1>1, <2>1 DEF Claims
  <2>3. row[r].at = None /\ work[w].at = None BY <1>1 DEF Rows, Claims
  <2>. QED BY <2>2, <2>3
<1>. QED BY <1>1

\* Writing a row that no worker owns
LEMMA UnownedWrites ==
  ASSUME Types, Claims, NEW r \in Row, NEW x \in RowRecord, row' = [row EXCEPT ![r] = x],
         UNCHANGED <<kind, work>>, past' = past,
         \A w \in Worker : (Busy(w) /\ work[w].row = r) => x.at # work[w].at
  PROVE  Claims'
<1>1. ASSUME NEW w \in Worker, Busy(w)
      PROVE  Owns(w)' \/ row'[work[w].row].at # work[w].at
  <2>1. work[w].row \in Row BY <1>1, BusyClaims DEF Claim
  <2>2. CASE work[w].row = r BY <1>1, <2>2 DEF Types
  <2>3. CASE work[w].row # r
    <3>1. row'[work[w].row] = row[work[w].row] BY <2>1, <2>3 DEF Types
    <3>. QED BY <1>1, <3>1 DEF Claims, Owns
  <2>. QED BY <2>2, <2>3
<1>. QED BY <1>1 DEF Claims, Busy, Key

LEMMA WorkerClaims ==
  ASSUME Types, Claims, NEW w \in Worker, Busy(w), work[w] \in Claim,
         RowsMove(w), WorkMoves(w), UNCHANGED <<kind, past>>
  PROVE  Claims'
<1>1. \A v \in Worker : Busy(v)' => Busy(v) /\ work[v] \in Claim
  BY BusyClaims DEF Busy, WorkMoves, Idle
<1>2. ASSUME NEW v \in Worker, Busy(v)'
      PROVE  work'[v].row = work[v].row /\ work'[v].at = work[v].at /\ work'[v].attempts = work[v].attempts
  BY <1>2 DEF WorkMoves, Busy, Idle
<1>3. ASSUME NEW v \in Worker, Busy(v)'
      PROVE  Owns(v)' \/ row'[work'[v].row].at # work'[v].at
  <2>1. PICK r \in Row : r = work[v].row /\ r = work'[v].row BY <1>1, <1>2, <1>3 DEF Claim
  <2>2. CASE row'[r] = row[r]
    BY <1>1, <1>2, <1>3, <2>1, <2>2 DEF Claims, Owns
  <2>3. CASE row'[r] # row[r]
    <3>1. r = work[w].row /\ Owns(w) /\ SameOccurrence(row'[r], row[r])
      BY <2>3 DEF RowsMove
    <3>2. CASE v = w
      <4>1. row'[r].status = row[r].status BY <1>3, <2>1, <3>2 DEF WorkMoves, Busy, Idle
      <4>. QED BY <1>2, <1>3, <2>1, <3>1, <3>2, <4>1 DEF Owns, SameOccurrence
    <3>3. CASE v # w
      <4>1. row[r].at = work[w].at BY <3>1 DEF Owns
      <4>2. Key(v) # Key(w) BY <1>1, <1>3, <3>3 DEF Claims
      <4>3. work[v].at # row[r].at BY <2>1, <3>1, <4>1, <4>2 DEF Key
      <4>. QED BY <1>2, <1>3, <2>1, <3>1, <4>3 DEF SameOccurrence
    <3>. QED BY <3>2, <3>3
  <2>. QED BY <2>2, <2>3
<1>4. ASSUME NEW v \in Worker, Busy(v)'
      PROVE  IF kind'[work'[v].row] = "once" THEN work'[v].at \in past' ELSE work'[v].at = None
  BY <1>1, <1>2, <1>4 DEF Claims
<1>5. ASSUME NEW u \in Worker, NEW v \in Worker, Busy(u)', Busy(v)', Key(u)' = Key(v)' PROVE u = v
  <2>1. Key(u) = Key(v) BY <1>2, <1>5 DEF Key
  <2>. QED BY <1>1, <1>5, <2>1 DEF Claims
<1>. QED BY <1>3, <1>4, <1>5 DEF Claims

\* What a worker read as come has come, whatever the row was set to since
LEMMA ReadingsStep ==
  ASSUME IInv, [Next]_vars
  PROVE  Readings'
<1>. USE DEF IInv
<1>0. CASE UNCHANGED <<kind, past, work>> BY <1>0 DEF Readings
<1>1. CASE QueueOccurrence BY <1>0, <1>1 DEF QueueOccurrence, clock
<1>2. ASSUME NEW r \in Row, NEW at \in Date, SaveOnce(r, at) PROVE Readings'
  BY SMTT(30), <1>0, <1>2 DEF SaveOnce, clock
<1>3. ASSUME NEW t \in Trigger, Enqueue(t) PROVE Readings'
  BY <1>0, <1>3 DEF Enqueue, Look, Merge, Unfit, InsertRow, Moved, clock
<1>4. ASSUME NEW r \in Row, Lapse(r) \/ Cancel(r) \/ ExpireDue(r) PROVE Readings'
  BY <1>0, <1>4 DEF Lapse, Cancel, ExpireDue, clock
<1>5. ASSUME NEW w \in Worker, NEW r \in Row, ClaimsRow(w, r) PROVE Readings'
  <2>1. UNCHANGED <<kind, past>> BY <1>5, ClaimTakes
  <2>2. \A v \in Worker : work'[v].pc = "claim" => work'[v] = work[v]
    <3>1. PICK c \in Claim : work' = [work EXCEPT ![w] = c] /\ c.pc = "reserve" BY <1>5, ClaimTakes
    <3>. QED BY <3>1 DEF Types
  <2>. QED BY <2>1, <2>2 DEF Readings
<1>6. ASSUME NEW w \in Worker, NEW r \in Row, ReadClock(w, r) PROVE Readings'
  <2>1. past' = past \cup ({row[r].at} \ {None}) /\ UNCHANGED kind BY <1>6 DEF ReadClock
  <2>2. PICK c : c = [pc |-> "claim", row |-> r, at |-> row[r].at] OBVIOUS
  <2>3. c.row = r /\ c.at = row[r].at BY <2>2
  <2>4. work' = [work EXCEPT ![w] = c] /\ row[r].status = "pending" BY <1>6, <2>2 DEF ReadClock
  <2>5. kind[r] = "once" => row[r].at \in past' BY <2>1, <2>4 DEF Rows
  <2>. QED BY <2>1, <2>3, <2>4, <2>5 DEF Readings, Types
<1>7. ASSUME NEW w \in Worker, NothingToClaim(w) PROVE Readings'
  BY <1>7 DEF NothingToClaim, Readings, Types, Idle, clock
<1>8. ASSUME NEW w \in Worker, Fire(w) \/ Trouble(w) PROVE Readings'
  <2>1. WorkMoves(w) /\ UNCHANGED <<kind, clock>> BY <1>8, WorkerMoves
  <2>2. \A v \in Worker : work'[v].pc = "claim" => work'[v] = work[v]
    BY <2>1 DEF WorkMoves, Claim, Step, Idle
  <2>. QED BY <2>1, <2>2 DEF Readings, clock
<1>9. CASE Restart BY <1>9 DEF Restart, Readings, Idle
<1>10. CASE UNCHANGED vars BY <1>0, <1>10 DEF vars, clock
<1>. QED BY <1>1, <1>2, <1>3, <1>4, <1>5, <1>6, <1>7, <1>8, <1>9, <1>10, Steps DEF Reads

LEMMA ClaimsStep ==
  ASSUME IInv, [Next]_vars
  PROVE  Claims'
<1>. USE DEF IInv
<1>0. CASE UNCHANGED <<kind, row, past, work>> BY <1>0 DEF Claims, Owns, Busy, Key
<1>1. CASE QueueOccurrence
  <2>1. PICK r \in Row, x \in RowRecord :
          Parks(r, x) /\ kind[r] = "scheduled" /\ row[r].status = "none"
    BY <1>1, QueueParks
  <2>2. \A w \in Worker : Busy(w) => work[w].row # r BY <2>1, NobodyOn
  <2>3. UNCHANGED <<kind, work, past>> BY <1>1 DEF QueueOccurrence, clock
  <2>. QED BY <2>1, <2>2, <2>3, UnownedWrites DEF Parks
<1>2. ASSUME NEW r \in Row, NEW at \in Date, SaveOnce(r, at) PROVE Claims'
  <2>1. PICK x \in RowRecord : Parks(r, x) /\ kind[r] = "once" /\ at \notin past /\ x.at = at
    BY <1>2, SaveParks
  <2>2. \A w \in Worker : (Busy(w) /\ work[w].row = r) => x.at # work[w].at BY <2>1 DEF Claims
  <2>3. UNCHANGED <<kind, work, past>> BY <1>2 DEF SaveOnce, clock
  <2>. QED BY <2>1, <2>2, <2>3, UnownedWrites DEF Parks
<1>3. ASSUME NEW t \in Trigger, Enqueue(t) PROVE Claims'
  <2>1. CASE Merge(t)
    <3>1. PICK r \in Row, x \in RowRecord : row' = [row EXCEPT ![r] = x] /\ Mergeable(r)
      BY <2>1, MergeJoins
    <3>2. \A w \in Worker : Busy(w) => work[w].row # r BY <3>1, NobodyOn DEF Mergeable
    <3>3. UNCHANGED <<kind, work, past>> BY <2>1 DEF Merge, clock
    <3>. QED BY <3>1, <3>2, <3>3, UnownedWrites
  <2>2. CASE InsertRow(t)
    <3>1. PICK r \in Row, x \in RowRecord :
            Parks(r, x) /\ kind[r] = "debounced" /\ row[r].status = "none"
      BY <2>2, InsertParks
    <3>2. \A w \in Worker : Busy(w) => work[w].row # r BY <3>1, NobodyOn
    <3>3. UNCHANGED <<kind, work, past>> BY <2>2 DEF InsertRow, clock
    <3>. QED BY <3>1, <3>2, <3>3, UnownedWrites DEF Parks
  <2>3. CASE UNCHANGED ledger BY <1>0, <2>3 DEF ledger, clock
  <2>. QED BY <1>3, <2>1, <2>2, <2>3, LookingKeeps DEF Enqueue
<1>4. ASSUME NEW r \in Row, Lapse(r) PROVE Claims' BY <1>0, <1>4 DEF Lapse
<1>5. ASSUME NEW r \in Row, Cancel(r) \/ ExpireDue(r) PROVE Claims'
  <2>1. PICK x \in RowRecord : row' = [row EXCEPT ![r] = x] /\ SameOccurrence(x, row[r])
    BY <1>5, EndsWaiting
  <2>2. row[r].status = "pending" BY <1>5, EndsWaiting
  <2>3. \A w \in Worker : (Busy(w) /\ work[w].row = r) => x.at # work[w].at
    BY <2>1, <2>2 DEF Claims, Owns, SameOccurrence
  <2>4. UNCHANGED <<kind, work, past>> BY <1>5 DEF Cancel, ExpireDue, clock
  <2>. QED BY <2>1, <2>3, <2>4, UnownedWrites
<1>6. ASSUME NEW w \in Worker, NEW r \in Row, ClaimsRow(w, r) PROVE Claims'
  <2>1. /\ row[r].status = "pending" /\ ~ Busy(w) /\ UNCHANGED <<kind, past>>
        /\ work[w].pc = "claim" /\ work[w].row = r /\ work[w].at = row[r].at
    BY <1>6, ClaimTakes
  <2>2. PICK x \in RowRecord :
          /\ row' = [row EXCEPT ![r] = x]
          /\ x.status = "fired" /\ x.attempts = row[r].attempts + 1 /\ x.at = row[r].at
    BY <1>6, ClaimTakes
  <2>3. PICK c \in Claim :
          /\ work' = [work EXCEPT ![w] = c] /\ c.pc = "reserve"
          /\ c.row = r /\ c.attempts = row[r].attempts + 1 /\ c.at = row[r].at
    BY <1>6, ClaimTakes
  <2>4. row'[r] = x /\ work'[w] = c BY <2>2, <2>3 DEF Types
  <2>5. ASSUME NEW v \in Worker, v # w, Busy(v)'
        PROVE  /\ Busy(v) /\ work'[v] = work[v] /\ Key(v)' # Key(w)'
               /\ Owns(v)' \/ row'[work[v].row].at # work[v].at
    <3>1. work'[v] = work[v] /\ Busy(v) BY <2>3, <2>5 DEF Types, Busy
    <3>2. work[v].row \in Row BY <3>1, BusyClaims DEF Claim
    <3>3. CASE work[v].row = r
      <4>1. row[r].at # work[v].at BY <2>1, <3>1, <3>3 DEF Claims, Owns
      <4>. QED BY <2>2, <2>3, <2>4, <3>1, <3>3, <4>1 DEF Key
    <3>4. CASE work[v].row # r
      <4>1. row'[work[v].row] = row[work[v].row] BY <2>2, <3>2, <3>4 DEF Types
      <4>2. Owns(v)' \/ row'[work[v].row].at # work[v].at BY <3>1, <4>1 DEF Claims, Owns
      <4>. QED BY <2>3, <2>4, <3>1, <3>4, <4>2 DEF Key
    <3>. QED BY <3>3, <3>4
  <2>6. Owns(w)' BY <2>2, <2>3, <2>4 DEF Owns
  <2>7. IF kind'[work'[w].row] = "once" THEN work'[w].at \in past' ELSE work'[w].at = None
    BY <2>1, <2>3, <2>4 DEF Rows, Readings
  <2>8. ASSUME NEW v \in Worker, Busy(v)'
        PROVE  /\ Owns(v)' \/ row'[work'[v].row].at # work'[v].at
               /\ IF kind'[work'[v].row] = "once" THEN work'[v].at \in past' ELSE work'[v].at = None
    <3>1. CASE v = w BY <2>6, <2>7, <3>1
    <3>2. CASE v # w
      <4>1. Busy(v) /\ work'[v] = work[v] BY <2>5, <2>8, <3>2
      <4>. QED BY <2>1, <2>5, <2>8, <3>2, <4>1 DEF Claims
    <3>. QED BY <3>1, <3>2
  <2>9. ASSUME NEW u \in Worker, NEW v \in Worker, Busy(u)', Busy(v)', Key(u)' = Key(v)' PROVE u = v
    <3>1. CASE u = w \/ v = w BY <2>5, <2>9, <3>1
    <3>2. CASE u # w /\ v # w
      <4>1. Busy(u) /\ Busy(v) /\ work'[u] = work[u] /\ work'[v] = work[v] BY <2>5, <2>9, <3>2
      <4>2. Key(u) = Key(v) BY <2>9, <4>1 DEF Key
      <4>. QED BY <4>1, <4>2 DEF Claims
    <3>. QED BY <3>1, <3>2
  <2>. QED BY <2>8, <2>9 DEF Claims
<1>7. ASSUME NEW w \in Worker, Fire(w) \/ Trouble(w) PROVE Claims'
  BY <1>7, WorkerMoves, WorkerClaims DEF clock
<1>8. CASE Restart
  <2>1. \A w \in Worker : ~ Busy(w)' BY <1>8 DEF Restart, Busy, Idle
  <2>. QED BY <2>1 DEF Claims
<1>9. CASE UNCHANGED vars BY <1>0, <1>9 DEF vars
<1>10. ASSUME NEW w \in Worker, Reads(w) PROVE Claims'
  BY <1>10, ReadsKeep DEF Claims, Owns, Key
<1>. QED BY <1>1, <1>2, <1>3, <1>4, <1>5, <1>6, <1>7, <1>8, <1>9, <1>10, Steps

-----------------------------------------------------------------------------
(* Run ids *)

Keys == Row \X Maybe(Date)

LEMMA ReservedDomain ==
  ASSUME Types
  PROVE  DOMAIN reserved = Keys /\ \A k \in Keys : reserved[k] \in Maybe(Nat)
BY DEF Types, Keys

\* Dropping reservations and planned ids keeps the rest apart
LEMMA IdsShrink ==
  ASSUME Types, Types', Ids, UNCHANGED minted,
         \A r \in Row : row'[r].run \in {row[r].run, None},
         \A k \in Keys : reserved'[k] \in {reserved[k], None}
  PROVE  Ids'
<1>1. DOMAIN reserved = Keys /\ DOMAIN reserved' = Keys BY DEF Types, Keys
<1>. QED BY <1>1 DEF Ids

\* The steps that give out no id
LEMMA WorkerKeepsRun ==
  ASSUME Types, NEW w \in Worker, RowsMove(w)
  PROVE  \A r \in Row : row'[r].run = row[r].run
BY DEF RowsMove, SameOccurrence

LEMMA ReserveIds ==
  ASSUME IInv, Types', NEW w \in Worker, Reserve(w)
  PROVE  Ids'
<1>. USE DEF IInv
<1>1. work[w] \in Claim /\ Key(w) \in Keys
  <2>1. work[w] \in Claim BY BusyClaims DEF Reserve, Busy
  <2>. QED BY <2>1 DEF Key, Claim, Keys
<1>2. DOMAIN reserved = Keys /\ DOMAIN reserved' = Keys BY DEF Types, Keys
<1>3. UNCHANGED row BY DEF Reserve
<1>4. CASE reserved[Key(w)] # None
  BY <1>3, <1>4 DEF Reserve, Ids
<1>5. CASE reserved[Key(w)] = None /\ work[w].run = None
  <2>1. /\ minted' = minted + 1 /\ reserved' = [reserved EXCEPT ![Key(w)] = minted + 1]
    BY <1>5 DEF Reserve
  <2>2. minted \in Nat /\ None \notin Nat BY DEF Types
  <2>3. \A k \in Keys : reserved[k] \in Nat => reserved[k] <= minted BY <1>2, <2>2 DEF Ids
  <2>4. \A k \in Keys : reserved[k] \in Maybe(Nat) BY ReservedDomain
  <2>5. \A k \in Keys : reserved'[k] = IF k = Key(w) THEN minted + 1 ELSE reserved[k]
    BY <1>2, <2>1
  <2>6. \A k, l \in Keys : (reserved'[k] # None /\ reserved'[k] = reserved'[l]) => k = l
    BY <1>2, <2>2, <2>3, <2>4, <2>5 DEF Ids, Maybe
  <2>7. \A k \in Keys : reserved'[k] # None => reserved'[k] <= minted'
    BY <2>1, <2>2, <2>3, <2>4, <2>5 DEF Maybe
  <2>8. ASSUME NEW r \in Row, row[r].run # None
        PROVE  row[r].run <= minted' /\ \A k \in Keys : reserved'[k] = row[r].run => k = <<r, None>>
    <3>1. row[r].run \in Nat /\ row[r].run <= minted
      BY <2>8 DEF Types, RowRecord, Maybe, Ids
    <3>. QED BY <1>2, <2>1, <2>2, <2>5, <2>8, <3>1 DEF Ids
  <2>. QED BY <1>2, <1>3, <2>6, <2>7, <2>8 DEF Ids
<1>6. CASE reserved[Key(w)] = None /\ work[w].run # None
  <2>1. /\ minted' = minted /\ reserved' = [reserved EXCEPT ![Key(w)] = work[w].run]
    BY <1>6 DEF Reserve
  <2>2. PICK r \in Row : r = work[w].row BY <1>1 DEF Claim
  <2>3. row[r].run = work[w].run BY <1>6, <2>2 DEF Reservations, Relies, Reserve
  <2>4. kind[r] = "scheduled" BY <1>6, <2>3 DEF Rows
  <2>5. Key(w) = <<r, None>> BY <2>2, <2>4 DEF Key, Claims, Busy, Reserve
  <2>6. \A k \in Keys : reserved'[k] = IF k = <<r, None>> THEN row[r].run ELSE reserved[k]
    BY <1>2, <2>1, <2>3, <2>5
  <2>7. /\ row[r].run <= minted
        /\ \A k \in Keys : reserved[k] = row[r].run => k = <<r, None>>
        /\ \A s \in Row : row[s].run = row[r].run => s = r
    BY <1>2, <1>6, <2>3 DEF Ids
  <2>8. \A k, l \in Keys : (reserved'[k] # None /\ reserved'[k] = reserved'[l]) => k = l
    BY <1>2, <2>6, <2>7 DEF Ids
  <2>9. \A k \in Keys : reserved'[k] # None => reserved'[k] <= minted'
    BY <1>2, <2>1, <2>6, <2>7 DEF Ids
  <2>10. \A s \in Row : row[s].run # None => \A k \in Keys : reserved'[k] = row[s].run => k = <<s, None>>
    BY <1>2, <2>6, <2>7 DEF Ids
  <2>. QED BY <1>2, <1>3, <2>1, <2>8, <2>9, <2>10 DEF Ids
<1>. QED BY <1>4, <1>5, <1>6

LEMMA IdsStep ==
  ASSUME IInv, Types', [Next]_vars
  PROVE  Ids'
<1>. USE DEF IInv
<1>0. CASE UNCHANGED <<row, reserved, minted>> BY <1>0 DEF Ids
<1>1. CASE QueueOccurrence
  <2>1. PICK q \in Row, x \in RowRecord : row' = [row EXCEPT ![q] = x] /\ x.run = minted + 1
    BY <1>1, QueueParks DEF Parks
  <2>2. minted' = minted + 1 /\ UNCHANGED reserved /\ minted \in Nat
    BY <1>1 DEF QueueOccurrence, Types
  <2>3. DOMAIN reserved = Keys BY ReservedDomain
  <2>4. \A k \in Keys : reserved[k] # None => reserved[k] \in Nat /\ reserved[k] <= minted
    BY <2>3, ReservedDomain DEF Ids, Maybe
  <2>5. \A r \in Row : row[r].run # None => row[r].run \in Nat /\ row[r].run <= minted
    BY DEF Types, RowRecord, Maybe, Ids
  <2>6. \A r \in Row : row'[r].run = IF r = q THEN minted + 1 ELSE row[r].run
    BY <2>1 DEF Types
  <2>7. \A k \in Keys : reserved'[k] # None => reserved'[k] <= minted' BY <2>2, <2>4
  <2>8. ASSUME NEW r \in Row, row'[r].run # None
        PROVE  /\ row'[r].run <= minted'
               /\ \A k \in Keys : reserved'[k] = row'[r].run => k = <<r, None>>
               /\ \A s \in Row : row'[s].run = row'[r].run => s = r
    <3>1. CASE r = q BY <2>2, <2>4, <2>5, <2>6, <3>1
    <3>2. CASE r # q BY <2>2, <2>3, <2>5, <2>6, <2>8, <3>2 DEF Ids
    <3>. QED BY <3>1, <3>2
  <2>. QED BY <2>2, <2>3, <2>7, <2>8 DEF Ids
<1>2. ASSUME NEW r \in Row, NEW at \in Date, SaveOnce(r, at) PROVE Ids'
  <2>1. PICK x \in RowRecord : row' = [row EXCEPT ![r] = x] /\ x.run = None
    BY <1>2, SaveParks DEF Parks
  <2>2. \A s \in Row : row'[s].run \in {row[s].run, None} BY <2>1 DEF Types
  <2>3. UNCHANGED <<reserved, minted>> BY <1>2 DEF SaveOnce
  <2>. QED BY <2>2, <2>3, IdsShrink
<1>3. ASSUME NEW t \in Trigger, Enqueue(t) PROVE Ids'
  <2>1. UNCHANGED <<reserved, minted>> BY <1>3 DEF Enqueue, Look, Merge, Unfit, InsertRow, Moved
  <2>2. CASE Merge(t)
    <3>1. PICK r \in Row, x \in RowRecord :
            row' = [row EXCEPT ![r] = x] /\ Mergeable(r) /\ x.run = row[r].run
      BY <2>2, MergeJoins
    <3>2. \A s \in Row : row'[s].run \in {row[s].run, None} BY <3>1 DEF Types
    <3>. QED BY <2>1, <3>2, IdsShrink
  <2>3. CASE InsertRow(t)
    <3>1. PICK r \in Row, x \in RowRecord : Parks(r, x) /\ kind[r] = "debounced" /\ x.run = None
      BY <2>3, InsertParks
    <3>2. \A s \in Row : row'[s].run \in {row[s].run, None} BY <3>1 DEF Types, Parks
    <3>. QED BY <2>1, <3>2, IdsShrink
  <2>4. CASE UNCHANGED ledger BY <1>0, <2>4 DEF ledger
  <2>. QED BY SMTT(30), <1>3, <2>2, <2>3, <2>4, LookingKeeps DEF Enqueue
<1>4. ASSUME NEW r \in Row, Lapse(r) PROVE Ids' BY <1>0, <1>4 DEF Lapse
<1>5. ASSUME NEW r \in Row, Cancel(r) \/ ExpireDue(r) PROVE Ids'
  <2>1. PICK x \in RowRecord : row' = [row EXCEPT ![r] = x] /\ x.run = row[r].run
    BY <1>5, EndsWaiting DEF SameOccurrence
  <2>2. \A s \in Row : row'[s].run \in {row[s].run, None} BY <2>1 DEF Types
  <2>3. UNCHANGED <<reserved, minted>> BY <1>5 DEF Cancel, ExpireDue
  <2>. QED BY <2>2, <2>3, IdsShrink
<1>6. ASSUME NEW w \in Worker, NEW r \in Row, ClaimsRow(w, r) PROVE Ids'
  <2>1. PICK x \in RowRecord : row' = [row EXCEPT ![r] = x] /\ x.run = row[r].run
    BY <1>6, ClaimTakes
  <2>2. \A s \in Row : row'[s].run \in {row[s].run, None} BY <2>1 DEF Types
  <2>3. UNCHANGED <<reserved, minted>> BY <1>6, ClaimTakes
  <2>. QED BY <2>2, <2>3, IdsShrink
<1>7. ASSUME NEW w \in Worker, Fire(w) \/ Trouble(w) PROVE Ids'
  <2>1. \A r \in Row : row'[r].run \in {row[r].run, None} BY <1>7, WorkerMoves, WorkerKeepsRun
  <2>2. CASE Reserve(w) BY <2>2, ReserveIds
  <2>3. CASE UNCHANGED minted /\ \E k \in Keys : reserved' \in {reserved, [reserved EXCEPT ![k] = None]}
    <3>1. \A k \in Keys : reserved'[k] \in {reserved[k], None} BY <2>3, ReservedDomain
    <3>. QED BY <2>1, <2>3, <3>1, IdsShrink
  <2>4. /\ Key(w) \in Keys /\ <<work[w].row, None>> \in Keys
    BY <1>7, WorkerMoves DEF Key, Keys, Claim, Maybe
  <2>5. CASE RoutineFull(w) BY <2>3, <2>4, <2>5 DEF RoutineFull
  <2>6. CASE Requeue(w)
    <3>1. reserved' \in {reserved, [reserved EXCEPT ![<<work[w].row, None>>] = None]} /\ UNCHANGED minted
      BY <2>6 DEF Requeue
    <3>. QED BY <2>3, <2>4, <3>1
  <2>7. CASE UNCHANGED <<reserved, minted>> BY <2>3, <2>4, <2>7
  <2>. QED BY <1>7, <2>2, <2>5, <2>6, <2>7
    DEF Fire, Trouble, AcquireSlot, Persist, Link, Backfill, Deduped, RecordError,
        StartFails, PersistUnheard, LinkFails, FinalWriteFails
<1>8. CASE Restart
  <2>1. \A r \in Row : row'[r].run \in {row[r].run, None}
    BY <1>8, RestartRecovers DEF SameOccurrence
  <2>2. \A k \in Keys : reserved'[k] \in {reserved[k], None}
    BY <1>8, ReservedDomain DEF Restart
  <2>3. UNCHANGED minted BY <1>8 DEF Restart
  <2>. QED BY <2>1, <2>2, <2>3, IdsShrink
<1>9. CASE UNCHANGED vars BY <1>0, <1>9 DEF vars
<1>10. ASSUME NEW w \in Worker, Reads(w) PROVE Ids'
  BY <1>10, ReadsKeep DEF Ids
<1>. QED BY <1>1, <1>2, <1>3, <1>4, <1>5, <1>6, <1>7, <1>8, <1>9, <1>10, Steps

-----------------------------------------------------------------------------
(* Reservations *)

\* Steps that touch neither reservations nor runs nor claims
LEMMA ReservationsStay ==
  ASSUME Types, Rows, Reservations, UNCHANGED <<kind, runs, reserved, work>>,
         \A w \in Worker : Busy(w) =>
           row'[work[w].row].run = row[work[w].row].run \/ kind[work[w].row] = "once"
  PROVE  Reservations'
<1>1. RunsReserved' BY DEF Reservations, RunsReserved
<1>2. ASSUME NEW w \in Worker PROVE Relies(w)'
  <2>1. CASE work[w].pc = "reserve"
    <3>1. Busy(w) /\ work[w].row \in Row BY <2>1, BusyClaims DEF Busy, Claim
    <3>2. work[w].run \in {None, row'[work[w].row].run}
      BY <2>1, <3>1 DEF Reservations, Relies, Rows
    <3>. QED BY <2>1, <3>2 DEF Relies
  <2>2. CASE work[w].pc # "reserve" BY <2>2 DEF Reservations, Relies, Key, RunOf
  <2>. QED BY <2>1, <2>2
<1>. QED BY <1>1, <1>2 DEF Reservations

\* What the other workers rely on does not change under a worker's step
LEMMA OthersRely ==
  ASSUME Types, Claims, Reservations, NEW w \in Worker, Busy(w), WorkMoves(w), RowsMove(w),
         NEW v \in Worker, v # w, runs' \in {runs, runs \cup {RunOf(w)}},
         \A k \in Keys : k # Key(w) => reserved'[k] = reserved[k]
  PROVE  Relies(v)'
<1>1. work'[v] = work[v] BY DEF WorkMoves
<1>2. Key(v)' = Key(v) /\ RunOf(v)' = RunOf(v) BY <1>1 DEF Key, RunOf
<1>3. CASE ~ Busy(v) BY <1>1, <1>3 DEF Busy, Relies
<1>4. CASE Busy(v)
  <2>1. Key(v) # Key(w) BY <1>4 DEF Claims
  <2>2. work[v] \in Claim BY <1>4, BusyClaims
  <2>3. Key(v) \in Keys BY <2>2 DEF Key, Keys, Claim
  <2>4. reserved'[Key(v)] = reserved[Key(v)] BY <2>1, <2>3
  <2>5. row'[work[v].row].run = row[work[v].row].run BY <2>2, WorkerKeepsRun DEF Claim
  <2>6. <<RunOf(w).row, RunOf(w).at>> = Key(w) BY DEF RunOf, Key
  <2>7. Relies(v) BY DEF Reservations
  <2>. QED BY <1>1, <1>2, <2>1, <2>4, <2>5, <2>6, <2>7 DEF Relies
<1>. QED BY <1>3, <1>4

\* A worker makes its reservation, or finds one
LEMMA ReserveRelies ==
  ASSUME IInv, NEW w \in Worker, Reserve(w)
  PROVE  RunsReserved' /\ Relies(w)'
<1>. USE DEF IInv
<1>1. Busy(w) /\ work[w] \in Claim BY BusyClaims DEF Reserve, Busy
<1>2. Key(w) \in Keys BY <1>1 DEF Key, Keys, Claim
<1>3. UNCHANGED <<kind, runs>> BY DEF Reserve
<1>4. \A x \in runs : <<x.row, x.at>> \in Keys /\ x.id \in Nat BY DEF Types, Run, Keys
<1>5. CASE reserved[Key(w)] = None
  <2>1. PICK id \in Nat : /\ reserved' = [reserved EXCEPT ![Key(w)] = id]
                          /\ work' = [work EXCEPT ![w].pc = "acquire", ![w].run = id]
    BY <1>1, <1>5 DEF Reserve, Types, Claim, Maybe
  <2>2. \A x \in runs : <<x.row, x.at>> # Key(w)
    BY <1>4, <1>5 DEF Reservations, RunsReserved
  <2>3. work'[w].pc = "acquire" /\ work'[w].run = id /\ Key(w)' = Key(w)
    BY <1>1, <2>1 DEF Types, Claim, Key
  <2>4. \A k \in Keys : reserved'[k] = IF k = Key(w) THEN id ELSE reserved[k]
    BY <2>1, ReservedDomain
  <2>5. RunsReserved' BY <1>3, <1>4, <2>2, <2>4 DEF Reservations, RunsReserved
  <2>. QED BY <1>2, <1>3, <2>2, <2>3, <2>4, <2>5 DEF Relies
<1>6. CASE reserved[Key(w)] # None
  <2>1. /\ work' = [work EXCEPT ![w].pc = "deduped", ![w].run = reserved[Key(w)]]
        /\ UNCHANGED reserved
    BY <1>6 DEF Reserve
  <2>2. work'[w].pc = "deduped" /\ work'[w].run = reserved[Key(w)] /\ Key(w)' = Key(w)
    BY <1>1, <2>1 DEF Types, Claim, Key
  <2>. QED BY <1>3, <1>6, <2>1, <2>2 DEF Relies, Reservations, RunsReserved
<1>. QED BY <1>5, <1>6

\* Giving a reservation back happens only before the run exists
LEMMA ReleaseIsEarly ==
  ASSUME IInv, NEW w \in Worker, RoutineFull(w) \/ Requeue(w)
  PROVE  /\ RunsReserved'
         /\ \A k \in Keys : k # Key(w) => reserved'[k] = reserved[k]
<1>. USE DEF IInv
<1>1. Busy(w) /\ work[w] \in Claim BY BusyClaims DEF RoutineFull, Requeue, Busy
<1>2. Key(w) \in Keys BY <1>1 DEF Key, Keys, Claim
<1>3. UNCHANGED <<kind, runs>> BY DEF RoutineFull, Requeue
<1>4. \A x \in runs : <<x.row, x.at>> \in Keys /\ x.id \in Nat BY DEF Types, Run, Keys
<1>5. ASSUME reserved' = [reserved EXCEPT ![Key(w)] = None],
             \A x \in runs : <<x.row, x.at>> # Key(w)
      PROVE  /\ RunsReserved'
             /\ \A k \in Keys : k # Key(w) => reserved'[k] = reserved[k]
  <2>1. \A k \in Keys : k # Key(w) => reserved'[k] = reserved[k] BY <1>5, ReservedDomain
  <2>. QED BY <1>3, <1>4, <1>5, <2>1 DEF Reservations, RunsReserved
<1>6. CASE RoutineFull(w)
  BY <1>5, <1>6 DEF RoutineFull, Reservations, Relies
<1>7. CASE Requeue(w) /\ UNCHANGED reserved
  BY <1>3, <1>7 DEF Reservations, RunsReserved
<1>8. CASE Requeue(w) /\ reserved' # reserved
  <2>1. PICK r \in Row : r = work[w].row BY <1>1 DEF Claim
  <2>2. /\ Owns(w) /\ row[r].linked = None /\ row' = [row EXCEPT ![r] = Recovered(r)]
        /\ row'[r].status = "pending" /\ reserved' = [reserved EXCEPT ![<<r, None>>] = None]
    BY <1>8, <2>1 DEF Requeue
  <2>3. Recovered(r).status = "pending" BY <2>2 DEF Types
  <2>4. ~ Started(row[r].run, r) /\ reserved[<<r, None>>] \in {None, row[r].run}
    BY <2>1, <2>2, <2>3, RecoveredIs DEF Owns
  <2>5. Key(w) = <<r, None>> BY <1>1, <1>8, <2>1 DEF Key, Claims, Requeue, Planned
  <2>6. \A x \in runs : <<x.row, x.at>> # <<r, None>>
    BY <1>4, <2>4 DEF Reservations, RunsReserved, Started
  <2>. QED BY <1>5, <2>2, <2>5, <2>6
<1>. QED BY <1>6, <1>7, <1>8

\* A run starts with the reservation of its worker
LEMMA PersistRelies ==
  ASSUME IInv, NEW w \in Worker,
         Persist(w) \/ \E why \in {"error", "interrupted"} : PersistUnheard(w, why)
  PROVE  RunsReserved' /\ Relies(w)' /\ runs' = runs \cup {RunOf(w)} /\ UNCHANGED reserved
<1>. USE DEF IInv
<1>1. work[w].pc = "persist" BY DEF Persist, PersistUnheard
<1>2. Busy(w) /\ work[w] \in Claim BY <1>1, BusyClaims DEF Busy
<1>3. /\ runs' = runs \cup {RunOf(w)} /\ UNCHANGED <<kind, reserved>>
  BY DEF Persist, PersistUnheard
<1>4. reserved[Key(w)] = work[w].run BY <1>1 DEF Reservations, Relies
<1>5. RunOf(w).id = work[w].run /\ RunOf(w).row = work[w].row /\ RunOf(w).at = work[w].at
  BY DEF RunOf
<1>6. kind[work[w].row] # "once" => work[w].at = None BY <1>2 DEF Claims
<1>7. RunsReserved' BY <1>3, <1>4, <1>5, <1>6 DEF Reservations, RunsReserved, Key
<1>8. Relies(w)'
  <2>1. PICK p \in {"link", "error", "interrupted"} : work' = [work EXCEPT ![w].pc = p]
    BY DEF Persist, PersistUnheard, Goes
  <2>2. work'[w] = [work[w] EXCEPT !.pc = p] BY <2>1 DEF Types
  <2>3. work'[w].pc = p /\ Key(w)' = Key(w) /\ work'[w].run = work[w].run /\ RunOf(w)' = RunOf(w)
    BY <1>2, <2>2 DEF Claim, Key, RunOf
  <2>4. work[w].run # None BY <1>1 DEF Reservations, Relies
  <2>. QED BY <1>3, <1>4, <2>3, <2>4 DEF Relies
<1>. QED BY <1>3, <1>7, <1>8

\* The other steps of a worker move on with what it has, or end its claim
LEMMA RestRelies ==
  ASSUME IInv, NEW w \in Worker, UNCHANGED <<kind, runs, reserved>>,
         \/ AcquireSlot(w) \/ Link(w) \/ LinkFails(w)
         \/ \E why \in {"error", "interrupted"} : StartFails(w, why)
         \/ work' = [work EXCEPT ![w] = Idle]
  PROVE  RunsReserved' /\ Relies(w)'
<1>. USE DEF IInv
<1>1. RunsReserved' BY DEF Reservations, RunsReserved
<1>2. CASE work' = [work EXCEPT ![w] = Idle]
  <2>1. work'[w].pc = "idle" BY <1>2 DEF Types, Idle
  <2>. QED BY <1>1, <2>1 DEF Relies
<1>3. ASSUME NEW p \in Step, Goes(w, p), Busy(w)
      PROVE  work'[w].pc = p /\ Key(w)' = Key(w) /\ work'[w].run = work[w].run /\ RunOf(w)' = RunOf(w)
  <2>1. work[w] \in Claim BY <1>3, BusyClaims
  <2>2. work'[w] = [work[w] EXCEPT !.pc = p] BY <1>3 DEF Types, Goes
  <2>. QED BY <2>1, <2>2 DEF Claim, Key, RunOf
<1>4. Relies(w) BY DEF Reservations
<1>5. CASE AcquireSlot(w)
  <2>1. work[w].pc = "acquire" /\ Goes(w, "persist") BY <1>5 DEF AcquireSlot
  <2>2. /\ work'[w].pc = "persist" /\ Key(w)' = Key(w) /\ work'[w].run = work[w].run
    BY <1>3, <2>1 DEF Step, Busy
  <2>. QED BY <1>1, <1>4, <2>1, <2>2 DEF Relies
<1>6. CASE Link(w) \/ LinkFails(w)
  <2>1. work[w].pc = "link" /\ Goes(w, "running") BY <1>6 DEF Link, LinkFails
  <2>2. /\ work'[w].pc = "running" /\ Key(w)' = Key(w) /\ work'[w].run = work[w].run
        /\ RunOf(w)' = RunOf(w)
    BY <1>3, <2>1 DEF Step, Busy
  <2>. QED BY <1>1, <1>4, <2>1, <2>2 DEF Relies
<1>7. CASE \E why \in {"error", "interrupted"} : StartFails(w, why)
  <2>1. PICK why \in {"error", "interrupted"} : Goes(w, why) /\ Busy(w)
    BY <1>7 DEF StartFails, Busy
  <2>2. work'[w].pc = why BY <1>3, <2>1 DEF Step
  <2>. QED BY <1>1, <2>2 DEF Relies
<1>. QED BY <1>2, <1>5, <1>6, <1>7

LEMMA WorkerReservations ==
  ASSUME IInv, NEW w \in Worker, Fire(w) \/ Trouble(w)
  PROVE  Reservations'
<1>. USE DEF IInv
<1>1. Busy(w) /\ work[w] \in Claim /\ RowsMove(w) /\ WorkMoves(w) BY WorkerMoves
<1>2. ASSUME RunsReserved', Relies(w)', runs' \in {runs, runs \cup {RunOf(w)}},
             \A k \in Keys : k # Key(w) => reserved'[k] = reserved[k]
      PROVE  Reservations'
  BY <1>1, <1>2, OthersRely DEF Reservations
<1>3. CASE Reserve(w)
  <2>1. \A k \in Keys : k # Key(w) => reserved'[k] = reserved[k]
    BY <1>3, ReservedDomain DEF Reserve
  <2>2. UNCHANGED runs BY <1>3 DEF Reserve
  <2>. QED BY <1>2, <1>3, <2>1, <2>2, ReserveRelies
<1>4. CASE Persist(w) \/ \E why \in {"error", "interrupted"} : PersistUnheard(w, why)
  BY <1>2, <1>4, PersistRelies
<1>5. CASE RoutineFull(w) \/ Requeue(w)
  <2>1. work'[w].pc \in {"capacity", "idle"}
    BY <1>1, <1>5 DEF RoutineFull, Requeue, Goes, Types, Claim, Idle
  <2>2. Relies(w)' BY <2>1 DEF Relies
  <2>3. UNCHANGED runs BY <1>5 DEF RoutineFull, Requeue
  <2>. QED BY <1>2, <1>5, <2>2, <2>3, ReleaseIsEarly
<1>6. ASSUME UNCHANGED <<kind, runs, reserved>>,
             \/ AcquireSlot(w) \/ Link(w) \/ LinkFails(w)
             \/ \E why \in {"error", "interrupted"} : StartFails(w, why)
             \/ work' = [work EXCEPT ![w] = Idle]
      PROVE  Reservations'
  BY <1>2, <1>6, RestRelies
<1>7. CASE AcquireSlot(w) \/ Link(w) \/ LinkFails(w) \/ \E why \in {"error", "interrupted"} : StartFails(w, why)
  <2>1. UNCHANGED <<kind, runs, reserved>> BY <1>7 DEF AcquireSlot, Link, LinkFails, StartFails
  <2>. QED BY <1>6, <1>7, <2>1
<1>8. CASE Backfill(w) \/ Deduped(w) \/ RecordError(w) \/ FinalWriteFails(w)
  BY <1>6, <1>8 DEF Backfill, Deduped, RecordError, FinalWriteFails
<1>. QED BY <1>3, <1>4, <1>5, <1>7, <1>8 DEF Fire, Trouble

LEMMA RestartReservations ==
  ASSUME IInv, Restart
  PROVE  Reservations'
<1>. USE DEF IInv
<1>1. \A w \in Worker : Relies(w)' BY DEF Restart, Relies, Idle
<1>2. UNCHANGED <<kind, runs>> BY DEF Restart
<1>3. ASSUME NEW x \in runs
      PROVE  reserved'[<<x.row, x.at>>] = reserved[<<x.row, x.at>>]
  <2>1. PICK r \in Row : r = x.row BY DEF Types, Run
  <2>2. PICK k \in Keys : k = <<r, x.at>> BY <2>1 DEF Types, Run, Keys
  <2>3. k[1] = r BY <2>2
  <2>4. reserved'[k] = IF Unlinked(r) /\ row'[r].status = "pending" THEN None ELSE reserved[k]
    BY <2>2, <2>3, ReservedDomain DEF Restart
  <2>5. CASE Unlinked(r) /\ row'[r].status = "pending"
    <3>1. row'[r] # row[r] BY <2>5 DEF Unlinked
    <3>2. /\ row[r].run # None /\ ~ Started(row[r].run, r)
          /\ reserved[<<r, None>>] \in {None, row[r].run}
      BY <2>1, <2>5, <3>1, RestartRecovers
    <3>3. kind[r] = "scheduled" BY <3>2 DEF Rows
    <3>4. x.at = None /\ reserved[<<r, None>>] = x.id BY <2>1, <3>3 DEF Reservations, RunsReserved
    <3>5. x.id \in Nat BY DEF Types, Run
    <3>. QED BY <2>1, <3>2, <3>4, <3>5 DEF Started
  <2>6. CASE ~ (Unlinked(r) /\ row'[r].status = "pending") BY <2>1, <2>2, <2>4, <2>6
  <2>. QED BY <2>5, <2>6
<1>. QED BY <1>1, <1>2, <1>3 DEF Reservations, RunsReserved

LEMMA ReservationsStep ==
  ASSUME IInv, [Next]_vars
  PROVE  Reservations'
<1>. USE DEF IInv
<1>0. ASSUME NEW r \in Row, NEW x \in RowRecord, row' = [row EXCEPT ![r] = x],
             UNCHANGED <<kind, runs, reserved, work>>,
             x.run = row[r].run \/ kind[r] = "once" \/ row[r].status = "none"
      PROVE  Reservations'
  <2>1. ASSUME NEW w \in Worker, Busy(w)
        PROVE  row'[work[w].row].run = row[work[w].row].run \/ kind[work[w].row] = "once"
    <3>1. work[w].row \in Row BY <2>1, BusyClaims DEF Claim
    <3>2. CASE work[w].row # r BY <1>0, <3>1, <3>2 DEF Types
    <3>3. CASE work[w].row = r BY <1>0, <2>1, <3>3, NobodyOn DEF Types
    <3>. QED BY <3>2, <3>3
  <2>. QED BY <1>0, <2>1, ReservationsStay
<1>1. CASE QueueOccurrence
  <2>1. UNCHANGED <<kind, runs, reserved, work>> BY <1>1 DEF QueueOccurrence
  <2>2. PICK r \in Row, x \in RowRecord : Parks(r, x) /\ kind[r] = "scheduled" /\ row[r].status = "none"
    BY <1>1, QueueParks
  <2>. QED BY <1>0, <2>1, <2>2 DEF Parks
<1>2. ASSUME NEW r \in Row, NEW at \in Date, SaveOnce(r, at) PROVE Reservations'
  <2>1. UNCHANGED <<kind, runs, reserved, work>> BY <1>2 DEF SaveOnce
  <2>2. PICK x \in RowRecord : Parks(r, x) /\ kind[r] = "once" BY <1>2, SaveParks
  <2>. QED BY <1>0, <2>1, <2>2 DEF Parks
<1>3. ASSUME NEW t \in Trigger, Enqueue(t) PROVE Reservations'
  <2>1. UNCHANGED <<kind, runs, reserved, work>>
    BY <1>3 DEF Enqueue, Look, Merge, Unfit, InsertRow, Moved
  <2>2. CASE Merge(t)
    <3>1. PICK r \in Row, x \in RowRecord :
            row' = [row EXCEPT ![r] = x] /\ Mergeable(r) /\ x.run = row[r].run
      BY <2>2, MergeJoins
    <3>. QED BY <1>0, <2>1, <3>1
  <2>3. CASE InsertRow(t)
    <3>1. PICK r \in Row, x \in RowRecord : Parks(r, x) /\ kind[r] = "debounced" /\ row[r].status = "none"
      BY <2>3, InsertParks
    <3>. QED BY <1>0, <2>1, <3>1 DEF Parks
  <2>4. CASE UNCHANGED ledger BY <2>1, <2>4, ReservationsStay DEF ledger
  <2>. QED BY SMTT(30), <1>3, <2>2, <2>3, <2>4, LookingKeeps DEF Enqueue
<1>4. ASSUME NEW r \in Row, Lapse(r) PROVE Reservations' BY <1>4, ReservationsStay DEF Lapse
<1>5. ASSUME NEW r \in Row, Cancel(r) \/ ExpireDue(r) PROVE Reservations'
  <2>1. UNCHANGED <<kind, runs, reserved, work>> BY <1>5 DEF Cancel, ExpireDue
  <2>2. PICK x \in RowRecord : row' = [row EXCEPT ![r] = x] /\ SameOccurrence(x, row[r])
    BY <1>5, EndsWaiting
  <2>. QED BY <1>0, <2>1, <2>2 DEF SameOccurrence
<1>6. ASSUME NEW w \in Worker, NEW r \in Row, ClaimsRow(w, r) PROVE Reservations'
  <2>1. UNCHANGED <<kind, runs, reserved>> BY <1>6, ClaimTakes
  <2>2. PICK x \in RowRecord : row' = [row EXCEPT ![r] = x] /\ x.run = row[r].run
    BY <1>6, ClaimTakes
  <2>3. PICK c \in Claim : /\ work' = [work EXCEPT ![w] = c] /\ c.pc = "reserve"
                           /\ c.row = r /\ c.run = row[r].run
    BY <1>6, ClaimTakes
  <2>4. \A s \in Row : row'[s].run = row[s].run BY <2>2 DEF Types
  <2>5. ASSUME NEW v \in Worker PROVE Relies(v)'
    <3>1. CASE v = w
      <4>1. work'[v] = c BY <2>3, <3>1 DEF Types
      <4>. QED BY <2>3, <2>4, <4>1 DEF Relies
    <3>2. CASE v # w
      <4>1. work'[v] = work[v] BY <2>3, <3>2 DEF Types
      <4>2. Key(v)' = Key(v) /\ RunOf(v)' = RunOf(v) BY <4>1 DEF Key, RunOf
      <4>3. work[v].pc = "reserve" => work[v].row \in Row BY BusyClaims DEF Busy, Claim
      <4>4. Relies(v) BY DEF Reservations
      <4>. QED BY <2>1, <2>4, <4>1, <4>2, <4>3, <4>4 DEF Relies
    <3>. QED BY <3>1, <3>2
  <2>6. RunsReserved' BY <2>1 DEF Reservations, RunsReserved
  <2>. QED BY <2>5, <2>6 DEF Reservations
<1>7. ASSUME NEW w \in Worker, Fire(w) \/ Trouble(w) PROVE Reservations' BY <1>7, WorkerReservations
<1>8. CASE Restart BY <1>8, RestartReservations
<1>9. CASE UNCHANGED vars BY <1>9, ReservationsStay DEF vars
<1>10. ASSUME NEW w \in Worker, Reads(w) PROVE Reservations'
  BY <1>10, ReadsKeep DEF Reservations, RunsReserved, Relies, Key, RunOf, Busy
<1>. QED BY <1>1, <1>2, <1>3, <1>4, <1>5, <1>6, <1>7, <1>8, <1>9, <1>10, Steps

-----------------------------------------------------------------------------
(* One run per occurrence *)

UniqueRuns == \A x, y \in runs : (x.row = y.row /\ x.at = y.at) => x = y

\* A linked row is linked to the run of the occurrence it stands for
LinkHolds(r) ==
  row[r].linked # None => \E x \in runs : x.id = row[r].linked /\ x.row = r /\ x.at = row[r].at

LinksHold == \A r \in Row : LinkHolds(r)

LEMMA OneRunParts ==
  ASSUME Reservations
  PROVE  OneRunPerOccurrence <=> UniqueRuns /\ LinksHold
<1>1. \A w \in Worker : work[w].pc = "persist" =>
        \A x \in runs : <<x.row, x.at>> # <<work[w].row, work[w].at>>
  BY DEF Reservations, Relies, Key
<1>. QED BY <1>1 DEF OneRunPerOccurrence, UniqueRuns, LinksHold, LinkHolds

\* A row whose link and date stay, or that loses its link
LEMMA LinkStays ==
  ASSUME NEW r \in Row, LinkHolds(r), runs \subseteq runs',
         \/ row'[r].linked = row[r].linked /\ row'[r].at = row[r].at
         \/ row'[r].linked = None
  PROVE  LinkHolds(r)'
BY DEF LinkHolds

LEMMA OneRowLinks ==
  ASSUME Types, LinksHold, NEW r \in Row, NEW x \in RowRecord, row' = [row EXCEPT ![r] = x],
         runs \subseteq runs', x.linked = None \/ (x.linked = row[r].linked /\ x.at = row[r].at)
  PROVE  LinksHold'
<1>1. ASSUME NEW s \in Row
      PROVE  (row'[s].linked = row[s].linked /\ row'[s].at = row[s].at) \/ row'[s].linked = None
  BY DEF Types
<1>. QED BY <1>1, LinkStays DEF LinksHold

\* The run that a worker links is that of its claim: the one it started, or the one
\* its reservation led to
LEMMA LinkedRun ==
  ASSUME IInv, NEW w \in Worker,
         \/ work[w].pc \in {"link", "running"}
         \/ work[w].pc = "deduped" /\ Started(work[w].run, work[w].row)
  PROVE  \E x \in runs : x.id = work[w].run /\ x.row = work[w].row /\ x.at = work[w].at
<1>. USE DEF IInv
<1>1. CASE work[w].pc \in {"link", "running"}
  <2>1. RunOf(w) \in runs BY <1>1 DEF Reservations, Relies
  <2>. QED BY <2>1 DEF RunOf
<1>2. CASE work[w].pc = "deduped" /\ Started(work[w].run, work[w].row)
  <2>1. PICK x \in runs : x.id = work[w].run /\ x.row = work[w].row BY <1>2 DEF Started
  <2>2. work[w] \in Claim BY <1>2, BusyClaims DEF Busy
  <2>3. Key(w) \in Keys /\ <<x.row, x.at>> \in Keys BY <2>2 DEF Key, Keys, Claim, Types, Run
  <2>4. reserved[Key(w)] = work[w].run /\ work[w].run # None BY <1>2 DEF Reservations, Relies
  <2>5. reserved[<<x.row, x.at>>] = work[w].run BY <2>1 DEF Reservations, RunsReserved
  <2>6. <<x.row, x.at>> = Key(w) BY <2>3, <2>4, <2>5, ReservedDomain DEF Ids
  <2>. QED BY <2>1, <2>6 DEF Key
<1>. QED BY <1>1, <1>2

LEMMA LinkingLinks ==
  ASSUME IInv, NEW w \in Worker, Busy(w), row' = SetFiredRunID(w), runs \subseteq runs',
         \E x \in runs : x.id = work[w].run /\ x.row = work[w].row /\ x.at = work[w].at
  PROVE  LinksHold'
<1>. USE DEF IInv
<1>1. LinksHold BY OneRunParts
<1>2. work[w] \in Claim BY BusyClaims
<1>3. PICK q \in Row : q = work[w].row BY <1>2 DEF Claim
<1>4. CASE Owns(w)
  <2>1. row' = [row EXCEPT ![q].linked = work[w].run, ![q].unknown = FALSE]
    BY <1>3, <1>4 DEF SetFiredRunID
  <2>2. row'[q].linked = work[w].run /\ row'[q].at = row[q].at
    BY <1>3, <2>1 DEF Types, RowRecord
  <2>3. row[q].at = work[w].at BY <1>3, <1>4 DEF Owns
  <2>4. LinkHolds(q)' BY <1>3, <2>2, <2>3 DEF LinkHolds
  <2>5. ASSUME NEW r \in Row, r # q PROVE LinkHolds(r)'
    <3>1. row'[r] = row[r] BY <2>1, <2>5 DEF Types
    <3>. QED BY <1>1, <3>1, LinkStays DEF LinksHold
  <2>. QED BY <2>4, <2>5 DEF LinksHold
<1>5. CASE ~ Owns(w)
  <2>1. UNCHANGED row BY <1>5 DEF SetFiredRunID
  <2>. QED BY <1>1, <2>1, LinkStays DEF LinksHold
<1>. QED BY <1>4, <1>5

\* Ending a claim links nothing; a requeued claim is linked only to a run that exists
LEMMA FinishingLinks ==
  ASSUME IInv, NEW w \in Worker, Busy(w), NEW status, NEW unknown,
         row' = FinishDispatchError(w, status, unknown), runs \subseteq runs'
  PROVE  LinksHold'
<1>. USE DEF IInv
<1>1. LinksHold BY OneRunParts
<1>2. PICK q \in Row : q = work[w].row BY BusyClaims DEF Claim
<1>3. row' \in {row, [row EXCEPT ![q].status = status, ![q].unknown = unknown]}
  BY <1>2 DEF FinishDispatchError
<1>4. \A r \in Row : row'[r].linked = row[r].linked /\ row'[r].at = row[r].at
  <2>1. CASE UNCHANGED row BY <2>1
  <2>2. CASE row' = [row EXCEPT ![q].status = status, ![q].unknown = unknown]
    <3>1. PICK x : x = [row[q] EXCEPT !.status = status, !.unknown = unknown] OBVIOUS
    <3>2. x.linked = row[q].linked /\ x.at = row[q].at BY <3>1 DEF Types, RowRecord
    <3>3. row' = [row EXCEPT ![q] = x] BY <2>2, <3>1
    <3>. QED BY <3>2, <3>3 DEF Types
  <2>. QED BY <1>3, <2>1, <2>2
<1>. QED BY <1>1, <1>4, LinkStays DEF LinksHold

LEMMA RecoveredLinks ==
  ASSUME IInv, NEW r \in Row, row[r].status = "fired", row[r].linked = None,
         kind[r] = "scheduled", row'[r].linked # None => row'[r].linked = row[r].run /\ Started(row[r].run, r),
         row'[r].at = row[r].at, UNCHANGED runs
  PROVE  LinkHolds(r)'
<1>. USE DEF IInv
<1>1. row[r].at = None BY DEF Rows
<1>2. \A x \in runs : x.row = r => x.at = None BY DEF Reservations, RunsReserved
<1>. QED BY <1>1, <1>2 DEF LinkHolds, Started

LEMMA RequeueLinks ==
  ASSUME IInv, NEW w \in Worker, Requeue(w)
  PROVE  LinksHold'
<1>. USE DEF IInv
<1>1. LinksHold BY OneRunParts
<1>2. Busy(w) BY DEF Requeue, Busy
<1>3. PICK q \in Row : q = work[w].row BY <1>2, BusyClaims DEF Claim
<1>4. UNCHANGED runs BY DEF Requeue
<1>5. CASE Owns(w) /\ row[q].linked = None
  <2>1. row' = [row EXCEPT ![q] = Recovered(q)] /\ kind[q] = "scheduled"
    BY <1>3, <1>5 DEF Requeue, Planned
  <2>2. row[q].status = "fired" BY <1>3, <1>5 DEF Owns
  <2>3. row'[q] = Recovered(q) BY <2>1 DEF Types
  <2>4. /\ row'[q].linked # None => row'[q].linked = row[q].run /\ Started(row[q].run, q)
        /\ row'[q].at = row[q].at
    BY <1>5, <2>2, <2>3, RecoveredIs DEF SameOccurrence
  <2>5. LinkHolds(q)' BY <1>4, <1>5, <2>1, <2>2, <2>4, RecoveredLinks
  <2>6. ASSUME NEW r \in Row, r # q PROVE LinkHolds(r)'
    <3>1. row'[r] = row[r] BY <2>1, <2>6 DEF Types
    <3>. QED BY <1>1, <1>4, <3>1, LinkStays DEF LinksHold
  <2>. QED BY <2>5, <2>6 DEF LinksHold
<1>6. CASE ~ (Owns(w) /\ row[q].linked = None)
  <2>1. UNCHANGED row BY <1>3, <1>6 DEF Requeue
  <2>. QED BY <1>1, <1>4, <2>1, LinkStays DEF LinksHold
<1>. QED BY <1>5, <1>6

LEMMA WorkerLinks ==
  ASSUME IInv, NEW w \in Worker, Fire(w) \/ Trouble(w)
  PROVE  LinksHold'
<1>. USE DEF IInv
<1>1. LinksHold /\ Busy(w) BY OneRunParts, WorkerMoves
<1>2. ASSUME UNCHANGED row, runs \subseteq runs' PROVE LinksHold'
  BY <1>1, <1>2, LinkStays DEF LinksHold
<1>3. CASE \/ Reserve(w) \/ AcquireSlot(w) \/ Persist(w)
           \/ \E why \in {"error", "interrupted"} : StartFails(w, why) \/ PersistUnheard(w, why)
           \/ RoutineFull(w) \/ LinkFails(w) \/ FinalWriteFails(w)
  <2>1. UNCHANGED row /\ runs \subseteq runs'
    BY <1>3 DEF Reserve, AcquireSlot, Persist, StartFails, PersistUnheard, RoutineFull, LinkFails,
                FinalWriteFails
  <2>. QED BY <1>2, <2>1
<1>4. CASE Link(w) \/ Backfill(w)
  <2>1. row' = SetFiredRunID(w) /\ runs \subseteq runs' /\ work[w].pc \in {"link", "running"}
    BY <1>4 DEF Link, Backfill
  <2>. QED BY <1>1, <2>1, LinkedRun, LinkingLinks
<1>5. CASE Deduped(w)
  <2>1. work[w].pc = "deduped" /\ runs \subseteq runs' BY <1>5 DEF Deduped
  <2>2. CASE Started(work[w].run, work[w].row)
    <3>1. row' = SetFiredRunID(w) BY <1>5, <2>2 DEF Deduped
    <3>. QED BY <1>1, <2>1, <2>2, <3>1, LinkedRun, LinkingLinks
  <2>3. CASE ~ Started(work[w].run, work[w].row)
    <3>1. row' = FinishDispatchError(w, "fired", TRUE) BY <1>5, <2>3 DEF Deduped
    <3>. QED BY <1>1, <2>1, <3>1, FinishingLinks
  <2>. QED BY <2>2, <2>3
<1>6. CASE RecordError(w)
  <2>1. PICK verdict \in Verdicts(w) : row' = FinishDispatchError(w, verdict, FALSE)
    BY <1>6 DEF RecordError
  <2>2. runs \subseteq runs' BY <1>6 DEF RecordError
  <2>. QED BY <1>1, <2>1, <2>2, FinishingLinks
<1>7. CASE Requeue(w) BY <1>7, RequeueLinks
<1>. QED BY <1>3, <1>4, <1>5, <1>6, <1>7 DEF Fire, Trouble

LEMMA LinksStep ==
  ASSUME IInv, [Next]_vars
  PROVE  LinksHold'
<1>. USE DEF IInv
<1>0. LinksHold BY OneRunParts
<1>1. CASE QueueOccurrence
  <2>1. PICK r \in Row, x \in RowRecord : Parks(r, x) /\ kind[r] = "scheduled" BY <1>1, QueueParks
  <2>. QED BY <1>0, <1>1, <2>1, OneRowLinks DEF Parks, QueueOccurrence
<1>2. ASSUME NEW r \in Row, NEW at \in Date, SaveOnce(r, at) PROVE LinksHold'
  <2>1. PICK x \in RowRecord : Parks(r, x) /\ kind[r] = "once" BY <1>2, SaveParks
  <2>2. UNCHANGED runs BY <1>2 DEF SaveOnce
  <2>. QED BY <1>0, <2>1, <2>2, OneRowLinks DEF Parks
<1>3. ASSUME NEW t \in Trigger, Enqueue(t) PROVE LinksHold'
  <2>1. UNCHANGED runs BY <1>3 DEF Enqueue, Look, Merge, Unfit, InsertRow, Moved
  <2>2. CASE Merge(t)
    <3>1. PICK r \in Row, x \in RowRecord :
            /\ row' = [row EXCEPT ![r] = x] /\ Mergeable(r)
            /\ x.at = row[r].at /\ x.linked = row[r].linked
      BY <2>2, MergeJoins
    <3>. QED BY <1>0, <2>1, <3>1, OneRowLinks
  <2>3. CASE InsertRow(t)
    <3>1. PICK r \in Row, x \in RowRecord : Parks(r, x) /\ kind[r] = "debounced" BY <2>3, InsertParks
    <3>. QED BY <1>0, <2>1, <3>1, OneRowLinks DEF Parks
  <2>4. CASE UNCHANGED ledger BY <1>0, <2>1, <2>4, LinkStays DEF ledger, LinksHold
  <2>. QED BY SMTT(30), <1>3, <2>2, <2>3, <2>4, LookingKeeps DEF Enqueue
<1>4. ASSUME NEW r \in Row, Lapse(r) PROVE LinksHold'
  BY <1>0, <1>4, LinkStays DEF Lapse, LinksHold
<1>5. ASSUME NEW r \in Row, Cancel(r) \/ ExpireDue(r) PROVE LinksHold'
  <2>1. UNCHANGED runs BY <1>5 DEF Cancel, ExpireDue
  <2>2. PICK x \in RowRecord : /\ row' = [row EXCEPT ![r] = x] /\ SameOccurrence(x, row[r])
                               /\ x.linked = row[r].linked
    BY <1>5, EndsWaiting
  <2>. QED BY <1>0, <2>1, <2>2, OneRowLinks DEF SameOccurrence
<1>6. ASSUME NEW w \in Worker, NEW r \in Row, ClaimsRow(w, r) PROVE LinksHold'
  <2>1. UNCHANGED runs BY <1>6, ClaimTakes
  <2>2. PICK x \in RowRecord : row' = [row EXCEPT ![r] = x] /\ x.linked = None BY <1>6, ClaimTakes
  <2>. QED BY <1>0, <2>1, <2>2, OneRowLinks
<1>7. ASSUME NEW w \in Worker, Fire(w) \/ Trouble(w) PROVE LinksHold' BY <1>7, WorkerLinks
<1>8. CASE Restart
  <2>1. UNCHANGED runs BY <1>8 DEF Restart
  <2>2. ASSUME NEW r \in Row PROVE LinkHolds(r)'
    <3>1. CASE row'[r] = row[r] BY <1>0, <2>1, <3>1, LinkStays DEF LinksHold
    <3>2. CASE row'[r] # row[r]
      <4>1. /\ row[r].status = "fired" /\ row[r].linked = None /\ row'[r].at = row[r].at
            /\ row'[r].linked # None =>
                 row'[r].linked = row[r].run /\ Started(row[r].run, r) /\ row[r].run # None
        BY <1>8, <3>2, RestartRecovers DEF SameOccurrence
      <4>2. CASE row'[r].linked = None BY <4>2 DEF LinkHolds
      <4>3. CASE row'[r].linked # None
        <5>1. kind[r] = "scheduled" BY <4>1, <4>3 DEF Rows
        <5>. QED BY <2>1, <4>1, <5>1, RecoveredLinks
      <4>. QED BY <4>2, <4>3
    <3>. QED BY <3>1, <3>2
  <2>. QED BY <2>2 DEF LinksHold
<1>9. CASE UNCHANGED vars BY <1>0, <1>9, LinkStays DEF vars, LinksHold
<1>10. ASSUME NEW w \in Worker, Reads(w) PROVE LinksHold'
  BY <1>0, <1>10, ReadsKeep, LinkStays DEF LinksHold
<1>. QED BY <1>1, <1>2, <1>3, <1>4, <1>5, <1>6, <1>7, <1>8, <1>9, <1>10, Steps

\* A second run of an occurrence does not start: its worker would have found the first
LEMMA UniqueStep ==
  ASSUME IInv, [Next]_vars
  PROVE  UniqueRuns'
<1>. USE DEF IInv
<1>0. UniqueRuns BY OneRunParts
<1>1. ASSUME NEW w \in Worker,
             Persist(w) \/ \E why \in {"error", "interrupted"} : PersistUnheard(w, why)
      PROVE  UniqueRuns'
  <2>1. work[w].pc = "persist" /\ runs' = runs \cup {RunOf(w)} BY <1>1 DEF Persist, PersistUnheard
  <2>2. RunOf(w).row = work[w].row /\ RunOf(w).at = work[w].at BY DEF RunOf
  <2>3. \A x \in runs : <<x.row, x.at>> # <<work[w].row, work[w].at>>
    BY <2>1 DEF Reservations, Relies, Key
  <2>. QED BY <1>0, <2>1, <2>2, <2>3 DEF UniqueRuns
<1>2. CASE UNCHANGED runs BY <1>0, <1>2 DEF UniqueRuns
<1>3. ASSUME NEW t \in Trigger, Enqueue(t) PROVE UNCHANGED runs
  BY <1>3 DEF Enqueue, Look, Merge, Unfit, InsertRow, Moved
<1>4. ASSUME NEW w \in Worker, Fire(w) \/ Trouble(w) PROVE UniqueRuns'
  BY <1>1, <1>2, <1>4
     DEF Fire, Trouble, Reserve, AcquireSlot, Link, Backfill, Deduped, RecordError,
         Requeue, StartFails, RoutineFull, LinkFails, FinalWriteFails
<1>5. ASSUME NEW r \in Row,
             \/ Lapse(r) \/ Cancel(r) \/ ExpireDue(r)
             \/ \E at \in Date : SaveOnce(r, at)
             \/ \E w \in Worker : ClaimsRow(w, r)
      PROVE  UNCHANGED runs
  BY <1>5, ClaimTakes DEF Lapse, Cancel, ExpireDue, SaveOnce
<1>6. CASE QueueOccurrence \/ Restart \/ UNCHANGED vars
  BY <1>2, <1>6 DEF QueueOccurrence, Restart, vars
<1>10. ASSUME NEW w \in Worker, Reads(w) PROVE UniqueRuns'
  BY <1>2, <1>10, ReadsKeep
<1>. QED BY <1>2, <1>3, <1>4, <1>5, <1>6, <1>10, Steps

LEMMA PendingInvariant == Spec => []IInv
<1>1. Init => IInv
  <2>. SUFFICES ASSUME Init PROVE IInv OBVIOUS
  <2>1. NoRow \in RowRecord
    <3>1. <<>> \in Seq(Trigger) OBVIOUS
    <3>. QED BY <3>1 DEF NoRow, RowRecord, Status, Maybe, Pin
  <2>2. Types BY <2>1 DEF Init, Types, Maybe
  <2>3. \A w \in Worker : work[w].pc = "idle" BY DEF Init, Idle
  <2>4. \A r \in Row : row[r] = NoRow BY DEF Init
  <2>5. Rows BY <2>4 DEF Init, Rows, NoRow
  <2>6. Readings /\ Claims BY <2>3 DEF Readings, Claims, Busy
  <2>7. Ids BY <2>4 DEF Init, Ids, NoRow
  <2>8. Reservations BY <2>3 DEF Init, Reservations, RunsReserved, Relies
  <2>9. UniqueRuns /\ LinksHold BY <2>4 DEF Init, UniqueRuns, LinksHold, LinkHolds, NoRow
  <2>. QED BY <2>2, <2>5, <2>6, <2>7, <2>8, <2>9, OneRunParts DEF IInv
<1>2. IInv /\ [Next]_vars => IInv'
  <2>. SUFFICES ASSUME IInv, [Next]_vars PROVE IInv' OBVIOUS
  <2>1. Types' BY TypesStep
  <2>2. Rows' /\ Readings' /\ Claims' BY RowsStep, ReadingsStep, ClaimsStep
  <2>3. Ids' BY <2>1, IdsStep
  <2>4. Reservations' BY ReservationsStep
  <2>5. UniqueRuns' /\ LinksHold' BY UniqueStep, LinksStep
  <2>6. Reservations' => (OneRunPerOccurrence' <=> UniqueRuns' /\ LinksHold')
    BY OneRunParts, PTL
  <2>. QED BY <2>1, <2>2, <2>3, <2>4, <2>5, <2>6 DEF IInv
<1>. QED BY <1>1, <1>2, PTL DEF Spec

\* For any number of workers, faults, restarts and dates, an occurrence starts at
\* most one run, and its row is linked to that run or to none.
THEOREM OccurrencesRunOnce == Spec => []OneRunPerOccurrence
<1>1. IInv => OneRunPerOccurrence BY DEF IInv
<1>. QED BY <1>1, PendingInvariant, PTL

-----------------------------------------------------------------------------
(* Occurrences do not pile up *)

AtMostOneWaits == \A r, s \in Waiting : r = s

\* No step but the queueing of an occurrence makes a row wait that did not
LEMMA WaitingShrinks ==
  ASSUME IInv, [Next]_vars, ~ QueueOccurrence
  PROVE  Waiting' \subseteq Waiting
<1>. USE DEF IInv
<1>0. ASSUME NEW q \in Row, NEW x \in RowRecord, row' = [row EXCEPT ![q] = x],
             UNCHANGED <<kind, lapsed>>, late \subseteq late',
             \/ kind[q] # "scheduled" \/ x.linked # None \/ q \in late'
             \/ q \in Waiting \/ x.status \notin {"pending", "fired"}
      PROVE  Waiting' \subseteq Waiting
  <2>1. \A r \in Row : r # q => row'[r] = row[r] BY <1>0 DEF Types
  <2>2. row'[q] = x BY <1>0 DEF Types
  <2>. QED BY <1>0, <2>1, <2>2 DEF Waiting
<1>2. ASSUME NEW r \in Row, NEW at \in Date, SaveOnce(r, at) PROVE Waiting' \subseteq Waiting
  <2>1. UNCHANGED <<kind, lapsed, late>> BY <1>2 DEF SaveOnce, clock
  <2>2. PICK x \in RowRecord : Parks(r, x) /\ kind[r] = "once" BY <1>2, SaveParks
  <2>. QED BY <1>0, <2>1, <2>2 DEF Parks
<1>3. ASSUME NEW t \in Trigger, Enqueue(t) PROVE Waiting' \subseteq Waiting
  <2>1. UNCHANGED <<kind, lapsed, late>> BY <1>3 DEF Enqueue, Look, Merge, Unfit, InsertRow, Moved, clock
  <2>2. CASE Merge(t)
    <3>1. PICK r \in Row, x \in RowRecord : row' = [row EXCEPT ![r] = x] /\ Mergeable(r)
      BY <2>2, MergeJoins
    <3>. QED BY <1>0, <2>1, <3>1 DEF Mergeable
  <2>3. CASE InsertRow(t)
    <3>1. PICK r \in Row, x \in RowRecord : Parks(r, x) /\ kind[r] = "debounced" BY <2>3, InsertParks
    <3>. QED BY <1>0, <2>1, <3>1 DEF Parks
  <2>4. CASE UNCHANGED ledger BY <2>1, <2>4 DEF ledger, Waiting
  <2>. QED BY <1>3, <2>2, <2>3, <2>4, LookingKeeps DEF Enqueue
<1>4. ASSUME NEW r \in Row, Lapse(r) PROVE Waiting' \subseteq Waiting BY <1>4 DEF Lapse, Waiting
<1>5. ASSUME NEW r \in Row, Cancel(r) \/ ExpireDue(r) PROVE Waiting' \subseteq Waiting
  <2>1. UNCHANGED <<kind, lapsed, late>> BY <1>5 DEF Cancel, ExpireDue, clock
  <2>2. PICK x \in RowRecord : row' = [row EXCEPT ![r] = x] /\ x.status \in {"cancelled", "expired"}
    BY <1>5, EndsWaiting
  <2>. QED BY <1>0, <2>1, <2>2
<1>6. ASSUME NEW w \in Worker, NEW r \in Row, ClaimsRow(w, r) PROVE Waiting' \subseteq Waiting
  <2>1. UNCHANGED <<kind, lapsed>> /\ late' = late \cup ({r} \cap lapsed) BY <1>6, ClaimTakes
  <2>2. PICK x \in RowRecord : row' = [row EXCEPT ![r] = x] /\ x.status = "fired" BY <1>6, ClaimTakes
  <2>3. row[r].status = "pending" BY <1>6, ClaimTakes
  <2>4. row[r].linked = None BY <2>3 DEF Rows
  <2>. QED BY <1>0, <2>1, <2>2, <2>3, <2>4 DEF Waiting
<1>7. ASSUME NEW w \in Worker, Fire(w) \/ Trouble(w) PROVE Waiting' \subseteq Waiting
  <2>1. RowsMove(w) /\ UNCHANGED <<kind, lapsed, late>> BY <1>7, WorkerMoves DEF clock
  <2>2. Owns(w) => row[work[w].row].status = "fired" BY DEF Owns
  <2>. QED BY <2>1, <2>2 DEF RowsMove, Waiting
<1>8. CASE Restart
  <2>1. UNCHANGED <<kind, lapsed, late>> BY <1>8 DEF Restart, clock
  <2>2. \A r \in Row : row'[r] # row[r] => row[r].status = "fired" /\ row[r].linked = None
    BY <1>8, RestartRecovers
  <2>. QED BY <2>1, <2>2 DEF Waiting
<1>9. CASE UNCHANGED vars BY <1>9 DEF vars, Waiting
<1>10. ASSUME NEW w \in Worker, Reads(w) PROVE Waiting' \subseteq Waiting
  BY <1>10, ReadsKeep DEF Waiting
<1>. QED BY <1>2, <1>3, <1>4, <1>5, <1>6, <1>7, <1>8, <1>9, <1>10, Steps

\* At any time at most one occurrence of the schedule waits, on its way through
\* claims, retries, lost answers and restarts: an interrupted start keeps the next
\* occurrence out until it is settled.  The exception is an occurrence that a worker
\* claims after its TTL, with a clock reading of before: it joins the one that the
\* scheduler queued in its place.
THEOREM OccurrencesDoNotPileUp == Spec => []OneWaitingOccurrence
<1>1. Init => AtMostOneWaits BY DEF Init, AtMostOneWaits, Waiting, NoRow
<1>2. IInv /\ AtMostOneWaits /\ [Next]_vars => AtMostOneWaits'
  <2>. SUFFICES ASSUME IInv, AtMostOneWaits, [Next]_vars PROVE AtMostOneWaits' OBVIOUS
  <2>1. CASE QueueOccurrence
    <3>1. Types BY DEF IInv
    <3>2. PICK q \in Row, x \in RowRecord : Parks(q, x) /\ kind[q] = "scheduled"
      BY <2>1, <3>1, QueueParks
    <3>3. Waiting = {} BY <2>1 DEF QueueOccurrence, Waiting, Occupies
    <3>4. \A r \in Row : r # q => row'[r] = row[r] BY <3>1, <3>2 DEF Parks, Types
    <3>5. Waiting' \subseteq {q} BY <2>1, <3>3, <3>4 DEF Waiting, QueueOccurrence, clock
    <3>. QED BY <3>5 DEF AtMostOneWaits
  <2>2. CASE ~ QueueOccurrence BY <2>2, WaitingShrinks DEF AtMostOneWaits
  <2>. QED BY <2>1, <2>2
<1>3. ASSUME AtMostOneWaits PROVE OneWaitingOccurrence
  <2>1. Cardinality(Waiting) <= 1
    <3>1. CASE Waiting = {} BY <3>1, FS_EmptySet
    <3>2. CASE Waiting # {}
      <4>1. PICK r : Waiting = {r} BY <1>3, <3>2 DEF AtMostOneWaits
      <4>2. Cardinality({r}) = 1 BY FS_Singleton
      <4>. QED BY <4>1, <4>2
    <3>. QED BY <3>1, <3>2
  <2>. QED BY <2>1 DEF OneWaitingOccurrence, Waiting
<1>. QED BY <1>1, <1>2, <1>3, PendingInvariant, PTL DEF Spec

-----------------------------------------------------------------------------
(* Bursts *)

\* The first trigger of a burst, and one more
LEMMA FirstStarts ==
  ASSUME NEW t \in Trigger, NEW x, x.payload = t, x.pin = PinOf[t], x.depth = DepthOf[t]
  PROVE  Len(<<t>>) > 0 /\ StartsAs(<<t>>, x)
<1>1. Len(<<t>>) = 1 /\ DOMAIN <<t>> = 1..1 /\ <<t>>[1] = t OBVIOUS
<1>2. DepthOf[t] \in Nat /\ (t \in Checked => <<t, PinOf[t]>> \in Fits) BY PendingAssumption
<1>3. PICK b : b = <<t>> OBVIOUS
<1>. QED BY <1>1, <1>2, <1>3 DEF StartsAs

LEMMA NextStarts ==
  ASSUME NEW b \in Seq(Trigger), Len(b) > 0, NEW t \in Trigger, NEW x, NEW y, StartsAs(b, y),
         y.depth \in Nat, x.payload = t, x.pin = IF y.pin = None THEN PinOf[t] ELSE y.pin,
         x.depth = IF DepthOf[t] > y.depth THEN DepthOf[t] ELSE y.depth,
         (t \in Checked => <<t, x.pin>> \in Fits)
  PROVE  Len(Append(b, t)) > 0 /\ StartsAs(Append(b, t), x)
<1>1. PICK c : c = Append(b, t) OBVIOUS
<1>2. PICK n \in Nat : n = Len(b) /\ n > 0 BY SMTT(30)
<1>3. /\ Len(c) = n + 1 /\ DOMAIN c = 1..(n + 1) /\ DOMAIN b = 1..n
      /\ c[n + 1] = t /\ \A i \in 1..n : c[i] = b[i] /\ b[i] \in Trigger
  BY <1>1, <1>2
<1>4. x.payload = c[Len(c)] BY <1>3
<1>5. \A i \in 1..n : DepthOf[c[i]] \in Nat /\ DepthOf[c[i]] <= y.depth BY <1>3 DEF StartsAs
<1>6. \A i \in DOMAIN c : x.depth >= DepthOf[c[i]]
  <2>. TAKE i \in DOMAIN c
  <2>1. CASE i = n + 1 BY <1>3, <2>1
  <2>2. CASE i \in 1..n BY <1>5, <2>2
  <2>. QED BY <1>3, <2>1, <2>2
<1>7. \E i \in DOMAIN c : x.depth = DepthOf[c[i]]
  <2>1. CASE DepthOf[t] > y.depth
    <3>1. n + 1 \in DOMAIN c /\ x.depth = DepthOf[c[n + 1]] BY <1>3, <2>1
    <3>. QED BY <3>1
  <2>2. CASE ~ (DepthOf[t] > y.depth)
    <3>1. PICK i \in 1..n : y.depth = DepthOf[b[i]] BY <1>3 DEF StartsAs
    <3>2. i \in 1..(n + 1) OBVIOUS
    <3>3. i \in DOMAIN c /\ c[i] = b[i] BY <1>3, <3>2
    <3>. QED BY <2>2, <3>1, <3>3
  <2>. QED BY <2>1, <2>2
<1>8. \/ x.pin = None /\ \A i \in DOMAIN c : PinOf[c[i]] = None
      \/ \E i \in DOMAIN c : /\ x.pin = PinOf[c[i]] /\ x.pin # None
                             /\ \A j \in 1..(i - 1) : PinOf[c[j]] = None
  <2>1. CASE y.pin = None
    <3>1. \A i \in 1..n : PinOf[b[i]] = None BY <1>3, <2>1 DEF StartsAs
    <3>2. \A i \in 1..n : PinOf[c[i]] = None BY <1>3, <3>1
    <3>3. x.pin = PinOf[c[n + 1]] BY <1>3, <2>1
    <3>4. CASE x.pin = None
      <4>1. \A i \in DOMAIN c : i \in 1..n \/ i = n + 1 BY <1>3
      <4>. QED BY <3>2, <3>3, <3>4, <4>1
    <3>5. CASE x.pin # None
      <4>1. n + 1 \in DOMAIN c /\ 1..((n + 1) - 1) = 1..n BY <1>3
      <4>. QED BY <3>2, <3>3, <3>5, <4>1
    <3>. QED BY <3>4, <3>5
  <2>2. CASE y.pin # None
    <3>1. PICK i \in 1..n : y.pin = PinOf[b[i]] /\ \A j \in 1..(i - 1) : PinOf[b[j]] = None
      BY <1>3, <2>2 DEF StartsAs
    <3>2. i \in DOMAIN c /\ x.pin = PinOf[c[i]] BY <1>3, <2>2, <3>1
    <3>3. \A j \in 1..(i - 1) : PinOf[c[j]] = None
      <4>1. \A j \in 1..(i - 1) : j \in 1..n OBVIOUS
      <4>. QED BY <1>3, <3>1, <4>1
    <3>. QED BY <2>2, <3>2, <3>3
  <2>. QED BY <2>1, <2>2
<1>9. x.payload \in Checked => <<x.payload, x.pin>> \in Fits OBVIOUS
<1>10. StartsAs(c, x) BY <1>4, <1>6, <1>7, <1>8, <1>9 DEF StartsAs
<1>. QED BY <1>1, <1>2, <1>3, <1>10

BurstRow(r) ==
  /\ (kind[r] # "debounced" \/ row[r].status = "none") => row[r].burst = <<>>
  /\ (kind[r] = "debounced" /\ row[r].status # "none") =>
       Len(row[r].burst) > 0 /\ StartsAs(row[r].burst, row[r])

BurstClaim(w) ==
  (Busy(w) /\ kind[work[w].row] = "debounced") =>
    /\ row[work[w].row].attempts > 0
    /\ work[w].payload = row[work[w].row].payload
    /\ work[w].pin = row[work[w].row].pin /\ work[w].depth = row[work[w].row].depth

BurstRun(x) ==
  kind[x.row] = "debounced" =>
    /\ row[x.row].attempts > 0 /\ row[x.row].status # "none"
    /\ x.payload = row[x.row].payload
    /\ x.pin = row[x.row].pin /\ x.depth = row[x.row].depth

\* A row that stands for the same start
LEMMA SameStarts ==
  ASSUME NEW r \in Row, BurstRow(r), SameOccurrence(row'[r], row[r]), UNCHANGED kind,
         row'[r].status # "none" <=> row[r].status # "none"
  PROVE  BurstRow(r)'
BY DEF BurstRow, SameOccurrence, StartsAs

\* One row is written, and neither a claim nor a run is of it
LEMMA BurstWrite ==
  ASSUME Types, Bursts, NEW r \in Row, NEW x \in RowRecord, row' = [row EXCEPT ![r] = x],
         UNCHANGED <<kind, runs, work>>, BurstRow(r)',
         kind[r] = "debounced" => /\ \A w \in Worker : Busy(w) => work[w].row # r
                                  /\ \A y \in runs : y.row # r
  PROVE  Bursts'
<1>1. \A s \in Row : s # r => row'[s] = row[s] BY DEF Types
<1>2. ASSUME NEW s \in Row PROVE BurstRow(s)'
  <2>1. CASE s = r BY <2>1
  <2>2. CASE s # r
    <3>1. row'[s] = row[s] BY <1>1, <2>2
    <3>2. BurstRow(s) BY DEF Bursts, BurstRow
    <3>. QED BY <3>1, <3>2 DEF BurstRow
  <2>. QED BY <2>1, <2>2
<1>3. ASSUME NEW w \in Worker PROVE BurstClaim(w)'
  <2>1. CASE ~ Busy(w) BY <2>1 DEF BurstClaim, Busy
  <2>2. CASE Busy(w)
    <3>1. work[w].row \in Row BY <2>2, BusyClaims DEF Claim
    <3>. QED BY <1>1, <2>2, <3>1 DEF Bursts, BurstClaim, Busy
  <2>. QED BY <2>1, <2>2
<1>4. ASSUME NEW y \in runs PROVE BurstRun(y)'
  <2>1. y.row \in Row BY DEF Types, Run
  <2>. QED BY <1>1, <2>1 DEF Bursts, BurstRun
<1>. QED BY <1>2, <1>3, <1>4 DEF Bursts, BurstRow, BurstClaim, BurstRun

\* A worker starts what its row says, and the row does not change under it
LEMMA WorkerBursts ==
  ASSUME IInv, Bursts, NEW w \in Worker, Fire(w) \/ Trouble(w)
  PROVE  Bursts'
<1>. USE DEF IInv
<1>1. /\ Busy(w) /\ work[w] \in Claim /\ RowsMove(w) /\ WorkMoves(w) /\ UNCHANGED kind
  BY WorkerMoves
<1>2. Owns(w) => row[work[w].row].status = "fired" BY DEF Owns
<1>3. ASSUME NEW r \in Row
      PROVE  /\ SameOccurrence(row'[r], row[r])
             /\ row'[r].status # "none" <=> row[r].status # "none"
  BY <1>1, <1>2 DEF RowsMove, SameOccurrence
<1>4. ASSUME NEW r \in Row PROVE BurstRow(r)'
  <2>1. BurstRow(r) BY DEF Bursts, BurstRow
  <2>. QED BY <1>1, <1>3, <2>1, SameStarts
<1>5. ASSUME NEW v \in Worker PROVE BurstClaim(v)'
  <2>1. CASE ~ Busy(v)' BY <2>1 DEF BurstClaim
  <2>2. CASE Busy(v)'
    <3>1. /\ Busy(v) /\ work'[v].row = work[v].row /\ work'[v].payload = work[v].payload
          /\ work'[v].pin = work[v].pin /\ work'[v].depth = work[v].depth
      BY <1>1, <2>2 DEF WorkMoves, Busy, Idle
    <3>2. PICK r \in Row : r = work[v].row BY <3>1, BusyClaims DEF Claim
    <3>3. SameOccurrence(row'[r], row[r]) BY <1>3
    <3>. QED BY <1>1, <3>1, <3>2, <3>3 DEF Bursts, BurstClaim, SameOccurrence
  <2>. QED BY <2>1, <2>2
<1>6. ASSUME NEW x \in runs PROVE BurstRun(x)'
  <2>1. PICK r \in Row : r = x.row BY DEF Types, Run
  <2>2. SameOccurrence(row'[r], row[r]) /\ (row'[r].status # "none" <=> row[r].status # "none") BY <1>3
  <2>. QED BY <1>1, <2>1, <2>2 DEF Bursts, BurstRun, SameOccurrence
<1>7. ASSUME NEW x, x = RunOf(w) PROVE BurstRun(x)'
  <2>1. PICK r \in Row : r = work[w].row BY <1>1 DEF Claim
  <2>2. CASE kind[r] # "debounced" BY <1>1, <1>7, <2>1, <2>2 DEF BurstRun, RunOf
  <2>3. CASE kind[r] = "debounced"
    <3>1. row[r].status = "fired" BY <1>1, <2>1, <2>3 DEF Claims, Rows, Owns
    <3>2. SameOccurrence(row'[r], row[r]) /\ row'[r].status # "none" BY <1>3, <3>1
    <3>4. x.row = r /\ x.payload = work[w].payload /\ x.pin = work[w].pin /\ x.depth = work[w].depth
      BY <1>7, <2>1 DEF RunOf
    <3>5. /\ row[r].attempts > 0 /\ work[w].payload = row[r].payload
          /\ work[w].pin = row[r].pin /\ work[w].depth = row[r].depth
      BY <1>1, <2>1, <2>3 DEF Bursts
    <3>6. kind[x.row] = "debounced" =>
            /\ row'[x.row].attempts > 0 /\ row'[x.row].status # "none"
            /\ x.payload = row'[x.row].payload
            /\ x.pin = row'[x.row].pin /\ x.depth = row'[x.row].depth
      BY <3>2, <3>4, <3>5 DEF SameOccurrence
    <3>. QED BY <1>1, <3>6 DEF BurstRun
  <2>. QED BY <2>2, <2>3
<1>8. runs' \subseteq runs \cup {RunOf(w)}
  BY DEF Fire, Trouble, Reserve, AcquireSlot, Persist, Link, Backfill, Deduped, RecordError,
         Requeue, StartFails, PersistUnheard, RoutineFull, LinkFails, FinalWriteFails
<1>9. ASSUME NEW x \in runs' PROVE BurstRun(x)' BY <1>6, <1>7, <1>8
<1>. QED BY <1>4, <1>5, <1>9 DEF Bursts, BurstRow, BurstClaim, BurstRun

LEMMA BurstsStep ==
  ASSUME IInv, Bursts, [Next]_vars
  PROVE  Bursts'
<1>. USE DEF IInv
<1>0. CASE UNCHANGED <<kind, row, runs, work>>
  BY <1>0 DEF Bursts, Busy, StartsAs
<1>1. CASE QueueOccurrence
  <2>1. UNCHANGED <<kind, runs, work>> BY <1>1 DEF QueueOccurrence
  <2>2. PICK r \in Row, x \in RowRecord : Parks(r, x) /\ kind[r] = "scheduled" /\ x.burst = <<>>
    BY <1>1, QueueParks
  <2>3. BurstRow(r)' BY <2>1, <2>2 DEF Parks, Types, BurstRow
  <2>. QED BY <2>1, <2>2, <2>3, BurstWrite DEF Parks
<1>2. ASSUME NEW r \in Row, NEW at \in Date, SaveOnce(r, at) PROVE Bursts'
  <2>1. UNCHANGED <<kind, runs, work>> BY <1>2 DEF SaveOnce
  <2>2. PICK x \in RowRecord : Parks(r, x) /\ kind[r] = "once" /\ x.burst = <<>> BY <1>2, SaveParks
  <2>3. BurstRow(r)' BY <2>1, <2>2 DEF Parks, Types, BurstRow
  <2>. QED BY <2>1, <2>2, <2>3, BurstWrite DEF Parks
<1>3. ASSUME NEW t \in Trigger, Enqueue(t) PROVE Bursts'
  <2>1. UNCHANGED <<kind, runs, work>> BY <1>3 DEF Enqueue, Look, Merge, Unfit, InsertRow, Moved
  <2>2. CASE Merge(t)
    <3>1. PICK r \in Row, x \in RowRecord :
            /\ row' = [row EXCEPT ![r] = x] /\ Mergeable(r) /\ x.status = "pending"
            /\ x.burst = Append(row[r].burst, t) /\ x.payload = t
            /\ x.pin = IF row[r].pin = None THEN PinOf[t] ELSE row[r].pin
            /\ x.depth = Deeper(r, t) /\ (t \in Checked => <<t, x.pin>> \in Fits)
      BY <2>2, MergeJoins
    <3>2. kind[r] = "debounced" /\ row[r].status = "pending" /\ row[r].attempts = 0
      BY <3>1 DEF Mergeable
    <3>3. row[r].burst \in Seq(Trigger) /\ row[r].depth \in Nat BY DEF Types, RowRecord
    <3>4. Len(row[r].burst) > 0 /\ StartsAs(row[r].burst, row[r]) BY <3>2 DEF Bursts
    <3>5. x.depth = IF DepthOf[t] > row[r].depth THEN DepthOf[t] ELSE row[r].depth
      BY <3>1 DEF Deeper
    <3>6. Len(x.burst) > 0 /\ StartsAs(x.burst, x) BY <3>1, <3>3, <3>4, <3>5, NextStarts
    <3>7. row'[r] = x BY <3>1 DEF Types
    <3>8. BurstRow(r)' BY <2>1, <3>1, <3>2, <3>6, <3>7 DEF BurstRow
    <3>9. \A w \in Worker : Busy(w) => work[w].row # r BY <3>2, NobodyOn
    <3>10. \A y \in runs : y.row # r BY <3>2 DEF Bursts
    <3>. QED BY <2>1, <3>1, <3>8, <3>9, <3>10, BurstWrite
  <2>3. CASE InsertRow(t)
    <3>1. PICK r \in Row, x \in RowRecord :
            /\ Parks(r, x) /\ kind[r] = "debounced" /\ row[r].status = "none"
            /\ x.at = None /\ x.run = None /\ x.burst = <<t>>
            /\ x.payload = t /\ x.pin = PinOf[t] /\ x.depth = DepthOf[t]
      BY <2>3, InsertParks
    <3>2. Len(x.burst) > 0 /\ StartsAs(x.burst, x) BY <3>1, FirstStarts
    <3>3. row'[r] = x /\ x.status = "pending" BY <3>1 DEF Types, Parks
    <3>4. BurstRow(r)' BY <2>1, <3>1, <3>2, <3>3 DEF BurstRow
    <3>5. \A w \in Worker : Busy(w) => work[w].row # r BY <3>1, NobodyOn
    <3>6. \A y \in runs : y.row # r BY <3>1 DEF Bursts
    <3>. QED BY <2>1, <3>1, <3>4, <3>5, <3>6, BurstWrite DEF Parks
  <2>4. CASE UNCHANGED ledger BY <1>0, <2>4 DEF ledger
  <2>. QED BY SMTT(30), <1>3, <2>2, <2>3, <2>4, LookingKeeps DEF Enqueue
<1>4. ASSUME NEW r \in Row, Lapse(r) PROVE Bursts' BY <1>0, <1>4 DEF Lapse
<1>5. ASSUME NEW r \in Row, Cancel(r) \/ ExpireDue(r) PROVE Bursts'
  <2>1. UNCHANGED <<kind, runs, work>> BY <1>5 DEF Cancel, ExpireDue
  <2>2. PICK x \in RowRecord : /\ row' = [row EXCEPT ![r] = x] /\ SameOccurrence(x, row[r])
                               /\ x.status \in {"cancelled", "expired"}
    BY <1>5, EndsWaiting
  <2>3. row[r].status = "pending" BY <1>5, EndsWaiting
  <2>4. \A s \in Row : s # r => row'[s] = row[s] BY <2>2 DEF Types
  <2>5. \A s \in Row : /\ SameOccurrence(row'[s], row[s])
                       /\ row'[s].status # "none" <=> row[s].status # "none"
    BY <2>2, <2>3, <2>4 DEF Types, SameOccurrence
  <2>6. ASSUME NEW s \in Row PROVE BurstRow(s)'
    <3>1. BurstRow(s) BY DEF Bursts, BurstRow
    <3>. QED BY <2>1, <2>5, <3>1, SameStarts
  <2>7. ASSUME NEW w \in Worker PROVE BurstClaim(w)'
    <3>1. Busy(w) => work[w].row \in Row BY BusyClaims DEF Claim
    <3>. QED BY <2>1, <2>5, <3>1 DEF Bursts, BurstClaim, SameOccurrence, Busy
  <2>8. ASSUME NEW y \in runs PROVE BurstRun(y)'
    <3>1. y.row \in Row BY DEF Types, Run
    <3>. QED BY <2>1, <2>5, <3>1 DEF Bursts, BurstRun, SameOccurrence
  <2>. QED BY <2>1, <2>6, <2>7, <2>8 DEF Bursts, BurstRow, BurstClaim, BurstRun
<1>6. ASSUME NEW w \in Worker, NEW r \in Row, ClaimsRow(w, r) PROVE Bursts'
  <2>1. UNCHANGED <<kind, runs>> BY <1>6, ClaimTakes
  <2>2. PICK x \in RowRecord :
          /\ row' = [row EXCEPT ![r] = x]
          /\ x.status = "fired" /\ x.attempts = row[r].attempts + 1
          /\ x.payload = row[r].payload /\ x.pin = row[r].pin /\ x.depth = row[r].depth
          /\ x.burst = row[r].burst
    BY <1>6, ClaimTakes
  <2>3. PICK c \in Claim :
          /\ work' = [work EXCEPT ![w] = c] /\ c.row = r
          /\ c.payload = row[r].payload /\ c.pin = row[r].pin /\ c.depth = row[r].depth
    BY <1>6, ClaimTakes
  <2>4. row[r].status = "pending" BY <1>6, ClaimTakes
  <2>5. row'[r] = x /\ \A s \in Row : s # r => row'[s] = row[s] BY <2>2 DEF Types
  <2>6. work'[w] = c /\ \A v \in Worker : v # w => work'[v] = work[v] BY <2>3 DEF Types
  <2>7. row[r].attempts + 1 > 0 BY DEF Types, RowRecord
  <2>8. \A s \in Row : /\ row[s].attempts > 0 => row'[s].attempts > 0
                       /\ row[s].status # "none" <=> row'[s].status # "none"
                       /\ row'[s].payload = row[s].payload /\ row'[s].pin = row[s].pin
                       /\ row'[s].depth = row[s].depth /\ row'[s].burst = row[s].burst
    BY <2>2, <2>4, <2>5, <2>7
  <2>9. ASSUME NEW s \in Row PROVE BurstRow(s)'
    <3>1. PICK y, z : y = row[s] /\ z = row'[s] OBVIOUS
    <3>2. /\ z.payload = y.payload /\ z.pin = y.pin /\ z.depth = y.depth /\ z.burst = y.burst
          /\ y.status # "none" <=> z.status # "none"
      BY <2>8, <3>1
    <3>3. StartsAs(y.burst, y) => StartsAs(z.burst, z) BY <3>2 DEF StartsAs
    <3>4. BurstRow(s) BY DEF Bursts, BurstRow
    <3>. QED BY <2>1, <3>1, <3>2, <3>3, <3>4 DEF BurstRow
  <2>10. ASSUME NEW v \in Worker PROVE BurstClaim(v)'
    <3>1. CASE v = w BY <2>2, <2>3, <2>5, <2>6, <2>7, <3>1 DEF BurstClaim
    <3>2. CASE v # w
      <4>1. Busy(v) => work[v].row \in Row BY BusyClaims DEF Claim
      <4>. QED BY <2>1, <2>6, <2>8, <3>2, <4>1 DEF Bursts, BurstClaim, Busy
    <3>. QED BY <3>1, <3>2
  <2>11. ASSUME NEW y \in runs PROVE BurstRun(y)'
    <3>1. y.row \in Row BY DEF Types, Run
    <3>. QED BY <2>1, <2>8, <3>1 DEF Bursts, BurstRun
  <2>. QED BY <2>1, <2>9, <2>10, <2>11 DEF Bursts, BurstRow, BurstClaim, BurstRun
<1>7. ASSUME NEW w \in Worker, Fire(w) \/ Trouble(w) PROVE Bursts' BY <1>7, WorkerBursts
<1>8. CASE Restart
  <2>1. UNCHANGED <<kind, runs>> BY <1>8 DEF Restart
  <2>2. ASSUME NEW s \in Row
        PROVE  /\ SameOccurrence(row'[s], row[s])
               /\ row'[s].status # "none" <=> row[s].status # "none"
    <3>1. CASE row'[s] = row[s] BY <3>1 DEF SameOccurrence
    <3>2. CASE row'[s] # row[s]
      <4>1. /\ row[s].status = "fired" /\ SameOccurrence(row'[s], row[s])
            /\ row'[s].status \in {"fired", "pending"}
        BY <1>8, <3>2, RestartRecovers
      <4>. QED BY <4>1
    <3>. QED BY <3>1, <3>2
  <2>3. ASSUME NEW s \in Row PROVE BurstRow(s)'
    <3>1. BurstRow(s) BY DEF Bursts, BurstRow
    <3>. QED BY <2>1, <2>2, <3>1, SameStarts
  <2>4. \A w \in Worker : ~ Busy(w)' BY <1>8 DEF Restart, Busy, Idle
  <2>5. ASSUME NEW y \in runs PROVE BurstRun(y)'
    <3>1. y.row \in Row BY DEF Types, Run
    <3>. QED BY <2>1, <2>2, <3>1 DEF Bursts, BurstRun, SameOccurrence
  <2>. QED BY <2>1, <2>3, <2>4, <2>5 DEF Bursts, BurstRow, BurstRun
<1>9. CASE UNCHANGED vars BY <1>0, <1>9 DEF vars
<1>10. ASSUME NEW w \in Worker, Reads(w) PROVE Bursts'
  BY <1>10, ReadsKeep DEF Bursts
<1>. QED BY <1>1, <1>2, <1>3, <1>4, <1>5, <1>6, <1>7, <1>8, <1>9, <1>10, Steps

-----------------------------------------------------------------------------
(* Receipts *)

\* A trigger that joins a burst, alone or after others, is the only new one in it
LEMMA Joined ==
  ASSUME NEW b \in Seq(Trigger), NEW t \in Trigger, NEW c, c = Append(b, t)
  PROVE  \A u \in Trigger :
           (\E i \in DOMAIN c : c[i] = u) <=> (u = t \/ \E i \in DOMAIN b : b[i] = u)
<1>2. PICK n \in Nat : n = Len(b) OBVIOUS
<1>3. /\ DOMAIN c = 1..(n + 1) /\ DOMAIN b = 1..n
      /\ c[n + 1] = t /\ \A i \in 1..n : c[i] = b[i]
  BY <1>2
<1>4. \A i \in 1..(n + 1) : i \in 1..n \/ i = n + 1 OBVIOUS
<1>5. \A i \in 1..n : i \in 1..(n + 1) OBVIOUS
<1>6. n + 1 \in 1..(n + 1) OBVIOUS
<1>7. ASSUME NEW u \in Trigger
      PROVE  (\E i \in DOMAIN c : c[i] = u) <=> (u = t \/ \E i \in DOMAIN b : b[i] = u)
  BY <1>3, <1>4, <1>5, <1>6
<1>. QED BY <1>7

\* A receipt is written together with the burst it stands for
LEMMA ReceiptWritten ==
  ASSUME Types, Receipts, NEW t \in Trigger, seen[t] # None, NEW q \in Row,
         answer' = [answer EXCEPT ![t] = "accepted"], seen' = [seen EXCEPT ![t] = None],
         \A u \in Trigger, r \in Row : InBurst(u, r)' <=> (InBurst(u, r) \/ (u = t /\ r = q))
  PROVE  Receipts'
<1>1. answer[t] = None BY DEF Receipts
<1>2. \A r \in Row : ~ InBurst(t, r) BY <1>1 DEF Receipts
<1>3. ASSUME NEW u \in Trigger
      PROVE  /\ seen'[u] # None => answer'[u] = None
             /\ answer'[u] = "accepted" => \E r \in Row : InBurst(u, r)'
             /\ \A r \in Row : InBurst(u, r)' => answer'[u] = "accepted"
             /\ \A r, s \in Row : (InBurst(u, r)' /\ InBurst(u, s)') => r = s
  <2>1. CASE u = t
    <3>1. seen'[u] = None /\ answer'[u] = "accepted" BY <2>1 DEF Types
    <3>2. \A r \in Row : InBurst(u, r)' <=> r = q BY <1>2, <2>1
    <3>. QED BY <3>1, <3>2
  <2>2. CASE u # t
    <3>1. seen'[u] = seen[u] /\ answer'[u] = answer[u] BY <2>2 DEF Types
    <3>2. \A r \in Row : InBurst(u, r)' <=> InBurst(u, r) BY <2>2
    <3>. QED BY <3>1, <3>2 DEF Receipts
  <2>. QED BY <2>1, <2>2
<1>. QED BY <1>3 DEF Receipts

\* Steps that leave the bursts and the callers alone
LEMMA ReceiptsStay ==
  ASSUME Receipts, \A r \in Row : row'[r].burst = row[r].burst, UNCHANGED answer,
         UNCHANGED seen \/ \A t \in Trigger : seen'[t] = None
  PROVE  Receipts'
<1>1. \A t \in Trigger, r \in Row : InBurst(t, r)' <=> InBurst(t, r) BY DEF InBurst
<1>. QED BY <1>1 DEF Receipts

LEMMA EnqueueReceipts ==
  ASSUME IInv, Bursts, Receipts, NEW t \in Trigger, Enqueue(t)
  PROVE  Receipts'
<1>. USE DEF IInv
<1>1. CASE Merge(t)
  <2>1. PICK q \in Row, x \in RowRecord :
          /\ row' = [row EXCEPT ![q] = x] /\ Mergeable(q)
          /\ x.burst = Append(row[q].burst, t)
    BY ZenonT(60), <1>1, MergeJoins
  <2>2. row[q].burst \in Seq(Trigger) BY DEF Types, RowRecord
  <2>3. \A r \in Row : row'[r].burst = IF r = q THEN Append(row[q].burst, t) ELSE row[r].burst
    BY <2>1 DEF Types
  <2>4. ASSUME NEW u \in Trigger, NEW r \in Row
        PROVE  InBurst(u, r)' <=> (InBurst(u, r) \/ (u = t /\ r = q))
    <3>1. CASE r = q
      <4>1. PICK b \in Seq(Trigger) : b = row[r].burst BY <2>2, <3>1
      <4>2. row'[r].burst = Append(b, t) BY <2>3, <3>1, <4>1
      <4>3. PICK c : c = row'[r].burst OBVIOUS
      <4>4. c = Append(b, t) BY <4>2, <4>3
      <4>5. \A v \in Trigger : (\E i \in DOMAIN c : c[i] = v) <=> (v = t \/ \E i \in DOMAIN b : b[i] = v)
        BY ONLY <4>4, Joined, b \in Seq(Trigger), t \in Trigger
      <4>6. (\E i \in DOMAIN c : c[i] = u) <=> (u = t \/ \E i \in DOMAIN b : b[i] = u)
        BY ONLY <4>5, u \in Trigger
      <4>. QED BY <3>1, <4>1, <4>3, <4>6 DEF InBurst
    <3>2. CASE r # q
      <4>1. row'[r].burst = row[r].burst BY <2>3, <3>2
      <4>. QED BY <3>2, <4>1 DEF InBurst
    <3>. QED BY <3>1, <3>2
  <2>. QED BY <1>1, <2>4, ReceiptWritten DEF Merge
<1>2. CASE InsertRow(t)
  <2>0. Types OBVIOUS
  <2>1. PICK q \in Row, x \in RowRecord :
          /\ Parks(q, x) /\ kind[q] = "debounced" /\ row[q].status = "none"
          /\ x.at = None /\ x.run = None /\ x.burst = <<t>>
    BY ONLY <1>2, <2>0, InsertParks, t \in Trigger
  <2>2. row[q].burst = <<>> BY <2>1 DEF Bursts
  <2>3. \A r \in Row : row'[r].burst = IF r = q THEN <<t>> ELSE row[r].burst
    BY <2>1 DEF Types, Parks
  <2>4. ASSUME NEW u \in Trigger, NEW r \in Row
        PROVE  InBurst(u, r)' <=> (InBurst(u, r) \/ (u = t /\ r = q))
    <3>1. CASE r = q
      <4>1. ~ InBurst(u, r) BY <2>2, <3>1 DEF InBurst
      <4>2. row'[r].burst = <<t>> BY <2>3, <3>1
      <4>3. (\E i \in DOMAIN <<t>> : <<t>>[i] = u) <=> u = t OBVIOUS
      <4>. QED BY <3>1, <4>1, <4>2, <4>3 DEF InBurst
    <3>2. CASE r # q
      <4>1. row'[r].burst = row[r].burst BY <2>3, <3>2
      <4>. QED BY <3>2, <4>1 DEF InBurst
    <3>. QED BY <3>1, <3>2
  <2>. QED BY <1>2, <2>1, <2>4, ReceiptWritten DEF InsertRow
<1>3. CASE Look(t)
  <2>1. UNCHANGED <<row, answer>> /\ answer[t] = None BY <1>3 DEF Look
  <2>2. \A u \in Trigger : u # t => seen'[u] = seen[u] BY <1>3 DEF Look, Types
  <2>3. \A u \in Trigger, r \in Row : InBurst(u, r)' <=> InBurst(u, r) BY <2>1 DEF InBurst
  <2>. QED BY <2>1, <2>2, <2>3 DEF Receipts
<1>4. CASE Unfit(t) \/ \E end \in BOOLEAN : Moved(t, end)
  <2>1. UNCHANGED row /\ seen[t] # None /\ seen' = [seen EXCEPT ![t] = None]
    BY <1>4 DEF Unfit, Moved
  <2>2. PICK a \in {None, "refused"} : answer' = [answer EXCEPT ![t] = a] BY <1>4 DEF Unfit, Moved
  <2>3. \A u \in Trigger, r \in Row : InBurst(u, r)' <=> InBurst(u, r) BY <2>1 DEF InBurst
  <2>4. answer[t] = None /\ \A r \in Row : ~ InBurst(t, r) BY <2>1 DEF Receipts
  <2>5. ASSUME NEW u \in Trigger
        PROVE  /\ seen'[u] # None => answer'[u] = None
               /\ answer'[u] = "accepted" => \E r \in Row : InBurst(u, r)
               /\ \A r \in Row : InBurst(u, r) => answer'[u] = "accepted"
               /\ \A r, s \in Row : (InBurst(u, r) /\ InBurst(u, s)) => r = s
    <3>1. CASE u = t
      <4>1. seen'[u] = None /\ answer'[u] = a BY <2>1, <2>2, <3>1 DEF Types
      <4>. QED BY <2>2, <2>4, <3>1, <4>1
    <3>2. CASE u # t
      <4>1. seen'[u] = seen[u] /\ answer'[u] = answer[u] BY <2>1, <2>2, <3>2 DEF Types
      <4>. QED BY <4>1 DEF Receipts
    <3>. QED BY <3>1, <3>2
  <2>. QED BY <2>3, <2>5 DEF Receipts
<1>. QED BY SMTT(30), <1>1, <1>2, <1>3, <1>4 DEF Enqueue

LEMMA ReceiptsStep ==
  ASSUME IInv, Bursts, Receipts, [Next]_vars
  PROVE  Receipts'
<1>. USE DEF IInv
<1>0. ASSUME NEW q \in Row, NEW x \in RowRecord, row' = [row EXCEPT ![q] = x], UNCHANGED callers,
             x.burst = row[q].burst
      PROVE  Receipts'
  <2>1. \A r \in Row : row'[r].burst = row[r].burst BY <1>0 DEF Types
  <2>. QED BY <1>0, <2>1, ReceiptsStay DEF callers
<1>1. CASE QueueOccurrence
  <2>1. PICK r \in Row, x \in RowRecord :
          Parks(r, x) /\ kind[r] = "scheduled" /\ row[r].status = "none" /\ x.burst = <<>>
    BY <1>1, QueueParks
  <2>2. row[r].burst = <<>> BY <2>1 DEF Bursts
  <2>3. UNCHANGED callers BY <1>1 DEF QueueOccurrence
  <2>. QED BY <1>0, <2>1, <2>2, <2>3 DEF Parks
<1>2. ASSUME NEW r \in Row, NEW at \in Date, SaveOnce(r, at) PROVE Receipts'
  <2>1. PICK x \in RowRecord : Parks(r, x) /\ kind[r] = "once" /\ x.burst = <<>> BY <1>2, SaveParks
  <2>2. row[r].burst = <<>> BY <2>1 DEF Bursts
  <2>3. UNCHANGED callers BY <1>2 DEF SaveOnce
  <2>. QED BY <1>0, <2>1, <2>2, <2>3 DEF Parks
<1>3. ASSUME NEW t \in Trigger, Enqueue(t) PROVE Receipts' BY <1>3, EnqueueReceipts
<1>4. ASSUME NEW r \in Row, Lapse(r) PROVE Receipts' BY <1>4, ReceiptsStay DEF Lapse, callers
<1>5. ASSUME NEW r \in Row, Cancel(r) \/ ExpireDue(r) PROVE Receipts'
  <2>1. PICK x \in RowRecord : row' = [row EXCEPT ![r] = x] /\ SameOccurrence(x, row[r])
    BY <1>5, EndsWaiting
  <2>2. UNCHANGED callers BY <1>5 DEF Cancel, ExpireDue
  <2>. QED BY <1>0, <2>1, <2>2 DEF SameOccurrence
<1>6. ASSUME NEW w \in Worker, NEW r \in Row, ClaimsRow(w, r) PROVE Receipts'
  <2>1. PICK x \in RowRecord : row' = [row EXCEPT ![r] = x] /\ x.burst = row[r].burst
    BY <1>6, ClaimTakes
  <2>2. UNCHANGED callers BY <1>6, ClaimTakes
  <2>. QED BY <1>0, <2>1, <2>2
<1>7. ASSUME NEW w \in Worker, Fire(w) \/ Trouble(w) PROVE Receipts'
  <2>1. RowsMove(w) /\ UNCHANGED callers BY <1>7, WorkerMoves
  <2>2. \A r \in Row : row'[r].burst = row[r].burst BY <2>1 DEF RowsMove, SameOccurrence
  <2>. QED BY <2>1, <2>2, ReceiptsStay DEF callers
<1>8. CASE Restart
  <2>1. \A r \in Row : row'[r].burst = row[r].burst BY <1>8, RestartRecovers DEF SameOccurrence
  <2>2. UNCHANGED answer /\ \A t \in Trigger : seen'[t] = None BY <1>8 DEF Restart
  <2>. QED BY <2>1, <2>2, ReceiptsStay
<1>9. CASE UNCHANGED vars BY <1>9, ReceiptsStay DEF vars
<1>10. ASSUME NEW w \in Worker, Reads(w) PROVE Receipts'
  BY <1>10, ReadsKeep, ReceiptsStay DEF callers
<1>. QED BY <1>1, <1>2, <1>3, <1>4, <1>5, <1>6, <1>7, <1>8, <1>9, <1>10, Steps

\* However triggers race with each other, with claims and with restarts, a burst
\* fires as the payload of its last trigger with the first pin and the greatest
\* depth, a pair that was judged if that trigger came with a judge; and a trigger is
\* in one burst exactly if it was told so.
THEOREM BurstsFireAsOne == Spec => []BurstFiresAsOne
<1>1. Init => Bursts /\ Receipts
  <2>. SUFFICES ASSUME Init PROVE Bursts /\ Receipts OBVIOUS
  <2>1. \A r \in Row : row[r].status = "none" /\ row[r].burst = <<>> BY DEF Init, NoRow
  <2>2. \A w \in Worker : ~ Busy(w) BY DEF Init, Busy, Idle
  <2>3. Bursts BY <2>1, <2>2 DEF Bursts, Init
  <2>4. \A t \in Trigger, r \in Row : ~ InBurst(t, r) BY <2>1 DEF InBurst
  <2>5. \A t \in Trigger : seen[t] = None /\ answer[t] = None BY DEF Init
  <2>. QED BY <2>3, <2>4, <2>5 DEF Receipts
<1>2. IInv /\ Bursts /\ Receipts /\ [Next]_vars => Bursts' /\ Receipts'
  BY BurstsStep, ReceiptsStep
<1>3. ASSUME IInv, Bursts, Receipts PROVE BurstFiresAsOne
  <2>1. ASSUME NEW x \in runs, kind[x.row] = "debounced" PROVE StartsAs(row[x.row].burst, x)
    <3>1. PICK r \in Row : r = x.row BY <1>3 DEF IInv, Types, Run
    <3>2. StartsAs(row[r].burst, row[r]) BY <1>3, <2>1, <3>1 DEF Bursts
    <3>3. x.payload = row[r].payload /\ x.pin = row[r].pin /\ x.depth = row[r].depth
      BY <1>3, <2>1, <3>1 DEF Bursts
    <3>. QED BY <3>1, <3>2, <3>3 DEF StartsAs
  <2>2. ASSUME NEW t \in Trigger
        PROVE  Cardinality({r \in Row : InBurst(t, r)}) = IF answer[t] = "accepted" THEN 1 ELSE 0
    <3>1. CASE answer[t] = "accepted"
      <4>1. PICK r \in Row : InBurst(t, r) BY <1>3, <3>1 DEF Receipts
      <4>2. {s \in Row : InBurst(t, s)} = {r} BY <1>3, <4>1 DEF Receipts
      <4>3. Cardinality({r}) = 1 BY FS_Singleton
      <4>. QED BY <3>1, <4>2, <4>3
    <3>2. CASE answer[t] # "accepted"
      <4>1. {s \in Row : InBurst(t, s)} = {} BY <1>3, <3>2 DEF Receipts
      <4>. QED BY <3>2, <4>1, FS_EmptySet
    <3>. QED BY <3>1, <3>2
  <2>. QED BY <2>1, <2>2 DEF BurstFiresAsOne, InBurst
<1>. QED BY <1>1, <1>2, <1>3, PendingInvariant, PTL DEF Spec

=============================================================================
