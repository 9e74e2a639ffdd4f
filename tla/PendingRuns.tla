---------------------------- MODULE PendingRuns ----------------------------
(***************************************************************************)
(* Deferred runs: the rows of pending_runs, the triggers that park and     *)
(* coalesce them, the dispatcher whose workers claim and start them, and   *)
(* the recovery of interrupted starts.                                     *)
(*                                                                         *)
(* Every SQL statement and every transaction is one step.  Three kinds of  *)
(* rows exist: "scheduled" occurrences with a planned run id and a TTL     *)
(* (queueScheduledOccurrence), the "once" start of a recipe, whose row is  *)
(* used again for another date, and "debounced" rows in which a burst of   *)
(* triggers meets, with the TTL of the latest caller, if it gave one.  All *)
(* rows here belong to one schedule, one recipe and one debounce key.      *)
(* Whether a row is due, and whether its backoff is over, is left open: a  *)
(* pending row may be claimed at any time; so is the end of a TTL that a   *)
(* caller gave.  The comparison with a clock that is kept is that with the *)
(* expires_at of an occurrence; a worker makes it with a reading of its    *)
(* own, older than the claim.                                              *)
(*                                                                         *)
(* Of the executor only what decides whether a run exists is kept: the     *)
(* reservation of the idempotency key, the concurrency slot, the row of    *)
(* pipeline_runs and the OnStarted callback.  The reservation's lifetime   *)
(* (a day) is longer than any retry.                                       *)
(***************************************************************************)
EXTENDS Naturals, Sequences, FiniteSets

CONSTANTS
  Row,          \* ids of pending_runs
  Kinds,        \* which kind of start each of them may stand for
  Worker,       \* the dispatcher's pool
  Trigger,      \* triggers of the debounce key
  PinOf,        \* the version a trigger is pinned to, or None
  DepthOf,      \* its position in a chain of automations
  Checked,      \* triggers whose producer passes a judge of its inputs (a user's
                \* deferred run does, an automation does not)
  Fits,         \* <<trigger, pin>>: its inputs suit that version of the recipe
  WithTtl,      \* triggers whose caller gave the start a TTL
  Date,         \* dates a once start may be set to
  MaxAttempts,  \* maxPendingAttemptsWithoutTTL
  MaxFaults,    \* bound: refusals, interruptions, failures and restarts, by the kind
                \* of start that is parked
  MaxRearms,    \* bound: times a once start is set to another date
  None

Kind == {"scheduled", "once", "debounced", "unused"}

ASSUME PendingAssumption ==
  /\ Kinds \subseteq [Row -> Kind] /\ Kinds # {}
  /\ DepthOf \in [Trigger -> Nat]
  /\ Checked \subseteq Trigger /\ WithTtl \subseteq Trigger
  /\ \A t \in Checked : <<t, PinOf[t]>> \in Fits
  /\ MaxAttempts \in Nat \ {0} /\ MaxFaults \in [Kind -> Nat] /\ MaxRearms \in Nat
  /\ None \notin Row \cup Trigger \cup Nat \cup Date \cup {"accepted", "refused"}

VARIABLES
  kind,      \* the kind of a row, which its id tells
  row,       \* pending_runs
  lapsed,    \* rows whose expires_at has come
  late,      \* history: rows that were claimed after their expires_at
  past,      \* dates of the once start that have come
  reserved,  \* pipeline_run_idempotency: the run id of a row's occurrence
  runs,      \* pipeline_runs
  minted,    \* run ids given out so far
  work,      \* the workers: a claim and where it is
  seen,      \* the pending row, or none, that a trigger has looked up
  answer,    \* what a trigger was answered
  stranded,  \* history: claims whose final write failed in this process
  faults, rearms

vars == <<kind, row, lapsed, past, late, reserved, runs, minted, work, seen, answer,
          stranded, faults, rearms>>
callers == <<seen, answer>>
clock == <<lapsed, past, late>>

NoRow == [status |-> "none", attempts |-> 0, at |-> None,
          run |-> None, linked |-> None, unknown |-> FALSE,
          payload |-> None, pin |-> None, depth |-> 0, burst |-> <<>>]

Idle == [pc |-> "idle"]

Init ==
  /\ kind \in Kinds
  /\ row = [r \in Row |-> NoRow]
  /\ lapsed = {} /\ past = {} /\ late = {}
  /\ reserved = [k \in Row \X (Date \cup {None}) |-> None]
  /\ runs = {}
  /\ minted = 0
  /\ work = [w \in Worker |-> Idle]
  /\ seen = [t \in Trigger |-> None]
  /\ answer = [t \in Trigger |-> None]
  /\ stranded = {}
  /\ faults = 0 /\ rearms = 0

FreshRows(k) == {r \in Row : kind[r] = k /\ row[r].status = "none"}
FreshRow(k) == CHOOSE r \in FreshRows(k) : TRUE
Pending == [NoRow EXCEPT !.status = "pending"]

Fault ==
  /\ \E r \in Row : faults < MaxFaults[kind[r]]
  /\ faults' = faults + 1

-----------------------------------------------------------------------------
(* Occurrences of a schedule, and the once start of a recipe *)

OccupiesWhilePending(r) == row[r].status = "pending" /\ r \notin lapsed

\* A claimed start that is not linked occupies the waiting slot too, an unknown one
\* for ever; an expired one does not
Occupies(r) ==
  \/ row[r].status = "pending" /\ r \notin lapsed
  \/ row[r].status = "fired" /\ row[r].linked = None

QueueOccurrence ==
  /\ FreshRows("scheduled") # {}
  /\ \A r \in Row : kind[r] = "scheduled" => ~ Occupies(r)
  /\ minted' = minted + 1
  /\ row' = [row EXCEPT ![FreshRow("scheduled")] = [Pending EXCEPT !.run = minted']]
  /\ UNCHANGED <<kind, clock, reserved, runs, work, callers, stranded, faults, rearms>>

Lapse(r) ==
  /\ kind[r] = "scheduled" /\ row[r].status # "none" /\ r \notin lapsed
  /\ lapsed' = lapsed \cup {r}
  /\ UNCHANGED <<kind, row, past, late, reserved, runs, minted, work, callers, stranded, faults,
                 rearms>>

\* A repeated save moves a start that was not tried yet, and arms one that was
\* consumed for another date
Armable(r, at) ==
  \/ row[r].status = "pending" /\ row[r].attempts = 0
  \/ row[r].status = "fired" /\ row[r].at # at

OnceAt(at) == [Pending EXCEPT !.at = at]

SaveOnce(r, at) ==
  /\ kind[r] = "once" /\ at \notin past
  /\ \/ row[r].status = "none" /\ UNCHANGED rearms
     \/ /\ Armable(r, at) /\ row[r].at # at
        /\ rearms < MaxRearms /\ rearms' = rearms + 1
  /\ row' = [row EXCEPT ![r] = OnceAt(at)]
  /\ stranded' = stranded \ {r}
  /\ UNCHANGED <<kind, clock, reserved, runs, minted, work, callers, faults>>

-----------------------------------------------------------------------------
(* EnqueueChecked *)

MergeableWhileOpen(r) == kind[r] = "debounced" /\ row[r].status \in {"pending", "fired"}

\* The row that a trigger may still change
Mergeable(r) ==
  /\ kind[r] = "debounced"
  /\ row[r].status = "pending" /\ row[r].attempts = 0

Look(t) ==
  /\ answer[t] = None /\ seen[t] = None
  /\ \/ \E r \in Row :
          /\ row[r].status = "pending" /\ Mergeable(r)
          /\ seen' = [seen EXCEPT ![t] = [row |-> r, pin |-> row[r].pin]]
     \/ /\ \A r \in Row : ~ (row[r].status = "pending" /\ Mergeable(r))
        /\ seen' = [seen EXCEPT ![t] = [row |-> None, pin |-> None]]
  /\ UNCHANGED <<kind, row, clock, reserved, runs, minted, work, answer, stranded, faults, rearms>>

\* The pin stays with the first trigger that has one
EffectivePin(t) == IF seen[t].pin = None THEN PinOf[t] ELSE seen[t].pin

Deeper(r, t) == IF DepthOf[t] > row[r].depth THEN DepthOf[t] ELSE row[r].depth

\* Nobody judges the inputs of a trigger that came without a judge
Admitted(t) == t \in Checked => <<t, EffectivePin(t)>> \in Fits

\* The merge is a compare-and-set on the row and on the pin that was judged
Merge(t) ==
  /\ seen[t] # None /\ seen[t].row # None
  /\ LET r == seen[t].row IN
       /\ Admitted(t)
       /\ Mergeable(r) /\ row[r].pin = seen[t].pin
       /\ row' = [row EXCEPT ![r].payload = t, ![r].pin = EffectivePin(t),
                             ![r].depth = Deeper(r, t), ![r].burst = Append(@, t)]
  /\ answer' = [answer EXCEPT ![t] = "accepted"]
  /\ seen' = [seen EXCEPT ![t] = None]
  /\ UNCHANGED <<kind, clock, reserved, runs, minted, work, stranded, faults, rearms>>

\* The inputs do not suit the recipe of the window
Unfit(t) ==
  /\ seen[t] # None /\ seen[t].row # None
  /\ ~ Admitted(t)
  /\ answer' = [answer EXCEPT ![t] = "refused"]
  /\ seen' = [seen EXCEPT ![t] = None]
  /\ UNCHANGED <<kind, row, clock, reserved, runs, minted, work, stranded, faults, rearms>>

InsertRow(t) ==
  /\ seen[t] # None /\ seen[t].row = None
  /\ \A r \in Row : ~ Mergeable(r)
  /\ FreshRows("debounced") # {}
  /\ row' = [row EXCEPT ![FreshRow("debounced")] =
               [Pending EXCEPT !.payload = t, !.pin = PinOf[t], !.depth = DepthOf[t],
                               !.burst = <<t>>]]
  /\ answer' = [answer EXCEPT ![t] = "accepted"]
  /\ seen' = [seen EXCEPT ![t] = None]
  /\ UNCHANGED <<kind, clock, reserved, runs, minted, work, stranded, faults, rearms>>

\* The row moved, or another trigger inserted one: start over, a few times
Moved(t, end) ==
  /\ seen[t] # None
  /\ IF seen[t].row = None THEN \E r \in Row : Mergeable(r)
                           ELSE ~ Mergeable(seen[t].row) \/ row[seen[t].row].pin # seen[t].pin
  /\ answer' = [answer EXCEPT ![t] = IF end THEN "refused" ELSE None]
  /\ seen' = [seen EXCEPT ![t] = None]
  /\ UNCHANGED <<kind, row, clock, reserved, runs, minted, work, stranded, faults, rearms>>

-----------------------------------------------------------------------------
(* The dispatcher *)

Cancel(r) ==
  /\ row[r].status = "pending"
  /\ row' = [row EXCEPT ![r].status = "cancelled"]
  /\ UNCHANGED <<kind, clock, reserved, runs, minted, work, callers, stranded, faults, rearms>>

\* A burst has the TTL of its latest trigger, if that has one
ExpireDue(r) ==
  /\ row[r].status = "pending"
  /\ r \in lapsed \/ row[r].payload \in WithTtl
  /\ row' = [row EXCEPT ![r].status = "expired"]
  /\ UNCHANGED <<kind, clock, reserved, runs, minted, work, callers, stranded, faults, rearms>>

\* The slots of the pool are alike
FreeSlot == CHOOSE w \in Worker : work[w].pc = "idle"

\* A worker reads the clock before it claims the row that its sweep listed.  With a
\* reading past the TTL it claims nothing
ReadClock(w, r) ==
  /\ work[w].pc = "idle" /\ w = FreeSlot
  /\ row[r].status = "pending" /\ r \notin lapsed
  /\ work' = [work EXCEPT ![w] = [pc |-> "claim", row |-> r, at |-> row[r].at]]
  /\ past' = past \cup ({row[r].at} \ {None})
  /\ UNCHANGED <<kind, row, lapsed, late, reserved, runs, minted, callers, stranded, faults,
                 rearms>>

\* The row still waits, for no date after the reading
StillDue(w) == LET r == work[w].row IN row[r].status = "pending" /\ row[r].at = work[w].at

\* The claim is bound to the row as it is now, not as the sweep listed it, and to the
\* clock as it was read: a TTL that ended since does not refuse it
ClaimDue(w) ==
  LET r == work[w].row IN
  /\ work[w].pc = "claim" /\ StillDue(w)
  /\ row' = [row EXCEPT ![r].status = "fired", ![r].linked = None,
                        ![r].unknown = FALSE, ![r].attempts = @ + 1]
  /\ work' = [work EXCEPT ![w] =
                [pc |-> "reserve", row |-> r, attempts |-> row[r].attempts + 1,
                 at |-> row[r].at, run |-> row[r].run, payload |-> row[r].payload,
                 pin |-> row[r].pin, depth |-> row[r].depth]]
  /\ late' = late \cup ({r} \cap lapsed)
  /\ UNCHANGED <<kind, lapsed, past, reserved, runs, minted, callers, stranded, faults, rearms>>

\* It was claimed, cancelled, expired or postponed
NothingToClaim(w) ==
  /\ work[w].pc = "claim" /\ ~ StillDue(w)
  /\ work' = [work EXCEPT ![w] = Idle]
  /\ UNCHANGED <<kind, row, clock, reserved, runs, minted, callers, stranded, faults, rearms>>

Goes(w, pc) == work' = [work EXCEPT ![w].pc = pc]
Key(w) == <<work[w].row, work[w].at>>

\* LookupOrReserve with the planned run id or a new one
Reserve(w) ==
  /\ work[w].pc = "reserve"
  /\ \/ /\ reserved[Key(w)] = None
        /\ minted' = IF work[w].run = None THEN minted + 1 ELSE minted
        /\ LET id == IF work[w].run = None THEN minted + 1 ELSE work[w].run
           IN  /\ reserved' = [reserved EXCEPT ![Key(w)] = id]
               /\ work' = [work EXCEPT ![w].pc = "acquire", ![w].run = id]
     \/ /\ reserved[Key(w)] # None
        /\ work' = [work EXCEPT ![w].pc = "deduped", ![w].run = reserved[Key(w)]]
        /\ UNCHANGED <<reserved, minted>>
  /\ UNCHANGED <<kind, row, clock, runs, callers, stranded, faults, rearms>>

\* The recipe is gone or inactive, or the context ends, before anything is written;
\* or the reservation is made and the slot, the row or their answer is not
StartFails(w, why) ==
  /\ work[w].pc \in {"reserve", "acquire", "persist"}
  /\ why \in {"error", "interrupted"}
  /\ Fault
  /\ Goes(w, why)
  /\ UNCHANGED <<kind, row, clock, reserved, runs, minted, callers, stranded, rearms>>

AcquireSlot(w) ==
  /\ work[w].pc = "acquire"
  /\ Goes(w, "persist")
  /\ UNCHANGED <<kind, row, clock, reserved, runs, minted, callers, stranded, faults, rearms>>

\* No slot: the reservation is released by its key.  When that fails the result is
\* that of StartFails
RoutineFull(w) ==
  /\ work[w].pc = "acquire"
  /\ Fault
  /\ reserved' = [reserved EXCEPT ![Key(w)] = None]
  /\ Goes(w, "capacity")
  /\ UNCHANGED <<kind, row, clock, runs, minted, callers, stranded, rearms>>

RunOf(w) == [id |-> work[w].run, row |-> work[w].row, at |-> work[w].at,
             payload |-> work[w].payload, pin |-> work[w].pin, depth |-> work[w].depth]

\* persistRunStart: from here on the run may have effects
Persist(w) ==
  /\ work[w].pc = "persist"
  /\ runs' = runs \cup {RunOf(w)}
  /\ Goes(w, "link")
  /\ UNCHANGED <<kind, row, clock, reserved, minted, callers, stranded, faults, rearms>>

\* The row is committed, the answer is an error
PersistUnheard(w, why) ==
  /\ work[w].pc = "persist"
  /\ why \in {"error", "interrupted"}
  /\ Fault
  /\ runs' = runs \cup {RunOf(w)}
  /\ Goes(w, why)
  /\ UNCHANGED <<kind, row, clock, reserved, minted, callers, stranded, rearms>>

\* This claim, and not one of a later attempt or of another date
Owns(w) ==
  LET r == work[w].row IN
  /\ row[r].status = "fired"
  /\ row[r].attempts = work[w].attempts /\ row[r].at = work[w].at

SetFiredRunID(w) ==
  IF Owns(w) THEN [row EXCEPT ![work[w].row].linked = work[w].run,
                              ![work[w].row].unknown = FALSE]
             ELSE row

\* OnStarted; when its write fails the link is left to the backfill
Link(w) ==
  /\ work[w].pc = "link"
  /\ row' = SetFiredRunID(w)
  /\ Goes(w, "running")
  /\ UNCHANGED <<kind, clock, reserved, runs, minted, callers, stranded, faults, rearms>>

LinkFails(w) ==
  /\ work[w].pc = "link"
  /\ Fault
  /\ Goes(w, "running")
  /\ UNCHANGED <<kind, row, clock, reserved, runs, minted, callers, stranded, rearms>>

Backfill(w) ==
  /\ work[w].pc = "running"
  /\ row' = SetFiredRunID(w)
  /\ work' = [work EXCEPT ![w] = Idle]
  /\ UNCHANGED <<kind, clock, reserved, runs, minted, callers, stranded, faults, rearms>>

Started(id, r) == \E run \in runs : run.id = id /\ run.row = r

FinishDispatchError(w, status, unknown) ==
  LET r == work[w].row IN
  IF Owns(w) /\ row[r].linked = None
  THEN [row EXCEPT ![r].status = status, ![r].unknown = unknown] ELSE row

\* A reservation is no proof of a start: such a claim is held for inspection
Deduped(w) ==
  /\ work[w].pc = "deduped"
  /\ row' = IF Started(work[w].run, work[w].row)
            THEN SetFiredRunID(w) ELSE FinishDispatchError(w, "fired", TRUE)
  /\ work' = [work EXCEPT ![w] = Idle]
  /\ UNCHANGED <<kind, clock, reserved, runs, minted, callers, stranded, faults, rearms>>

Retryable(w) == work[w].pc \in {"capacity", "interrupted"}
Planned(w) == kind[work[w].row] = "scheduled"

\* recordDispatchError
Verdicts(w) ==
  IF ~ Retryable(w) THEN {"failed"}
  ELSE IF Planned(w) THEN {IF work[w].row \in lapsed THEN "expired" ELSE "pending"}
  ELSE IF work[w].payload \in WithTtl THEN {"expired", "pending"}
  ELSE {IF work[w].attempts >= MaxAttempts THEN "failed" ELSE "pending"}

RecordError(w) ==
  /\ work[w].pc \in {"capacity", "interrupted", "error"}
  /\ \E verdict \in Verdicts(w) :
       /\ ~ (Planned(w) /\ verdict = "pending")
       /\ row' = FinishDispatchError(w, verdict, FALSE)
  /\ work' = [work EXCEPT ![w] = Idle]
  /\ UNCHANGED <<kind, clock, reserved, runs, minted, callers, stranded, faults, rearms>>

\* What becomes of an unlinked claim with a planned run: the run exists after all,
\* or the claim's own reservation goes and the row waits again
RecoveredBlindly(r) == [row[r] EXCEPT !.status = "pending"]

Recovered(r) ==
  CASE Started(row[r].run, r) -> [row[r] EXCEPT !.linked = row[r].run]
    [] ~ Started(row[r].run, r) /\ reserved[<<r, None>>] \notin {None, row[r].run}
         -> [row[r] EXCEPT !.unknown = TRUE]
    [] OTHER -> [row[r] EXCEPT !.status = "pending"]

\* requeueUnstartedClaim, one transaction
Requeue(w) ==
  LET r == work[w].row IN
  /\ work[w].pc \in {"capacity", "interrupted"}
  /\ Planned(w) /\ "pending" \in Verdicts(w)
  /\ IF Owns(w) /\ row[r].linked = None
     THEN /\ row' = [row EXCEPT ![r] = Recovered(r)]
          /\ reserved' = IF row'[r].status = "pending"
                         THEN [reserved EXCEPT ![<<r, None>>] = None] ELSE reserved
     ELSE UNCHANGED <<kind, row, reserved>>
  /\ work' = [work EXCEPT ![w] = Idle]
  /\ UNCHANGED <<kind, clock, runs, minted, callers, stranded, faults, rearms>>

\* The last write of a worker fails: the claim stays until the next boot
FinalWriteFails(w) ==
  /\ work[w].pc \in {"deduped", "capacity", "interrupted", "error", "running"}
  /\ Fault
  /\ stranded' = stranded \cup {r \in {work[w].row} : Owns(w) /\ row[r].linked = None}
  /\ work' = [work EXCEPT ![w] = Idle]
  /\ UNCHANGED <<kind, row, clock, reserved, runs, minted, callers, rearms>>

-----------------------------------------------------------------------------

Unlinked(r) == row[r].status = "fired" /\ row[r].linked = None /\ ~ row[r].unknown

AtBootLeft(r) == row[r]

\* RecoverPendingStartsAtBoot, before any dispatcher starts: a claim without a
\* planned run id is held for inspection
AtBoot(r) == IF row[r].run = None THEN [row[r] EXCEPT !.unknown = TRUE] ELSE Recovered(r)

\* The process dies and boots again: workers and callers are gone
Restart ==
  /\ Fault
  /\ row' = [r \in Row |-> IF Unlinked(r) THEN AtBoot(r) ELSE row[r]]
  /\ reserved' = [k \in DOMAIN reserved |->
                    IF Unlinked(k[1]) /\ row'[k[1]].status = "pending" THEN None
                    ELSE reserved[k]]
  /\ work' = [w \in Worker |-> Idle]
  /\ seen' = [t \in Trigger |-> None]
  /\ stranded' = {}
  /\ UNCHANGED <<kind, clock, runs, minted, answer, rearms>>

Enqueue(t) ==
  \/ Look(t) \/ Merge(t) \/ Unfit(t) \/ InsertRow(t)
  \/ \E end \in BOOLEAN : Moved(t, end)

Take(w) == ClaimDue(w) \/ NothingToClaim(w)

Fire(w) ==
  \/ Reserve(w) \/ AcquireSlot(w) \/ Persist(w) \/ Link(w) \/ Backfill(w)
  \/ Deduped(w) \/ RecordError(w) \/ Requeue(w)

Trouble(w) ==
  \/ \E why \in {"error", "interrupted"} : StartFails(w, why) \/ PersistUnheard(w, why)
  \/ RoutineFull(w) \/ LinkFails(w) \/ FinalWriteFails(w)

Sweep(r) == ExpireDue(r) \/ \E w \in Worker : ReadClock(w, r)

Next ==
  \/ QueueOccurrence
  \/ \E r \in Row, at \in Date : SaveOnce(r, at)
  \/ \E t \in Trigger : Enqueue(t)
  \/ \E r \in Row : Lapse(r) \/ Cancel(r) \/ Sweep(r)
  \/ \E w \in Worker : Take(w) \/ Fire(w) \/ Trouble(w)
  \/ Restart

Spec == Init /\ [][Next]_vars

\* The dispatcher sweeps on every tick, and its workers go on; a routine ends.
\* Nobody has to trigger, save, cancel or restart anything
FairSpec ==
  /\ Spec
  /\ WF_vars(\E r \in Row : Sweep(r))
  /\ WF_vars(\E w \in Worker : Take(w) \/ Fire(w))

-----------------------------------------------------------------------------
(* Properties *)

\* An occurrence starts at most one run, no worker is about to start it again once it
\* runs, and a row that is linked is linked to the run of the occurrence it stands
\* for: whatever crashes, lost answers, retries, restarts and late callbacks of an
\* earlier date do.
OneRunPerOccurrence ==
  /\ \A x, y \in runs : (x.row = y.row /\ x.at = y.at) => x = y
  /\ \A w \in Worker : work[w].pc = "persist" =>
       \A x \in runs : <<x.row, x.at>> # <<work[w].row, work[w].at>>
  /\ \A r \in Row : row[r].linked # None =>
       \E x \in runs : x.id = row[r].linked /\ x.row = r /\ x.at = row[r].at

\* The start of a burst has the payload of the last trigger, the pin of the first
\* that had one and the depth of the deepest; and the two were judged together if
\* the payload came with a judge.  An automation's does not, so that it may fire at
\* a version a user's trigger chose, which nobody judged it for
StartsAs(burst, x) ==
  /\ x.payload = burst[Len(burst)]
  /\ \/ x.pin = None /\ \A i \in DOMAIN burst : PinOf[burst[i]] = None
     \/ \E i \in DOMAIN burst :
          /\ x.pin = PinOf[burst[i]] /\ x.pin # None
          /\ \A j \in 1..(i - 1) : PinOf[burst[j]] = None
  /\ \E i \in DOMAIN burst : x.depth = DepthOf[burst[i]]
  /\ \A i \in DOMAIN burst : x.depth >= DepthOf[burst[i]]
  /\ x.payload \in Checked => <<x.payload, x.pin>> \in Fits

\* A burst fires as one trigger, whenever its row was claimed and whatever arrived
\* while it was; and every trigger that got a receipt is in one burst.
BurstFiresAsOne ==
  /\ \A x \in runs : kind[x.row] = "debounced" => StartsAs(row[x.row].burst, x)
  /\ \A t \in Trigger :
       Cardinality({r \in Row : \E i \in DOMAIN row[r].burst : row[r].burst[i] = t})
         = IF answer[t] = "accepted" THEN 1 ELSE 0

\* Occurrences of a schedule do not pile up: a claim on its way, through retries
\* and a restart too, keeps the next occurrence from being queued.  Only a claim that
\* was decided with a clock reading of before its TTL, and lands after it, comes
\* beside the occurrence the scheduler queued in its place meanwhile.
OneWaitingOccurrence ==
  Cardinality({r \in Row :
                 /\ r \notin late
                 /\ kind[r] = "scheduled" /\ row[r].linked = None
                 /\ row[r].status \in {"pending", "fired"}
                 /\ row[r].status = "pending" => r \notin lapsed}) <= 1

\* Linked to its run, ended with a reason, or held for inspection
Settled(r) ==
  \/ row[r].status \in {"expired", "failed", "cancelled"}
  \/ row[r].status = "fired" /\ (row[r].linked # None \/ row[r].unknown)

\* Every start that was parked is settled, across refusals, interruptions and
\* restarts, unless the last write of its worker fails, which leaves it to the
\* next boot.  A used row never is unused again, so that to be unused or settled
\* again and again is to be settled after every parking.
ParkedStartsSettle ==
  \A r \in Row : []<>(row[r].status = "none" \/ Settled(r) \/ r \in stranded)

=============================================================================
