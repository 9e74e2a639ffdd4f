----------------------------- MODULE WorkLedger -----------------------------
(***************************************************************************)
(* The durable work ledger: the work_items and work_attempts tables and    *)
(* the transactions of internal/work that change them.                     *)
(*                                                                         *)
(* SQLite runs every writing transaction as an immediate one, so one       *)
(* transaction is one action here, and every read it makes is a read of    *)
(* the state it changes.  Callers hold nothing but the triple (work, run,  *)
(* generation) a claim handed them; a caller may present any triple at     *)
(* any moment, which is what a superseded or confused worker does.         *)
(*                                                                         *)
(* Time is abstract: a lease lapses, a work item becomes eligible and a    *)
(* deadline passes by steps of the clock that nobody controls.             *)
(***************************************************************************)
EXTENDS Naturals, FiniteSets

CONSTANTS
  Work,       \* the work items that may ever be accepted
  RunId,      \* the attempt ids that may be handed out: bounds the attempts
  NoWork,     \* the owner of an attempt row that does not exist
  Nothing,    \* an empty agent, session or crew id, and a NULL column
  ClassOf,    \* [Work -> {"chat", "background"}]
  AgentOf, SessionOf, CrewOf,
  CrewRow,    \* max_concurrent_agents and container_memory_mb of a crew
  MinMemoryMB,
  HostChat,   \* works that are host chat turns (begun and claimed at once)
  Assigned,   \* works that execute a row of the assignments table
  Deadlined,  \* works accepted with a deadline
  Kinds,      \* per dispatcher, the works of the kinds it may execute
  Limits,     \* work.Limits
  MaxAttempts,
  Targets,    \* the states that callers of Transition ask for
  Outputs     \* the results that runs leave behind

States == {"queued", "starting", "running", "waiting", "retry_wait",
           "succeeded", "failed", "expired", "cancelled",
           "needs_reconciliation"}
Terminal == {"succeeded", "failed", "expired", "cancelled"}
HoldsExecutionSlot == {"starting", "running", "needs_reconciliation"}
OccupiesSession == HoldsExecutionSlot \cup {"waiting"}
Live == {"starting", "running"}
Claimable == {"queued", "retry_wait"}
Phases == {"none", "planned", "starting", "requested", "confirmed"}
Verdicts == {"COMPLETED", "FAILED", "TIMEOUT", "CANCELLED"}
RunStatuses == {"unset"} \cup Verdicts
Exits == {"exit0", "exit1"}
Results == {"null", "partial"} \cup Exits

ASSUME WorkAssumption ==
  /\ NoWork \notin Work
  /\ HostChat \subseteq Work /\ Assigned \subseteq Work /\ Deadlined \subseteq Work
  /\ HostChat \cap Assigned = {}
  /\ Kinds \subseteq SUBSET Work
  /\ ClassOf \in [Work -> {"chat", "background"}]
  /\ \A w \in Assigned : ClassOf[w] = "background"
  /\ \A w \in HostChat : ClassOf[w] = "chat"

ASSUME LimitsAssumption ==
  /\ MaxAttempts \in Nat \ {0}
  /\ \A f \in {"ServerTotal", "ServerBackground", "ServerChatReserv",
               "AgentTotal", "AgentChat", "AgentBackground"} : Limits[f] \in Nat
  /\ Targets \subseteq States
  /\ Outputs \subseteq Results \ {"null"}

\* max_concurrent_agents counts as 0 unless it is a positive integer
ASSUME CrewAssumption ==
  /\ MinMemoryMB \in Nat \ {0}
  /\ \A w \in Work : CrewOf[w] # Nothing =>
       /\ CrewRow[CrewOf[w]].maxAgents \in Nat \cup {Nothing}
       /\ CrewRow[CrewOf[w]].memoryMB \in Nat \cup {Nothing}

VARIABLES
  state,            \* work_items.state, "absent" before acceptance
  generation,       \* work_items.generation
  attempts,         \* work_items.attempts: the budget spent
  eligible,         \* works whose eligible_at has come
  overdue,          \* works whose deadline_at has passed
  legacy,           \* works whose assignments row is RUNNING under the old executor
  owner,            \* work_attempts.work_id
  gen,              \* work_attempts.generation
  phase,            \* work_attempts.runtime_phase, "none" when there is no row
  open,             \* attempts with ended_at NULL
  lapsed,           \* attempts whose lease_expires_at has passed
  cancelRequested,  \* attempts with cancel_requested_at set
  parked,           \* attempts whose end_reason awaits a retained result
  runStatus,        \* work_attempts.run_status
  result,           \* work_attempts.run_result_json
  delivered,        \* the status the run journal was told, "unset" for none
  projected         \* attempts with run_projected_at set

itemVars == <<state, generation, attempts>>
clockVars == <<eligible, overdue, lapsed>>
attemptVars == <<owner, gen, phase, open, cancelRequested>>
outcomeVars == <<parked, runStatus, result>>
projectionVars == <<delivered, projected>>
vars == <<itemVars, clockVars, legacy, attemptVars, outcomeVars, projectionVars>>

-----------------------------------------------------------------------------
(* The state machine of a work item *)

Allowed ==
  [s \in States |->
     CASE s = "queued" ->
            {"starting", "cancelled", "expired", "failed", "needs_reconciliation"}
       [] s = "starting" ->
            {"running", "retry_wait", "failed", "cancelled",
             "needs_reconciliation", "queued", "succeeded"}
       [] s = "running" ->
            {"succeeded", "failed", "waiting", "retry_wait", "cancelled",
             "needs_reconciliation"}
       [] s = "waiting" ->
            {"running", "queued", "failed", "cancelled", "expired",
             "needs_reconciliation"}
       [] s = "retry_wait" ->
            {"queued", "starting", "failed", "cancelled", "expired",
             "needs_reconciliation"}
       [] s = "needs_reconciliation" ->
            {"queued", "succeeded", "failed", "cancelled"}
       [] OTHER -> {}]

CanTransition(from, to) == from # to /\ from \in States /\ to \in Allowed[from]

RunStatusForState(to) ==
  CASE to = "succeeded" -> "COMPLETED"
    [] to = "cancelled" -> "CANCELLED"
    [] to \in {"failed", "retry_wait", "queued"} -> "FAILED"
    [] OTHER -> "unset"

-----------------------------------------------------------------------------
(* Capacity.  Every rule is counted over the live slots of one transaction. *)

\* A RUNNING row of the old executor holds a slot unless a work item that
\* owns it holds the slot itself or proves that the execution ended.
LiveSlots(st) ==
  {w \in Work : \/ st[w] \in HoldsExecutionSlot
                \/ w \in legacy /\ st[w] \notin HoldsExecutionSlot \cup Terminal}

Chat(S) == {w \in S : ClassOf[w] = "chat"}
Background(S) == {w \in S : ClassOf[w] = "background"}

CrewBudget(c) ==
  LET row == CrewRow[c]
  IN  IF row.maxAgents # Nothing THEN row.maxAgents
      ELSE IF row.memoryMB = Nothing THEN 1
      ELSE IF row.memoryMB \div MinMemoryMB > 1 THEN row.memoryMB \div MinMemoryMB ELSE 1

\* Mutant: background work may take the slots reserved for chat.
ServerAdmitsNoReserve(w, live) ==
  /\ Cardinality(live) < Limits["ServerTotal"]
  /\ ClassOf[w] = "background" =>
       Cardinality(Background(live)) < Limits["ServerBackground"]

ServerAdmits(w, live) ==
  /\ Cardinality(live) < Limits["ServerTotal"]
  /\ ClassOf[w] = "background" =>
       /\ Cardinality(Background(live)) < Limits["ServerBackground"]
       /\ Cardinality(live) + 1 + Limits["ServerChatReserv"]
            <= Limits["ServerTotal"] + Cardinality(Chat(live))

\* Mutant: the conversation is taken to be free while its turn is waiting.
SessionFreeWhileWaiting(w, st, live) ==
  SessionOf[w] # Nothing => \A v \in live : SessionOf[v] # SessionOf[w]

SessionFree(w, st, live) ==
  SessionOf[w] # Nothing =>
    \A v \in Work : SessionOf[v] = SessionOf[w] =>
                      st[v] \notin OccupiesSession /\ v \notin live

AgentAdmits(w, live) ==
  AgentOf[w] # Nothing =>
    LET mine == {v \in live : AgentOf[v] = AgentOf[w]}
    IN  /\ Cardinality(mine) < Limits["AgentTotal"]
        /\ ClassOf[w] = "chat" => Cardinality(Chat(mine)) < Limits["AgentChat"]
        /\ ClassOf[w] = "background" =>
             Cardinality(Background(mine)) < Limits["AgentBackground"]

CrewAdmits(w, live) ==
  CrewOf[w] # Nothing =>
    Cardinality({v \in live : CrewOf[v] = CrewOf[w]}) < CrewBudget(CrewOf[w])

Admits(w, st) ==
  LET live == LiveSlots(st)
  IN  /\ ServerAdmits(w, live)
      /\ SessionFree(w, st, live)
      /\ AgentAdmits(w, live)
      /\ CrewAdmits(w, live)

-----------------------------------------------------------------------------
(* The fence *)

\* The attempt exists, belongs to this work item, is the current one for the
\* caller and for the item, and has not ended.
Bound(w, r, g) ==
  /\ g = generation[w]
  /\ phase[r] # "none"
  /\ owner[r] = w
  /\ gen[r] = g
  /\ r \in open

Fresh == {r \in RunId : phase[r] = "none"}

\* What closing attempt r does to its row.  A lapsed lease of an ended
\* attempt is read by nobody, so it is forgotten.
EndAttempt(r, status, awaitsCapture) ==
  /\ open' = open \ {r}
  /\ lapsed' = lapsed \ {r}
  /\ runStatus' = [runStatus EXCEPT ![r] = status]
  /\ parked' = IF awaitsCapture THEN parked \cup {r} ELSE parked

SetState(w, to) == state' = [state EXCEPT ![w] = to]

-----------------------------------------------------------------------------
(* Acceptance *)

Init ==
  /\ state = [w \in Work |-> "absent"]
  /\ generation = [w \in Work |-> 0]
  /\ attempts = [w \in Work |-> 0]
  /\ eligible = {} /\ overdue = {} /\ legacy = {}
  /\ owner = [r \in RunId |-> NoWork]
  /\ gen = [r \in RunId |-> 0]
  /\ phase = [r \in RunId |-> "none"]
  /\ open = {} /\ lapsed = {} /\ cancelRequested = {} /\ parked = {}
  /\ runStatus = [r \in RunId |-> "unset"]
  /\ result = [r \in RunId |-> "null"]
  /\ delivered = [r \in RunId |-> "unset"]
  /\ projected = {}

\* An assignments row is accepted only while PENDING or QUEUED; eligible_at is
\* now, or a later moment the producer chose.
AcceptTx(w) ==
  /\ state[w] = "absent" /\ w \notin HostChat \cup legacy
  /\ SetState(w, "queued")
  /\ eligible' \in {eligible, eligible \cup {w}}
  /\ UNCHANGED <<generation, attempts, overdue, lapsed, legacy, attemptVars,
                 outcomeVars, projectionVars>>

-----------------------------------------------------------------------------
(* Claiming *)

\* The generation bump, the spent budget and the new attempt row.
StartAttempt(w, r, ph) ==
  /\ generation' = [generation EXCEPT ![w] = @ + 1]
  /\ attempts' = [attempts EXCEPT ![w] = @ + 1]
  /\ owner' = [owner EXCEPT ![r] = w]
  /\ gen' = [gen EXCEPT ![r] = generation[w] + 1]
  /\ phase' = [phase EXCEPT ![r] = ph]
  /\ open' = open \cup {r}

\* Mutant: the budget check looks at the attempts already spent.
ExhaustedLate(w) == attempts[w] > MaxAttempts

Exhausted(w) == attempts[w] + 1 > MaxAttempts

\* expireOverdueTx runs over the whole ledger, whatever the claimer filters on.
AfterExpiry ==
  [w \in Work |-> IF w \in overdue /\ state[w] \in Claimable
                  THEN "expired" ELSE state[w]]

Candidates(mine) ==
  {w \in mine : /\ AfterExpiry[w] \in Claimable
                /\ w \in eligible
                /\ Admits(w, AfterExpiry)}

FailWork(st, failed) == [w \in Work |-> IF w \in failed THEN "failed" ELSE st[w]]

\* The scan fails the out-of-budget candidates it meets and takes the first
\* other one.  Its order (priority, aging, round robin, FIFO) is left open.
Claim(mine, r) ==
  /\ r \in Fresh
  /\ \E w \in Candidates(mine) :
       /\ ~ Exhausted(w)
       /\ \E failed \in SUBSET {v \in Candidates(mine) : Exhausted(v)} :
            state' = [FailWork(AfterExpiry, failed) EXCEPT ![w] = "starting"]
       /\ StartAttempt(w, r, "planned")
  /\ UNCHANGED <<clockVars, legacy, cancelRequested, outcomeVars, projectionVars>>

\* A scan that finds nothing to start still commits its expiries and failures.
ClaimNothing(mine) ==
  /\ \A w \in Candidates(mine) : Exhausted(w)
  /\ state' = FailWork(AfterExpiry, Candidates(mine))
  /\ UNCHANGED <<generation, attempts, clockVars, legacy, attemptVars,
                 outcomeVars, projectionVars>>

-----------------------------------------------------------------------------
(* Worker transitions: everything a holder of an attempt may write *)

MarkStarting(w, r, g) ==
  /\ Bound(w, r, g) /\ phase[r] = "planned"
  /\ phase' = [phase EXCEPT ![r] = "starting"]
  /\ UNCHANGED <<itemVars, clockVars, legacy, owner, gen, open, cancelRequested,
                 outcomeVars, projectionVars>>

\* The creation gate: refused once a cancel is on the attempt.
MarkRuntimeRequested(w, r, g) ==
  /\ Bound(w, r, g) /\ phase[r] = "starting" /\ r \notin cancelRequested
  /\ phase' = [phase EXCEPT ![r] = "requested"]
  /\ UNCHANGED <<itemVars, clockVars, legacy, owner, gen, open, cancelRequested,
                 outcomeVars, projectionVars>>

StartRunning(w, r, g) ==
  /\ Bound(w, r, g)
  /\ CanTransition(state[w], "running")
  /\ phase[r] \in {"starting", "requested", "confirmed"}
  /\ phase' = [phase EXCEPT ![r] = "confirmed"]
  /\ SetState(w, "running")
  /\ UNCHANGED <<generation, attempts, clockVars, legacy, owner, gen, open,
                 cancelRequested, outcomeVars, projectionVars>>

Heartbeat(r, g) ==
  /\ r \in open /\ gen[r] = g /\ generation[owner[r]] = g
  /\ lapsed' = lapsed \ {r}
  /\ UNCHANGED <<itemVars, eligible, overdue, legacy, attemptVars, outcomeVars,
                 projectionVars>>

\* A retry with no attempts left is a failure.
Landing(w, to) ==
  IF to = "retry_wait" /\ attempts[w] >= MaxAttempts THEN "failed" ELSE to

\* Mutant: parking leaves the attempt open.
ClosesOnSettling(to) == to \in Terminal \cup {"retry_wait", "queued"}

Closes(to) == to \in Terminal \cup {"retry_wait", "queued", "needs_reconciliation"}

\* why = "stopped" is StoppedRunFailed; why = "retained" is the reason that
\* marks an attempt as awaiting its retained capture.
Transition(w, r, g, to, why) ==
  LET into == Landing(w, to)
  IN  /\ state[w] \notin Terminal
      /\ Bound(w, r, g)
      /\ CanTransition(state[w], to)
      /\ why \in {"stopped", "retained"} => to = "needs_reconciliation"
      /\ SetState(w, into)
      /\ eligible' = IF into = "retry_wait" THEN eligible \ {w} ELSE eligible
      /\ IF Closes(into)
         THEN EndAttempt(r, IF why = "stopped" THEN "FAILED" ELSE RunStatusForState(into),
                         why = "retained")
         ELSE UNCHANGED <<open, lapsed, runStatus, parked>>
      /\ UNCHANGED <<generation, attempts, overdue, legacy, owner, gen, phase,
                     cancelRequested, result, projectionVars>>

\* Mutant: an attempt that declared its runtime may be given back too.
ReturnableOnceStarting(r) == phase[r] \in {"planned", "starting"}

Returnable(r) == phase[r] = "planned"

\* Giving a planned attempt back: a pending cancel is decided here, otherwise
\* the work is queued again, not yet eligible, with its budget restored.
Defer(w, r, g) ==
  /\ state[w] \notin Terminal
  /\ Bound(w, r, g) /\ Returnable(r)
  /\ IF r \in cancelRequested
     THEN /\ SetState(w, "cancelled")
          /\ UNCHANGED <<attempts, eligible>>
     ELSE /\ SetState(w, "queued")
          /\ attempts' = [attempts EXCEPT ![w] = IF @ > 0 THEN @ - 1 ELSE 0]
          /\ eligible' = eligible \ {w}
  /\ EndAttempt(r, runStatus[r], FALSE)
  /\ UNCHANGED <<generation, overdue, legacy, owner, gen, phase, cancelRequested,
                 result, projectionVars>>

-----------------------------------------------------------------------------
(* Recovery, cancellation and resolution: operations that own no attempt *)

Expired(r) ==
  /\ r \in open /\ r \in lapsed
  /\ state[owner[r]] \in Live
  /\ generation[owner[r]] = gen[r]

\* Mutant: a declared start is taken for one that never happened.
RecoveredToQueue(r) ==
  IF phase[r] \in {"planned", "starting"} THEN "queued" ELSE "needs_reconciliation"

\* Only `planned` proves that no runtime was requested.
RecoveredTo(r) == IF phase[r] = "planned" THEN "queued" ELSE "needs_reconciliation"

\* One transaction over every expired lease.
RecoverExpiredLeases ==
  LET gone == {r \in RunId : Expired(r)}
  IN  /\ gone # {}
      /\ open' = open \ gone
      /\ lapsed' = lapsed \ gone
      /\ parked' = parked \cup {r \in gone : phase[r] # "planned"}
      /\ state' = [w \in Work |->
                     IF \E r \in gone : owner[r] = w
                     THEN RecoveredTo(CHOOSE r \in gone : owner[r] = w)
                     ELSE state[w]]
      /\ UNCHANGED <<generation, attempts, eligible, overdue, legacy, owner, gen,
                     phase, cancelRequested, runStatus, result, projectionVars>>

\* Mutant: a settled item is cancelled like any other.
CancellableWhenSettled(w) == state[w] # "absent"

Cancellable(w) == state[w] \notin Terminal \cup {"absent"}

\* Unstarted work is cancelled outright; live work has the request recorded on
\* the attempt that is current now; live work without an attempt is parked.
RequestCancel(w) ==
  LET current == {r \in open : owner[r] = w /\ gen[r] = generation[w]}
  IN  /\ Cancellable(w)
      /\ IF state[w] \in Claimable
         THEN SetState(w, "cancelled") /\ UNCHANGED cancelRequested
         ELSE IF current = {}
         THEN SetState(w, "needs_reconciliation") /\ UNCHANGED cancelRequested
         ELSE UNCHANGED state /\ cancelRequested' = cancelRequested \cup current
      /\ UNCHANGED <<generation, attempts, clockVars, legacy, owner, gen, phase,
                     open, outcomeVars, projectionVars>>

\* Mutant: a resolution rewrites a status that was already reported.
UnsettledOrNot(w, g) == {r \in RunId : owner[r] = w /\ gen[r] = g /\ r \notin open}

\* Mutant: a resolution reports on the earlier attempts of the item too.
UnsettledOfAnyAttempt(w, g) ==
  {r \in RunId : owner[r] = w /\ r \notin open /\ runStatus[r] = "unset"}

\* The status an operator's resolution may fill in: none of them is known yet.
Unsettled(w, g) ==
  {r \in RunId : owner[r] = w /\ gen[r] = g /\ r \notin open /\ runStatus[r] = "unset"}

Resolve(w, g, to) ==
  /\ g > 0 /\ generation[w] = g
  /\ state[w] = "needs_reconciliation" /\ CanTransition(state[w], to)
  /\ SetState(w, to)
  /\ runStatus' = [r \in RunId |-> IF r \in Unsettled(w, g)
                                  THEN RunStatusForState(to) ELSE runStatus[r]]
  /\ UNCHANGED <<generation, attempts, clockVars, legacy, attemptVars, parked,
                 result, projectionVars>>

-----------------------------------------------------------------------------
(* Host chat turns: accepted, admitted and started in one transaction *)

BeginHostChat(w, r) ==
  /\ w \in HostChat /\ state[w] = "absent" /\ r \in Fresh
  /\ LET accepted == [state EXCEPT ![w] = "queued"]
     IN  Admits(w, accepted) /\ ~ Exhausted(w)
  /\ SetState(w, "starting")
  /\ eligible' = eligible \cup {w}
  /\ StartAttempt(w, r, "starting")
  /\ UNCHANGED <<overdue, lapsed, legacy, cancelRequested, outcomeVars, projectionVars>>

HostChatRun(r) == r \in open /\ owner[r] \in HostChat

HostChatPhase(r, step) ==
  LET w == owner[r]
  IN  /\ HostChatRun(r) /\ state[w] \in Live
      /\ \/ /\ step = "request" /\ phase[r] = "starting"
            /\ MarkRuntimeRequested(w, r, gen[r])
         \/ /\ step = "started" /\ phase[r] = "requested"
            /\ StartRunning(w, r, gen[r])
         \/ /\ step = "started" => phase[r] = "confirmed"
            /\ step # "request"
            /\ Heartbeat(r, gen[r])

Coalesce(old, new) == IF old = "null" THEN new ELSE old

\* The outcome is known when no process was asked for, its exit was observed or
\* its creation was refused.
Known(r, exit, creation) ==
  phase[r] \in {"planned", "starting"} \/ exit \in Exits \/ creation = "refused"

ChatTarget(status) ==
  CASE status = "COMPLETED" -> "succeeded"
    [] status = "CANCELLED" -> "cancelled"
    [] OTHER -> "failed"

\* Mutant: the caller's word is reported without proof of an exit.
UnknownOutcomeTrusted(r, status) ==
  /\ SetState(owner[r], "needs_reconciliation")
  /\ EndAttempt(r, status, TRUE)

UnknownOutcome(r, status) ==
  /\ SetState(owner[r], "needs_reconciliation")
  /\ EndAttempt(r, "unset", TRUE)

\* exit is the observed process exit, or "partial" when none was observed.
FinishHostChat(r, status, exit, creation) ==
  LET w == owner[r]
  IN  /\ HostChatRun(r) /\ Bound(w, r, gen[r])
      /\ IF Known(r, exit, creation)
         THEN /\ status = "COMPLETED" => exit = "exit0"
              /\ CanTransition(state[w], ChatTarget(status))
              /\ SetState(w, ChatTarget(status))
              /\ EndAttempt(r, status, FALSE)
         ELSE /\ CanTransition(state[w], "needs_reconciliation")
              /\ UnknownOutcome(r, status)
      /\ result' = [result EXCEPT ![r] = Coalesce(@, exit)]
      /\ UNCHANGED <<generation, attempts, eligible, overdue, legacy, owner, gen,
                     phase, cancelRequested, projectionVars>>

-----------------------------------------------------------------------------
(* Results *)

\* Output is kept once, and late output of an ended run is still taken.
StageRunResult(w, r, g, x) ==
  /\ phase[r] # "none" /\ owner[r] = w /\ gen[r] = g
  /\ result' = [result EXCEPT ![r] = Coalesce(@, x)]
  /\ UNCHANGED <<itemVars, clockVars, legacy, attemptVars, parked, runStatus,
                 projectionVars>>

Settleable(r) ==
  /\ phase[r] \notin {"none", "planned"}
  /\ generation[owner[r]] = gen[r]
  /\ runStatus[r] = "unset"
  /\ state[owner[r]] = "needs_reconciliation"
  /\ r \notin open /\ r \in parked

\* The protected capture of a parked attempt settles it.  A failed background
\* execution keeps its reconciliation; a host chat turn fails.
RecoverRetainedResult(r, x, successful) ==
  /\ successful => x = "exit0"
  /\ Settleable(r)
  /\ result[r] \in Exits => result[r] = x
  /\ IF successful THEN SetState(owner[r], "succeeded")
     ELSE IF owner[r] \in HostChat THEN SetState(owner[r], "failed")
     ELSE UNCHANGED state
  /\ runStatus' = [runStatus EXCEPT ![r] = IF successful THEN "COMPLETED" ELSE "FAILED"]
  /\ result' = [result EXCEPT ![r] = x]
  /\ parked' = parked \ {r}
  /\ UNCHANGED <<generation, attempts, clockVars, legacy, attemptVars, projectionVars>>

Ready(r) == runStatus[r] # "unset" /\ result[r] # "null"

\* The outbox reads a ready run and tells the journal its status ...
DeliverRun(r) ==
  /\ Ready(r) /\ r \notin projected
  /\ delivered' = [delivered EXCEPT ![r] = runStatus[r]]
  /\ UNCHANGED <<itemVars, clockVars, legacy, attemptVars, outcomeVars, projected>>

\* ... and later acknowledges the status it delivered, if it still is the one.
MarkRunProjected(r) ==
  /\ delivered[r] # "unset" /\ runStatus[r] = delivered[r] /\ result[r] # "null"
  /\ projected' = projected \cup {r}
  /\ UNCHANGED <<itemVars, clockVars, legacy, attemptVars, outcomeVars, delivered>>

-----------------------------------------------------------------------------
(* The clock, and the old assignment executor *)

LeaseLapse(r) ==
  /\ r \in open \ lapsed
  /\ lapsed' = lapsed \cup {r}
  /\ UNCHANGED <<itemVars, eligible, overdue, legacy, attemptVars, outcomeVars,
                 projectionVars>>

BecomeEligible(w) ==
  /\ state[w] \in Claimable /\ w \notin eligible
  /\ eligible' = eligible \cup {w}
  /\ UNCHANGED <<itemVars, overdue, lapsed, legacy, attemptVars, outcomeVars,
                 projectionVars>>

DeadlinePass(w) ==
  /\ w \in Deadlined \ overdue /\ state[w] # "absent"
  /\ overdue' = overdue \cup {w}
  /\ UNCHANGED <<itemVars, eligible, lapsed, legacy, attemptVars, outcomeVars,
                 projectionVars>>

\* The old executor flips an unowned row to RUNNING without asking the ledger,
\* and later finishes or requeues it.
LegacyRun(w) ==
  /\ w \in Assigned /\ state[w] = "absent"
  /\ legacy' = IF w \in legacy THEN legacy \ {w} ELSE legacy \cup {w}
  /\ UNCHANGED <<itemVars, clockVars, attemptVars, outcomeVars, projectionVars>>

-----------------------------------------------------------------------------

\* The generations a caller can present: from its own claim or read off an item.
Generations == {gen[r] : r \in RunId} \cup {generation[w] : w \in Work}

Worker(w, r, g) ==
  \/ MarkStarting(w, r, g)
  \/ MarkRuntimeRequested(w, r, g)
  \/ StartRunning(w, r, g)
  \/ \E to \in Targets, why \in {"plain", "stopped", "retained"} :
       Transition(w, r, g, to, why)
  \/ Defer(w, r, g)
  \/ \E x \in Outputs : StageRunResult(w, r, g, x)

Chatter(r) ==
  \/ \E step \in {"request", "started", "heartbeat"} : HostChatPhase(r, step)
  \/ \E status \in Verdicts, exit \in Outputs,
        creation \in {"requested", "refused"} : FinishHostChat(r, status, exit, creation)

Clock ==
  \/ \E r \in RunId : LeaseLapse(r)
  \/ \E w \in Work : BecomeEligible(w) \/ DeadlinePass(w) \/ LegacyRun(w)

Next ==
  \/ \E w \in Work : AcceptTx(w) \/ RequestCancel(w)
  \/ \E mine \in Kinds : ClaimNothing(mine) \/ \E r \in RunId : Claim(mine, r)
  \/ \E w \in Work, r \in RunId, g \in Generations : Worker(w, r, g)
  \/ \E r \in RunId, g \in Generations : Heartbeat(r, g)
  \/ RecoverExpiredLeases
  \/ \E w \in Work, g \in Generations, to \in States : Resolve(w, g, to)
  \/ \E w \in HostChat, r \in RunId : BeginHostChat(w, r)
  \/ \E r \in RunId : Chatter(r)
  \/ \E r \in RunId, x \in Outputs \cap Exits, ok \in BOOLEAN : RecoverRetainedResult(r, x, ok)
  \/ \E r \in RunId : DeliverRun(r) \/ MarkRunProjected(r)
  \/ Clock

Spec == Init /\ [][Next]_vars

-----------------------------------------------------------------------------
(* Properties *)

\* Types of the two tables.  The budget column never exceeds MaxAttempts, which
\* only the claim's budget check guarantees.
TypeOK ==
  /\ state \in [Work -> States \cup {"absent"}]
  /\ generation \in [Work -> Nat]
  /\ attempts \in [Work -> 0 .. MaxAttempts]
  /\ eligible \subseteq Work /\ overdue \subseteq Work /\ legacy \subseteq Work
  /\ owner \in [RunId -> Work \cup {NoWork}]
  /\ gen \in [RunId -> Nat]
  /\ phase \in [RunId -> Phases]
  /\ lapsed \subseteq open /\ open \subseteq RunId
  /\ cancelRequested \subseteq RunId /\ parked \subseteq RunId /\ projected \subseteq RunId
  /\ runStatus \in [RunId -> RunStatuses]
  /\ result \in [RunId -> Results]
  /\ delivered \in [RunId -> RunStatuses]

Attempts(w) == {r \in RunId : owner[r] = w}

Executing == {"starting", "running", "waiting"}

OpenIsCurrent ==
  \A r \in open : /\ owner[r] \in Work
                  /\ gen[r] = generation[owner[r]]
                  /\ state[owner[r]] \in Executing
                  /\ runStatus[r] = "unset"

ExecutingIsOpen ==
  \A w \in Work : state[w] \in Executing => \E r \in open : owner[r] = w

GenerationsDistinct ==
  \A r, s \in RunId :
    owner[r] = owner[s] /\ owner[r] # NoWork /\ gen[r] = gen[s] => r = s

RowsAreOwned ==
  \A r \in RunId : /\ phase[r] = "none" <=> owner[r] = NoWork
                   /\ phase[r] = "none" => runStatus[r] = "unset"
                   /\ owner[r] # NoWork => gen[r] <= generation[owner[r]]

\* The fence holds on both sides: an open attempt is the current, unreported one
\* of an item that is executing, an executing item has an open attempt, and no
\* two attempts of an item share a generation or are ahead of it.  A stale
\* worker can then never write.
Fence ==
  /\ OpenIsCurrent
  /\ ExecutingIsOpen
  /\ GenerationsDistinct
  /\ RowsAreOwned

\* I3: a session never has two turns, whatever recovery, waiting and parking did
\* in between.
OneTurnPerSession ==
  \A v, w \in Work :
    /\ v # w /\ SessionOf[v] = SessionOf[w] /\ SessionOf[v] # Nothing
    => state[v] \notin OccupiesSession \/ state[w] \notin OccupiesSession

Slots == {w \in Work : state[w] \in {"starting", "running", "needs_reconciliation"}}

\* The slots held by work items, parked ones included, stay within the server,
\* chat-reserve, agent and crew limits.
SlotsWithinLimits ==
  /\ Cardinality(Slots) <= Limits["ServerTotal"]
  /\ Cardinality(Background(Slots)) <= Limits["ServerBackground"]
  /\ Background(Slots) # {} =>
       Cardinality(Background(Slots)) + Limits["ServerChatReserv"] <= Limits["ServerTotal"]
  /\ \A w \in Slots :
       /\ AgentOf[w] # Nothing =>
            Cardinality({v \in Slots : AgentOf[v] = AgentOf[w]}) <= Limits["AgentTotal"]
       /\ CrewOf[w] # Nothing =>
            Cardinality({v \in Slots : CrewOf[v] = CrewOf[w]}) <= CrewBudget(CrewOf[w])

\* However often an item is deferred, recovered and retried, at most MaxAttempts
\* of its attempts ever got as far as declaring a runtime.
RuntimeBudget ==
  \A w \in Work :
    Cardinality({r \in Attempts(w) : phase[r] # "planned"}) <= MaxAttempts

KeepsOutcomes ==
  /\ \A w \in Work : state[w] \in Terminal =>
                     state'[w] = state[w] /\ generation'[w] = generation[w]
  /\ \A r \in RunId : runStatus[r] # "unset" => runStatus'[r] = runStatus[r]

\* Settled is settled: no operation, however late, moves a work item out of a
\* terminal state, starts another attempt of it or rewrites a reported status.
OutcomesAreFinal == [][KeepsOutcomes]_vars

\* A run reported COMPLETED or CANCELLED is the last attempt of a work item that
\* ended that way: a superseded or unproven attempt never reports success.
ReportedOutcomeIsTheWorks ==
  \A r \in RunId :
    /\ runStatus[r] = "COMPLETED" =>
         state[owner[r]] = "succeeded" /\ gen[r] = generation[owner[r]]
    /\ runStatus[r] = "CANCELLED" =>
         state[owner[r]] = "cancelled" /\ gen[r] = generation[owner[r]]

\* What the run journal was told is what the ledger says, from the read that
\* precedes the delivery on: retained results and resolutions come too late.
JournalAgrees == \A r \in RunId : delivered[r] # "unset" => delivered[r] = runStatus[r]

\* An attempt whose runtime may be alive and whose outcome nobody settled keeps
\* its item in needs_reconciliation, hence its slot and its session.
ParkedHoldsItsSlot ==
  \A r \in parked :
    /\ owner[r] \in Work
    /\ runStatus[r] = "unset" => /\ state[owner[r]] = "needs_reconciliation"
                                /\ gen[r] = generation[owner[r]]

\* "The request is durable" (CancelOutcomeRequested): an attempt that carries a
\* cancel request is never closed by putting its item back in line, where the
\* next attempt would not know of the request.
CancelNotDiscarded ==
  [][\A r \in open \cap cancelRequested :
       r \notin open' => state'[owner[r]] \notin Claimable]_vars

-----------------------------------------------------------------------------
(* What the ledger promises for one work item *)

StatusOf(w) ==
  CASE state[w] \in Claimable -> "queued"
    [] state[w] \in Executing -> "held"
    [] state[w] = "needs_reconciliation" -> "parked"
    [] OTHER -> state[w]

Promise(w) == INSTANCE WorkItem WITH
  Attempt <- RunId,
  status <- StatusOf(w),
  last <- {r \in Attempts(w) : gen[r] = generation[w]},
  used <- Attempts(w),
  verdict <- [r \in RunId |-> IF owner[r] = w THEN runStatus[r] ELSE "unset"]

\* Whatever expiries, failures and recoveries one transaction makes at once, and
\* whoever presents a stale attempt: each work item lives the life of WorkItem,
\* with one attempt at a time, a report on none but the last, and one outcome.
ItemsKeepThePromise ==
  /\ \A w \in Work : Promise(w)!Init
  /\ [][\A w \in Work : [Promise(w)!Next]_(Promise(w)!vars)]_vars

=============================================================================
