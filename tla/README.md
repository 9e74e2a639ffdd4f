# Crewship: TLA+ models of the execution core

Crewship is a self-hosted control plane that runs AI agents in per-crew
containers.  One Go server with one SQLite database accepts work (webhooks,
chat turns, assignments, scheduled routines), admits it under capacity limits,
starts an agent process for it, survives its own restarts, and reports an
outcome once.  This directory models the parts of that server whose
correctness depends on the order in which independent actors take their steps,
checks them with TLC on small instances, and proves the most important facts
with TLAPS for every instance.

## The system and its parts

| part | where | state it keeps | operations | hard because | what makes it correct |
|---|---|---|---|---|---|
| work ledger | `internal/work` | `work_items`, `work_attempts` and the run outcomes on them | accept, claim, mark-starting, request, confirm, heartbeat, transition, defer, recover, cancel, resolve, host chat begin/phase/finish, retained result, outbox | leases lapse under live workers; stale workers report late; several writers settle one attempt | a stale worker cannot write; outcomes are final and truthful; limits, budget and one turn per session hold |
| dispatcher and webhook runtime | `internal/dispatch`, `internal/api/webhook_runtime.go` | a supervisor per attempt, launch gates, the process itself | claim, start, supervise, confirm, settle, park, cancel, drain, recover; run, stop, alive | process, lease, cancel watcher, shutdown and recovery race | nothing runs twice; a live process keeps its slot; cancel and drain come to an end |
| quiet window | `internal/quiesce` and the backup that uses it | window, writer and run counts, the hard cap, workspace guards | enter, leave, yield, start run, begin, hold, release | nested entries race the closing of the window; the cap races the copy | a held window is quiet; a kept copy is consistent; admission reopens |
| scheduler leader lease | `internal/leader` | one row per lease, each replica's last confirmation | acquire, renew, release, is-leader | the gate and the row's expiry use different clock readings | unexpired leases exclude each other; somebody leads |
| webhook delivery, ingress limits, retention | `internal/work/delivery.go`, `capacity.go`, `retention.go`, `internal/api/webhook.go` | deliveries, dedup identities, raw bodies | accept, look up, sweep | a sweep that reads its candidates first races redelivery | a delivery is accepted once; a needed body is kept |
| admission gate | `internal/admission` | waiters, in-flight starts, a cached host reading | admit, release, broadcast | waiters sleep on a channel that a release replaces | limits hold; every waiter is woken |
| deferred runs | `internal/pipeline/pending_runs.go`, `internal/scheduler` | `pending_runs`, idempotency reservations, the workers' claims | park, coalesce, queue, set to another date, claim, start, link, retry, fail, expire, cancel, recover | a worker may die, or answer late, between claiming a row, starting a run and linking the two | one run per occurrence; a burst fires as one; every parked start is settled |
| schedules that fire directly, pipeline engine, approvals | `internal/scheduler`, `pipeline`, `harbormaster` | fires, suspended routines, decisions | fire, suspend, resume, decide | a decision arrives while the routine suspends | a routine resumes once |
| the rest | orchestrator, provider pool, resource and service lifecycle, keeper, journal, memory, conversations, hooks, live updates, mooring, manifests, sidecar, CLI, web interface | files, containers, browsers | – | mostly I/O, parsing and presentation | – |

The dispatcher calls the ledger for every durable step and the runtime for
every external one; the ledger calls nobody.  Host chat turns bypass the
dispatcher and use the ledger's claim helpers directly.  The outbox reads the
ledger and writes the run journal.  The quiet window is consulted by the
dispatcher before it claims, by every API writer and by the backup.  The leader
lease decides which replica runs the schedulers that produce work: they fire
routines at once or park them as deferred runs.  A webhook delivery becomes an
item of the ledger in the transaction that records it.  The admission gate stands
before the start of a container, after the ledger has given the attempt its slot.

## Modules

Every lock region and every database transaction is one step; what the code
does outside them is a step of its own, so that everything else may happen in
between.  Identifiers, payloads, wording, event history and logging are
abstracted; what a property tells apart is kept.

### `WorkLedger` and `WorkItem` — `internal/work`

State: `state`, `generation`, `attempts`, `eligible`, `overdue` per work item;
`owner`, `gen`, `phase`, `open`, `lapsed`, `cancelRequested`, `parked`,
`runStatus`, `result` per attempt row; `projected` and `delivered` for the
outbox; `legacy` for items the old assignment executor runs beside the ledger.
Rows are named by run ids from `RunId`; a row with `phase = "none"` does not
exist yet.  Time is three facts that become true on their own: a lease lapsed
(`LeaseLapse`), a back-off passed (`BecomeEligible`), a deadline passed
(`DeadlinePass`).

Each exported operation of the store is an action: `AcceptTx`, `Claim` (with
the expiry of overdue candidates, the admission tests per class, session, agent
and crew, and the budget), `MarkStarting`, `MarkRuntimeRequested`,
`StartRunning`, `Heartbeat`, `Transition`, `Defer`, `RecoverExpiredLeases`,
`RequestCancel`, `Resolve`, `BeginHostChat`, `HostChatPhase`,
`FinishHostChat`, `StageRunResult`, `RecoverRetainedResult`, `DeliverRun`,
`MarkRunProjected`.  A caller may name any attempt and any generation that was
ever handed out or can be read off an item (`Generations`): the binding check
`Bound` decides, as `verifyAttemptBindingTx` does.

`WorkItem` is what the ledger promises for one item, without tables, generations,
leases, capacity or callers: absent, queued, held, parked or settled; one attempt
at a time and none used twice; a report on none but the last attempt, and only
one; an outcome reached once, with a verdict that fits it.  The mapping reads the
status off `state` and the last attempt off the generations.  A transaction may
expire, fail or recover many items at once, so the refinement
(`ItemsKeepThePromise`) is stated item by item: in every step of the ledger each
item makes a step of its own promise or none.

### `Dispatch` — `internal/dispatch` over the ledger

Extends `WorkLedger`: the same tables, with the servers, supervisors, runtime
goroutines and processes that use them.  `at[r]` is where the server `by[r]` is
with attempt `r`; `run[r]` is the goroutine inside `Runtime.Run`; `stopped`,
`requested` and `confirmed` are the launch record behind the creation gate;
`proc[r]` is the process; `watch[r]` is the cancel watcher; `mode[d]` says
whether a server is up, draining or down.  `toldStopped` and `operator` are
history.

A claim, the cancel check before the start, the authorization, the intent, the
spawn of `Run`, its input, the gate, the creation, the stream, each heartbeat,
probe and signal, the verdict and its recording are separate steps.  `Stop` and
`Alive` answer with what the runtime can know: what is under the gate's lock is
exact, a question to the provider may fail, and an answer that is given is true
of the container.  Shutdown goes through `ShutdownAttempt` and `LastCall`; a
crash takes a server's goroutines and launch records away and leaves tables and
processes.  `Boot` and `Recover` are the way back.

### `Quiesce` — `internal/quiesce` and the backup

`Unit` is the set of writers and runs; `at`, `via` and `under` say where a unit
is in `Enter`, whether it was judged a child, and of whom.  `pc[b]` follows
`Begin` through poll, close, drain, second check, guards, ownership and hold,
then the copy and the judgement of `CreateInstanceBackup`.  `timer` and
`expired` are the hard cap, whose callback is two steps.  `Detached` is the set
of units that enter as children on a goroutine of their own.

### `Leader` — `internal/leader`

The row (`holder`, `rowLeft`), and per replica the attempt in its four steps:
read the database clock, upsert, read back, record in memory.  The database's
clock counts whole seconds of `Second` ticks and the replicas' clocks count
ticks; an attempt takes at most `MaxLag` ticks.  `Start`, `Stop`, the loop's
end, `Release`, failures of the database and crashes are actions.

### `Delivery` and `Ingress` — webhook acceptance and retention

`Ingress` is what an endpoint promises its senders, without tables: a book with
at most one receipt per source delivery id, receipts whose content never
changes, and which receipts may be forgotten (past the window, nothing open).
`Delivery` is how the code keeps that promise: `delivery`, `present`, `raw` and
`tombstone` are the columns of `webhook_deliveries`, `work` says whether the
item behind a row has ended, `old` and `ripe` are the two periods of retention,
and `sweep` is each sweeper's place, cursor and page.  `Answers(d)` is the set of
answers a call may get now, from the rate gate, the lookup, the ingress limits
and the transaction.  A sweep walks outside any transaction
(`WalkBodies`, `WalkReceipts`) and writes in a later one (`ExpireBodies`,
`DeleteReceipts`); it may fail between any two.  The refinement mapping reads the
book off the rows.

### `Admission` — `internal/admission`

An attempt of `Admit` is a read of the limits, a read of the host, each through a
cache that another caller may be filling, and the decision under the mutex
(`Acquire` or `Refuse`).  A refused start shows itself (`Register`), takes the
wake channel (`Listen`) and sleeps until a release, the poll timer or the end of
its context.  `got` keeps the facts an attempt goes by with their age; ages are
capped where `RecentFacts` stops telling them apart.

### `PendingRuns` — deferred runs

`row` is `pending_runs`, `reserved` the idempotency reservations, `runs` the rows
of `pipeline_runs`, `work[w]` a worker and how far it is: reading of the
clock, claim, reservation, slot, persisted run, link, each of which may be the last
thing a process did.  `seen` is the row a trigger looked up before it merged into it.
`Recovered` is the boot's judgement of an interrupted claim; `Restart` takes the
workers away and leaves the tables.  `past` and `lapsed` are dates and TTLs that
have come.  A row is a scheduled occurrence, the once start of a recipe, or a
debounced burst; its kind never changes.  `ReadClock` and `ClaimDue` are two
steps, as in `fireOne`: the claim's UPDATE compares `expires_at` with a reading
taken before it, and `late` keeps the rows that were claimed after their TTL that
way.  `Checked` are the triggers whose producer passes a judge of the inputs; the
merge and the refusal of the others ask nobody (`Admitted`).  `WithTtl` are the
triggers that gave their start a TTL; when it ends is left open, so a burst may
expire in the sweep or at a failed attempt.

## Runs

| run | instance | checks |
|---|---|---|
| `ledger_fence` | two items of one session, one also runnable by the old executor; every transition a caller may ask for | types, the fence, the runtime budget, one turn per session |
| `ledger_capacity` | a chat turn, a webhook and an assignment that only limits keep apart | slots within limits |
| `ledger_outcomes` | a host chat turn and a background run, retained captures, resolutions, outbox | reported outcomes are true, final and agree with the journal; a parked attempt keeps its slot; each item lives the life of `WorkItem` |
| `ledger_cancel_lost` | one item with a cancel and a lapse | expected violation, see findings |
| `dispatch_once` | two servers, two attempts of one item, one crash or shutdown | one execution, slot held by a live process, completion not undone, Stop is a proof, every step is a ledger step |
| `dispatch_liveness` | one server, one attempt, one crash or shutdown, an operator | a cancel settles, drain returns |
| `quiesce_window` | a writer, a run that may be its child, two backups | quiet window, consistent copy, no lost wake-up, guards given back, admission reopens, Begin returns |
| `quiesce_child` | a detached child | expected violation, see findings |
| `leader_lease` | two replicas, ttl of two seconds of two ticks, attempts of up to two ticks | exclusive leases, the gate's overhang, somebody leads |
| `delivery` | an endpoint with two source delivery ids, two rows, an event, an empty body and a ping, two sweepers with pages of one row, other work | a retry gets its receipt, retention keeps its promise, the backlog stays within limits, the endpoint's promise is implemented, sweeps end |
| `admission` | two starts, a limit of one with and without pacing and the host legs, a host that is short of memory at times | starts within the limit, decisions on recent facts, held starts go on |
| `pending` | two scheduled or two debounced rows or a once start, two workers, three triggers, two dates, one new date, two faults (one for bursts) | one run per occurrence, a burst fires as one, one waiting occurrence but for late claims, parked starts settle |

Why the bounds are enough for the cases that matter.  The rows of the ledger runs
let an item be deferred, recovered, retried and exhausted, and still be
named by a stale caller.  Two rows let a superseded attempt report after its
successor started.  Two works are the least for a session conflict, and three
of different classes the least at which agent limit, crew budget and chat
reserve differ.  Two servers and one restart put a live process of a dead
server beside a server that recovers.  A writer and a run that may be its child
give nesting, and two backups give a refused second window and one that opens while an
earlier one's cap callback or unwinding is still under way; more writers, nested in
each other, are left to the proofs.
A second of two ticks with attempts of two ticks
lets an upsert use a clock reading that is a whole second old.  Two sweepers with
pages of one row let a page be stale because the other sweeper, a redelivery or
the end of the work came first, and let a cursor stand on rows that are kept.
Two starts against a limit of one are the least at which a release can fall
between a refusal and the registration on the wake channel; `MaxLag` lets a
reading outlive its cache entry while an attempt holds it.  Three triggers are
the least at which one can be overtaken between its lookup and its merge by one
that changes the pin and another that fires; here they are an automation's, with no
judge, no pin and inputs that suit neither version, a user's with a TTL and a pin,
and a user's with another pin.  A burst has no occurrence to keep apart, so one fault
(`MaxFaults`) reaches each of its error paths, and rows of the other kinds get two; two workers are the least at which a
late one returns to a row that recovery or a new date gave to another.

Deadlock is checked for the leader lease and the admission gate, which always
have a next step.  It is not for the others: a run with all rows used, all backups
done, all ids minted or all restarts spent has legitimately come to rest.

### Fairness

- `dispatch_liveness` (`FairDispatchSpec`): supervisors, the preparation in
  `Run`, the observer of a process that has exited, poll timers, boot recovery
  and the lapse of an unrenewed lease are weakly fair, because they are
  goroutines or tickers that nothing blocks.  Processes, creations, clients and
  operators are not: a process may ignore every signal, and a creation may hang.
  Stops and crashes are bounded by `MaxRestarts`; a server that crashes for
  ever settles nothing.
- `quiesce_window` (`FairSpec`): Begin's own steps, its three timeouts and
  the cap's callback.  Writers, runs and the copy need never move on.
- `leader_lease` (`FairSpec`): the clock, and the steps of an attempt of a
  loop that runs.  `SomeoneLeads` excuses a database that fails for ever.
  Starts, stops and crashes are not fair.
- `delivery` (`FairSpec`): a sweep that was started takes its next step.  Between
  pages it steps aside for a quiet window, and `AdmissionReopens` of `Quiesce`
  says that every window ends.  Starting a sweep, senders and work are not fair.
- `admission` (`FairSpec`): goroutines, the clock and the poll timer go on, and a
  container start that took a slot gives it back one way or the other.  Callers,
  contexts, operators and the host are not fair; `HeldStartsGoOn` asks of the host
  that it stays out of shortage from some point on.  The gate has no queue: a start
  could be overtaken by endless new callers, which the fixed set of starts leaves
  out.
- `pending` (`FairSpec`): a sweep that has something to do does something, and
  so does the pool; the two are fair as a whole, not row by row or worker by worker.  Triggers, schedules, cancellations and restarts are not fair, and faults
  are bounded by `MaxFaults`.

## Proofs

Assumptions are the `ASSUME`s of the modules: identifiers that stand for
"nobody", "none" or a refusal are not members of the sets they are told apart
from, `MaxAttempts` and the page size are positive, limits are natural numbers,
a crew's `max_concurrent_agents` is NULL or a natural number, writers, runs and
starts are finite sets, the lease's ttl is a whole number of seconds, cache
lifetimes are positive, the payload of a trigger that came with a judge fits its own
pin (the handler refuses it otherwise), and the dispatcher is among the callers of the
ledger (what it asks for is in `Targets` and `Outputs`).  Sets of works, rows,
servers, backups, replicas, ids, sweepers, workers and triggers are arbitrary.

- `WorkLedgerProofs`: `TypeCorrect` and `FenceHolds`.  The fence is its own
  inductive invariant, given the types: its four parts need each other.  That
  an open attempt is current follows only if no other row has its generation,
  and that a claim's row is fresh only if generations of rows never lie ahead
  of the item's.  The steps fall into three kinds (no attempt closed, attempts
  of one item closed, one attempt opened), each with a lemma.
  `RuntimesWithinBudget` is not inductive: a deferral gives budget back.
  `BudgetPays` says that the budget column pays for every attempt that declared
  a runtime and for the planned one that may still do so; only a planned attempt
  is refunded.
- `WorkLedgerOutcomeProofs`: `OutcomesFinal`, an action property, from the
  fence, because only a bound caller writes and a bound attempt's item is not
  terminal; `ReportsAreTruthful` from finality and from the rule that a new
  verdict is the one its item settles on in the same step;
  `JournalNeverContradicted` from finality of reported statuses;
  `SessionsHaveOneTurn`, because an item enters its session only by a claim
  that found it free; `ParkedKeepTheirSlots`, because an attempt is parked in the
  step that parks its item, and leaves only with a settled status.
  `SlotsStayWithinLimits` counts: a step adds at most one slot, and the one it
  adds was admitted against all slots.  It assumes that no caller asks for
  `waiting`: an item that waits has given its slot back and returns to
  `running` without asking for one, so with it the limits can be exceeded.  The
  code has the state and no caller that enters it.
  `ItemsLiveOneLife` is the refinement of `WorkItem`, and `ItemImplements` the
  same for one item against `WorkItem`'s specification itself.  It rests on the
  fence: an open attempt is the only row of its item's generation, so a write a
  bound caller makes is a report on the last attempt, and a parked item has no
  open attempt, so a resolution is one too.
- `DispatchProofs`: `StopIsAProof`.  An attempt is launched once, because rows
  are never taken away; the launch record tells the truth about the process;
  and an answered stop closed the gate or found the process gone.
  `DispatcherKeepsTheProtocol` is the refinement `DispatchSpec => Spec`, by one
  step simulation per action; it needs the ledger's types and fence (an attempt
  a server holds has an item) and that every planned outcome is one the ledger
  knows, so they are carried along in `DispatchInvariant`.  By it every theorem
  about the ledger holds of the composition.  `DispatchTypes` adds that what a
  launch believes is on the attempt row (`RequestsOnRecord`).
  `LiveProcessesHoldTheirSlots`, `WorksExecuteOnce` and `CompletedStaysCompleted`
  share the invariant `Slotted`.  `RunReturns` and `PlanIsProven` say what stands
  behind an outcome that is about to be recorded: other than parking only for a
  run that is over and left no process, a retry only where no creation was
  requested.  `Accounted` says what became of an attempt that is closed: its
  item is parked while run or process goes on, settled or parked once a creation
  was requested, succeeded or parked if it completed.  Each ledger step spares
  all attempts but those it closes (`SparesAllBut`), so only the closing ones
  need an argument.
  `DispatchedItemsLiveOneLife` is the refinement of `WorkItem` for the composition.
  `ProcessesStayWithinLimits` and `SessionsHaveOneProcess` carry the ledger's
  bookkeeping over to what runs: every live process belongs to an attempt whose
  item holds a slot, and no two processes share one, so the limits on slots limit
  processes, and a session with one turn has one process.  What
  `SlotsStayWithinLimits` assumes is proved here: the dispatcher never asks for
  `waiting`.  Both are theorems only: the dispatcher's instances have one work, which
  comes near no limit.
- `QuiesceProofs`: `HeldWindowIsQuiet` and `KeptCopies`, from an invariant that
  adds to the types that the counters count (`Counts`), that a parent which is
  asked for a child does not leave before the answer (`Children`), what each
  place of Begin implies for window, timer and expiry (`Windows`), that the
  drain and the second check leave nobody inside (`Quiet`), and what is known
  of the copied data at each step (`Copies`).  They assume `Detached = {}`: with
  a detached child the property is false, as `quiesce_child` shows.
  `WindowTypes`, `DrainIsWoken` and `GuardsAreGivenBack` need no such assumption:
  they rest on the types and `Windows` alone, since who is inside does not matter
  to them.
- `LeaderProofs`: `LeaseTypes`, `LeasesAreExclusive` and `GateFollowsLease`.  The
  invariant relates what a replica believes to the row: a lease that has not run
  out, whether confirmed, read back or just written, is the row's, and a reading
  is never older than the attempt that carries it.
- `DeliveryProofs`: `RetentionIsSafe`, `RetriesGetTheReceipt`, `BacklogIsBounded`,
  `PassesAreComplete` and the refinement `DeliveriesAreAcceptedOnce` of `Ingress`.
  To the promise of retention the invariant adds the tables' references
  (`Tables`), the unique index (`OneRowPerSource`) and that what a sweeper took
  for old or ripe still is (`Sweepers`), which is why a stale page is harmless.
  `BacklogIsBounded` is all of `BacklogWithinLimits`: unfinished work keeps its
  row, so neither the count nor the sum of bytes that are driven from the
  endpoint's rows misses any of it.  For the bytes the module first proves what
  the sum over a finite set is (`SumUnfolds`, `SumWithout`).  The library's
  induction theorems cannot be instantiated here, so these inductions are
  arguments about a least counterexample: a set of finite sets that is not empty
  has a member of least size, by `WFMin`.
  `PassesAreComplete` proves `PassLeavesNothingDue`, which no run lists: a pass
  over the payloads that comes to its end has cleared every payload that was due
  when it began, whatever other sweepers and new deliveries did meanwhile.  The
  invariant `Passes` says that nothing due lies behind the cursor but the page
  that is about to be cleared; a page shorter than the page size is all there is.
- `AdmissionProofs`: `AdmissionTypes`, `StartsWithinLimitHolds` and
  `AdmittedOnRecentFacts`.  Every slot is taken under the mutex against a policy
  that was in force, and a release only lowers the count, so the bound carries
  over.  That the facts behind a decision are recent is not inductive: an attempt
  may use what another left in the cache, so the invariant `Recent` bounds the age
  of every usable cache entry by the time since it was stored plus the lag of the
  attempt that stored it, and the age of what an attempt holds by its own lag on
  top.
- `PendingRunsProofs`: `OccurrencesRunOnce` from `IInv`.  Two workers never have
  a claim of the same occurrence (`Claims`), a run id stands for one occurrence
  (`Ids`), and the reservation of an occurrence outlives its run and is the
  worker's own from the moment it made it (`Reservations`); the date in the key
  is what keeps a late worker of an earlier date apart.
  `OccurrencesDoNotPileUp`: no step but the queueing of an occurrence makes a
  row wait, and a claim that is given up leaves it waiting or ends it.  It leaves out
  the occurrences in `late`, which wait beside the one queued in their place; what
  a worker holds between its reading and its claim is `Readings`.
  `BurstsFireAsOne`: what a row says of its burst is what its claims and its
  runs have, and it does not change once the row was claimed (`Bursts`); a
  receipt stands for one burst (`Receipts`).  That payload and pin were judged
  together is claimed, and proved, of payloads that came with a judge.

Only model-checked: all liveness (`CancelSettles`, `DrainReturns`,
`AdmissionReopens`, `BeginReturns`, `SomeoneLeads`, `SweepEnds`,
`HeldStartsGoOn`, `ParkedStartsSettle`), which needs fairness and is out of the
prover's reach.
Only proved, and in no run: `PassLeavesNothingDue`, `ProcessesWithinLimits`,
`OneProcessPerSession` and the types of `Leader`.

## Findings

- `ledger_cancel_lost`: a cancel recorded on a planned attempt whose lease
  lapses is dropped: `RecoverExpiredLeases` requeues the item without looking
  at the request, and the next claim runs it.  `Defer` guards against the same
  loss and says why.  The dispatcher's settlement has a narrower window of the
  same kind: it reads "no cancel", a cancel is recorded, and the attempt then
  ends in `retry_wait`.
- `quiesce_child`: a child that enters on its own goroutine computes whether it
  is a child before it takes the controller's lock, and can be let into a
  window that already holds.

The leader's gate is no finding: its freshness starts after the round trip and the
lease before it, so `IsLeader` can be true for a moment after the row has expired,
and `GateOutlivesLeaseBriefly` bounds that moment.

Two results about deferred runs have no run of their own; the properties state what
does hold.

- The scheduler counts a pending occurrence whose TTL has ended as gone "so dispatch
  cannot open a window for another waiting occurrence" (`schedules.go:1858-1860`) and
  queues the next.  A claim decided with a clock reading of before (`pending_dispatcher.go:219`,
  `pending_runs.go:304-310`) can still take the first one, and then two
  wait.  `OneWaitingOccurrence` therefore leaves out the rows in `late`; without
  that, TLC finds the trace queue, read, lapse, queue, claim.
- The lookup before a merge exists "instead of storing a pair nobody judged"
  (`pending_runs.go:96-109`, `144-147`).  An automation enqueues with neither judge
  nor pin (`pending_runs.go:137-139`, `235-239`, `automation/registry.go:893`), so
  on a row that a user pinned its inputs fire at that version unjudged.
  `BurstFiresAsOne` asks for a judged pair only where the payload came with a judge;
  asked of every payload, TLC finds it violated.

## Not modelled

- In the ledger: event history, ids, payload digests and the read queries.  The old
  executor's check for a work id and its write of RUNNING (`assignments_queue.go:109-131`)
  are one step.  A host chat is admitted against the instance's `Limits`; the code
  always uses `SerialAgentLimits()` (`host_chat.go:101`), as `MCSerialLimits` does.
- In the dispatcher: the outbox flush (it is the ledger's `DeliverRun` and
  `MarkRunProjected`) and retained captures (checked in `ledger_outcomes`); the
  quiet window only delays claims; `RunOne`, which restricted workflows use to
  take the same steps for one item at a time, and their runtime.
  A provider answers truthfully or with an error, and its calls return: the contexts
  at `dispatcher.go:413`, `494` and `581` have no deadline of their own.  When the
  acknowledgement of the request for a creation is lost, the code also captures a
  result (`webhook.go:1163-1173`); the model keeps none on that path.
- In the quiet window: the two regions of the lock in the hold, which are one step;
  handing over an open window by option, and the instance holds, a set that only
  shrinks while the server runs.
- In the leader lease: a ttl that is not a whole number of seconds.
- In delivery: a timestamped retry that is signed anew gets a new source delivery id
  (`webhook.go:443-449`) and counts as another delivery; signatures, filters and the
  parsing of bodies (a body is an event, empty, or a ping), replays, and the rate gate's counters (it may refuse any call).
- In admission: `Snapshot`, which fills the caches and takes no slot, and the
  notices to the run's stream.
- In deferred runs: rows of different kinds do not meet except through the workers;
  schedules that fire at once, and so an attempt of the scheduler itself under the key
  of an occurrence that is also queued: the branch of `Recovered` for a reservation
  made by somebody else is there but never taken; the TTL of delays without a
  debounce key, which are bursts of one trigger; what a routine does after it
  started.  The reservation outlives every retry.  `Restart` takes all workers away:
  a second live process beside the one that recovers is outside the model, as one
  server writes to the database.
- The components `PROJECT.json` lists as not modelled, with the reason there and
  the file to start reading at (not every file of the component).

## Plan

Done: the ledger, the dispatcher over it, the quiet window, the leader lease,
delivery, admission, deferred runs; the abstract specifications of a work item
and of an endpoint; proofs of all safety properties and of the refinements.

1. Suspension of a routine and the decision that resumes it; schedules that fire
   at once; budget reservations.
