------------------------------ MODULE Dispatch ------------------------------
(***************************************************************************)
(* The dispatcher (internal/dispatch) and the webhook runtime it drives    *)
(* (internal/api/webhook_runtime.go), composed with the work ledger.       *)
(*                                                                         *)
(* A server process runs one sequential claim loop and one supervisor per  *)
(* attempt it started.  Beside the supervisor of attempt r there are its   *)
(* heartbeat, its cancel watcher, its start probe and Run itself, which    *)
(* asks the creation gate and then creates a process in a container.  The  *)
(* process outlives the server.  Everything durable goes through the       *)
(* transactions of WorkLedger; a store call may also fail and change       *)
(* nothing.  Timers fire at any moment; a claim may be delayed for ever    *)
(* (capacity, a hold, a quiet window).                                     *)
(***************************************************************************)
EXTENDS WorkLedger

CONSTANTS
  Server,      \* the processes that run a dispatcher on this ledger
  Nobody,      \* the server of an attempt that none has claimed
  Resolutions, \* the states an operator may resolve a parked work to
  MaxRestarts  \* bounds the shutdowns and crashes

ASSUME DispatchAssumption ==
  /\ Nobody \notin Server
  /\ Resolutions \subseteq States
  /\ MaxRestarts \in Nat
  /\ {"succeeded", "failed", "cancelled", "retry_wait", "needs_reconciliation"} \subseteq Targets
  /\ {"partial", "exit0", "exit1"} \subseteq Outputs

VARIABLES
  mode,         \* per server: "up", "draining" or "down"
  restarts,     \* how often a server was shut down or crashed
  by,           \* the server that claimed the attempt
  at,           \* where that server is with the attempt
  plan,         \* the outcome its supervisor is about to record
  watch,        \* the attempt's cancel watcher
  run,          \* the goroutine inside Runtime.Run
  err,          \* what Run returned
  stopped,      \* attempts whose launch has recorded a stop
  requested,    \* attempts whose launch passed the creation gate
  confirmed,    \* attempts whose launch knows that a process exists
  proc,         \* the process in the container
  toldStopped,  \* history: attempts of which Stop said "stopped"
  operator      \* history: works that an operator resolved

supervisorVars == <<by, at, plan, watch>>
launchVars == <<stopped, requested, confirmed, toldStopped>>
runVars == <<run, err, proc>>
serverVars == <<mode, restarts>>
dispatchVars == <<serverVars, supervisorVars, launchVars, runVars, operator>>
allVars == <<vars, dispatchVars>>

Claiming == {"claimed", "cleared"}
Supervised == {"supervised", "detached"}
Places == {"none", "over", "lastcall", "ended", "settling"} \cup Claiming \cup Supervised
RunPlaces == {"none", "spawned", "preparing", "creating", "streaming", "returned", "dead"}
Errors == {"none", "nil", "before", "unreadable", "unclear", "detached", "retained",
           "unstored"}

Plan(to, why) == [to |-> to, why |-> why]
Park(why) == Plan("needs_reconciliation", why)
Plans == [to : {"succeeded", "failed", "cancelled", "retry_wait", "needs_reconciliation"},
          why : {"plain", "stopped", "retained"}]

DispatchInit ==
  /\ Init
  /\ mode = [d \in Server |-> "down"] /\ restarts = 0
  /\ by = [r \in RunId |-> Nobody]
  /\ at = [r \in RunId |-> "none"]
  /\ plan = [r \in RunId |-> Park("plain")]
  /\ watch = [r \in RunId |-> "done"]
  /\ run = [r \in RunId |-> "none"]
  /\ err = [r \in RunId |-> "none"]
  /\ stopped = {} /\ requested = {} /\ confirmed = {} /\ toldStopped = {}
  /\ proc = [r \in RunId |-> "none"]
  /\ operator = {}

-----------------------------------------------------------------------------
(* The runtime's answers *)

\* Run has stored the launch state of the attempt.
LaunchKnown(r) ==
  run[r] \notin {"none", "spawned"} /\ err[r] # "unreadable"

\* The gate admitted a creation that is not known to have happened yet.
CreationPending(r) == r \in requested \ confirmed /\ run[r] # "returned"

\* Mutant: an absent process counts as stopped while its creation is pending.
StopAnswersEarly(r) ==
  IF ~ LaunchKnown(r) THEN {"error"}
  ELSE IF r \notin requested THEN {"stopped"}
  ELSE {"error", IF proc[r] = "alive" THEN "still" ELSE "stopped"}

\* Before the gate a stop is a proof, because it closes the gate; while the
\* creation is pending it proves nothing; afterwards the provider is asked.
StopAnswers(r) ==
  IF ~ LaunchKnown(r) THEN {"error"}
  ELSE IF r \notin requested THEN {"stopped"}
  ELSE IF CreationPending(r) THEN {"still"}
  ELSE {"error", IF proc[r] = "alive" THEN "still" ELSE "stopped"}

\* A stop that finds the process of a pending creation confirms it.
Stop(r, answer) ==
  /\ answer \in StopAnswers(r)
  /\ stopped' = IF LaunchKnown(r) THEN stopped \cup {r} ELSE stopped
  /\ confirmed' \in {confirmed, IF CreationPending(r) /\ proc[r] = "alive"
                                THEN confirmed \cup {r} ELSE confirmed}
  /\ toldStopped' = IF answer = "stopped" THEN toldStopped \cup {r} ELSE toldStopped
  /\ UNCHANGED requested

\* Absence is a no only when nothing was requested or the process was seen.
AliveAnswers(r) ==
  IF ~ LaunchKnown(r) THEN {"error"}
  ELSE IF r \notin requested THEN {"gone"}
  ELSE {"error"} \cup IF proc[r] = "alive" THEN {"alive"}
                      ELSE IF r \in confirmed THEN {"gone"} ELSE {}

-----------------------------------------------------------------------------
(* Recording an outcome *)

Move(r, place) == at' = [at EXCEPT ![r] = place]

\* Mutant: the outcome is written without presenting the attempt.
FinishUnfenced(r, to, why) ==
  /\ SetState(owner[r], to)
  /\ UNCHANGED <<generation, attempts, clockVars, legacy, attemptVars, outcomeVars,
                 projectionVars>>

\* An outcome that the store fails to record is parked instead; one that the
\* fence refuses, or that cannot be parked either, is dropped.
Finish(r, to, why) ==
  \/ Transition(owner[r], r, gen[r], to, why)
  \/ /\ to # "needs_reconciliation"
     /\ Transition(owner[r], r, gen[r], "needs_reconciliation", "plain")
  \/ UNCHANGED vars

\* The supervisor ends, and its goroutines and its launch entry with it.
Leave(r) ==
  /\ Move(r, "over")
  /\ plan' = [plan EXCEPT ![r] = Park("plain")]
  /\ watch' = [watch EXCEPT ![r] = "done"]
  /\ UNCHANGED by

-----------------------------------------------------------------------------
(* The claim loop *)

LoopIdle(d) == \A r \in RunId : by[r] = d => at[r] \notin Claiming

ClaimOne(d, r) ==
  /\ mode[d] = "up" /\ LoopIdle(d)
  /\ \E mine \in Kinds : Claim(mine, r)
  /\ by' = [by EXCEPT ![r] = d]
  /\ Move(r, "claimed")
  /\ UNCHANGED <<plan, watch, serverVars, launchVars, runVars, operator>>

\* An error while reading or recording leaves the attempt to its lease.
CancelledBeforeStart(r) ==
  /\ at[r] = "claimed"
  /\ \/ /\ r \in cancelRequested
        /\ Transition(owner[r], r, gen[r], "cancelled", "plain")
        /\ Leave(r)
     \/ /\ r \notin cancelRequested
        /\ Move(r, "cleared")
        /\ UNCHANGED <<vars, by, plan, watch>>
     \/ Leave(r) /\ UNCHANGED vars
  /\ UNCHANGED <<serverVars, launchVars, runVars, operator>>

\* Refused, not decidable, or held back for now.
NotAuthorized(r) ==
  /\ at[r] = "cleared"
  /\ \/ Finish(r, "failed", "plain")
     \/ Finish(r, "needs_reconciliation", "plain")
     \/ Defer(owner[r], r, gen[r])
  /\ Leave(r)
  /\ UNCHANGED <<serverVars, launchVars, runVars, operator>>

\* The start intent is written before anything external exists.
Start(r) ==
  /\ at[r] = "cleared"
  /\ \/ /\ MarkStarting(owner[r], r, gen[r])
        /\ Move(r, "supervised")
        /\ watch' = [watch EXCEPT ![r] = "polling"]
        /\ run' = [run EXCEPT ![r] = "spawned"]
        /\ UNCHANGED <<by, plan>>
     \/ Finish(r, "needs_reconciliation", "plain") /\ Leave(r) /\ UNCHANGED run
  /\ UNCHANGED <<err, proc, serverVars, launchVars, operator>>

Recover(d) ==
  /\ mode[d] = "up" /\ LoopIdle(d)
  /\ RecoverExpiredLeases
  /\ UNCHANGED dispatchVars

-----------------------------------------------------------------------------
(* Runtime.Run: preparation, the creation gate, the process, the result *)

Returns(r, e) ==
  /\ run' = [run EXCEPT ![r] = "returned"]
  /\ err' = [err EXCEPT ![r] = e]

\* The result that the run leaves on its attempt row before it returns.
Stages(r, x) == StageRunResult(owner[r], r, gen[r], x)

ReadInput(r) ==
  /\ run[r] = "spawned"
  /\ \/ run' = [run EXCEPT ![r] = "preparing"] /\ UNCHANGED err
     \/ Returns(r, "unreadable")
  /\ UNCHANGED <<vars, proc, serverVars, supervisorVars, launchVars, operator>>

\* Mutant: the gate admits a creation that it failed to record.
RequestCreationUnrecorded(r) ==
  /\ run[r] = "preparing" /\ r \notin stopped
  /\ run' = [run EXCEPT ![r] = "creating"]
  /\ requested' = requested \cup {r}
  /\ UNCHANGED <<vars, err, proc, stopped, confirmed, toldStopped, serverVars, supervisorVars,
                 operator>>

\* The launch lock is held across the durable write.  A write whose
\* acknowledgement is lost refuses the creation as one that failed does.
RequestCreation(r) ==
  /\ run[r] = "preparing" /\ r \notin stopped
  /\ MarkRuntimeRequested(owner[r], r, gen[r])
  /\ \/ /\ run' = [run EXCEPT ![r] = "creating"]
        /\ requested' = requested \cup {r}
        /\ UNCHANGED err
     \/ Returns(r, "before") /\ UNCHANGED requested
  /\ UNCHANGED <<proc, stopped, confirmed, toldStopped, serverVars, supervisorVars, operator>>

\* A step before the creation fails or the gate refuses.  The failure is safe
\* to repeat unless the run record or the result could not be accounted for.
FailBeforeAgent(r) ==
  /\ run[r] = "preparing"
  /\ \/ Returns(r, "before") /\ (UNCHANGED vars \/ \E x \in {"partial", "exit1"} : Stages(r, x))
     \/ Returns(r, "unclear") /\ (UNCHANGED vars \/ Stages(r, "exit1"))
     \/ Returns(r, "unstored") /\ UNCHANGED vars
  /\ UNCHANGED <<proc, serverVars, supervisorVars, launchVars, operator>>

CreateProcess(r) ==
  /\ run[r] = "creating"
  /\ run' = [run EXCEPT ![r] = "streaming"]
  /\ proc' = [proc EXCEPT ![r] = "alive"]
  /\ UNCHANGED <<vars, err, serverVars, supervisorVars, launchVars, operator>>

\* The creation call fails, which does not say that nothing was created.
CreationFails(r) ==
  /\ run[r] = "creating"
  /\ \E born \in {"none", "alive"} : proc' = [proc EXCEPT ![r] = born]
  /\ \/ Returns(r, "unclear") /\ Stages(r, "exit1")
     \/ \E e \in {"retained", "unstored"} : Returns(r, e) /\ UNCHANGED vars
  /\ UNCHANGED <<serverVars, supervisorVars, launchVars, operator>>

StreamEvent(r) ==
  /\ run[r] = "streaming"
  /\ confirmed' = confirmed \cup {r}
  /\ UNCHANGED <<vars, stopped, requested, toldStopped, serverVars, supervisorVars, runVars,
                 operator>>

\* A nil error is an observed exit.  Every other return may leave the process
\* alive: a cut stream, a lost observer, a detached exec.
StreamEnds(r) ==
  /\ run[r] = "streaming"
  /\ \/ proc[r] = "gone" /\ Returns(r, "nil") /\ Stages(r, "exit0")
     \/ Returns(r, "unclear") /\ Stages(r, "exit1")
     \/ Returns(r, "detached") /\ Stages(r, "partial")
     \/ \E e \in {"retained", "unstored"} : Returns(r, e) /\ UNCHANGED vars
  /\ UNCHANGED <<proc, serverVars, supervisorVars, launchVars, operator>>

ProcessExits(r) ==
  /\ proc[r] = "alive"
  /\ proc' = [proc EXCEPT ![r] = "gone"]
  /\ UNCHANGED <<vars, run, err, serverVars, supervisorVars, launchVars, operator>>

-----------------------------------------------------------------------------
(* Supervision *)

Supervising(r) == at[r] \in Supervised

RenewLease(r) ==
  /\ Supervising(r)
  /\ Heartbeat(r, gen[r])
  /\ UNCHANGED dispatchVars

\* The heartbeat was refused: stop executing, and write nothing.  (A detached
\* process is signalled a second time after the grace; the answer is the last.)
Superseded(r) ==
  /\ Supervising(r) /\ ~ (r \in open /\ generation[owner[r]] = gen[r])
  /\ \E answer \in {"stopped", "still", "error"} : Stop(r, answer)
  /\ Leave(r)
  /\ UNCHANGED <<vars, serverVars, runVars, operator>>

\* The start probe finds the process, however silent it is.
ProbeStart(r) ==
  /\ Supervising(r) /\ "alive" \in AliveAnswers(r)
  /\ confirmed' = confirmed \cup {r}
  /\ UNCHANGED <<vars, stopped, requested, toldStopped, serverVars, supervisorVars, runVars,
                 operator>>

Confirm(r) ==
  /\ Supervising(r) /\ r \in confirmed
  /\ StartRunning(owner[r], r, gen[r])
  /\ UNCHANGED dispatchVars

NoticeCancel(r) ==
  /\ Supervising(r) /\ watch[r] = "polling" /\ r \in cancelRequested
  /\ \E answer \in {"stopped", "still", "error"} :
       /\ Stop(r, answer)
       /\ watch' = [watch EXCEPT ![r] = IF answer = "stopped" THEN "done" ELSE "grace"]
  /\ UNCHANGED <<vars, by, at, plan, serverVars, runVars, operator>>

\* Mutant: a runtime that ignores both signals is not followed up.
AfterEscalationQuiet(answer, look) == "done"

\* One last look before giving up.
AfterEscalation(answer, look) ==
  IF answer = "stopped" \/ look = "gone" THEN "done" ELSE "abandoned"

Escalate(r) ==
  /\ Supervising(r) /\ watch[r] = "grace"
  /\ \E answer \in {"stopped", "still", "error"}, look \in AliveAnswers(r) :
       /\ Stop(r, answer)
       /\ watch' = [watch EXCEPT ![r] = AfterEscalation(answer, look)]
  /\ UNCHANGED <<vars, by, at, plan, serverVars, runVars, operator>>

Abandon(r) ==
  /\ Supervising(r) /\ watch[r] = "abandoned"
  /\ Finish(r, "needs_reconciliation", "plain")
  /\ Leave(r)
  /\ UNCHANGED <<serverVars, launchVars, runVars, operator>>

\* A detached return is not a result.
RunReturned(r) ==
  /\ at[r] = "supervised" /\ run[r] = "returned"
  /\ Move(r, IF err[r] = "detached" THEN "detached" ELSE "ended")
  /\ UNCHANGED <<vars, by, plan, watch, serverVars, launchVars, runVars, operator>>

ProbeDetached(r) ==
  /\ at[r] = "detached"
  /\ "gone" \in AliveAnswers(r)
  /\ Move(r, "ended")
  /\ UNCHANGED <<vars, by, plan, watch, serverVars, launchVars, runVars, operator>>

\* maxProbeErrors unanswered probes, or maxDetachedWatch: signal it and settle.
GiveUpDetached(r) ==
  /\ at[r] = "detached"
  /\ \E answer \in {"stopped", "still", "error"} : Stop(r, answer)
  /\ Move(r, "ended")
  /\ UNCHANGED <<vars, by, plan, watch, serverVars, runVars, operator>>

\* Mutant: drain waits for its runs without asking them to end.
ShutdownSilent(r) == FALSE

\* drain closed the shutdown channel of every attempt in running.
Shutdown(r) == mode[by[r]] = "draining"

\* Stop, and wait for the result once.
ShutdownAttempt(r) ==
  /\ Supervising(r) /\ Shutdown(r)
  /\ \E answer \in {"stopped", "still", "error"} :
       /\ Stop(r, answer)
       /\ Move(r, IF answer = "stopped" THEN "lastcall" ELSE "settling")
  /\ plan' = [plan EXCEPT ![r] = Park("plain")]
  /\ UNCHANGED <<vars, by, watch, serverVars, runVars, operator>>

\* The result arrives, or the grace for it passes.
LastCall(r) ==
  /\ at[r] = "lastcall"
  /\ \/ run[r] = "returned" /\ Move(r, "ended")
     \/ Move(r, "settling")
  /\ UNCHANGED <<vars, by, plan, watch, serverVars, launchVars, runVars, operator>>

-----------------------------------------------------------------------------
(* Settlement *)

\* Mutant: a failed run whose process is confirmed gone is worth a retry.
ClassifiedHopefully(r, look) ==
  IF err[r] = "unreadable" THEN Plan("failed", "plain")
  ELSE IF look = "gone" THEN Plan("retry_wait", "plain") ELSE Park("plain")

\* What the runtime says a failure means; look is the probe of an unclear one.
Classified(r, look) ==
  [before     |-> Plan("retry_wait", "plain"),
   unreadable |-> Plan("failed", "plain"),
   retained   |-> Park("retained"),
   detached   |-> Park("plain"),
   unclear    |-> Park(IF look = "gone" THEN "stopped" ELSE "plain")][err[r]]

\* Mutant: a cancel request is taken for a cancellation.
CancelOutcomeTrusting(r, look) == Plan("cancelled", "plain")

\* A cancellation needs a runtime that is confirmed gone.
CancelOutcome(r, look) ==
  IF look = "gone" THEN Plan("cancelled", "plain") ELSE Park("plain")

\* Mutant: the cancel request is honoured before the result is looked at.
VerdictCancelFirst(r, look) ==
  IF err[r] = "unstored" THEN Park("plain")
  ELSE IF r \in cancelRequested THEN CancelOutcome(r, look)
  ELSE IF err[r] = "nil" THEN Plan("succeeded", "plain")
  ELSE Classified(r, look)

\* The result first, then the cancel request, then the classification.
Verdict(r, look) ==
  IF err[r] = "unstored" THEN Park("plain")
  ELSE IF err[r] = "nil" THEN Plan("succeeded", "plain")
  ELSE IF r \in cancelRequested THEN CancelOutcome(r, look)
  ELSE Classified(r, look)

\* The cancel request is read, and parked over when it cannot be.
Settle(r) ==
  /\ at[r] = "ended"
  /\ \E look \in AliveAnswers(r) :
       plan' \in {[plan EXCEPT ![r] = Verdict(r, look)], [plan EXCEPT ![r] = Park("plain")]}
  /\ Move(r, "settling")
  /\ UNCHANGED <<vars, by, watch, serverVars, launchVars, runVars, operator>>

Record(r) ==
  /\ at[r] = "settling"
  /\ Finish(r, plan[r].to, plan[r].why)
  /\ Leave(r)
  /\ UNCHANGED <<serverVars, launchVars, runVars, operator>>

-----------------------------------------------------------------------------
(* Servers: boot, shutdown, crash *)

Mine(d) == {r \in RunId : by[r] = d}

\* A server starts with a recovery pass, unless a quiet window refuses it.
Boot(d) ==
  /\ mode[d] = "down"
  /\ mode' = [mode EXCEPT ![d] = "up"]
  /\ \/ RecoverExpiredLeases
     \/ UNCHANGED vars
  /\ UNCHANGED <<restarts, supervisorVars, launchVars, runVars, operator>>

Drain(d) ==
  /\ mode[d] = "up" /\ LoopIdle(d) /\ restarts < MaxRestarts
  /\ mode' = [mode EXCEPT ![d] = "draining"]
  /\ restarts' = restarts + 1
  /\ UNCHANGED <<vars, supervisorVars, launchVars, runVars, operator>>

\* The process ends.  A creation that was under way may still happen.
Die(d) ==
  /\ mode' = [mode EXCEPT ![d] = "down"]
  /\ at' = [r \in RunId |-> IF r \in Mine(d) THEN "over" ELSE at[r]]
  /\ run' = [r \in RunId |-> IF r \in Mine(d) /\ run[r] \notin {"none", "returned"}
                             THEN "dead" ELSE run[r]]
  /\ \E born \in SUBSET {r \in Mine(d) : run[r] = "creating"} :
       proc' = [r \in RunId |-> IF r \in born THEN "alive" ELSE proc[r]]
  /\ plan' = [r \in RunId |-> IF r \in Mine(d) THEN Park("plain") ELSE plan[r]]
  /\ watch' = [r \in RunId |-> IF r \in Mine(d) THEN "done" ELSE watch[r]]
  /\ UNCHANGED <<vars, by, err, launchVars, operator>>

DrainDone(d) ==
  /\ mode[d] = "draining" /\ \A r \in Mine(d) : at[r] = "over"
  /\ Die(d) /\ UNCHANGED restarts

Crash(d) ==
  /\ mode[d] # "down" /\ restarts < MaxRestarts
  /\ Die(d) /\ restarts' = restarts + 1

-----------------------------------------------------------------------------
(* The callers of the ledger and its clock *)

Operate(w, to) ==
  /\ Resolve(w, generation[w], to)
  /\ operator' = operator \cup {w}
  /\ UNCHANGED <<serverVars, supervisorVars, launchVars, runVars>>

Surroundings ==
  /\ \/ \E w \in Work : AcceptTx(w) \/ RequestCancel(w) \/ BecomeEligible(w)
     \/ \E r \in RunId : LeaseLapse(r)
  /\ UNCHANGED dispatchVars

-----------------------------------------------------------------------------

Supervisor(r) ==
  \/ CancelledBeforeStart(r) \/ NotAuthorized(r) \/ Start(r)
  \/ RenewLease(r) \/ Superseded(r) \/ ProbeStart(r) \/ Confirm(r)
  \/ NoticeCancel(r) \/ Escalate(r) \/ Abandon(r)
  \/ RunReturned(r) \/ ProbeDetached(r) \/ GiveUpDetached(r)
  \/ ShutdownAttempt(r) \/ LastCall(r) \/ Settle(r) \/ Record(r)

Execution(r) ==
  \/ ReadInput(r) \/ RequestCreation(r) \/ FailBeforeAgent(r)
  \/ CreateProcess(r) \/ CreationFails(r) \/ StreamEvent(r) \/ StreamEnds(r)
  \/ ProcessExits(r)

DispatchNext ==
  \/ \E d \in Server : \/ Boot(d) \/ Drain(d) \/ DrainDone(d) \/ Crash(d) \/ Recover(d)
                       \/ \E r \in RunId : ClaimOne(d, r)
  \/ \E r \in RunId : Supervisor(r) \/ Execution(r)
  \/ \E w \in Work, to \in Resolutions : Operate(w, to)
  \/ Surroundings

DispatchSpec == DispatchInit /\ [][DispatchNext]_allVars

\* The supervisors, Run's preparation and the timers are scheduled, a lease
\* that nobody renews runs out, and a server that is down is started again.
\* Nothing makes a process exit, a creation complete or a client act; only the
\* observer of a process that has exited returns.
Fairness ==
  /\ \A d \in Server : WF_allVars(Boot(d)) /\ WF_allVars(DrainDone(d)) /\ WF_allVars(Recover(d))
  /\ \A r \in RunId :
       /\ WF_allVars(CancelledBeforeStart(r)) /\ WF_allVars(NotAuthorized(r) \/ Start(r))
       /\ WF_allVars(ReadInput(r)) /\ WF_allVars(FailBeforeAgent(r) \/ RequestCreation(r))
       /\ WF_allVars(proc[r] = "gone" /\ StreamEnds(r))
       /\ WF_allVars(NoticeCancel(r)) /\ WF_allVars(Escalate(r)) /\ WF_allVars(Abandon(r))
       /\ WF_allVars(RunReturned(r)) /\ WF_allVars(GiveUpDetached(r))
       /\ WF_allVars(ShutdownAttempt(r)) /\ WF_allVars(LastCall(r))
       /\ WF_allVars(Settle(r)) /\ WF_allVars(Record(r))
       /\ WF_allVars(at[r] = "over" /\ LeaseLapse(r) /\ UNCHANGED dispatchVars)

FairDispatchSpec == DispatchSpec /\ Fairness

-----------------------------------------------------------------------------
(* Properties *)

\* Types, and the two facts the launch state rests on: a process is confirmed
\* only after its creation was requested, and requests are on the attempt row.
DispatchTypeOK ==
  /\ mode \in [Server -> {"up", "draining", "down"}] /\ restarts \in 0 .. MaxRestarts
  /\ by \in [RunId -> Server \cup {Nobody}]
  /\ at \in [RunId -> Places] /\ plan \in [RunId -> Plans]
  /\ watch \in [RunId -> {"polling", "grace", "abandoned", "done"}]
  /\ run \in [RunId -> RunPlaces] /\ err \in [RunId -> Errors]
  /\ proc \in [RunId -> {"none", "alive", "gone"}]
  /\ stopped \subseteq RunId /\ toldStopped \subseteq RunId /\ operator \subseteq Work
  /\ confirmed \subseteq requested
  /\ requested \subseteq {r \in RunId : phase[r] \in {"requested", "confirmed"}}

\* A process is running for the attempt, or may come into being any moment.
MayRun(r) == proc[r] = "alive" \/ run[r] = "creating"

\* A live process holds its slot: unless an operator decided otherwise, a work
\* item whose process may be alive is neither settled nor back in line, so
\* capacity and session are not handed out beside it (the dispatcher's settle,
\* park and recovery, under cancels, shutdowns and crashes).
LiveProcessHoldsItsSlot ==
  \A r \in RunId : MayRun(r) /\ owner[r] \notin operator
                   => state[owner[r]] \in HoldsExecutionSlot

\* At most one attempt of a work item ever has a process, unless an operator
\* put it back in line: only failures before the agent existed are retried.
AtMostOneExecution ==
  \A r, s \in RunId :
    /\ owner[r] = owner[s] /\ owner[r] \notin operator
    /\ proc[r] # "none" /\ proc[s] # "none"
    => r = s

\* The attempts that have a process or may get one any moment, but for works an
\* operator answers for.
Processes == {r \in RunId : MayRun(r) /\ owner[r] \notin operator}

\* The limits hold of processes, not only of rows: however servers crash and drain
\* and leases lapse, the server, its background class, an agent and a crew never have
\* more processes than their limit.
ProcessesWithinLimits ==
  /\ Cardinality(Processes) <= Limits["ServerTotal"]
  /\ Cardinality({r \in Processes : ClassOf[owner[r]] = "background"})
       <= Limits["ServerBackground"]
  /\ \A r \in Processes :
       /\ AgentOf[owner[r]] # Nothing =>
            Cardinality({s \in Processes : AgentOf[owner[s]] = AgentOf[owner[r]]})
              <= Limits["AgentTotal"]
       /\ CrewOf[owner[r]] # Nothing =>
            Cardinality({s \in Processes : CrewOf[owner[s]] = CrewOf[owner[r]]})
              <= CrewBudget(CrewOf[owner[r]])

\* A session never has two processes.
OneProcessPerSession ==
  \A r, s \in Processes :
    SessionOf[owner[r]] = SessionOf[owner[s]] /\ SessionOf[owner[r]] # Nothing => r = s

\* What completed is not undone: an attempt whose run reported success ends as
\* succeeded or in reconciliation, whatever cancel, shutdown or lapse came late.
CompletedIsNotUndone ==
  \A r \in RunId :
    err[r] = "nil" /\ r \notin open /\ owner[r] \notin operator
    => state[owner[r]] \in {"succeeded", "needs_reconciliation"}

\* Stop says only what it can prove: once it has answered "stopped" there is no
\* process and none comes into being, however the creation gate raced it.
StopIsProof == \A r \in toldStopped : ~ MayRun(r)

\* The dispatcher uses the ledger only through its protocol: every step of a
\* server, a supervisor or a run is a step of WorkLedger or leaves it alone, so
\* what is proved of the ledger holds of the composition.
ImplementsLedger == Spec

\* A recorded cancel ends the attempt, even when the runtime ignores every
\* signal, the store fails or the server dies in between.
CancelSettles ==
  \A r \in RunId : r \in cancelRequested /\ r \in open ~> r \notin open

\* drain returns: each supervisor of a server that shuts down lets go of its
\* attempt, whatever its runtime and its Run do.
DrainReturns ==
  \A d \in Server : mode[d] = "draining" ~> (\A r \in Mine(d) : at[r] = "over")

=============================================================================
