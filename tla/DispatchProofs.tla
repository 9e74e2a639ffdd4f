--------------------------- MODULE DispatchProofs ---------------------------
(***************************************************************************)
(* The dispatcher for any number of servers, works and attempts: what Stop *)
(* answers is a proof; a recorded outcome is backed by it; the ledger is   *)
(* used through its protocol; a live process holds its slot, executes its  *)
(* work once, and what it completed is not undone.                         *)
(***************************************************************************)
EXTENDS Dispatch, WorkLedgerOutcomeProofs

TypedState ==
  /\ phase \in [RunId -> Phases]
  /\ at \in [RunId -> Places] /\ by \in [RunId -> Server \cup {Nobody}]
  /\ run \in [RunId -> RunPlaces] /\ err \in [RunId -> Errors]
  /\ proc \in [RunId -> {"none", "alive", "gone"}]
  /\ toldStopped \subseteq RunId

\* An attempt without a row was never claimed, and one that was not started yet
\* has no run, no launch state and no process.
LaunchedOnce ==
  \A r \in RunId :
    /\ phase[r] = "none" => at[r] = "none"
    /\ at[r] = "none" => by[r] = Nobody
    /\ at[r] \in {"none"} \cup Claiming => run[r] = "none"
    /\ run[r] \in {"none", "spawned", "preparing"} => r \notin requested
    /\ run[r] \in {"none", "spawned"} => r \notin toldStopped

\* The launch state against the process it speaks of.
LaunchIsTruthful ==
  \A r \in RunId :
    /\ run[r] = "creating" => r \in requested /\ proc[r] = "none"
    /\ run[r] = "streaming" => r \in requested
    /\ run[r] = "streaming" => proc[r] # "none"
    /\ proc[r] # "none" => r \in requested
    /\ r \in confirmed => proc[r] # "none"

\* A stop that was answered closed the gate, or found the process gone.
StopClosedTheGate ==
  \A r \in RunId :
    r \in toldStopped => /\ run[r] # "creating" /\ proc[r] # "alive"
                         /\ r \in stopped

LaunchInvariant == TypedState /\ LaunchedOnce /\ LaunchIsTruthful /\ StopClosedTheGate

\* A step of the ledger keeps the attempt rows it has.
KeepsRows ==
  /\ phase' \in [RunId -> Phases]
  /\ \A r \in RunId : phase'[r] = "none" => phase[r] = "none"

\* A transaction that leaves runtime_phase alone or advances one keeps the rows.
LEMMA RowsKept ==
  ASSUME phase \in [RunId -> Phases],
         \/ UNCHANGED phase
         \/ \E r \in RunId, p \in Phases \ {"none"} : phase' = [phase EXCEPT ![r] = p]
  PROVE  KeepsRows
BY DEF KeepsRows

\* No outcome that a supervisor records touches a runtime phase.
LEMMA FinishKeepsRows ==
  ASSUME NEW r, NEW to, NEW why, phase \in [RunId -> Phases], Finish(r, to, why)
  PROVE  KeepsRows
<1>1. UNCHANGED phase
  BY SMTT(30) DEF Finish, Transition, vars, attemptVars
<1>. QED BY <1>1, RowsKept

USE DEF LaunchInvariant

LEMMA StepKeepsLaunches ==
  LaunchInvariant /\ [DispatchNext]_allVars => LaunchInvariant'
<1>. SUFFICES ASSUME LaunchInvariant, [DispatchNext]_allVars PROVE LaunchInvariant'
  OBVIOUS
<1>. USE DEF TypedState, LaunchedOnce, LaunchIsTruthful, StopClosedTheGate
<1>. USE DEF Places, Claiming, Supervised, RunPlaces, Errors, KeepsRows
<1>. USE DEF supervisorVars, launchVars, runVars, serverVars, dispatchVars
<1>1. ASSUME NEW d \in Server, Boot(d) PROVE LaunchInvariant'
  <2>1. KeepsRows
    BY <1>1, RowsKept DEF Boot, RecoverExpiredLeases, vars, attemptVars
  <2>. QED BY <1>1, <2>1 DEF Boot
<1>2. ASSUME NEW d \in Server, Drain(d) PROVE LaunchInvariant'
  <2>1. KeepsRows
    BY <1>2, RowsKept DEF Drain, vars, attemptVars
  <2>. QED BY <1>2, <2>1 DEF Drain
<1>3. ASSUME NEW d \in Server, DrainDone(d) PROVE LaunchInvariant'
  <2>1. KeepsRows
    BY <1>3, RowsKept DEF DrainDone, Die, vars, attemptVars
  <2>2. TypedState'
    BY <1>3, <2>1 DEF DrainDone, Die, Mine
  <2>3. LaunchedOnce'
    BY <1>3, <2>1 DEF DrainDone, Die, Mine
  <2>4. LaunchIsTruthful'
    BY <1>3, <2>1 DEF DrainDone, Die, Mine
  <2>5. StopClosedTheGate'
    BY <1>3, <2>1 DEF DrainDone, Die, Mine
  <2>. QED BY <2>2, <2>3, <2>4, <2>5
<1>4. ASSUME NEW d \in Server, Crash(d) PROVE LaunchInvariant'
  <2>1. KeepsRows
    BY <1>4, RowsKept DEF Crash, Die, vars, attemptVars
  <2>2. TypedState'
    BY <1>4, <2>1 DEF Crash, Die, Mine
  <2>3. LaunchedOnce'
    BY <1>4, <2>1, DispatchAssumption DEF Crash, Die, Mine
  <2>4. LaunchIsTruthful'
    BY <1>4, <2>1 DEF Crash, Die, Mine
  <2>5. StopClosedTheGate'
    BY <1>4, <2>1 DEF Crash, Die, Mine
  <2>. QED BY <2>2, <2>3, <2>4, <2>5
<1>5. ASSUME NEW d \in Server, Recover(d) PROVE LaunchInvariant'
  <2>1. KeepsRows
    BY <1>5, RowsKept DEF Recover, RecoverExpiredLeases, vars, attemptVars
  <2>. QED BY <1>5, <2>1 DEF Recover
<1>6. ASSUME NEW d \in Server, NEW r \in RunId, ClaimOne(d, r) PROVE LaunchInvariant'
  <2>1. KeepsRows
    BY <1>6, RowsKept DEF ClaimOne, Claim, StartAttempt, Phases, vars, attemptVars
  <2>2. TypedState'
    BY <1>6, <2>1 DEF ClaimOne, Claim, StartAttempt, Fresh, Move
  <2>3. LaunchedOnce'
    BY <1>6, <2>1 DEF ClaimOne, Claim, StartAttempt, Fresh, Move
  <2>4. LaunchIsTruthful'
    BY <1>6, <2>1 DEF ClaimOne, Claim, StartAttempt, Fresh, Move
  <2>5. StopClosedTheGate'
    BY <1>6, <2>1 DEF ClaimOne, Claim, StartAttempt, Fresh, Move
  <2>. QED BY <2>2, <2>3, <2>4, <2>5
<1>7. ASSUME NEW r \in RunId, CancelledBeforeStart(r) PROVE LaunchInvariant'
  <2>1. KeepsRows
    BY <1>7, RowsKept DEF CancelledBeforeStart, Transition, vars, attemptVars
  <2>. QED BY <1>7, <2>1 DEF CancelledBeforeStart, Leave, Move
<1>8. ASSUME NEW r \in RunId, NotAuthorized(r) PROVE LaunchInvariant'
  <2>1. KeepsRows
    BY <1>8, FinishKeepsRows, RowsKept DEF NotAuthorized, Defer, vars, attemptVars
  <2>. QED BY <1>8, <2>1 DEF NotAuthorized, Leave, Move
<1>9. ASSUME NEW r \in RunId, Start(r) PROVE LaunchInvariant'
  <2>1. KeepsRows
    BY <1>9, FinishKeepsRows, RowsKept DEF Start, MarkStarting, Phases, vars, attemptVars
  <2>. QED BY <1>9, <2>1 DEF Start, Leave, Move
<1>10. ASSUME NEW r \in RunId, RenewLease(r) PROVE LaunchInvariant'
  <2>1. KeepsRows
    BY <1>10, RowsKept DEF RenewLease, Heartbeat, vars, attemptVars
  <2>. QED BY <1>10, <2>1 DEF RenewLease
<1>11. ASSUME NEW r \in RunId, Superseded(r) PROVE LaunchInvariant'
  <2>1. KeepsRows
    BY <1>11, RowsKept DEF Superseded, vars, attemptVars
  <2>2. TypedState'
    BY <1>11, <2>1 DEF Superseded, Stop, Leave, Move
  <2>3. LaunchedOnce'
    BY <1>11, <2>1 DEF Superseded, Supervising, Stop, StopAnswers, LaunchKnown, CreationPending, Leave, Move
  <2>4. LaunchIsTruthful'
    BY <1>11, <2>1 DEF Superseded, Supervising, Stop, StopAnswers, LaunchKnown, CreationPending, Leave, Move
  <2>5. StopClosedTheGate'
    BY <1>11, <2>1 DEF Superseded, Supervising, Stop, StopAnswers, LaunchKnown, CreationPending, Leave, Move
  <2>. QED BY <2>2, <2>3, <2>4, <2>5
<1>12. ASSUME NEW r \in RunId, ProbeStart(r) PROVE LaunchInvariant'
  <2>1. KeepsRows
    BY <1>12, RowsKept DEF ProbeStart, vars, attemptVars
  <2>. QED BY <1>12, <2>1 DEF ProbeStart, AliveAnswers
<1>13. ASSUME NEW r \in RunId, Confirm(r) PROVE LaunchInvariant'
  <2>1. KeepsRows
    BY <1>13, RowsKept DEF Confirm, StartRunning, Phases, vars, attemptVars
  <2>. QED BY <1>13, <2>1 DEF Confirm
<1>14. ASSUME NEW r \in RunId, NoticeCancel(r) PROVE LaunchInvariant'
  <2>1. KeepsRows
    BY <1>14, RowsKept DEF NoticeCancel, vars, attemptVars
  <2>2. TypedState'
    BY <1>14, <2>1 DEF NoticeCancel, Stop
  <2>3. LaunchedOnce'
    BY <1>14, <2>1 DEF NoticeCancel, Supervising, Stop, StopAnswers, LaunchKnown, CreationPending
  <2>4. LaunchIsTruthful'
    BY <1>14, <2>1 DEF NoticeCancel, Supervising, Stop, StopAnswers, LaunchKnown, CreationPending
  <2>5. StopClosedTheGate'
    BY <1>14, <2>1 DEF NoticeCancel, Supervising, Stop, StopAnswers, LaunchKnown, CreationPending
  <2>. QED BY <2>2, <2>3, <2>4, <2>5
<1>15. ASSUME NEW r \in RunId, Escalate(r) PROVE LaunchInvariant'
  <2>1. KeepsRows
    BY <1>15, RowsKept DEF Escalate, vars, attemptVars
  <2>2. TypedState'
    BY <1>15, <2>1 DEF Escalate, Stop
  <2>3. LaunchedOnce'
    BY <1>15, <2>1 DEF Escalate, Supervising, Stop, StopAnswers, LaunchKnown, CreationPending
  <2>4. LaunchIsTruthful'
    BY <1>15, <2>1 DEF Escalate, Supervising, Stop, StopAnswers, LaunchKnown, CreationPending
  <2>5. StopClosedTheGate'
    BY <1>15, <2>1 DEF Escalate, Supervising, Stop, StopAnswers, LaunchKnown, CreationPending
  <2>. QED BY <2>2, <2>3, <2>4, <2>5
<1>16. ASSUME NEW r \in RunId, Abandon(r) PROVE LaunchInvariant'
  <2>1. KeepsRows
    BY <1>16, FinishKeepsRows, RowsKept DEF Abandon, vars, attemptVars
  <2>. QED BY ZenonT(60), <1>16, <2>1 DEF Abandon, Leave, Move, Supervising
<1>17. ASSUME NEW r \in RunId, RunReturned(r) PROVE LaunchInvariant'
  <2>1. KeepsRows
    BY <1>17, RowsKept DEF RunReturned, vars, attemptVars
  <2>. QED BY ZenonT(60), <1>17, <2>1 DEF RunReturned, Move
<1>18. ASSUME NEW r \in RunId, ProbeDetached(r) PROVE LaunchInvariant'
  <2>1. KeepsRows
    BY <1>18, RowsKept DEF ProbeDetached, vars, attemptVars
  <2>. QED BY <1>18, <2>1 DEF ProbeDetached, Move
<1>19. ASSUME NEW r \in RunId, GiveUpDetached(r) PROVE LaunchInvariant'
  <2>1. KeepsRows
    BY <1>19, RowsKept DEF GiveUpDetached, vars, attemptVars
  <2>2. TypedState'
    BY <1>19, <2>1 DEF GiveUpDetached, Move, Stop
  <2>3. LaunchedOnce'
    BY <1>19, <2>1 DEF GiveUpDetached, Move, Stop, StopAnswers, LaunchKnown, CreationPending
  <2>4. LaunchIsTruthful'
    BY <1>19, <2>1 DEF GiveUpDetached, Move, Stop, StopAnswers, LaunchKnown, CreationPending
  <2>5. StopClosedTheGate'
    BY <1>19, <2>1 DEF GiveUpDetached, Move, Stop, StopAnswers, LaunchKnown, CreationPending
  <2>. QED BY <2>2, <2>3, <2>4, <2>5
<1>20. ASSUME NEW r \in RunId, ShutdownAttempt(r) PROVE LaunchInvariant'
  <2>1. KeepsRows
    BY <1>20, RowsKept DEF ShutdownAttempt, vars, attemptVars
  <2>2. TypedState'
    <3>1. PICK answer \in {"stopped", "still", "error"} :
            /\ Stop(r, answer)
            /\ Move(r, IF answer = "stopped" THEN "lastcall" ELSE "settling")
      BY <1>20 DEF ShutdownAttempt
    <3>2. at' \in [RunId -> Places]
      BY <3>1 DEF Move
    <3>3. toldStopped' \subseteq RunId
      BY <3>1 DEF Stop
    <3>. QED BY <1>20, <2>1, <3>2, <3>3 DEF ShutdownAttempt
  <2>3. LaunchedOnce'
    BY <1>20, <2>1 DEF ShutdownAttempt, Supervising, Move, Stop, StopAnswers, LaunchKnown, CreationPending
  <2>4. LaunchIsTruthful'
    BY <1>20, <2>1 DEF ShutdownAttempt, Supervising, Move, Stop, StopAnswers, LaunchKnown, CreationPending
  <2>5. StopClosedTheGate'
    BY <1>20, <2>1 DEF ShutdownAttempt, Supervising, Move, Stop, StopAnswers, LaunchKnown, CreationPending
  <2>. QED BY <2>2, <2>3, <2>4, <2>5
<1>21. ASSUME NEW r \in RunId, LastCall(r) PROVE LaunchInvariant'
  <2>1. KeepsRows
    BY <1>21, RowsKept DEF LastCall, vars, attemptVars
  <2>. QED BY <1>21, <2>1 DEF LastCall, Move
<1>22. ASSUME NEW r \in RunId, Settle(r) PROVE LaunchInvariant'
  <2>1. KeepsRows
    BY <1>22, RowsKept DEF Settle, vars, attemptVars
  <2>. QED BY <1>22, <2>1 DEF Settle, Move
<1>23. ASSUME NEW r \in RunId, Record(r) PROVE LaunchInvariant'
  <2>1. KeepsRows
    BY <1>23, FinishKeepsRows, RowsKept DEF Record, vars, attemptVars
  <2>. QED BY <1>23, <2>1 DEF Record, Leave, Move
<1>24. ASSUME NEW r \in RunId, ReadInput(r) PROVE LaunchInvariant'
  <2>1. KeepsRows
    BY <1>24, RowsKept DEF ReadInput, vars, attemptVars
  <2>. QED BY <1>24, <2>1 DEF ReadInput, Returns
<1>25. ASSUME NEW r \in RunId, RequestCreation(r) PROVE LaunchInvariant'
  <2>1. KeepsRows
    BY <1>25, RowsKept DEF RequestCreation, MarkRuntimeRequested, Phases, vars, attemptVars
  <2>2. TypedState'
    BY <1>25, <2>1 DEF RequestCreation, Returns
  <2>3. LaunchedOnce'
    BY <1>25, <2>1 DEF RequestCreation, Returns
  <2>4. LaunchIsTruthful'
    BY <1>25, <2>1 DEF RequestCreation, Returns
  <2>5. StopClosedTheGate'
    BY <1>25, <2>1 DEF RequestCreation, Returns
  <2>. QED BY <2>2, <2>3, <2>4, <2>5
<1>26. ASSUME NEW r \in RunId, FailBeforeAgent(r) PROVE LaunchInvariant'
  <2>1. KeepsRows
    BY <1>26, RowsKept DEF FailBeforeAgent, Stages, StageRunResult, vars, attemptVars
  <2>2. TypedState'
    BY <1>26, <2>1 DEF FailBeforeAgent, Returns
  <2>3. LaunchedOnce'
    BY <1>26, <2>1 DEF FailBeforeAgent, Returns
  <2>4. LaunchIsTruthful'
    BY <1>26, <2>1 DEF FailBeforeAgent, Returns
  <2>5. StopClosedTheGate'
    BY <1>26, <2>1 DEF FailBeforeAgent, Returns
  <2>. QED BY <2>2, <2>3, <2>4, <2>5
<1>27. ASSUME NEW r \in RunId, CreateProcess(r) PROVE LaunchInvariant'
  <2>1. KeepsRows
    BY <1>27, RowsKept DEF CreateProcess, vars, attemptVars
  <2>2. TypedState'
    BY <1>27, <2>1 DEF CreateProcess
  <2>3. LaunchedOnce'
    BY <1>27, <2>1 DEF CreateProcess
  <2>4. LaunchIsTruthful'
    BY <1>27, <2>1 DEF CreateProcess
  <2>5. StopClosedTheGate'
    BY <1>27, <2>1 DEF CreateProcess
  <2>. QED BY <2>2, <2>3, <2>4, <2>5
<1>28. ASSUME NEW r \in RunId, CreationFails(r) PROVE LaunchInvariant'
  <2>1. KeepsRows
    BY <1>28, RowsKept DEF CreationFails, Stages, StageRunResult, vars, attemptVars
  <2>2. TypedState'
    <3>1. proc' \in [RunId -> {"none", "alive", "gone"}]
      BY <1>28 DEF CreationFails
    <3>2. run' \in [RunId -> RunPlaces] /\ err' \in [RunId -> Errors]
      BY <1>28 DEF CreationFails, Returns
    <3>. QED BY <1>28, <2>1, <3>1, <3>2 DEF CreationFails
  <2>3. LaunchedOnce'
    BY <1>28, <2>1 DEF CreationFails, Returns
  <2>4. LaunchIsTruthful'
    BY <1>28, <2>1 DEF CreationFails, Returns
  <2>5. StopClosedTheGate'
    BY <1>28, <2>1 DEF CreationFails, Returns
  <2>. QED BY <2>2, <2>3, <2>4, <2>5
<1>29. ASSUME NEW r \in RunId, StreamEvent(r) PROVE LaunchInvariant'
  <2>1. KeepsRows
    BY <1>29, RowsKept DEF StreamEvent, vars, attemptVars
  <2>. QED BY <1>29, <2>1 DEF StreamEvent
<1>30. ASSUME NEW r \in RunId, StreamEnds(r) PROVE LaunchInvariant'
  <2>1. KeepsRows
    BY <1>30, RowsKept DEF StreamEnds, Stages, StageRunResult, vars, attemptVars
  <2>2. TypedState'
    BY <1>30, <2>1 DEF StreamEnds, Returns
  <2>3. LaunchedOnce'
    BY <1>30, <2>1 DEF StreamEnds, Returns
  <2>4. LaunchIsTruthful'
    BY <1>30, <2>1 DEF StreamEnds, Returns
  <2>5. StopClosedTheGate'
    BY <1>30, <2>1 DEF StreamEnds, Returns
  <2>. QED BY <2>2, <2>3, <2>4, <2>5
<1>31. ASSUME NEW r \in RunId, ProcessExits(r) PROVE LaunchInvariant'
  <2>1. KeepsRows
    BY <1>31, RowsKept DEF ProcessExits, vars, attemptVars
  <2>2. TypedState'
    BY <1>31, <2>1 DEF ProcessExits
  <2>3. LaunchedOnce'
    BY <1>31, <2>1 DEF ProcessExits
  <2>4. LaunchIsTruthful'
    BY <1>31, <2>1 DEF ProcessExits
  <2>5. StopClosedTheGate'
    BY <1>31, <2>1 DEF ProcessExits
  <2>. QED BY <2>2, <2>3, <2>4, <2>5
<1>32. ASSUME NEW w \in Work, NEW to \in Resolutions, Operate(w, to) PROVE LaunchInvariant'
  <2>1. KeepsRows
    BY <1>32, RowsKept DEF Operate, Resolve, vars, attemptVars
  <2>. QED BY <1>32, <2>1 DEF Operate
<1>33. ASSUME Surroundings PROVE LaunchInvariant'
  <2>1. KeepsRows
    BY <1>33, RowsKept DEF Surroundings, AcceptTx, RequestCancel, BecomeEligible, LeaseLapse, vars, attemptVars
  <2>. QED BY <1>33, <2>1 DEF Surroundings
<1>34. CASE UNCHANGED allVars
  BY <1>34 DEF allVars, vars, attemptVars
<1>. QED
  BY <1>1, <1>2, <1>3, <1>4, <1>5, <1>6, <1>7, <1>8, <1>9, <1>10, <1>11,
     <1>12, <1>13, <1>14, <1>15, <1>16, <1>17, <1>18, <1>19, <1>20, <1>21,
     <1>22, <1>23, <1>24, <1>25, <1>26, <1>27, <1>28, <1>29, <1>30, <1>31,
     <1>32, <1>33, <1>34
     DEF DispatchNext, Supervisor, Execution

\* Once Stop has answered "stopped", no process of the attempt is running and
\* none comes into being, in every reachable state of any instance.
THEOREM StopIsAProof == DispatchSpec => []StopIsProof
<1>1. DispatchInit => LaunchInvariant
  BY DEF DispatchInit, Init, TypedState, LaunchedOnce, LaunchIsTruthful, StopClosedTheGate,
         Phases, Places, Claiming, Supervised, RunPlaces, Errors
<1>2. LaunchInvariant => StopIsProof
  BY DEF TypedState, StopClosedTheGate, StopIsProof, MayRun
<1>. QED BY <1>1, <1>2, StepKeepsLaunches, PTL DEF DispatchSpec
-----------------------------------------------------------------------------
(***************************************************************************)
(* What a supervisor is about to record is backed by what its run returned *)
(* and by what the runtime proved, whoever else stopped or probed it.      *)
(***************************************************************************)

\* A run that returned said why, and nobody waits for the result of one that did
\* not.  Success is an observed exit; a failure that is repeated or that denies
\* the input never got past the creation gate.
RunReturns ==
  \A r \in RunId :
    /\ err[r] # "none" <=> run[r] = "returned"
    /\ at[r] \in {"detached", "ended"} => run[r] = "returned"
    /\ err[r] = "nil" => proc[r] = "gone"
    /\ err[r] \in {"before", "unreadable"} => r \notin requested

\* An outcome other than parking is planned only for a run that is over with no
\* process left; a retry only where none was requested; no result is discarded.
PlanIsProven ==
  \A r \in RunId :
    /\ plan[r].to # "needs_reconciliation" => run[r] = "returned" /\ proc[r] # "alive"
    /\ plan[r].to = "retry_wait" => r \notin requested
    /\ err[r] = "nil" => plan[r].to \in {"succeeded", "needs_reconciliation"}

OutcomeInvariant == plan \in [RunId -> Plans] /\ RunReturns /\ PlanIsProven

LEMMA ParkIsAPlan == Park("plain") \in Plans /\ Park("plain").to = "needs_reconciliation"
BY DEF Park, Plan, Plans

\* A step that lets the runs be keeps the outcomes, or parks one.
LEMMA OutcomesKept ==
  ASSUME OutcomeInvariant, UNCHANGED <<run, err, proc, requested>>,
         UNCHANGED plan \/ \E r \in RunId : plan' = [plan EXCEPT ![r] = Park("plain")],
         \A r \in RunId : at'[r] \in {"detached", "ended"} =>
                            at[r] \in {"detached", "ended"} \/ run[r] = "returned"
  PROVE  OutcomeInvariant'
<1>1. plan' \in [RunId -> Plans]
  BY ParkIsAPlan DEF OutcomeInvariant
<1>2. \A r \in RunId : plan'[r] = plan[r] \/ plan'[r].to = "needs_reconciliation"
  BY ParkIsAPlan DEF OutcomeInvariant
<1>3. RunReturns' BY DEF OutcomeInvariant, RunReturns
<1>4. PlanIsProven' BY <1>2 DEF OutcomeInvariant, PlanIsProven
<1>. QED BY <1>1, <1>3, <1>4 DEF OutcomeInvariant

\* The plan of an attempt that has just one left to settle it.
LEMMA VerdictIsProven ==
  ASSUME LaunchInvariant, OutcomeInvariant, NEW r \in RunId, run[r] = "returned",
         NEW look \in AliveAnswers(r), NEW v, v = Verdict(r, look)
  PROVE  /\ v \in Plans
         /\ v.to # "needs_reconciliation" => proc[r] # "alive"
         /\ v.to = "retry_wait" => r \notin requested
         /\ err[r] = "nil" => v.to \in {"succeeded", "needs_reconciliation"}
<1>1. err[r] \in Errors \ {"none"}
  BY DEF TypedState, OutcomeInvariant, RunReturns
<1>2. look = "gone" => proc[r] # "alive"
  BY DEF AliveAnswers, TypedState, LaunchIsTruthful
<1>3. CASE err[r] = "unstored"
  BY <1>3 DEF Verdict, Park, Plan, Plans
<1>4. CASE err[r] = "nil"
  <2>1. proc[r] # "alive" BY <1>4 DEF OutcomeInvariant, RunReturns
  <2>. QED BY <1>4, <2>1 DEF Verdict, Plan, Plans
<1>5. CASE err[r] \notin {"unstored", "nil"} /\ r \in cancelRequested
  BY <1>2, <1>5 DEF Verdict, CancelOutcome, Park, Plan, Plans
<1>6. CASE err[r] \notin {"unstored", "nil"} /\ r \notin cancelRequested
  <2>1. v = Classified(r, look) BY <1>6 DEF Verdict
  <2>2. CASE err[r] = "before"
    <3>1. r \notin requested BY <2>2 DEF OutcomeInvariant, RunReturns
    <3>2. proc[r] # "alive" BY <3>1 DEF TypedState, LaunchIsTruthful
    <3>. QED BY <2>1, <2>2, <3>1, <3>2 DEF Classified, Plan, Plans
  <2>3. CASE err[r] = "unreadable"
    <3>1. r \notin requested BY <2>3 DEF OutcomeInvariant, RunReturns
    <3>2. proc[r] # "alive" BY <3>1 DEF TypedState, LaunchIsTruthful
    <3>. QED BY <2>1, <2>3, <3>1, <3>2 DEF Classified, Plan, Plans
  <2>4. CASE err[r] \in {"retained", "detached"}
    BY <2>1, <2>4 DEF Classified, Park, Plan, Plans
  <2>5. CASE err[r] = "unclear"
    BY <2>1, <2>5 DEF Classified, Park, Plan, Plans
  <2>. QED BY <1>1, <1>6, <2>2, <2>3, <2>4, <2>5 DEF Errors
<1>. QED BY <1>3, <1>4, <1>5, <1>6

LEMMA StepKeepsOutcomes ==
  LaunchInvariant /\ OutcomeInvariant /\ [DispatchNext]_allVars => OutcomeInvariant'
<1>. SUFFICES ASSUME LaunchInvariant, OutcomeInvariant, [DispatchNext]_allVars
              PROVE  OutcomeInvariant'
  OBVIOUS
<1>. USE DEF serverVars, supervisorVars, launchVars, runVars, dispatchVars
<1>1. ASSUME NEW d \in Server, Boot(d) \/ Drain(d) \/ Recover(d)
      PROVE  OutcomeInvariant'
  BY <1>1, OutcomesKept DEF Boot, Drain, Recover
<1>2. ASSUME NEW d \in Server, DrainDone(d) \/ Crash(d)
      PROVE  OutcomeInvariant'
  <2>1. Die(d) BY <1>2 DEF DrainDone, Crash
  <2>2. plan' \in [RunId -> Plans]
    BY <2>1, ParkIsAPlan DEF Die, OutcomeInvariant
  <2>3. \A r \in RunId : plan'[r] = plan[r] \/ plan'[r].to = "needs_reconciliation"
    BY <2>1, ParkIsAPlan DEF Die
  <2>4. \A r \in RunId : /\ run[r] = "returned" <=> run'[r] = "returned"
                         /\ at'[r] \in {at[r], "over"}
                         /\ proc'[r] # proc[r] => run[r] = "creating"
    BY <2>1 DEF Die, TypedState
  <2>5. UNCHANGED <<err, requested>> BY <2>1 DEF Die
  <2>6. RunReturns'
    BY <2>4, <2>5 DEF OutcomeInvariant, RunReturns
  <2>7. PlanIsProven'
    BY <2>3, <2>4, <2>5 DEF OutcomeInvariant, PlanIsProven
  <2>. QED BY <2>2, <2>6, <2>7 DEF OutcomeInvariant
<1>3. ASSUME NEW d \in Server, NEW r \in RunId, ClaimOne(d, r)
      PROVE  OutcomeInvariant'
  BY <1>3, OutcomesKept DEF ClaimOne, Move, TypedState
<1>4. ASSUME NEW r \in RunId, CancelledBeforeStart(r) \/ NotAuthorized(r)
      PROVE  OutcomeInvariant'
  BY <1>4, OutcomesKept DEF CancelledBeforeStart, NotAuthorized, Leave, Move, TypedState
<1>5. ASSUME NEW r \in RunId, Start(r)
      PROVE  OutcomeInvariant'
  <2>1. CASE run' = run
    BY <1>5, <2>1, OutcomesKept DEF Start, Leave, Move, TypedState
  <2>2. CASE run' # run
    <3>1. /\ run' = [run EXCEPT ![r] = "spawned"] /\ at' = [at EXCEPT ![r] = "supervised"]
          /\ UNCHANGED <<plan, err, proc, requested>> /\ at[r] = "cleared"
      BY <1>5, <2>2 DEF Start, Leave, Move
    <3>2. run[r] = "none" BY <3>1 DEF LaunchedOnce, Claiming
    <3>. QED BY <3>1, <3>2 DEF OutcomeInvariant, RunReturns, PlanIsProven, TypedState
  <2>. QED BY <2>1, <2>2
<1>6. ASSUME NEW r \in RunId,
             RenewLease(r) \/ ProbeStart(r) \/ Confirm(r) \/ NoticeCancel(r) \/ Escalate(r)
      PROVE  OutcomeInvariant'
  BY <1>6, OutcomesKept DEF RenewLease, ProbeStart, Confirm, NoticeCancel, Escalate, Stop
<1>7. ASSUME NEW r \in RunId, Superseded(r) \/ Abandon(r) \/ Record(r)
      PROVE  OutcomeInvariant'
  BY <1>7, OutcomesKept DEF Superseded, Abandon, Record, Leave, Move, Stop, TypedState
<1>8. ASSUME NEW r \in RunId, RunReturned(r) \/ ProbeDetached(r) \/ GiveUpDetached(r)
      PROVE  OutcomeInvariant'
  BY <1>8, OutcomesKept DEF RunReturned, ProbeDetached, GiveUpDetached, Move, Stop, TypedState
<1>9. ASSUME NEW r \in RunId, ShutdownAttempt(r) \/ LastCall(r)
      PROVE  OutcomeInvariant'
  BY <1>9, OutcomesKept DEF ShutdownAttempt, LastCall, Move, Stop, TypedState
<1>10. ASSUME NEW r \in RunId, Settle(r)
       PROVE  OutcomeInvariant'
  <2>1. run[r] = "returned" BY <1>10 DEF Settle, OutcomeInvariant, RunReturns
  <2>2. PICK look \in AliveAnswers(r) :
          plan' \in {[plan EXCEPT ![r] = Verdict(r, look)], [plan EXCEPT ![r] = Park("plain")]}
    BY <1>10 DEF Settle
  <2>3. at' = [at EXCEPT ![r] = "settling"] /\ UNCHANGED <<run, err, proc, requested>>
    BY <1>10 DEF Settle, Move
  <2>4. CASE plan' = [plan EXCEPT ![r] = Park("plain")]
    BY <2>3, <2>4, OutcomesKept DEF TypedState
  <2>5. CASE plan' = [plan EXCEPT ![r] = Verdict(r, look)]
    <3>1. PICK v : v = Verdict(r, look) OBVIOUS
    <3>2. /\ v \in Plans
          /\ v.to # "needs_reconciliation" => proc[r] # "alive"
          /\ v.to = "retry_wait" => r \notin requested
          /\ err[r] = "nil" => v.to \in {"succeeded", "needs_reconciliation"}
      BY <2>1, <3>1, VerdictIsProven
    <3>3. plan' = [plan EXCEPT ![r] = v] BY <2>5, <3>1
    <3>4. plan' \in [RunId -> Plans] BY <3>2, <3>3 DEF OutcomeInvariant
    <3>5. RunReturns' BY <2>3 DEF OutcomeInvariant, RunReturns, TypedState
    <3>6. PlanIsProven'
      BY <2>1, <2>3, <3>2, <3>3 DEF OutcomeInvariant, PlanIsProven
    <3>. QED BY <3>4, <3>5, <3>6 DEF OutcomeInvariant
  <2>. QED BY <2>2, <2>4, <2>5
<1>11. ASSUME NEW r \in RunId, ReadInput(r) \/ FailBeforeAgent(r) \/ StreamEnds(r)
       PROVE  OutcomeInvariant'
  <2>1. /\ UNCHANGED <<plan, at, proc, requested>>
        /\ run[r] \in {"spawned", "preparing", "streaming"}
        /\ \/ run' = [run EXCEPT ![r] = "preparing"] /\ UNCHANGED err
           \/ \E e \in Errors \ {"none"} :
                /\ Returns(r, e)
                /\ e = "nil" => proc[r] = "gone"
                /\ e \in {"before", "unreadable"} => run[r] # "streaming"
    BY <1>11 DEF ReadInput, FailBeforeAgent, StreamEnds, Returns, Errors
  <2>2. run[r] # "streaming" => r \notin requested
    BY <2>1 DEF LaunchedOnce
  <2>3. RunReturns'
    BY <2>1, <2>2 DEF OutcomeInvariant, RunReturns, Returns, TypedState
  <2>4. PlanIsProven'
    BY <2>1 DEF OutcomeInvariant, PlanIsProven, Returns, TypedState
  <2>. QED BY <2>1, <2>3, <2>4 DEF OutcomeInvariant
<1>12. ASSUME NEW r \in RunId, RequestCreation(r)
       PROVE  OutcomeInvariant'
  <2>1. /\ UNCHANGED <<plan, at, proc>> /\ run[r] = "preparing" /\ r \notin requested
        /\ \/ /\ run' = [run EXCEPT ![r] = "creating"] /\ requested' = requested \cup {r}
              /\ UNCHANGED err
           \/ Returns(r, "before") /\ UNCHANGED requested
    BY <1>12 DEF RequestCreation, LaunchedOnce
  <2>2. RunReturns'
    BY <2>1 DEF OutcomeInvariant, RunReturns, Returns, TypedState
  <2>3. PlanIsProven'
    BY <2>1 DEF OutcomeInvariant, PlanIsProven, Returns, TypedState
  <2>. QED BY <2>1, <2>2, <2>3 DEF OutcomeInvariant
<1>13. ASSUME NEW r \in RunId, CreateProcess(r) \/ CreationFails(r) \/ ProcessExits(r)
       PROVE  OutcomeInvariant'
  <2>1. /\ UNCHANGED <<plan, at, requested>>
        /\ \E p \in {"none", "alive", "gone"} :
             /\ proc' = [proc EXCEPT ![r] = p]
             /\ run[r] = "creating" \/ p = "gone"
        /\ \/ UNCHANGED <<run, err>>
           \/ run[r] = "creating" /\ run' = [run EXCEPT ![r] = "streaming"] /\ UNCHANGED err
           \/ run[r] = "creating" /\ \E e \in {"unclear", "retained", "unstored"} : Returns(r, e)
    BY <1>13 DEF CreateProcess, CreationFails, ProcessExits
  <2>2. RunReturns'
    BY <2>1 DEF OutcomeInvariant, RunReturns, Returns, TypedState
  <2>3. PlanIsProven'
    BY <2>1 DEF OutcomeInvariant, RunReturns, PlanIsProven, Returns, TypedState
  <2>. QED BY <2>1, <2>2, <2>3 DEF OutcomeInvariant
<1>14. ASSUME NEW r \in RunId, StreamEvent(r)
       PROVE  OutcomeInvariant'
  BY <1>14, OutcomesKept DEF StreamEvent
<1>15. ASSUME NEW w \in Work, NEW to \in Resolutions, Operate(w, to)
       PROVE  OutcomeInvariant'
  BY <1>15, OutcomesKept DEF Operate
<1>16. CASE Surroundings \/ UNCHANGED allVars
  BY <1>16, OutcomesKept DEF Surroundings, allVars
<1>. QED
  BY <1>1, <1>2, <1>3, <1>4, <1>5, <1>6, <1>7, <1>8, <1>9, <1>10, <1>11, <1>12,
     <1>13, <1>14, <1>15, <1>16
     DEF DispatchNext, Supervisor, Execution

-----------------------------------------------------------------------------
(***************************************************************************)
(* The dispatcher uses the ledger through its protocol only.               *)
(***************************************************************************)

DispatchTargets == {"succeeded", "failed", "cancelled", "retry_wait", "needs_reconciliation"}
Reasons == {"plain", "stopped", "retained"}

LEMMA PlanIsATarget ==
  ASSUME NEW p \in Plans
  PROVE  p.to \in DispatchTargets /\ p.why \in Reasons
BY DEF Plans, DispatchTargets, Reasons

\* What a supervisor or a run writes names the attempt it was started for.
LEMMA HolderWrites ==
  ASSUME TypeOK, Fence, NEW r \in RunId, phase[r] # "none", Worker(owner[r], r, gen[r])
  PROVE  Next
<1>1. owner[r] \in Work
  BY DEF TypeOK, Fence, RowsAreOwned
<1>2. gen[r] \in Generations
  BY DEF Generations
<1>. QED BY <1>1, <1>2 DEF Next

LEMMA TransitionIsNext ==
  ASSUME TypeOK, Fence, NEW r \in RunId, NEW to \in DispatchTargets, NEW why \in Reasons,
         Transition(owner[r], r, gen[r], to, why)
  PROVE  Next
<1>1. phase[r] # "none"
  BY DEF Transition, Bound
<1>2. to \in Targets /\ why \in {"plain", "stopped", "retained"}
  BY DispatchAssumption DEF DispatchTargets, Reasons
<1>3. Worker(owner[r], r, gen[r])
  BY <1>2 DEF Worker
<1>. QED BY <1>1, <1>3, HolderWrites

LEMMA FinishIsNext ==
  ASSUME TypeOK, Fence, NEW r \in RunId, NEW to \in DispatchTargets, NEW why \in Reasons,
         Finish(r, to, why)
  PROVE  [Next]_vars
<1>1. "needs_reconciliation" \in DispatchTargets /\ "plain" \in Reasons
  BY DEF DispatchTargets, Reasons
<1>. QED BY <1>1, TransitionIsNext DEF Finish

LEMMA StagingIsNext ==
  ASSUME TypeOK, Fence, NEW r \in RunId, NEW x \in {"partial", "exit0", "exit1"}, Stages(r, x)
  PROVE  Next
<1>1. x \in Outputs BY DispatchAssumption
<1>2. phase[r] # "none" /\ Worker(owner[r], r, gen[r])
  BY <1>1 DEF Stages, StageRunResult, Worker
<1>. QED BY <1>2, HolderWrites

LEMMA StepIsALedgerStep ==
  ASSUME TypeOK, Fence, plan \in [RunId -> Plans], [DispatchNext]_allVars
  PROVE  [Next]_vars
<1>. USE DEF serverVars, supervisorVars, launchVars, runVars, dispatchVars
<1>0. DispatchTargets = {"succeeded", "failed", "cancelled", "retry_wait", "needs_reconciliation"}
      /\ Reasons = {"plain", "stopped", "retained"}
  BY DEF DispatchTargets, Reasons
<1>1. ASSUME NEW d \in Server, Boot(d) \/ Drain(d) \/ Recover(d) \/ DrainDone(d) \/ Crash(d)
      PROVE  [Next]_vars
  BY <1>1 DEF Boot, Drain, Recover, DrainDone, Crash, Die, Next
<1>2. ASSUME NEW d \in Server, NEW r \in RunId, ClaimOne(d, r)
      PROVE  [Next]_vars
  BY <1>2 DEF ClaimOne, Next
<1>3. ASSUME NEW r \in RunId, CancelledBeforeStart(r)
      PROVE  [Next]_vars
  BY <1>0, <1>3, TransitionIsNext DEF CancelledBeforeStart
<1>4. ASSUME NEW r \in RunId, NotAuthorized(r)
      PROVE  [Next]_vars
  <2>1. CASE Defer(owner[r], r, gen[r])
    BY <2>1, HolderWrites DEF Defer, Bound, Worker
  <2>. QED BY <1>0, <1>4, <2>1, FinishIsNext DEF NotAuthorized
<1>5. ASSUME NEW r \in RunId, Start(r)
      PROVE  [Next]_vars
  <2>1. CASE MarkStarting(owner[r], r, gen[r])
    BY <2>1, HolderWrites DEF MarkStarting, Bound, Worker
  <2>. QED BY <1>0, <1>5, <2>1, FinishIsNext DEF Start
<1>6. ASSUME NEW r \in RunId, RenewLease(r)
      PROVE  [Next]_vars
  <2>1. gen[r] \in Generations BY DEF Generations
  <2>. QED BY <1>6, <2>1 DEF RenewLease, Next
<1>7. ASSUME NEW r \in RunId, Confirm(r)
      PROVE  [Next]_vars
  BY <1>7, HolderWrites DEF Confirm, StartRunning, Bound, Worker
<1>8. ASSUME NEW r \in RunId, Abandon(r)
      PROVE  [Next]_vars
  BY <1>0, <1>8, FinishIsNext DEF Abandon
<1>9. ASSUME NEW r \in RunId, Record(r)
      PROVE  [Next]_vars
  <2>1. PICK to, why : to = plan[r].to /\ why = plan[r].why OBVIOUS
  <2>2. to \in DispatchTargets /\ why \in Reasons
    BY <2>1, PlanIsATarget
  <2>3. Finish(r, to, why) BY <1>9, <2>1 DEF Record
  <2>. QED BY <2>2, <2>3, FinishIsNext
<1>10. ASSUME NEW r \in RunId,
              \/ Superseded(r) \/ ProbeStart(r) \/ NoticeCancel(r) \/ Escalate(r)
              \/ RunReturned(r) \/ ProbeDetached(r) \/ GiveUpDetached(r)
              \/ ShutdownAttempt(r) \/ LastCall(r) \/ Settle(r)
              \/ ReadInput(r) \/ CreateProcess(r) \/ StreamEvent(r) \/ ProcessExits(r)
       PROVE  [Next]_vars
  BY <1>10
     DEF Superseded, ProbeStart, NoticeCancel, Escalate, RunReturned, ProbeDetached,
         GiveUpDetached, ShutdownAttempt, LastCall, Settle, ReadInput, CreateProcess,
         StreamEvent, ProcessExits
<1>11. ASSUME NEW r \in RunId, RequestCreation(r)
       PROVE  [Next]_vars
  BY <1>11, HolderWrites DEF RequestCreation, MarkRuntimeRequested, Bound, Worker
<1>12. ASSUME NEW r \in RunId, FailBeforeAgent(r) \/ CreationFails(r) \/ StreamEnds(r)
       PROVE  [Next]_vars
  BY <1>12, StagingIsNext DEF FailBeforeAgent, CreationFails, StreamEnds
<1>13. ASSUME NEW w \in Work, NEW to \in Resolutions, Operate(w, to)
       PROVE  [Next]_vars
  <2>1. generation[w] \in Generations /\ to \in States
    BY DispatchAssumption DEF Generations
  <2>. QED BY <1>13, <2>1 DEF Operate, Next
<1>14. CASE Surroundings
  BY <1>14 DEF Surroundings, Next, Clock
<1>15. CASE UNCHANGED allVars
  BY <1>15 DEF allVars
<1>. QED
  BY <1>1, <1>2, <1>3, <1>4, <1>5, <1>6, <1>7, <1>8, <1>9, <1>10, <1>11, <1>12, <1>13,
     <1>14, <1>15
     DEF DispatchNext, Supervisor, Execution

DispatchInvariant == LaunchInvariant /\ OutcomeInvariant /\ TypeOK /\ Fence

LEMMA InvariantInit == DispatchInit => DispatchInvariant
<1>. SUFFICES ASSUME DispatchInit PROVE DispatchInvariant OBVIOUS
<1>1. LaunchInvariant
  BY DEF DispatchInit, Init, TypedState, LaunchedOnce, LaunchIsTruthful, StopClosedTheGate,
         Phases, Places, Claiming, Supervised, RunPlaces, Errors
<1>2. OutcomeInvariant
  BY ParkIsAPlan DEF DispatchInit, OutcomeInvariant, RunReturns, PlanIsProven
<1>3. TypeOK /\ Fence
  BY TypeInit, FenceInit DEF DispatchInit
<1>. QED BY <1>1, <1>2, <1>3 DEF DispatchInvariant

LEMMA InvariantStep ==
  DispatchInvariant /\ [DispatchNext]_allVars => DispatchInvariant' /\ [Next]_vars
<1>. SUFFICES ASSUME DispatchInvariant, [DispatchNext]_allVars
              PROVE  DispatchInvariant' /\ [Next]_vars
  OBVIOUS
<1>1. LaunchInvariant /\ OutcomeInvariant /\ TypeOK /\ Fence BY DEF DispatchInvariant
<1>2. [Next]_vars BY <1>1, StepIsALedgerStep DEF OutcomeInvariant
<1>3. (LaunchInvariant /\ OutcomeInvariant)'
  BY <1>1, StepKeepsLaunches, StepKeepsOutcomes
<1>4. (TypeOK /\ Fence)' BY <1>1, <1>2, TypeStep, FenceStep
<1>. QED BY <1>2, <1>3, <1>4 DEF DispatchInvariant

\* Every step of a server, a supervisor, a run or an operator is a step of the
\* ledger or leaves it alone: the specification of the dispatcher implements the
\* one of the ledger, and every theorem about Spec holds of DispatchSpec.
THEOREM DispatcherKeepsTheProtocol == DispatchSpec => ImplementsLedger
<1>1. DispatchInit => Init BY DEF DispatchInit
<1>. QED BY <1>1, InvariantInit, InvariantStep, PTL DEF DispatchSpec, ImplementsLedger, Spec

-----------------------------------------------------------------------------
(***************************************************************************)
(* Types, and the launch state against the attempt row                     *)
(***************************************************************************)

Servers ==
  /\ mode \in [Server -> {"up", "draining", "down"}] /\ restarts \in 0 .. MaxRestarts
  /\ watch \in [RunId -> {"polling", "grace", "abandoned", "done"}]
  /\ stopped \subseteq RunId /\ operator \subseteq Work

\* A creation is requested on the row before it is requested of the provider, and
\* confirmed only afterwards.
RequestsOnRecord ==
  /\ confirmed \subseteq requested
  /\ requested \subseteq {r \in RunId : phase[r] \in {"requested", "confirmed"}}

\* No transaction takes a declared runtime back.
PhasesAdvance ==
  \A r \in RunId : phase[r] \in {"requested", "confirmed"} =>
                     phase'[r] \in {"requested", "confirmed"}

LEMMA LedgerAdvances ==
  ASSUME TypeOK, [Next]_vars
  PROVE  PhasesAdvance
<1>. USE DEF PhasesAdvance, TypeOK
<1>1. ASSUME NEW w \in Work, AcceptTx(w) \/ RequestCancel(w) PROVE PhasesAdvance
  BY <1>1 DEF AcceptTx, RequestCancel, attemptVars
<1>2. ASSUME NEW mine \in Kinds, ClaimNothing(mine) PROVE PhasesAdvance
  BY <1>2 DEF ClaimNothing, attemptVars
<1>3. ASSUME NEW mine \in Kinds, NEW r \in RunId, Claim(mine, r) PROVE PhasesAdvance
  BY <1>3 DEF Claim, Fresh, StartAttempt
<1>4. ASSUME NEW w \in Work, NEW r \in RunId, NEW g \in Generations, Worker(w, r, g)
      PROVE  PhasesAdvance
  BY <1>4 DEF Worker, MarkStarting, MarkRuntimeRequested, StartRunning, Transition, Defer,
              StageRunResult, attemptVars
<1>5. ASSUME NEW r \in RunId, NEW g \in Generations, Heartbeat(r, g) PROVE PhasesAdvance
  BY <1>5 DEF Heartbeat, attemptVars
<1>6. CASE RecoverExpiredLeases
  BY <1>6 DEF RecoverExpiredLeases
<1>7. ASSUME NEW w \in Work, NEW g \in Generations, NEW to \in States, Resolve(w, g, to)
      PROVE  PhasesAdvance
  BY <1>7 DEF Resolve, attemptVars
<1>8. ASSUME NEW w \in HostChat, NEW r \in RunId, BeginHostChat(w, r) PROVE PhasesAdvance
  BY <1>8 DEF BeginHostChat, Fresh, StartAttempt
<1>9. ASSUME NEW r \in RunId, Chatter(r) PROVE PhasesAdvance
  BY <1>9 DEF Chatter, HostChatPhase, FinishHostChat, MarkRuntimeRequested, StartRunning,
              Heartbeat, attemptVars
<1>10. ASSUME NEW r \in RunId, NEW x, NEW ok, RecoverRetainedResult(r, x, ok) PROVE PhasesAdvance
  BY <1>10 DEF RecoverRetainedResult, attemptVars
<1>11. ASSUME NEW r \in RunId, DeliverRun(r) \/ MarkRunProjected(r) PROVE PhasesAdvance
  BY <1>11 DEF DeliverRun, MarkRunProjected, attemptVars
<1>12. CASE Clock
  BY <1>12 DEF Clock, LeaseLapse, BecomeEligible, DeadlinePass, LegacyRun, attemptVars
<1>13. CASE UNCHANGED vars
  BY <1>13 DEF vars, attemptVars
<1>. QED
  BY <1>1, <1>2, <1>3, <1>4, <1>5, <1>6, <1>7, <1>8, <1>9, <1>10, <1>11, <1>12, <1>13 DEF Next

LEMMA TypesStep ==
  ASSUME LaunchInvariant, TypeOK, [Next]_vars, Servers, RequestsOnRecord,
         [DispatchNext]_allVars
  PROVE  Servers' /\ RequestsOnRecord'
<1>. USE DEF serverVars, supervisorVars, launchVars, runVars, dispatchVars
<1>0. PhasesAdvance BY LedgerAdvances
<1>1. ASSUME UNCHANGED <<requested, confirmed>> PROVE RequestsOnRecord'
  BY <1>0, <1>1 DEF RequestsOnRecord, PhasesAdvance
<1>2. ASSUME UNCHANGED <<mode, restarts, stopped, operator>>,
             watch' = watch \/ \E r \in RunId : watch' = [watch EXCEPT ![r] = "done"]
      PROVE  Servers'
  BY <1>2 DEF Servers
<1>3. ASSUME NEW r \in RunId, NEW answer, Stop(r, answer)
      PROVE  stopped' \subseteq RunId /\ RequestsOnRecord'
  <2>1. stopped' \subseteq RunId BY <1>3 DEF Stop, Servers
  <2>2. confirmed' \subseteq requested BY <1>3 DEF Stop, CreationPending, RequestsOnRecord
  <2>3. UNCHANGED requested BY <1>3 DEF Stop
  <2>. QED BY <1>0, <2>1, <2>2, <2>3 DEF RequestsOnRecord, PhasesAdvance
<1>4. ASSUME NEW d \in Server, Boot(d) \/ Drain(d) \/ Recover(d)
      PROVE  Servers' /\ RequestsOnRecord'
  <2>1. Servers'
    BY <1>4, DispatchAssumption DEF Boot, Drain, Recover, Servers
  <2>. QED BY <1>1, <1>4, <2>1 DEF Boot, Drain, Recover
<1>5. ASSUME NEW d \in Server, DrainDone(d) \/ Crash(d)
      PROVE  Servers' /\ RequestsOnRecord'
  <2>1. Die(d) BY <1>5 DEF DrainDone, Crash
  <2>2. restarts' \in 0 .. MaxRestarts
    BY <1>5, DispatchAssumption DEF DrainDone, Crash, Servers
  <2>3. watch' \in [RunId -> {"polling", "grace", "abandoned", "done"}]
    BY <2>1 DEF Die, Servers
  <2>4. mode' \in [Server -> {"up", "draining", "down"}] BY <2>1 DEF Die, Servers
  <2>5. Servers' BY <2>1, <2>2, <2>3, <2>4 DEF Die, Servers
  <2>. QED BY <1>1, <2>1, <2>5 DEF Die
<1>6. ASSUME NEW d \in Server, NEW r \in RunId, ClaimOne(d, r)
      PROVE  Servers' /\ RequestsOnRecord'
  BY <1>1, <1>2, <1>6 DEF ClaimOne
<1>7. ASSUME NEW r \in RunId, CancelledBeforeStart(r) \/ NotAuthorized(r) \/ Abandon(r) \/ Record(r)
      PROVE  Servers' /\ RequestsOnRecord'
  BY <1>1, <1>2, <1>7 DEF CancelledBeforeStart, NotAuthorized, Abandon, Record, Leave
<1>8. ASSUME NEW r \in RunId, Start(r)
      PROVE  Servers' /\ RequestsOnRecord'
  <2>1. Servers' BY <1>8 DEF Start, Leave, Servers
  <2>. QED BY <1>1, <1>8, <2>1 DEF Start
<1>9. ASSUME NEW r \in RunId, RenewLease(r) \/ Confirm(r)
      PROVE  Servers' /\ RequestsOnRecord'
  BY <1>1, <1>2, <1>9 DEF RenewLease, Confirm
<1>10. ASSUME NEW r \in RunId, Superseded(r) \/ GiveUpDetached(r) \/ ShutdownAttempt(r)
       PROVE  Servers' /\ RequestsOnRecord'
  <2>1. stopped' \subseteq RunId /\ RequestsOnRecord'
    BY <1>3, <1>10 DEF Superseded, GiveUpDetached, ShutdownAttempt
  <2>2. /\ UNCHANGED <<mode, restarts, operator>>
        /\ watch' = watch \/ watch' = [watch EXCEPT ![r] = "done"]
    BY <1>10 DEF Superseded, GiveUpDetached, ShutdownAttempt, Leave
  <2>. QED BY <2>1, <2>2 DEF Servers
<1>11. ASSUME NEW r \in RunId, NoticeCancel(r) \/ Escalate(r)
       PROVE  Servers' /\ RequestsOnRecord'
  <2>1. stopped' \subseteq RunId /\ RequestsOnRecord'
    BY <1>3, <1>11 DEF NoticeCancel, Escalate
  <2>2. /\ UNCHANGED <<mode, restarts, operator>>
        /\ \E x \in {"done", "grace", "abandoned"} : watch' = [watch EXCEPT ![r] = x]
    BY <1>11 DEF NoticeCancel, Escalate, AfterEscalation
  <2>. QED BY <2>1, <2>2 DEF Servers
<1>12. ASSUME NEW r \in RunId, ProbeStart(r) \/ StreamEvent(r)
       PROVE  Servers' /\ RequestsOnRecord'
  <2>1. r \in requested
    BY <1>12 DEF ProbeStart, StreamEvent, AliveAnswers, LaunchIsTruthful
  <2>2. confirmed' = confirmed \cup {r} /\ UNCHANGED requested
    BY <1>12 DEF ProbeStart, StreamEvent
  <2>3. RequestsOnRecord' BY <1>0, <2>1, <2>2 DEF RequestsOnRecord, PhasesAdvance
  <2>. QED BY <1>2, <1>12, <2>3 DEF ProbeStart, StreamEvent
<1>13. ASSUME NEW r \in RunId,
              RunReturned(r) \/ ProbeDetached(r) \/ LastCall(r) \/ Settle(r)
       PROVE  Servers' /\ RequestsOnRecord'
  BY <1>1, <1>2, <1>13 DEF RunReturned, ProbeDetached, LastCall, Settle
<1>14. ASSUME NEW r \in RunId,
              \/ ReadInput(r) \/ FailBeforeAgent(r) \/ CreateProcess(r) \/ CreationFails(r)
              \/ StreamEnds(r) \/ ProcessExits(r)
       PROVE  Servers' /\ RequestsOnRecord'
  BY <1>1, <1>2, <1>14
     DEF ReadInput, FailBeforeAgent, CreateProcess, CreationFails, StreamEnds, ProcessExits
<1>15. ASSUME NEW r \in RunId, RequestCreation(r)
       PROVE  Servers' /\ RequestsOnRecord'
  <2>1. phase'[r] = "requested"
    BY <1>15 DEF RequestCreation, MarkRuntimeRequested, TypedState
  <2>2. UNCHANGED confirmed /\ requested' \in {requested, requested \cup {r}}
    BY <1>15 DEF RequestCreation
  <2>3. RequestsOnRecord' BY <1>0, <2>1, <2>2 DEF RequestsOnRecord, PhasesAdvance
  <2>. QED BY <1>2, <1>15, <2>3 DEF RequestCreation
<1>16. ASSUME NEW w \in Work, NEW to \in Resolutions, Operate(w, to)
       PROVE  Servers' /\ RequestsOnRecord'
  <2>1. Servers' BY <1>16 DEF Operate, Servers
  <2>. QED BY <1>1, <1>16, <2>1 DEF Operate
<1>17. CASE Surroundings \/ UNCHANGED allVars
  BY <1>1, <1>2, <1>17 DEF Surroundings, allVars
<1>. QED
  BY <1>4, <1>5, <1>6, <1>7, <1>8, <1>9, <1>10, <1>11, <1>12, <1>13, <1>14, <1>15,
     <1>16, <1>17
     DEF DispatchNext, Supervisor, Execution

\* The dispatcher's state keeps its types, and what a launch believes is backed by
\* the attempt row: a process is confirmed only after its creation was requested,
\* and no creation is requested that recovery would not find on the row.
THEOREM DispatchTypes == DispatchSpec => []DispatchTypeOK
<1>1. DispatchInit => Servers /\ RequestsOnRecord
  BY DispatchAssumption DEF DispatchInit, Servers, RequestsOnRecord
<1>2. DispatchInvariant /\ Servers /\ RequestsOnRecord /\ [DispatchNext]_allVars
        => (Servers /\ RequestsOnRecord)'
  <2>. SUFFICES ASSUME DispatchInvariant, Servers, RequestsOnRecord, [DispatchNext]_allVars
                PROVE  (Servers /\ RequestsOnRecord)'
    OBVIOUS
  <2>1. [Next]_vars BY InvariantStep
  <2>. QED BY <2>1, TypesStep DEF DispatchInvariant
<1>3. DispatchInvariant /\ Servers /\ RequestsOnRecord => DispatchTypeOK
  BY DEF DispatchInvariant, Servers, RequestsOnRecord, TypedState, OutcomeInvariant, DispatchTypeOK
<1>. QED BY <1>1, <1>2, <1>3, InvariantInit, InvariantStep, PTL DEF DispatchSpec

-----------------------------------------------------------------------------
(***************************************************************************)
(* The slot of a live process.  An attempt whose creation was requested    *)
(* is open, or its work is settled or parked; it is parked for as long as  *)
(* the run or the process goes on.                                         *)
(***************************************************************************)

Closed == Terminal \cup {"needs_reconciliation"}

\* The creation was admitted, and run or process may still go on.
Unfinished(r) == r \in requested /\ (run[r] # "returned" \/ proc[r] = "alive")

Accounted(r) ==
  r \notin open /\ owner[r] \notin operator =>
    /\ Unfinished(r) => state[owner[r]] = "needs_reconciliation"
    /\ r \in requested => state[owner[r]] \in Closed
    /\ err[r] = "nil" => state[owner[r]] \in {"succeeded", "needs_reconciliation"}

OneRequest ==
  \A r, s \in RunId :
    r \in requested /\ s \in requested /\ owner[r] = owner[s] /\ owner[r] \notin operator => r = s

Slotted ==
  /\ DispatchInvariant /\ RequestsOnRecord /\ NobodyWaits
  /\ \A r \in RunId : Accounted(r)
  /\ OneRequest

\* What a transaction that closes the attempts in gone does to all others.
SparesAllBut(gone) ==
  /\ \A s \in RunId : phase[s] # "none" => owner'[s] = owner[s]
  /\ \A s \in RunId \ gone : phase[s] # "none" =>
       /\ s \in open => s \in open'
       /\ s \notin open /\ state[owner[s]] \in Closed => state'[owner[s]] = state[owner[s]]

\* What a step may do to the runtime of an attempt.
RuntimeStep(s) ==
  /\ Unfinished(s)' => Unfinished(s) \/ s \in open'
  /\ s \in requested' => s \in requested \/ s \in open'
  /\ err'[s] = "nil" => err[s] = "nil" \/ Unfinished(s)

\* An attempt without a row, or with a planned one, has not asked for anything.
LEMMA NothingAsked ==
  ASSUME LaunchInvariant, OutcomeInvariant, RequestsOnRecord, NEW r \in RunId,
         phase[r] \in {"none", "planned", "starting"}
  PROVE  r \notin requested /\ proc[r] = "none" /\ err[r] # "nil"
BY DEF RequestsOnRecord, TypedState, LaunchIsTruthful, OutcomeInvariant, RunReturns

LEMMA AccountsKept ==
  ASSUME Slotted, NEW gone \in SUBSET RunId, SparesAllBut(gone), operator \subseteq operator',
         \A s \in RunId : RuntimeStep(s),
         NEW s \in RunId, s \in gone => Accounted(s)'
  PROVE  Accounted(s)'
<1>. SUFFICES ASSUME s \notin gone, s \notin open', owner'[s] \notin operator'
              PROVE  /\ Unfinished(s)' => state'[owner'[s]] = "needs_reconciliation"
                     /\ s \in requested' => state'[owner'[s]] \in Closed
                     /\ err'[s] = "nil" => state'[owner'[s]] \in {"succeeded", "needs_reconciliation"}
  BY DEF Accounted
<1>1. /\ Unfinished(s)' => Unfinished(s)
      /\ s \in requested' => s \in requested
      /\ err'[s] = "nil" => err[s] = "nil" \/ Unfinished(s)
  BY DEF RuntimeStep
<1>2. CASE phase[s] = "none"
  <2>1. s \notin requested /\ err[s] # "nil"
    BY <1>2, NothingAsked DEF Slotted, DispatchInvariant
  <2>. QED BY <1>1, <2>1 DEF Unfinished
<1>3. CASE phase[s] # "none"
  <2>1. owner'[s] = owner[s] /\ s \notin open /\ owner[s] \notin operator
    BY <1>3 DEF SparesAllBut
  <2>2. state[owner[s]] \in Closed => state'[owner[s]] = state[owner[s]]
    BY <1>3, <2>1 DEF SparesAllBut
  <2>3. /\ Unfinished(s) => state[owner[s]] = "needs_reconciliation"
        /\ s \in requested => state[owner[s]] \in Closed
        /\ err[s] = "nil" => state[owner[s]] \in {"succeeded", "needs_reconciliation"}
    BY <2>1 DEF Slotted, Accounted
  <2>. QED BY <1>1, <2>1, <2>2, <2>3 DEF Closed, Terminal
<1>. QED BY <1>2, <1>3

LEMMA OneRequestKept ==
  ASSUME Slotted, NEW gone, SparesAllBut(gone), operator \subseteq operator', UNCHANGED requested
  PROVE  OneRequest'
<1>1. \A r \in RunId : r \in requested => owner'[r] = owner[r]
  BY DEF SparesAllBut, Slotted, RequestsOnRecord
<1>. QED BY <1>1 DEF Slotted, OneRequest

\* Two open attempts of a work item are one, and their item is executing.
LEMMA OpenIsAlone ==
  ASSUME TypeOK, Fence, NEW r \in open, NEW s \in RunId, phase[s] # "none", owner[s] = owner[r]
  PROVE  /\ s \in open => s = r
         /\ owner[r] \in Work /\ state[owner[r]] \in Executing
BY DEF TypeOK, Fence, OpenIsCurrent, GenerationsDistinct, RowsAreOwned

LEMMA QuietSpares ==
  ASSUME UNCHANGED <<state, owner, open>>, NobodyWaits
  PROVE  SparesAllBut({}) /\ NobodyWaits'
BY DEF SparesAllBut, NobodyWaits

LEMMA TransitionSpares ==
  ASSUME TypeOK, Fence, NobodyWaits, NEW r \in RunId, NEW to \in DispatchTargets, NEW why,
         Transition(owner[r], r, gen[r], to, why)
  PROVE  /\ SparesAllBut({r}) /\ NobodyWaits'
         /\ UNCHANGED owner
         /\ owner[r] \in Work /\ state'[owner[r]] = Landing(owner[r], to)
<1>1. PICK w, into : w = owner[r] /\ into = Landing(owner[r], to) OBVIOUS
<1>2. /\ r \in open /\ phase[r] # "none" /\ UNCHANGED owner
      /\ state' = [state EXCEPT ![w] = into]
      /\ into \in {"succeeded", "failed", "cancelled", "retry_wait", "needs_reconciliation"}
      /\ open' = open \ {r} \/ UNCHANGED open
  BY <1>1 DEF Transition, Bound, SetState, EndAttempt, Landing, DispatchTargets
<1>3. w \in Work BY <1>1, <1>2, OpenIsAlone
<1>4. state'[w] = into /\ \A v \in Work : state'[v] = into \/ state'[v] = state[v]
  BY <1>2, <1>3 DEF TypeOK
<1>5. NobodyWaits' BY <1>2, <1>4 DEF NobodyWaits
<1>6. ASSUME NEW s \in RunId \ {r}, phase[s] # "none"
      PROVE  /\ s \in open => s \in open'
             /\ s \notin open /\ state[owner[s]] \in Closed => state'[owner[s]] = state[owner[s]]
  <2>1. s \in open => s \in open' BY <1>2
  <2>2. owner[s] = w => state[owner[s]] \notin Closed
    BY <1>1, <1>2, <1>6, OpenIsAlone DEF Executing, Closed, Terminal
  <2>3. owner[s] # w => state'[owner[s]] = state[owner[s]]
    BY <1>2, <1>6 DEF TypeOK, Fence, RowsAreOwned
  <2>. QED BY <2>1, <2>2, <2>3
<1>7. SparesAllBut({r}) BY <1>2, <1>6 DEF SparesAllBut
<1>. QED BY <1>1, <1>2, <1>3, <1>4, <1>5, <1>7

LEMMA DeferSpares ==
  ASSUME TypeOK, Fence, NobodyWaits, NEW r \in RunId, Defer(owner[r], r, gen[r])
  PROVE  SparesAllBut({r}) /\ NobodyWaits' /\ phase[r] = "planned"
<1>1. PICK w : w = owner[r] OBVIOUS
<1>2. /\ r \in open /\ phase[r] = "planned" /\ UNCHANGED owner
      /\ \E into \in {"cancelled", "queued"} : state' = [state EXCEPT ![w] = into]
      /\ open' = open \ {r}
  BY <1>1 DEF Defer, Bound, Returnable, SetState, EndAttempt
<1>3. w \in Work BY <1>1, <1>2, OpenIsAlone
<1>4. NobodyWaits' BY <1>2, <1>3 DEF NobodyWaits, TypeOK
<1>5. ASSUME NEW s \in RunId \ {r}, phase[s] # "none"
      PROVE  /\ s \in open => s \in open'
             /\ s \notin open /\ state[owner[s]] \in Closed => state'[owner[s]] = state[owner[s]]
  <2>1. s \in open => s \in open' BY <1>2
  <2>2. owner[s] = w => state[owner[s]] \notin Closed
    BY <1>1, <1>2, <1>5, OpenIsAlone DEF Executing, Closed, Terminal
  <2>3. owner[s] # w => state'[owner[s]] = state[owner[s]]
    BY <1>2, <1>5 DEF TypeOK, Fence, RowsAreOwned
  <2>. QED BY <2>1, <2>2, <2>3
<1>6. SparesAllBut({r}) BY <1>2, <1>5 DEF SparesAllBut
<1>. QED BY <1>2, <1>4, <1>6

LEMMA RecoverySpares ==
  ASSUME TypeOK, Fence, NobodyWaits, RecoverExpiredLeases
  PROVE  /\ SparesAllBut({r \in RunId : Expired(r)}) /\ NobodyWaits'
         /\ UNCHANGED owner
         /\ \A r \in RunId : Expired(r) =>
              phase[r] = "planned" \/ state'[owner[r]] = "needs_reconciliation"
<1>. DEFINE gone == {r \in RunId : Expired(r)}
<1>1. /\ open' = open \ gone /\ UNCHANGED owner
      /\ state' = [w \in Work |-> IF \E r \in gone : owner[r] = w
                                  THEN RecoveredTo(CHOOSE r \in gone : owner[r] = w)
                                  ELSE state[w]]
  BY DEF RecoverExpiredLeases
<1>2. \A r \in gone : r \in RunId /\ r \in open /\ phase[r] # "none"
  BY WorkAssumption DEF Expired, TypeOK, Fence, OpenIsCurrent, RowsAreOwned
<1>. HIDE DEF gone
<1>3. ASSUME NEW r \in gone
      PROVE  owner[r] \in Work /\ state'[owner[r]] = RecoveredTo(r)
  <2>1. owner[r] \in Work BY <1>2, OpenIsAlone
  <2>2. PICK q : q = CHOOSE x \in gone : owner[x] = owner[r] OBVIOUS
  <2>3. q \in gone /\ owner[q] = owner[r] BY <2>2
  <2>4. q = r BY <1>2, <2>3, OpenIsAlone
  <2>. QED BY <1>1, <2>1, <2>2, <2>4
<1>4. \A w \in Work : state'[w] = state[w] \/ \E r \in gone : owner[r] = w
  BY <1>1
<1>5. NobodyWaits' BY <1>3, <1>4 DEF NobodyWaits, RecoveredTo
<1>6. ASSUME NEW s \in RunId \ gone, phase[s] # "none"
      PROVE  /\ s \in open => s \in open'
             /\ s \notin open /\ state[owner[s]] \in Closed => state'[owner[s]] = state[owner[s]]
  <2>1. s \in open => s \in open' BY <1>1
  <2>2. ASSUME state[owner[s]] \in Closed PROVE ~ \E r \in gone : owner[r] = owner[s]
    BY <1>2, <1>6, <2>2, OpenIsAlone DEF Executing, Closed, Terminal
  <2>3. owner[s] \in Work BY <1>6 DEF TypeOK, Fence, RowsAreOwned
  <2>. QED BY <1>4, <2>1, <2>2, <2>3
<1>7. SparesAllBut(gone) BY <1>1, <1>6 DEF SparesAllBut
<1>8. \A r \in RunId : Expired(r) => r \in gone BY DEF gone
<1>9. \A r \in RunId : Expired(r) =>
        phase[r] = "planned" \/ state'[owner[r]] = "needs_reconciliation"
  BY <1>3, <1>8 DEF RecoveredTo
<1>10. SparesAllBut({r \in RunId : Expired(r)}) BY <1>7 DEF gone
<1>. QED BY <1>1, <1>5, <1>9, <1>10

LEMMA ClaimSpares ==
  ASSUME TypeOK, Fence, NobodyWaits, NEW mine \in Kinds, NEW r \in RunId, Claim(mine, r)
  PROVE  SparesAllBut({}) /\ NobodyWaits'
<1>1. PICK w \in Candidates(mine), failed \in SUBSET Candidates(mine) :
        /\ state' = [FailWork(AfterExpiry, failed) EXCEPT ![w] = "starting"]
        /\ StartAttempt(w, r, "planned")
  BY DEF Claim
<1>2. \A v \in Candidates(mine) : v \in Work /\ state[v] \in Claimable
  BY WorkAssumption DEF Candidates, AfterExpiry, Claimable
<1>3. \A v \in Work : state'[v] = state[v] \/
                      (state[v] \in Claimable /\ state'[v] \in {"starting", "failed", "expired"})
  BY <1>1, <1>2 DEF FailWork, AfterExpiry
<1>4. \A s \in RunId : phase[s] # "none" => owner'[s] = owner[s] /\ owner[s] \in Work
  BY <1>1 DEF Claim, Fresh, StartAttempt, TypeOK, Fence, RowsAreOwned
<1>5. open \subseteq open' BY <1>1 DEF StartAttempt
<1>6. NobodyWaits' BY <1>3 DEF NobodyWaits
<1>7. SparesAllBut({})
  BY <1>3, <1>4, <1>5 DEF SparesAllBut, Closed, Terminal, Claimable
<1>. QED BY <1>6, <1>7

LEMMA RunningSpares ==
  ASSUME TypeOK, Fence, NobodyWaits, NEW r \in RunId, StartRunning(owner[r], r, gen[r])
  PROVE  SparesAllBut({}) /\ NobodyWaits'
<1>1. PICK w : w = owner[r] OBVIOUS
<1>2. /\ r \in open /\ phase[r] # "none" /\ UNCHANGED <<owner, open>>
      /\ state' = [state EXCEPT ![w] = "running"]
  BY <1>1 DEF StartRunning, Bound, SetState
<1>3. w \in Work /\ state[w] \in Executing BY <1>1, <1>2, OpenIsAlone
<1>4. \A s \in RunId : phase[s] # "none" => owner[s] \in Work
  BY DEF TypeOK, Fence, RowsAreOwned
<1>5. \A v \in Work : state'[v] = state[v] \/ (v = w /\ state'[v] = "running")
  BY <1>2 DEF TypeOK
<1>6. NobodyWaits' BY <1>5 DEF NobodyWaits
<1>7. SparesAllBut({})
  BY <1>2, <1>3, <1>4, <1>5 DEF SparesAllBut, Executing, Closed, Terminal
<1>. QED BY <1>6, <1>7

LEMMA SurroundingsSpare ==
  ASSUME TypeOK, Fence, NobodyWaits, Surroundings
  PROVE  SparesAllBut({}) /\ NobodyWaits'
<1>1. \A s \in RunId : phase[s] # "none" => owner[s] \in Work
  BY DEF TypeOK, Fence, RowsAreOwned
<1>2. UNCHANGED <<owner, open>>
  BY DEF Surroundings, AcceptTx, RequestCancel, BecomeEligible, LeaseLapse, attemptVars
<1>3. \A v \in Work : /\ state[v] \in Closed => state'[v] = state[v]
                      /\ state'[v] \in {state[v], "queued", "cancelled", "needs_reconciliation"}
  BY DEF Surroundings, AcceptTx, RequestCancel, Cancellable, BecomeEligible, LeaseLapse,
         SetState, itemVars, TypeOK, Closed, Terminal, Claimable
<1>4. NobodyWaits' BY <1>3 DEF NobodyWaits
<1>5. SparesAllBut({}) BY <1>1, <1>2, <1>3 DEF SparesAllBut
<1>. QED BY <1>4, <1>5

\* A supervisor records only what its run and the runtime back.
Backed(r, to) ==
  /\ to # "needs_reconciliation" => ~ Unfinished(r)
  /\ to = "retry_wait" => r \notin requested
  /\ err[r] = "nil" => to \in {"succeeded", "needs_reconciliation"}

LEMMA RuntimeQuiet ==
  ASSUME UNCHANGED <<run, err, proc, requested>>, NEW s \in RunId
  PROVE  RuntimeStep(s) /\ (Unfinished(s)' <=> Unfinished(s))
BY DEF RuntimeStep, Unfinished

LEMMA TransitionAccounts ==
  ASSUME Slotted, NEW r \in RunId, NEW to \in DispatchTargets, NEW why,
         Transition(owner[r], r, gen[r], to, why), Backed(r, to),
         UNCHANGED <<run, err, proc, requested, operator>>
  PROVE  NobodyWaits' /\ OneRequest' /\ \A s \in RunId : Accounted(s)'
<1>1. TypeOK /\ Fence /\ NobodyWaits BY DEF Slotted, DispatchInvariant
<1>2. /\ SparesAllBut({r}) /\ NobodyWaits' /\ UNCHANGED owner
      /\ state'[owner[r]] = Landing(owner[r], to)
  BY <1>1, TransitionSpares
<1>3. PICK into : into = Landing(owner[r], to) OBVIOUS
<1>4. /\ into = to \/ (into = "failed" /\ to = "retry_wait")
      /\ to \in {"succeeded", "failed", "cancelled", "retry_wait", "needs_reconciliation"}
  BY <1>3 DEF Landing, DispatchTargets
<1>5. Accounted(r)'
  BY <1>2, <1>3, <1>4, RuntimeQuiet DEF Accounted, Backed, Closed, Terminal
<1>6. ASSUME NEW s \in RunId PROVE Accounted(s)'
  BY <1>2, <1>5, AccountsKept, RuntimeQuiet
<1>. QED BY <1>2, <1>6, OneRequestKept

LEMMA QuietAccounts ==
  ASSUME Slotted, SparesAllBut({}), NobodyWaits', operator \subseteq operator',
         UNCHANGED <<run, err, proc, requested>>
  PROVE  NobodyWaits' /\ OneRequest' /\ \A s \in RunId : Accounted(s)'
<1>1. ASSUME NEW s \in RunId PROVE Accounted(s)'
  BY AccountsKept, RuntimeQuiet
<1>. QED BY <1>1, OneRequestKept

LEMMA FinishAccounts ==
  ASSUME Slotted, NEW r \in RunId, NEW to \in DispatchTargets, NEW why, Finish(r, to, why),
         Backed(r, to), UNCHANGED <<run, err, proc, requested, operator>>
  PROVE  NobodyWaits' /\ OneRequest' /\ \A s \in RunId : Accounted(s)'
<1>1. CASE Transition(owner[r], r, gen[r], to, why)
  BY <1>1, TransitionAccounts
<1>2. CASE Transition(owner[r], r, gen[r], "needs_reconciliation", "plain")
  <2>1. Backed(r, "needs_reconciliation") BY DEF Backed
  <2>2. "needs_reconciliation" \in DispatchTargets BY DEF DispatchTargets
  <2>. QED BY <1>2, <2>1, <2>2, TransitionAccounts
<1>3. CASE UNCHANGED vars
  <2>1. UNCHANGED <<state, owner, open>> BY <1>3 DEF vars, itemVars, attemptVars
  <2>. QED BY <2>1, QuietSpares, QuietAccounts DEF Slotted
<1>. QED BY <1>1, <1>2, <1>3 DEF Finish

LEMMA RecoveryAccounts ==
  ASSUME Slotted, RecoverExpiredLeases, UNCHANGED <<run, err, proc, requested, operator>>
  PROVE  NobodyWaits' /\ OneRequest' /\ \A s \in RunId : Accounted(s)'
<1>1. TypeOK /\ Fence /\ NobodyWaits BY DEF Slotted, DispatchInvariant
<1>2. PICK gone \in SUBSET RunId : gone = {r \in RunId : Expired(r)} OBVIOUS
<1>3. /\ SparesAllBut(gone) /\ NobodyWaits' /\ UNCHANGED owner
      /\ \A r \in gone : phase[r] = "planned" \/ state'[owner[r]] = "needs_reconciliation"
  BY <1>1, <1>2, RecoverySpares
<1>4. ASSUME NEW s \in gone PROVE Accounted(s)'
  <2>1. CASE phase[s] = "planned"
    <3>1. s \notin requested /\ err[s] # "nil"
      BY <2>1, NothingAsked DEF Slotted, DispatchInvariant
    <3>. QED BY <3>1 DEF Accounted, Unfinished
  <2>2. CASE state'[owner[s]] = "needs_reconciliation"
    BY <1>3, <2>2 DEF Accounted, Closed
  <2>. QED BY <1>3, <2>1, <2>2
<1>5. ASSUME NEW s \in RunId PROVE Accounted(s)'
  BY <1>3, <1>4, AccountsKept, RuntimeQuiet
<1>. QED BY <1>3, <1>5, OneRequestKept

LEMMA StepKeepsSlots ==
  ASSUME Slotted, [DispatchNext]_allVars
  PROVE  NobodyWaits' /\ OneRequest' /\ \A s \in RunId : Accounted(s)'
<1>. DEFINE Goal == NobodyWaits' /\ OneRequest' /\ \A s \in RunId : Accounted(s)'
<1>. USE DEF serverVars, supervisorVars, launchVars, runVars, dispatchVars
<1>0. /\ LaunchInvariant /\ OutcomeInvariant /\ TypeOK /\ Fence /\ NobodyWaits
      /\ RequestsOnRecord
  BY DEF Slotted, DispatchInvariant
<1>a. ASSUME UNCHANGED <<state, owner, open, operator, run, err, proc, requested>> PROVE Goal
  BY <1>0, <1>a, QuietSpares, QuietAccounts
<1>b. DispatchTargets = {"succeeded", "failed", "cancelled", "retry_wait", "needs_reconciliation"}
  BY DEF DispatchTargets
<1>c. ASSUME UNCHANGED vars PROVE UNCHANGED <<state, owner, open>>
  BY <1>c DEF vars, itemVars, attemptVars
<1>d. ASSUME UNCHANGED <<state, owner, open, operator, requested>>, \A s \in RunId : RuntimeStep(s)
      PROVE  Goal
  <2>1. SparesAllBut({}) /\ NobodyWaits' BY <1>0, <1>d, QuietSpares
  <2>2. ASSUME NEW s \in RunId PROVE Accounted(s)' BY <1>d, <2>1, AccountsKept
  <2>. QED BY <1>d, <2>1, <2>2, OneRequestKept
<1>. HIDE DEF Goal
<1>1. ASSUME NEW d \in Server, Boot(d) \/ Drain(d) \/ Recover(d) PROVE Goal
  <2>1. CASE RecoverExpiredLeases
    BY <1>1, <2>1, RecoveryAccounts DEF Boot, Drain, Recover, Goal
  <2>. QED BY <1>1, <1>a, <1>c, <2>1 DEF Boot, Drain, Recover
<1>2. ASSUME NEW d \in Server, DrainDone(d) \/ Crash(d) PROVE Goal
  <2>1. Die(d) BY <1>2 DEF DrainDone, Crash
  <2>2. \A s \in RunId : /\ run'[s] = "returned" <=> run[s] = "returned"
                         /\ proc'[s] # proc[s] => run[s] = "creating"
    BY <1>0, <2>1 DEF Die, TypedState
  <2>3. \A s \in RunId : RuntimeStep(s)
    BY <2>1, <2>2 DEF Die, RuntimeStep, Unfinished
  <2>. QED BY <1>c, <1>d, <2>1, <2>3 DEF Die
<1>3. ASSUME NEW d \in Server, NEW r \in RunId, ClaimOne(d, r) PROVE Goal
  BY <1>0, <1>3, ClaimSpares, QuietAccounts DEF ClaimOne, Goal
<1>4. ASSUME NEW r \in RunId, CancelledBeforeStart(r) PROVE Goal
  <2>1. run[r] = "none" BY <1>0, <1>4 DEF CancelledBeforeStart, LaunchedOnce, Claiming
  <2>2. Backed(r, "cancelled")
    BY <1>0, <2>1 DEF Backed, Unfinished, LaunchedOnce, OutcomeInvariant, RunReturns
  <2>3. CASE Transition(owner[r], r, gen[r], "cancelled", "plain")
    BY <1>4, <1>b, <2>2, <2>3, TransitionAccounts DEF CancelledBeforeStart, Goal
  <2>. QED BY <1>4, <1>a, <1>c, <2>3 DEF CancelledBeforeStart
<1>5. ASSUME NEW r \in RunId, NotAuthorized(r) PROVE Goal
  <2>1. run[r] = "none" BY <1>0, <1>5 DEF NotAuthorized, LaunchedOnce, Claiming
  <2>2. Backed(r, "failed") /\ Backed(r, "needs_reconciliation")
    BY <1>0, <2>1 DEF Backed, Unfinished, LaunchedOnce, OutcomeInvariant, RunReturns
  <2>3. CASE Defer(owner[r], r, gen[r])
    <3>1. SparesAllBut({r}) /\ NobodyWaits' /\ phase[r] = "planned"
      BY <1>0, <2>3, DeferSpares
    <3>2. r \notin requested /\ err[r] # "nil"
      BY <1>0, <3>1, NothingAsked
    <3>3. UNCHANGED <<run, err, proc, requested, operator>> BY <1>5 DEF NotAuthorized
    <3>4. Accounted(r)' BY <3>2, <3>3 DEF Accounted, Unfinished
    <3>5. ASSUME NEW s \in RunId PROVE Accounted(s)'
      BY <3>1, <3>3, <3>4, AccountsKept, RuntimeQuiet
    <3>. QED BY <3>1, <3>3, <3>5, OneRequestKept DEF Goal
  <2>. QED BY <1>5, <1>b, <2>2, <2>3, FinishAccounts DEF NotAuthorized, Goal
<1>6. ASSUME NEW r \in RunId, Start(r) PROVE Goal
  <2>1. CASE MarkStarting(owner[r], r, gen[r]) /\ run' = [run EXCEPT ![r] = "spawned"]
    <3>1. run[r] = "none" BY <1>0, <1>6 DEF Start, LaunchedOnce, Claiming
    <3>2. UNCHANGED <<state, owner, open, operator, err, proc, requested>>
      BY <1>6, <2>1 DEF Start, MarkStarting, itemVars
    <3>3. \A s \in RunId : RuntimeStep(s)
      BY <1>0, <2>1, <3>1, <3>2 DEF RuntimeStep, Unfinished, TypedState
    <3>. QED BY <1>d, <3>2, <3>3
  <2>2. CASE Finish(r, "needs_reconciliation", "plain") /\ UNCHANGED run
    BY <1>6, <1>b, <2>2, FinishAccounts DEF Start, Backed, Goal
  <2>. QED BY <1>6, <2>1, <2>2 DEF Start
<1>7. ASSUME NEW r \in RunId, RenewLease(r) PROVE Goal
  BY <1>7, <1>a DEF RenewLease, Heartbeat, itemVars, attemptVars
<1>8. ASSUME NEW r \in RunId, Confirm(r) PROVE Goal
  BY <1>0, <1>8, RunningSpares, QuietAccounts DEF Confirm, Goal
<1>9. ASSUME NEW r \in RunId,
             \/ Superseded(r) \/ ProbeStart(r) \/ NoticeCancel(r) \/ Escalate(r)
             \/ RunReturned(r) \/ ProbeDetached(r) \/ GiveUpDetached(r)
             \/ ShutdownAttempt(r) \/ LastCall(r) \/ Settle(r) \/ StreamEvent(r)
      PROVE  Goal
  <2>1. UNCHANGED <<vars, operator, run, err, proc, requested>>
    BY <1>9
       DEF Superseded, ProbeStart, NoticeCancel, Escalate, RunReturned, ProbeDetached,
           GiveUpDetached, ShutdownAttempt, LastCall, Settle, StreamEvent, Stop
  <2>. QED BY <1>a, <1>c, <2>1
<1>10. ASSUME NEW r \in RunId, Abandon(r) PROVE Goal
  BY <1>10, <1>b, FinishAccounts DEF Abandon, Backed, Goal
<1>11. ASSUME NEW r \in RunId, Record(r) PROVE Goal
  <2>1. PICK to, why : to = plan[r].to /\ why = plan[r].why OBVIOUS
  <2>2. to \in DispatchTargets
    BY <1>0, <2>1, PlanIsATarget DEF OutcomeInvariant
  <2>3. Backed(r, to)
    BY <1>0, <2>1 DEF Backed, Unfinished, OutcomeInvariant, PlanIsProven
  <2>4. Finish(r, to, why) BY <1>11, <2>1 DEF Record
  <2>. QED BY <1>11, <2>2, <2>3, <2>4, FinishAccounts DEF Record, Goal
<1>12. ASSUME NEW r \in RunId,
              \/ ReadInput(r) \/ FailBeforeAgent(r) \/ CreateProcess(r) \/ CreationFails(r)
              \/ StreamEnds(r) \/ ProcessExits(r)
       PROVE  Goal
  <2>1. UNCHANGED <<state, owner, open, operator, requested>>
    BY <1>12, <1>c
       DEF ReadInput, FailBeforeAgent, CreateProcess, CreationFails, StreamEnds, ProcessExits,
           Stages, StageRunResult, itemVars, attemptVars
  <2>2. \A s \in RunId : RuntimeStep(s)
    <3>. SUFFICES ASSUME NEW s \in RunId PROVE RuntimeStep(s) OBVIOUS
    <3>1. CASE s # r
      BY <1>0, <1>12, <2>1, <3>1
         DEF ReadInput, FailBeforeAgent, CreateProcess, CreationFails, StreamEnds, ProcessExits,
             Returns, RuntimeStep, Unfinished, TypedState
    <3>2. CASE s = r
      <4>1. CASE ReadInput(r) \/ FailBeforeAgent(r)
        <5>1. r \notin requested BY <1>0, <4>1 DEF ReadInput, FailBeforeAgent, LaunchedOnce
        <5>. QED BY <1>0, <2>1, <3>2, <4>1, <5>1
                 DEF ReadInput, FailBeforeAgent, Returns, RuntimeStep, Unfinished, TypedState
      <4>2. CASE CreateProcess(r) \/ CreationFails(r) \/ StreamEnds(r)
        <5>1. Unfinished(r)
          BY <1>0, <4>2 DEF CreateProcess, CreationFails, StreamEnds, Unfinished, LaunchIsTruthful
        <5>. QED BY <2>1, <3>2, <5>1 DEF RuntimeStep, Unfinished
      <4>3. CASE ProcessExits(r)
        BY <1>0, <2>1, <3>2, <4>3 DEF ProcessExits, RuntimeStep, Unfinished, TypedState
      <4>. QED BY <1>12, <4>1, <4>2, <4>3
    <3>. QED BY <3>1, <3>2
  <2>. QED BY <1>d, <2>1, <2>2
<1>13. ASSUME NEW r \in RunId, RequestCreation(r) PROVE Goal
  <2>1. /\ r \in open /\ UNCHANGED <<state, owner, open, operator, proc>>
        /\ phase[r] # "none" /\ requested' \in {requested, requested \cup {r}}
    BY <1>13 DEF RequestCreation, MarkRuntimeRequested, Bound, itemVars
  <2>2. ASSUME NEW s \in RunId PROVE RuntimeStep(s)
    BY <1>0, <1>13, <2>1
       DEF RequestCreation, Returns, RuntimeStep, Unfinished, TypedState
  <2>3. SparesAllBut({}) /\ NobodyWaits' BY <1>0, <2>1, QuietSpares
  <2>4. ASSUME NEW s \in RunId PROVE Accounted(s)'
    BY <2>1, <2>2, <2>3, AccountsKept
  <2>5. ASSUME NEW s \in RunId, s \in requested, owner[s] = owner[r], owner[r] \notin operator
        PROVE  s = r
    <3>1. phase[s] # "none" BY <1>0, <2>5 DEF RequestsOnRecord
    <3>2. /\ s \in open => s = r /\ state[owner[r]] \in Executing
          /\ state[owner[r]] \in Executing
      BY <1>0, <2>1, <2>5, <3>1, OpenIsAlone
    <3>3. s \notin open => state[owner[s]] \in Closed
      BY <2>5 DEF Slotted, Accounted
    <3>. QED BY <2>5, <3>2, <3>3 DEF Executing, Closed, Terminal
  <2>6. OneRequest'
    BY <2>1, <2>5 DEF Slotted, OneRequest
  <2>. QED BY <2>3, <2>4, <2>6 DEF Goal
<1>14. ASSUME NEW w \in Work, NEW to \in Resolutions, Operate(w, to) PROVE Goal
  <2>1. /\ UNCHANGED <<owner, open, run, err, proc, requested>> /\ operator' = operator \cup {w}
        /\ state' = [state EXCEPT ![w] = to] /\ to \in Allowed["needs_reconciliation"]
    BY <1>14 DEF Operate, Resolve, SetState, CanTransition, attemptVars
  <2>2. to # "waiting" BY <2>1 DEF Allowed, States
  <2>3. NobodyWaits' BY <1>0, <2>1, <2>2 DEF NobodyWaits, TypeOK
  <2>4. PICK gone \in SUBSET RunId : gone = {s \in RunId : owner[s] = w} OBVIOUS
  <2>5. SparesAllBut(gone)
    BY <1>0, <2>1, <2>4 DEF SparesAllBut, TypeOK, Fence, RowsAreOwned
  <2>6. \A s \in gone : Accounted(s)' BY <2>1, <2>4 DEF Accounted
  <2>7. ASSUME NEW s \in RunId PROVE Accounted(s)'
    BY <2>1, <2>5, <2>6, AccountsKept, RuntimeQuiet
  <2>. QED BY <2>1, <2>3, <2>5, <2>7, OneRequestKept DEF Goal
<1>15. ASSUME Surroundings PROVE Goal
  BY <1>0, <1>15, SurroundingsSpare, QuietAccounts DEF Surroundings, Goal
<1>16. ASSUME UNCHANGED allVars PROVE Goal
  <2>1. UNCHANGED <<vars, operator, run, err, proc, requested>>
    BY <1>16 DEF allVars
  <2>. QED BY <1>a, <1>c, <2>1
<1>17. ASSUME NEW r \in RunId, Supervisor(r) \/ Execution(r) PROVE Goal
  BY <1>4, <1>5, <1>6, <1>7, <1>8, <1>9, <1>10, <1>11, <1>12, <1>13, <1>17
     DEF Supervisor, Execution
<1>18. Goal
  BY <1>1, <1>2, <1>3, <1>14, <1>15, <1>16, <1>17 DEF DispatchNext
<1>. QED BY <1>18 DEF Goal

LEMMA SlottedInit == DispatchInit => Slotted
<1>. SUFFICES ASSUME DispatchInit PROVE Slotted OBVIOUS
<1>1. RequestsOnRecord /\ OneRequest /\ NobodyWaits
  BY DEF DispatchInit, Init, RequestsOnRecord, OneRequest, NobodyWaits
<1>2. \A r \in RunId : Accounted(r)
  BY DEF DispatchInit, Accounted, Unfinished
<1>. QED BY <1>1, <1>2, InvariantInit DEF Slotted

LEMMA SlottedStep ==
  Slotted /\ Servers /\ [DispatchNext]_allVars => Slotted' /\ Servers'
<1>. SUFFICES ASSUME Slotted, Servers, [DispatchNext]_allVars PROVE Slotted' /\ Servers'
  OBVIOUS
<1>1. DispatchInvariant' /\ [Next]_vars BY InvariantStep DEF Slotted
<1>2. Servers' /\ RequestsOnRecord'
  BY <1>1, TypesStep DEF Slotted, DispatchInvariant
<1>3. NobodyWaits' /\ OneRequest' /\ \A s \in RunId : Accounted(s)'
  BY StepKeepsSlots
<1>. QED BY <1>1, <1>2, <1>3 DEF Slotted

LEMMA AlwaysSlotted == DispatchSpec => []Slotted
<1>1. DispatchInit => Servers
  BY DispatchAssumption DEF DispatchInit, Servers
<1>. QED BY <1>1, SlottedInit, SlottedStep, PTL DEF DispatchSpec

LEMMA SlottedHolds ==
  ASSUME Slotted
  PROVE  LiveProcessHoldsItsSlot
<1>. SUFFICES ASSUME NEW r \in RunId, MayRun(r), owner[r] \notin operator
              PROVE  state[owner[r]] \in HoldsExecutionSlot
  BY DEF LiveProcessHoldsItsSlot
<1>1. r \in requested /\ Unfinished(r)
  BY DEF Slotted, DispatchInvariant, LaunchIsTruthful, TypedState, MayRun, Unfinished
<1>2. CASE r \in open
  <2>1. owner[r] \in Work /\ state[owner[r]] \in Executing
    BY <1>2 DEF Slotted, DispatchInvariant, Fence, OpenIsCurrent
  <2>. QED BY <2>1 DEF Slotted, NobodyWaits, Executing, HoldsExecutionSlot
<1>3. CASE r \notin open
  BY <1>1, <1>3 DEF Slotted, Accounted, HoldsExecutionSlot
<1>. QED BY <1>2, <1>3

\* A process that is alive, or may come into being, holds the slot of its work:
\* for any number of servers, works and attempts, and whatever cancel, shutdown,
\* lapse, lost write or crash intervenes, its work is executing or parked until
\* an operator resolves it.
THEOREM LiveProcessesHoldTheirSlots == DispatchSpec => []LiveProcessHoldsItsSlot
BY SlottedHolds, AlwaysSlotted, PTL

\* Of all attempts of a work item at most one ever has a process, unless an
\* operator put the item back in line: retries, recoveries and restarts never
\* execute a second time.
THEOREM WorksExecuteOnce == DispatchSpec => []AtMostOneExecution
<1>1. Slotted => AtMostOneExecution
  <2>1. ASSUME Slotted, NEW r \in RunId, proc[r] # "none" PROVE r \in requested
    BY <2>1 DEF Slotted, DispatchInvariant, LaunchIsTruthful
  <2>. QED BY <2>1 DEF Slotted, OneRequest, AtMostOneExecution
<1>. QED BY <1>1, AlwaysSlotted, PTL

\* An attempt whose run reported success is recorded as succeeded or is parked for
\* a person to decide; no late cancel, shutdown or lapse turns it into a failure,
\* a cancellation or a retry.
THEOREM CompletedStaysCompleted == DispatchSpec => []CompletedIsNotUndone
<1>1. Slotted => CompletedIsNotUndone
  BY DEF Slotted, Accounted, CompletedIsNotUndone
<1>. QED BY <1>1, AlwaysSlotted, PTL

-----------------------------------------------------------------------------
(***************************************************************************)
(* The composition: what the ledger guarantees of its rows holds of the    *)
(* processes, because every process has a row that holds a slot, and no    *)
(* two have the same.                                                      *)
(***************************************************************************)

\* The dispatcher never asks for waiting, so the limits need no assumption here.
LEMMA SlotsLimited == DispatchSpec => []LimitsInv
<1>1. DispatchInit => LimitsInv
  BY LimitsInit DEF DispatchInit
<1>2. Slotted /\ Slotted' /\ LimitsInv /\ [DispatchNext]_allVars => LimitsInv'
  BY InvariantStep, LimitsStep DEF Slotted, DispatchInvariant
<1>. QED BY <1>1, <1>2, AlwaysSlotted, PTL DEF DispatchSpec

LEMMA ProcessHasSlot ==
  ASSUME Slotted, NEW r \in Processes
  PROVE  owner[r] \in Slots /\ r \in requested /\ owner[r] \notin operator
<1>1. r \in RunId /\ MayRun(r) /\ owner[r] \notin operator BY DEF Processes
<1>2. r \in requested /\ Unfinished(r)
  BY <1>1 DEF Slotted, DispatchInvariant, LaunchIsTruthful, TypedState, MayRun, Unfinished
<1>3. owner[r] \in Work
  BY <1>1, <1>2 DEF Slotted, RequestsOnRecord, DispatchInvariant, Fence, RowsAreOwned, TypeOK
<1>4. state[owner[r]] \in HoldsExecutionSlot
  BY <1>1, SlottedHolds DEF LiveProcessHoldsItsSlot
<1>. QED BY <1>1, <1>2, <1>3, <1>4 DEF Slots, HoldsExecutionSlot

\* Processes in a part of the slots are no more than these.
LEMMA NoMoreThanSlots ==
  ASSUME Slotted, NEW P \in SUBSET Processes, NEW S, IsFiniteSet(S),
         \A r \in P : owner[r] \in S
  PROVE  IsFiniteSet(P) /\ Cardinality(P) \in Nat /\ Cardinality(S) \in Nat
         /\ Cardinality(P) <= Cardinality(S)
<1>1. PICK f : f = [r \in P |-> owner[r]] OBVIOUS
<1>2. \A r, s \in P : owner[r] = owner[s] => r = s
  BY ProcessHasSlot DEF Slotted, OneRequest, Processes
<1>3. f \in Injection(P, S) BY <1>1, <1>2 DEF Injection, IsInjective
<1>4. IsFiniteSet(P) /\ Cardinality(P) <= Cardinality(S) BY <1>3, FS_Injection
<1>. QED BY <1>4, FS_CardinalityType

\* For any number of servers, works and attempts, and whatever crashes, drains,
\* cancels, lapses and lost writes intervene, the processes of the server, of its
\* background class, of every agent and of every crew stay within the limits that
\* the ledger admits by, until an operator decides otherwise about a work.
THEOREM ProcessesStayWithinLimits == DispatchSpec => []ProcessesWithinLimits
<1>1. Slotted /\ LimitsInv => ProcessesWithinLimits
  <2>. SUFFICES ASSUME Slotted, LimitsInv PROVE ProcessesWithinLimits OBVIOUS
  <2>0. IsFiniteSet(Slots) /\ SlotsWithinLimits BY DEF LimitsInv
  <2>1. \A r \in Processes : owner[r] \in Slots BY ProcessHasSlot
  <2>2. Cardinality(Processes) <= Limits["ServerTotal"]
    BY <2>0, <2>1, NoMoreThanSlots, LimitsAssumption DEF SlotsWithinLimits
  <2>3. Cardinality({r \in Processes : ClassOf[owner[r]] = "background"})
          <= Limits["ServerBackground"]
    <3>1. PICK P : P = {r \in Processes : ClassOf[owner[r]] = "background"} OBVIOUS
    <3>2. Background(Slots) \subseteq Slots BY DEF Background
    <3>3. IsFiniteSet(Background(Slots)) BY <2>0, <3>2, FS_Subset
    <3>4. P \subseteq Processes /\ \A r \in P : owner[r] \in Background(Slots)
      BY <2>1, <3>1 DEF Background
    <3>5. /\ Cardinality(P) \in Nat /\ Cardinality(Background(Slots)) \in Nat
          /\ Cardinality(P) <= Cardinality(Background(Slots))
      BY <3>3, <3>4, NoMoreThanSlots
    <3>6. Cardinality(Background(Slots)) <= Limits["ServerBackground"]
      BY <2>0 DEF SlotsWithinLimits
    <3>. QED BY <3>1, <3>5, <3>6, LimitsAssumption
  <2>4. ASSUME NEW r \in Processes, AgentOf[owner[r]] # Nothing
        PROVE  Cardinality({s \in Processes : AgentOf[owner[s]] = AgentOf[owner[r]]})
                 <= Limits["AgentTotal"]
    <3>1. PICK P : P = {s \in Processes : AgentOf[owner[s]] = AgentOf[owner[r]]} OBVIOUS
    <3>2. PICK S : S = {v \in Slots : AgentOf[v] = AgentOf[owner[r]]} OBVIOUS
    <3>3. IsFiniteSet(S) BY <2>0, <3>2, FS_Subset
    <3>4. P \subseteq Processes /\ \A s \in P : owner[s] \in S BY <2>1, <3>1, <3>2
    <3>5. Cardinality(P) \in Nat /\ Cardinality(S) \in Nat /\ Cardinality(P) <= Cardinality(S)
      BY <3>3, <3>4, NoMoreThanSlots
    <3>6. Cardinality(S) <= Limits["AgentTotal"]
      BY <2>0, <2>1, <2>4, <3>2 DEF SlotsWithinLimits
    <3>. QED BY <3>1, <3>5, <3>6, LimitsAssumption
  <2>5. ASSUME NEW r \in Processes, CrewOf[owner[r]] # Nothing
        PROVE  Cardinality({s \in Processes : CrewOf[owner[s]] = CrewOf[owner[r]]})
                 <= CrewBudget(CrewOf[owner[r]])
    <3>1. PICK P : P = {s \in Processes : CrewOf[owner[s]] = CrewOf[owner[r]]} OBVIOUS
    <3>2. PICK S : S = {v \in Slots : CrewOf[v] = CrewOf[owner[r]]} OBVIOUS
    <3>3. IsFiniteSet(S) BY <2>0, <3>2, FS_Subset
    <3>4. P \subseteq Processes /\ \A s \in P : owner[s] \in S BY <2>1, <3>1, <3>2
    <3>5. Cardinality(P) \in Nat /\ Cardinality(S) \in Nat /\ Cardinality(P) <= Cardinality(S)
      BY <3>3, <3>4, NoMoreThanSlots
    <3>6. Cardinality(S) <= CrewBudget(CrewOf[owner[r]])
      BY <2>0, <2>1, <2>5, <3>2 DEF SlotsWithinLimits
    <3>7. CrewBudget(CrewOf[owner[r]]) \in Nat
      BY <2>1, <2>5, CrewBudgetType DEF Slots
    <3>. QED BY <3>1, <3>5, <3>6, <3>7
  <2>. QED BY <2>2, <2>3, <2>4, <2>5 DEF ProcessesWithinLimits
<1>. QED BY <1>1, AlwaysSlotted, SlotsLimited, PTL

\* A session never has two processes, whichever servers and attempts they belong to.
THEOREM SessionsHaveOneProcess == DispatchSpec => []OneProcessPerSession
<1>1. Slotted /\ OneTurnPerSession => OneProcessPerSession
  <2>. SUFFICES ASSUME Slotted, OneTurnPerSession, NEW r \in Processes, NEW s \in Processes,
                       SessionOf[owner[r]] = SessionOf[owner[s]], SessionOf[owner[r]] # Nothing
                PROVE  r = s
    BY DEF OneProcessPerSession
  <2>1. owner[r] = owner[s]
    BY ProcessHasSlot DEF OneTurnPerSession, Slots, OccupiesSession, HoldsExecutionSlot
  <2>. QED BY <2>1, ProcessHasSlot DEF Slotted, OneRequest, Processes
<1>2. DispatchSpec => []OneTurnPerSession
  BY DispatcherKeepsTheProtocol, SessionsHaveOneTurn, PTL DEF ImplementsLedger
<1>. QED BY <1>1, <1>2, AlwaysSlotted, PTL

\* Under the dispatcher too, with its crashes, cancels and operators, every item
\* lives the life WorkItem promises.
THEOREM DispatchedItemsLiveOneLife == DispatchSpec => ItemsKeepThePromise
BY DispatcherKeepsTheProtocol, ItemsLiveOneLife, PTL DEF ImplementsLedger

=============================================================================
