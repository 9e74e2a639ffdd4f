-------------------------- MODULE WorkLedgerProofs --------------------------
(***************************************************************************)
(* What holds of the work ledger for every set of items, every number of   *)
(* attempts and all limits.                                                *)
(***************************************************************************)
EXTENDS WorkLedger, FiniteSetTheorems, TLAPS

(* The operators that compute a value stay within its type. *)

LEMMA LandingType ==
  ASSUME NEW w, NEW to \in States
  PROVE  Landing(w, to) \in States
BY DEF Landing, States

LEMMA RunStatusType ==
  ASSUME NEW to
  PROVE  RunStatusForState(to) \in RunStatuses
BY DEF RunStatusForState, RunStatuses, Verdicts

LEMMA ChatTargetType ==
  ASSUME NEW status
  PROVE  ChatTarget(status) \in Terminal
BY DEF ChatTarget, Terminal

LEMMA RecoveredType ==
  ASSUME NEW r
  PROVE  RecoveredTo(r) \in {"queued", "needs_reconciliation"}
BY DEF RecoveredTo

LEMMA AfterExpiryType ==
  ASSUME TypeOK
  PROVE  AfterExpiry \in [Work -> States \cup {"absent"}]
BY DEF TypeOK, AfterExpiry, States

(***************************************************************************)
(* Type correctness, one step per action.                                  *)
(***************************************************************************)
LEMMA TypeStep ==
  ASSUME TypeOK, [Next]_vars
  PROVE  TypeOK'
<1> USE LimitsAssumption, WorkAssumption
<1>1. ASSUME NEW w \in Work, AcceptTx(w)
      PROVE  TypeOK'
  BY <1>1 DEF TypeOK, AcceptTx, SetState, States, attemptVars, outcomeVars, projectionVars
<1>2. ASSUME NEW w \in Work, RequestCancel(w)
      PROVE  TypeOK'
  BY <1>2 DEF TypeOK, RequestCancel, SetState, States, clockVars, outcomeVars, projectionVars
<1>3. ASSUME NEW mine \in Kinds, ClaimNothing(mine)
      PROVE  TypeOK'
  BY <1>3, AfterExpiryType
     DEF TypeOK, ClaimNothing, FailWork, States, clockVars, attemptVars, outcomeVars, projectionVars
<1>4. ASSUME NEW mine \in Kinds, NEW r \in RunId, Claim(mine, r)
      PROVE  TypeOK'
  <2>1. PICK w \in Candidates(mine) :
          /\ ~ Exhausted(w)
          /\ \E failed \in SUBSET {v \in Candidates(mine) : Exhausted(v)} :
               state' = [FailWork(AfterExpiry, failed) EXCEPT ![w] = "starting"]
          /\ StartAttempt(w, r, "planned")
    BY <1>4 DEF Claim
  <2>2. w \in Work
    BY DEF Candidates
  <2>3. state' \in [Work -> States \cup {"absent"}]
    BY <2>1, AfterExpiryType DEF FailWork, States
  <2>4. attempts[w] + 1 \in 0 .. MaxAttempts
    BY <2>1, <2>2 DEF Exhausted, TypeOK
  <2> QED
    BY <1>4, <2>1, <2>2, <2>3, <2>4
       DEF TypeOK, Claim, StartAttempt, Phases, clockVars, outcomeVars, projectionVars
<1>5. ASSUME NEW w \in Work, NEW r \in RunId, NEW g \in Generations, Worker(w, r, g)
      PROVE  TypeOK'
  <2>1. CASE MarkStarting(w, r, g)
    BY <2>1 DEF TypeOK, MarkStarting, Phases, itemVars, clockVars, outcomeVars, projectionVars
  <2>2. CASE MarkRuntimeRequested(w, r, g)
    BY <2>2 DEF TypeOK, MarkRuntimeRequested, Phases, itemVars, clockVars, outcomeVars,
                projectionVars
  <2>3. CASE StartRunning(w, r, g)
    BY <2>3 DEF TypeOK, StartRunning, SetState, Phases, States, clockVars, outcomeVars,
                projectionVars
  <2>4. ASSUME NEW to \in Targets, NEW why \in {"plain", "stopped", "retained"},
               Transition(w, r, g, to, why)
        PROVE  TypeOK'
    <3>1. Landing(w, to) \in States
      BY LandingType
    <3>2. RunStatusForState(Landing(w, to)) \in RunStatuses /\ "FAILED" \in RunStatuses
      BY RunStatusType DEF RunStatuses, Verdicts
    <3> QED
      BY <2>4, <3>1, <3>2 DEF TypeOK, Transition, SetState, EndAttempt, projectionVars
  <2>5. CASE Defer(w, r, g)
    BY <2>5 DEF TypeOK, Defer, SetState, EndAttempt, States, projectionVars
  <2>6. ASSUME NEW x \in Outputs, StageRunResult(w, r, g, x)
        PROVE  TypeOK'
    BY <2>6 DEF TypeOK, StageRunResult, Coalesce, itemVars, clockVars, attemptVars,
                projectionVars
  <2> QED
    BY <1>5, <2>1, <2>2, <2>3, <2>4, <2>5, <2>6 DEF Worker
<1>6. ASSUME NEW r \in RunId, NEW g \in Generations, Heartbeat(r, g)
      PROVE  TypeOK'
  BY <1>6 DEF TypeOK, Heartbeat, itemVars, attemptVars, outcomeVars, projectionVars
<1>7. CASE RecoverExpiredLeases
  BY <1>7, RecoveredType DEF TypeOK, RecoverExpiredLeases, States, projectionVars
<1>8. ASSUME NEW w \in Work, NEW g \in Generations, NEW to \in States, Resolve(w, g, to)
      PROVE  TypeOK'
  BY <1>8, RunStatusType DEF TypeOK, Resolve, SetState, clockVars, attemptVars, projectionVars
<1>9. ASSUME NEW w \in HostChat, NEW r \in RunId, BeginHostChat(w, r)
      PROVE  TypeOK'
  <2>1. attempts[w] + 1 \in 0 .. MaxAttempts
    BY <1>9 DEF BeginHostChat, Exhausted, TypeOK
  <2> QED
    BY <1>9, <2>1 DEF TypeOK, BeginHostChat, StartAttempt, SetState, Phases, States,
                      outcomeVars, projectionVars
<1>10. ASSUME NEW r \in RunId, Chatter(r)
       PROVE  TypeOK'
  <2>1. ASSUME NEW step \in {"request", "started", "heartbeat"}, HostChatPhase(r, step)
        PROVE  TypeOK'
    <3>1. CASE MarkRuntimeRequested(owner[r], r, gen[r])
      BY <3>1 DEF TypeOK, MarkRuntimeRequested, Phases, itemVars, clockVars, outcomeVars,
                  projectionVars
    <3>2. CASE StartRunning(owner[r], r, gen[r])
      BY <3>2 DEF TypeOK, StartRunning, SetState, Phases, States, clockVars, outcomeVars,
                  projectionVars
    <3>3. CASE Heartbeat(r, gen[r])
      BY <3>3 DEF TypeOK, Heartbeat, itemVars, attemptVars, outcomeVars, projectionVars
    <3> QED
      BY <2>1, <3>1, <3>2, <3>3 DEF HostChatPhase
  <2>2. ASSUME NEW status \in Verdicts, NEW exit \in Outputs,
               NEW creation \in {"requested", "refused"},
               FinishHostChat(r, status, exit, creation)
        PROVE  TypeOK'
    <3>1. exit \in Results /\ status \in RunStatuses /\ "unset" \in RunStatuses
      BY DEF RunStatuses, Verdicts
    <3>2. state' \in [Work -> States \cup {"absent"}]
      <4>1. ChatTarget(status) \in States /\ "needs_reconciliation" \in States
        BY ChatTargetType DEF Terminal, States
      <4>2. PICK t \in States : SetState(owner[r], t)
        BY <2>2, <4>1 DEF FinishHostChat, UnknownOutcome
      <4> QED
        BY <4>2 DEF TypeOK, SetState
    <3> QED
      BY <2>2, <3>1, <3>2 DEF TypeOK, FinishHostChat, UnknownOutcome, EndAttempt, Coalesce,
                             projectionVars
  <2> QED
    BY <1>10, <2>1, <2>2 DEF Chatter
<1>11. ASSUME NEW r \in RunId, NEW x \in Outputs \cap Exits, NEW ok \in BOOLEAN,
              RecoverRetainedResult(r, x, ok)
       PROVE  TypeOK'
  BY <1>11 DEF TypeOK, RecoverRetainedResult, SetState, States, RunStatuses, Verdicts, clockVars,
               attemptVars, projectionVars
<1>12. ASSUME NEW r \in RunId, DeliverRun(r) \/ MarkRunProjected(r)
       PROVE  TypeOK'
  BY <1>12 DEF TypeOK, DeliverRun, MarkRunProjected, itemVars, clockVars, attemptVars,
               outcomeVars
<1>13. CASE Clock
  BY <1>13 DEF TypeOK, Clock, LeaseLapse, BecomeEligible, DeadlinePass, LegacyRun, itemVars,
               clockVars, attemptVars, outcomeVars, projectionVars
<1>14. CASE UNCHANGED vars
  BY <1>14 DEF TypeOK, vars, itemVars, clockVars, attemptVars, outcomeVars, projectionVars
<1> QED
  BY <1>1, <1>2, <1>3, <1>4, <1>5, <1>6, <1>7, <1>8, <1>9, <1>10, <1>11, <1>12, <1>13, <1>14
     DEF Next

LEMMA TypeInit == Init => TypeOK
BY LimitsAssumption DEF Init, TypeOK, States, Phases, RunStatuses, Verdicts, Results, Exits

\* The tables keep their types, and the budget column stays within MaxAttempts
\* whatever mix of claims, deferrals and recoveries an item goes through.
THEOREM TypeCorrect == Spec => []TypeOK
BY TypeInit, TypeStep, PTL DEF Spec

-----------------------------------------------------------------------------
(***************************************************************************)
(* The fence.  It is inductive together with TypeOK.  Every action has one *)
(* of five effects on the rows the fence is about; each effect is a lemma. *)
(***************************************************************************)
Rows == <<state, generation, owner, gen, open, runStatus>>

\* phase moves on, but an attempt row neither appears nor disappears
SameRows ==
  /\ phase' \in [RunId -> Phases]
  /\ \A r \in RunId : phase'[r] = "none" <=> phase[r] = "none"

LEMMA RowsUntouched ==
  ASSUME Fence, UNCHANGED Rows, SameRows
  PROVE  Fence'
BY DEF Fence, OpenIsCurrent, ExecutingIsOpen, GenerationsDistinct, RowsAreOwned, Rows, SameRows

\* A transition between executing states, or between two others, closes nothing.
LEMMA NoAttemptClosed ==
  ASSUME TypeOK, Fence, SameRows, UNCHANGED <<generation, owner, gen, open>>,
         state' \in [Work -> States \cup {"absent"}],
         \A w \in Work : state'[w] \in Executing <=> state[w] \in Executing,
         \A r \in RunId : r \in open \/ phase[r] = "none" => runStatus'[r] = runStatus[r]
  PROVE  Fence'
BY DEF Fence, OpenIsCurrent, ExecutingIsOpen, GenerationsDistinct, RowsAreOwned, SameRows, TypeOK

\* An attempt is closed exactly when its item stops executing.
LEMMA AttemptsClosed ==
  ASSUME TypeOK, Fence, SameRows, UNCHANGED <<generation, owner, gen>>,
         NEW gone \in SUBSET open, open' = open \ gone,
         state' \in [Work -> States \cup {"absent"}],
         \A w \in Work : IF \E r \in gone : owner[r] = w
                         THEN state'[w] \notin Executing
                         ELSE state'[w] = state[w],
         \A r \in RunId \ gone : runStatus'[r] = runStatus[r]
  PROVE  Fence'
<1>1. \A r, s \in open : owner[r] = owner[s] => r = s
  BY WorkAssumption DEF Fence, OpenIsCurrent, GenerationsDistinct, TypeOK
<1>2. OpenIsCurrent'
  BY <1>1 DEF Fence, OpenIsCurrent, TypeOK
<1>3. ExecutingIsOpen'
  BY <1>1 DEF Fence, ExecutingIsOpen, TypeOK
<1>4. \A r \in gone : phase[r] # "none"
  BY WorkAssumption DEF Fence, OpenIsCurrent, RowsAreOwned, TypeOK
<1>5. GenerationsDistinct' /\ RowsAreOwned'
  BY <1>4 DEF Fence, GenerationsDistinct, RowsAreOwned, SameRows
<1> QED
  BY <1>2, <1>3, <1>5 DEF Fence

\* A claim opens the next generation of an item nobody executes.
LEMMA AttemptOpened ==
  ASSUME TypeOK, Fence, NEW w \in Work, NEW r \in Fresh,
         NEW ph \in Phases \ {"none"}, StartAttempt(w, r, ph),
         state[w] \notin Executing, UNCHANGED runStatus,
         state' \in [Work -> States \cup {"absent"}], state'[w] = "starting",
         \A v \in Work \ {w} : state'[v] \in Executing <=> state[v] \in Executing
  PROVE  Fence'
<1> USE WorkAssumption
<1>1. r \in RunId /\ owner[r] = NoWork /\ r \notin open /\ runStatus[r] = "unset"
  BY DEF Fresh, Fence, RowsAreOwned, OpenIsCurrent
<1>2. owner' = [owner EXCEPT ![r] = w] /\ gen' = [gen EXCEPT ![r] = generation[w] + 1]
      /\ generation' = [generation EXCEPT ![w] = generation[w] + 1]
      /\ phase' = [phase EXCEPT ![r] = ph] /\ open' = open \cup {r}
  BY DEF StartAttempt
<1>3. \A s \in open : owner[s] # w
  BY DEF Fence, OpenIsCurrent
<1>4. OpenIsCurrent'
  BY <1>1, <1>2, <1>3 DEF Fence, OpenIsCurrent, TypeOK, Executing
<1>5. ExecutingIsOpen'
  BY <1>1, <1>2 DEF Fence, ExecutingIsOpen, TypeOK, Executing
<1>6. GenerationsDistinct'
  BY <1>1, <1>2 DEF Fence, GenerationsDistinct, RowsAreOwned, TypeOK
<1>7. RowsAreOwned'
  BY <1>1, <1>2 DEF Fence, RowsAreOwned, TypeOK
<1> QED
  BY <1>4, <1>5, <1>6, <1>7 DEF Fence

LEMMA FenceInit == Init => Fence
BY WorkAssumption DEF Init, Fence, OpenIsCurrent, ExecutingIsOpen, GenerationsDistinct, RowsAreOwned,
       Executing

LEMMA CancelStep ==
  ASSUME TypeOK, Fence, NEW w \in Work, RequestCancel(w)
  PROVE  /\ state' \in [Work -> States \cup {"absent"}]
         /\ \A v \in Work : state'[v] \in Executing <=> state[v] \in Executing
<1> DEFINE current == {r \in open : owner[r] = w /\ gen[r] = generation[w]}
<1>1. CASE state[w] \in Claimable
  BY <1>1 DEF RequestCancel, SetState, TypeOK, States, Claimable, Executing
<1>2. CASE state[w] \notin Claimable /\ current = {}
  <2>1. state[w] \notin Executing
    BY <1>2 DEF Fence, ExecutingIsOpen, OpenIsCurrent
  <2> QED
    BY <1>2, <2>1 DEF RequestCancel, SetState, TypeOK, States, Executing
<1>3. CASE state[w] \notin Claimable /\ current # {}
  BY <1>3 DEF RequestCancel, TypeOK
<1> QED
  BY <1>1, <1>2, <1>3

LEMMA FenceStep ==
  ASSUME TypeOK, Fence, [Next]_vars
  PROVE  Fence'
<1> USE WorkAssumption, LimitsAssumption
<1>0. TypeOK'
  BY TypeStep
<1>1. ASSUME NEW w \in Work, AcceptTx(w)
      PROVE  Fence'
  BY <1>0, <1>1, NoAttemptClosed
     DEF TypeOK, AcceptTx, SetState, SameRows, Executing, attemptVars, outcomeVars
<1>2. ASSUME NEW w \in Work, RequestCancel(w)
      PROVE  Fence'
  BY <1>0, <1>2, CancelStep, NoAttemptClosed DEF TypeOK, RequestCancel, SameRows, outcomeVars
<1>3. ASSUME NEW mine \in Kinds, ClaimNothing(mine)
      PROVE  Fence'
  <2>1. \A w \in Candidates(mine) : state[w] \in Claimable
    BY DEF Candidates, AfterExpiry, Claimable
  <2>2. \A w \in Work : state'[w] \in Executing <=> state[w] \in Executing
    BY <1>3, <2>1 DEF ClaimNothing, FailWork, AfterExpiry, Claimable, Executing
  <2> QED
    BY <1>0, <1>3, <2>2, NoAttemptClosed
       DEF TypeOK, ClaimNothing, SameRows, attemptVars, outcomeVars
<1>4. ASSUME NEW mine \in Kinds, NEW r \in RunId, Claim(mine, r)
      PROVE  Fence'
  <2>1. PICK w \in Candidates(mine), failed \in SUBSET Candidates(mine) :
          /\ state' = [FailWork(AfterExpiry, failed) EXCEPT ![w] = "starting"]
          /\ StartAttempt(w, r, "planned")
    BY <1>4 DEF Claim
  <2>2. \A v \in Candidates(mine) : v \in Work /\ state[v] \in Claimable
    BY DEF Candidates, AfterExpiry, Claimable
  <2>3. \A v \in Work \ {w} : state'[v] \in Executing <=> state[v] \in Executing
    BY <2>1, <2>2 DEF FailWork, AfterExpiry, Claimable, Executing
  <2>4. state'[w] = "starting" /\ state[w] \notin Executing /\ w \in Work
    BY <2>1, <2>2 DEF FailWork, Claimable, Executing
  <2> QED
    BY <1>0, <1>4, <2>1, <2>3, <2>4, AttemptOpened DEF TypeOK, Claim, Phases, outcomeVars
<1>5. ASSUME NEW w \in Work, NEW r \in RunId, NEW g \in Generations, Worker(w, r, g)
      PROVE  Fence'
  <2>1. CASE MarkStarting(w, r, g)
    BY <1>0, <2>1, RowsUntouched
       DEF TypeOK, MarkStarting, SameRows, Rows, itemVars, outcomeVars
  <2>2. CASE MarkRuntimeRequested(w, r, g)
    BY <1>0, <2>2, RowsUntouched
       DEF TypeOK, MarkRuntimeRequested, SameRows, Rows, itemVars, outcomeVars
  <2>3. CASE StartRunning(w, r, g)
    BY <1>0, <2>3, NoAttemptClosed
       DEF TypeOK, StartRunning, Bound, SetState, SameRows, Fence, OpenIsCurrent, Executing,
           outcomeVars
  <2>4. ASSUME NEW to \in Targets, NEW why \in {"plain", "stopped", "retained"},
               Transition(w, r, g, to, why)
        PROVE  Fence'
    <3> DEFINE into == Landing(w, to)
    <3>1. Bound(w, r, g) /\ state' = [state EXCEPT ![w] = into]
      BY <2>4 DEF Transition, SetState
    <3>2. state[w] \in Executing
      BY <3>1 DEF Bound, Fence, OpenIsCurrent
    <3>3. CASE Closes(into)
      <4>1. into \notin Executing
        BY <3>3 DEF Closes, Terminal, Executing
      <4>2. open' = open \ {r} /\ \A s \in RunId \ {r} : runStatus'[s] = runStatus[s]
        BY <2>4, <3>3 DEF Transition, EndAttempt, TypeOK
      <4>3. \A v \in Work : IF \E s \in {r} : owner[s] = v
                            THEN state'[v] \notin Executing ELSE state'[v] = state[v]
        BY <3>1, <4>1 DEF Bound, TypeOK
      <4>4. {r} \in SUBSET open /\ SameRows /\ UNCHANGED <<generation, owner, gen>>
            /\ state' \in [Work -> States \cup {"absent"}]
        BY <1>0, <2>4, <3>1 DEF Transition, Bound, SameRows, TypeOK
      <4> QED
        BY <4>2, <4>3, <4>4, AttemptsClosed
    <3>4. CASE ~ Closes(into)
      <4>1. into \in Executing
        BY <2>4, <3>2, <3>4
           DEF Closes, Transition, Landing, CanTransition, Allowed, Terminal, Executing
      <4> HIDE DEF into
      <4> QED
        BY <1>0, <2>4, <3>1, <3>2, <3>4, <4>1, NoAttemptClosed
           DEF TypeOK, Transition, Bound, SameRows, into
    <3> QED
      BY <3>3, <3>4
  <2>5. CASE Defer(w, r, g)
    <3>1. \A v \in Work \ {w} : state'[v] = state[v]
      BY <2>5 DEF Defer, SetState, TypeOK
    <3>2. state'[w] \notin Executing
      BY <2>5 DEF Defer, SetState, TypeOK, Executing
    <3>3. open' = open \ {r} /\ r \in open /\ owner[r] = w /\ UNCHANGED runStatus
      BY <2>5 DEF Defer, Bound, EndAttempt, TypeOK
    <3>4. {r} \in SUBSET open /\ SameRows /\ UNCHANGED <<generation, owner, gen>>
          /\ state' \in [Work -> States \cup {"absent"}]
      BY <1>0, <2>5, <3>3 DEF Defer, SameRows, TypeOK
    <3>5. \A v \in Work : IF \E s \in {r} : owner[s] = v
                          THEN state'[v] \notin Executing ELSE state'[v] = state[v]
      BY <3>1, <3>2, <3>3
    <3> QED
      BY <3>3, <3>4, <3>5, AttemptsClosed
  <2>6. ASSUME NEW x \in Outputs, StageRunResult(w, r, g, x)
        PROVE  Fence'
    BY <1>0, <2>6, RowsUntouched
       DEF TypeOK, StageRunResult, SameRows, Rows, itemVars, attemptVars
  <2> QED
    BY <1>5, <2>1, <2>2, <2>3, <2>4, <2>5, <2>6 DEF Worker
<1>6. ASSUME NEW r \in RunId, NEW g \in Generations, Heartbeat(r, g)
      PROVE  Fence'
  BY <1>0, <1>6, RowsUntouched
     DEF TypeOK, Heartbeat, SameRows, Rows, itemVars, attemptVars, outcomeVars
<1>7. CASE RecoverExpiredLeases
  <2> DEFINE gone == {r \in RunId : Expired(r)}
  <2>1. gone \subseteq open
    BY DEF Expired
  <2>2. \A v \in Work : IF \E r \in gone : owner[r] = v
                        THEN state'[v] \notin Executing ELSE state'[v] = state[v]
    BY <1>7, RecoveredType DEF RecoverExpiredLeases, Executing
  <2>3. open' = open \ gone
    BY <1>7 DEF RecoverExpiredLeases
  <2>4. SameRows /\ UNCHANGED <<generation, owner, gen, runStatus>>
        /\ state' \in [Work -> States \cup {"absent"}]
    BY <1>0, <1>7 DEF RecoverExpiredLeases, SameRows, TypeOK
  <2>5. gone \in SUBSET open
    BY <2>1
  <2> HIDE DEF gone
  <2> QED
    BY <2>2, <2>3, <2>4, <2>5, AttemptsClosed
<1>8. ASSUME NEW w \in Work, NEW g \in Generations, NEW to \in States, Resolve(w, g, to)
      PROVE  Fence'
  <2>1. to \notin Executing /\ state[w] \notin Executing
    BY <1>8 DEF Resolve, CanTransition, Allowed, Executing
  <2>2. \A r \in RunId : r \in open \/ phase[r] = "none" => runStatus'[r] = runStatus[r]
    BY <1>8 DEF Resolve, Unsettled, Fence, RowsAreOwned
  <2> QED
    BY <1>0, <1>8, <2>1, <2>2, NoAttemptClosed
       DEF TypeOK, Resolve, SetState, SameRows, attemptVars
<1>9. ASSUME NEW w \in HostChat, NEW r \in RunId, BeginHostChat(w, r)
      PROVE  Fence'
  BY <1>0, <1>9, AttemptOpened
     DEF TypeOK, BeginHostChat, SetState, Executing, Phases, outcomeVars
<1>10. ASSUME NEW r \in RunId, Chatter(r)
       PROVE  Fence'
  <2>1. ASSUME NEW step \in {"request", "started", "heartbeat"}, HostChatPhase(r, step)
        PROVE  Fence'
    <3>0. owner[r] \in Work
      BY <2>1 DEF HostChatPhase, HostChatRun
    <3>1. CASE MarkRuntimeRequested(owner[r], r, gen[r])
      BY <1>0, <3>1, RowsUntouched
         DEF TypeOK, MarkRuntimeRequested, SameRows, Rows, itemVars, outcomeVars
    <3>2. CASE StartRunning(owner[r], r, gen[r])
      BY <1>0, <3>0, <3>2, NoAttemptClosed
         DEF TypeOK, StartRunning, Bound, SetState, SameRows, Fence, OpenIsCurrent, Executing,
             outcomeVars
    <3>3. CASE Heartbeat(r, gen[r])
      BY <1>0, <3>3, RowsUntouched
         DEF TypeOK, Heartbeat, SameRows, Rows, itemVars, attemptVars, outcomeVars
    <3> QED
      BY <2>1, <3>1, <3>2, <3>3 DEF HostChatPhase
  <2>2. ASSUME NEW status \in Verdicts, NEW exit \in Outputs,
               NEW creation \in {"requested", "refused"},
               FinishHostChat(r, status, exit, creation)
        PROVE  Fence'
    <3>1. PICK t \in States \ Executing : SetState(owner[r], t)
      <4>1. ChatTarget(status) \in States \ Executing
            /\ "needs_reconciliation" \in States \ Executing
        BY ChatTargetType DEF Terminal, States, Executing
      <4> QED
        BY <2>2, <4>1 DEF FinishHostChat, UnknownOutcome
    <3>2. PICK status2 : open' = open \ {r} /\ runStatus' = [runStatus EXCEPT ![r] = status2]
      BY <2>2 DEF FinishHostChat, UnknownOutcome, EndAttempt
    <3>3. r \in open /\ UNCHANGED <<generation, owner, gen, phase>>
      BY <2>2 DEF FinishHostChat, Bound
    <3>4. \A v \in Work : IF \E s \in {r} : owner[s] = v
                          THEN state'[v] \notin Executing ELSE state'[v] = state[v]
      BY <3>1 DEF SetState, TypeOK
    <3>5. \A s \in RunId \ {r} : runStatus'[s] = runStatus[s]
      BY <3>2 DEF TypeOK
    <3>6. {r} \in SUBSET open /\ SameRows /\ state' \in [Work -> States \cup {"absent"}]
      BY <1>0, <3>3 DEF SameRows, TypeOK
    <3> QED
      BY <3>2, <3>3, <3>4, <3>5, <3>6, AttemptsClosed
  <2> QED
    BY <1>10, <2>1, <2>2 DEF Chatter
<1>11. ASSUME NEW r \in RunId, NEW x \in Outputs \cap Exits, NEW ok \in BOOLEAN,
              RecoverRetainedResult(r, x, ok)
       PROVE  Fence'
  <2>1. \A v \in Work : state'[v] \in Executing <=> state[v] \in Executing
    BY <1>11 DEF RecoverRetainedResult, Settleable, SetState, Executing, TypeOK
  <2>2. \A s \in RunId : s \in open \/ phase[s] = "none" => runStatus'[s] = runStatus[s]
    BY <1>11 DEF RecoverRetainedResult, Settleable, TypeOK
  <2> QED
    BY <1>0, <1>11, <2>1, <2>2, NoAttemptClosed
       DEF TypeOK, RecoverRetainedResult, SameRows, attemptVars
<1>12. ASSUME NEW r \in RunId, DeliverRun(r) \/ MarkRunProjected(r)
       PROVE  Fence'
  BY <1>0, <1>12, RowsUntouched
     DEF TypeOK, DeliverRun, MarkRunProjected, SameRows, Rows, itemVars, attemptVars, outcomeVars
<1>13. CASE Clock
  BY <1>0, <1>13, RowsUntouched
     DEF TypeOK, Clock, LeaseLapse, BecomeEligible, DeadlinePass, LegacyRun, SameRows, Rows,
         itemVars, attemptVars, outcomeVars
<1>14. CASE UNCHANGED vars
  BY <1>0, <1>14, RowsUntouched
     DEF TypeOK, SameRows, Rows, vars, itemVars, attemptVars, outcomeVars
<1> QED
  BY <1>1, <1>2, <1>3, <1>4, <1>5, <1>6, <1>7, <1>8, <1>9, <1>10, <1>11, <1>12, <1>13, <1>14
     DEF Next

\* No stale, confused or superseded worker can write: every write a worker makes
\* is guarded by Bound, and the fence says Bound picks the one live attempt.
THEOREM FenceHolds == Spec => []Fence
<1>1. Init => TypeOK /\ Fence
  BY TypeInit, FenceInit
<1>2. TypeOK /\ Fence /\ [Next]_vars => (TypeOK /\ Fence)'
  BY TypeStep, FenceStep
<1> QED
  BY <1>1, <1>2, PTL DEF Spec

-----------------------------------------------------------------------------
(***************************************************************************)
(* The runtime budget.  RuntimeBudget is not inductive: the budget column  *)
(* pays for every attempt that declared a runtime, and for the planned     *)
(* attempt that may still declare one.                                     *)
(***************************************************************************)
Declared(w) == {r \in RunId : owner[r] = w /\ phase[r] # "planned"}

PlannedNow(w) == \E r \in open : owner[r] = w /\ phase[r] = "planned"

BudgetPays ==
  \A w \in Work :
    /\ IsFiniteSet(Declared(w))
    /\ Cardinality(Declared(w)) <= attempts[w]
    /\ PlannedNow(w) => Cardinality(Declared(w)) + 1 <= attempts[w]

\* Nothing is declared, planned or refunded
LEMMA NothingDeclared ==
  ASSUME BudgetPays, UNCHANGED <<attempts, owner, phase>>, open' \subseteq open
  PROVE  BudgetPays'
<1>1. \A w \in Work : Declared(w)' = Declared(w) /\ (PlannedNow(w)' => PlannedNow(w))
  BY DEF Declared, PlannedNow
<1> QED
  BY <1>1 DEF BudgetPays

\* An open attempt moves from one phase to the next
LEMMA PhaseMoves ==
  ASSUME TypeOK, Fence, BudgetPays, NEW r \in open, NEW ph \in Phases \ {"none", "planned"},
         phase[r] # "none", phase' = [phase EXCEPT ![r] = ph],
         UNCHANGED <<attempts, owner, open>>
  PROVE  BudgetPays'
<1> USE WorkAssumption
<1>0. r \in RunId /\ owner[r] \in Work
  BY DEF TypeOK, Fence, OpenIsCurrent
<1>1. PICK w \in Work : w = owner[r]
  BY <1>0
<1>2. \A s \in open : owner[s] = w => s = r
  BY <1>0, <1>1 DEF Fence, OpenIsCurrent, GenerationsDistinct, TypeOK
<1>3. \A v \in Work \ {w} : Declared(v)' = Declared(v) /\ (PlannedNow(v)' => PlannedNow(v))
  BY <1>0, <1>1 DEF Declared, PlannedNow, TypeOK
<1>4. ~ PlannedNow(w)'
  BY <1>0, <1>2 DEF PlannedNow, TypeOK
<1>5. Declared(w)' = Declared(w) \cup {r}
  BY <1>0, <1>1 DEF Declared, TypeOK
<1>6. phase[r] = "planned" => PlannedNow(w)
  BY <1>1 DEF PlannedNow
<1>7. phase[r] # "planned" => r \in Declared(w)
  BY <1>0, <1>1 DEF Declared
<1> HIDE DEF Declared, PlannedNow
<1>8. /\ IsFiniteSet(Declared(w)) /\ Cardinality(Declared(w)) \in Nat /\ attempts[w] \in Nat
  BY LimitsAssumption, FS_CardinalityType DEF BudgetPays, TypeOK
<1>9. /\ IsFiniteSet(Declared(w) \cup {r})
      /\ Cardinality(Declared(w) \cup {r}) =
           IF r \in Declared(w) THEN Cardinality(Declared(w)) ELSE Cardinality(Declared(w)) + 1
  BY <1>8, FS_AddElement
<1>10. Cardinality(Declared(w) \cup {r}) <= attempts[w]
  BY <1>6, <1>7, <1>8, <1>9 DEF BudgetPays
<1>11. /\ IsFiniteSet(Declared(w)') /\ Cardinality(Declared(w)') <= attempts'[w]
  BY <1>5, <1>9, <1>10
<1> QED
  BY <1>3, <1>4, <1>11 DEF BudgetPays

\* A claim spends one attempt on the row it opens
LEMMA BudgetSpent ==
  ASSUME TypeOK, Fence, BudgetPays, NEW w \in Work, NEW r \in Fresh,
         NEW ph \in Phases \ {"none"}, StartAttempt(w, r, ph), state[w] \notin Executing
  PROVE  BudgetPays'
<1> USE WorkAssumption
<1>1. r \in RunId /\ owner[r] = NoWork
  BY DEF Fresh, Fence, RowsAreOwned
<1>2. owner' = [owner EXCEPT ![r] = w] /\ phase' = [phase EXCEPT ![r] = ph]
      /\ attempts' = [attempts EXCEPT ![w] = attempts[w] + 1] /\ open' = open \cup {r}
  BY DEF StartAttempt
<1>3. ASSUME NEW v \in Work, v # w
      PROVE  /\ Declared(v)' = Declared(v)
             /\ PlannedNow(v)' => PlannedNow(v)
             /\ attempts'[v] = attempts[v]
  BY <1>1, <1>2, <1>3 DEF Declared, PlannedNow, TypeOK
<1>4. PlannedNow(w)' => ph = "planned"
  BY <1>1, <1>2 DEF PlannedNow, TypeOK, Fence, OpenIsCurrent
<1>5. Declared(w)' = IF ph = "planned" THEN Declared(w) ELSE Declared(w) \cup {r}
  BY <1>1, <1>2 DEF Declared, TypeOK
<1>6. attempts'[w] = attempts[w] + 1
  BY <1>2 DEF TypeOK
<1> HIDE DEF Declared, PlannedNow
<1>7. /\ IsFiniteSet(Declared(w)) /\ Cardinality(Declared(w)) \in Nat
      /\ attempts[w] \in Nat /\ Cardinality(Declared(w)) <= attempts[w]
  BY LimitsAssumption, FS_CardinalityType DEF BudgetPays, TypeOK
<1>8. /\ IsFiniteSet(Declared(w) \cup {r})
      /\ Cardinality(Declared(w) \cup {r}) =
           IF r \in Declared(w) THEN Cardinality(Declared(w)) ELSE Cardinality(Declared(w)) + 1
  BY <1>7, FS_AddElement
<1>9. /\ IsFiniteSet(Declared(w)')
      /\ Cardinality(Declared(w)') <= attempts'[w]
      /\ PlannedNow(w)' => Cardinality(Declared(w)') + 1 <= attempts'[w]
  BY <1>4, <1>5, <1>6, <1>7, <1>8
<1> QED
  BY <1>3, <1>9 DEF BudgetPays

LEMMA BudgetStep ==
  ASSUME TypeOK, Fence, BudgetPays, [Next]_vars
  PROVE  BudgetPays'
<1> USE WorkAssumption, LimitsAssumption
<1>1. ASSUME NEW w \in Work, AcceptTx(w) \/ RequestCancel(w)
      PROVE  BudgetPays'
  BY <1>1, NothingDeclared DEF AcceptTx, RequestCancel, attemptVars
<1>3. ASSUME NEW mine \in Kinds, ClaimNothing(mine)
      PROVE  BudgetPays'
  BY <1>3, NothingDeclared DEF ClaimNothing, attemptVars
<1>4. ASSUME NEW mine \in Kinds, NEW r \in RunId, Claim(mine, r)
      PROVE  BudgetPays'
  <2>1. PICK w \in Candidates(mine) : StartAttempt(w, r, "planned")
    BY <1>4 DEF Claim
  <2>2. w \in Work /\ state[w] \notin Executing
    BY DEF Candidates, AfterExpiry, Claimable, Executing
  <2> QED
    BY <1>4, <2>1, <2>2, BudgetSpent DEF Claim, Phases
<1>5. ASSUME NEW w \in Work, NEW r \in RunId, NEW g \in Generations, Worker(w, r, g)
      PROVE  BudgetPays'
  <2>1. CASE MarkStarting(w, r, g)
    BY <2>1, PhaseMoves DEF MarkStarting, Bound, Phases, itemVars
  <2>2. CASE MarkRuntimeRequested(w, r, g)
    BY <2>2, PhaseMoves DEF MarkRuntimeRequested, Bound, Phases, itemVars
  <2>3. CASE StartRunning(w, r, g)
    BY <2>3, PhaseMoves DEF StartRunning, Bound, Phases
  <2>4. ASSUME NEW to \in Targets, NEW why \in {"plain", "stopped", "retained"},
               Transition(w, r, g, to, why)
        PROVE  BudgetPays'
    BY <2>4, NothingDeclared DEF Transition, EndAttempt
  <2>5. CASE Defer(w, r, g)
    <3>1. CASE r \in cancelRequested
      BY <2>5, <3>1, NothingDeclared DEF Defer, EndAttempt
    <3>2. CASE r \notin cancelRequested
      <4>1. /\ r \in open /\ owner[r] = w /\ phase[r] = "planned" /\ open' = open \ {r}
            /\ attempts' = [attempts EXCEPT ![w] = IF attempts[w] > 0 THEN attempts[w] - 1 ELSE 0]
            /\ UNCHANGED <<owner, phase>>
        BY <2>5, <3>2 DEF Defer, Bound, Returnable, EndAttempt
      <4>2. \A s \in open : owner[s] = w => s = r
        BY <4>1 DEF Fence, OpenIsCurrent, GenerationsDistinct, TypeOK
      <4>3. \A v \in Work : Declared(v)' = Declared(v) /\ (PlannedNow(v)' => PlannedNow(v))
        BY <4>1 DEF Declared, PlannedNow
      <4>4. PlannedNow(w) /\ ~ PlannedNow(w)'
        BY <4>1, <4>2 DEF PlannedNow
      <4> HIDE DEF Declared, PlannedNow
      <4>5. Cardinality(Declared(w)) \in Nat /\ attempts[w] \in Nat
            /\ Cardinality(Declared(w)) + 1 <= attempts[w]
        BY <4>4, FS_CardinalityType DEF BudgetPays, TypeOK
      <4>6. attempts'[w] = attempts[w] - 1
            /\ \A v \in Work \ {w} : attempts'[v] = attempts[v]
        BY <4>1, <4>5 DEF TypeOK
      <4> QED
        BY <4>3, <4>4, <4>5, <4>6 DEF BudgetPays
    <3> QED
      BY <3>1, <3>2
  <2>6. ASSUME NEW x \in Outputs, StageRunResult(w, r, g, x)
        PROVE  BudgetPays'
    BY <2>6, NothingDeclared DEF StageRunResult, itemVars, attemptVars
  <2> QED
    BY <1>5, <2>1, <2>2, <2>3, <2>4, <2>5, <2>6 DEF Worker
<1>6. ASSUME NEW r \in RunId, NEW g \in Generations, Heartbeat(r, g)
      PROVE  BudgetPays'
  BY <1>6, NothingDeclared DEF Heartbeat, itemVars, attemptVars
<1>7. CASE RecoverExpiredLeases
  BY <1>7, NothingDeclared DEF RecoverExpiredLeases
<1>8. ASSUME NEW w \in Work, NEW g \in Generations, NEW to \in States, Resolve(w, g, to)
      PROVE  BudgetPays'
  BY <1>8, NothingDeclared DEF Resolve, attemptVars
<1>9. ASSUME NEW w \in HostChat, NEW r \in RunId, BeginHostChat(w, r)
      PROVE  BudgetPays'
  BY <1>9, BudgetSpent DEF BeginHostChat, Executing, Phases
<1>10. ASSUME NEW r \in RunId, Chatter(r)
       PROVE  BudgetPays'
  <2>1. ASSUME NEW step \in {"request", "started", "heartbeat"}, HostChatPhase(r, step)
        PROVE  BudgetPays'
    <3>1. CASE MarkRuntimeRequested(owner[r], r, gen[r])
      BY <3>1, PhaseMoves DEF MarkRuntimeRequested, Bound, Phases, itemVars
    <3>2. CASE StartRunning(owner[r], r, gen[r])
      BY <3>2, PhaseMoves DEF StartRunning, Bound, Phases
    <3>3. CASE Heartbeat(r, gen[r])
      BY <3>3, NothingDeclared DEF Heartbeat, itemVars, attemptVars
    <3> QED
      BY <2>1, <3>1, <3>2, <3>3 DEF HostChatPhase
  <2>2. ASSUME NEW status \in Verdicts, NEW exit \in Outputs,
               NEW creation \in {"requested", "refused"},
               FinishHostChat(r, status, exit, creation)
        PROVE  BudgetPays'
    BY <2>2, NothingDeclared DEF FinishHostChat, UnknownOutcome, EndAttempt
  <2> QED
    BY <1>10, <2>1, <2>2 DEF Chatter
<1>11. ASSUME NEW r \in RunId, NEW x \in Outputs \cap Exits, NEW ok \in BOOLEAN,
              RecoverRetainedResult(r, x, ok)
       PROVE  BudgetPays'
  BY <1>11, NothingDeclared DEF RecoverRetainedResult, attemptVars
<1>12. ASSUME NEW r \in RunId, DeliverRun(r) \/ MarkRunProjected(r)
       PROVE  BudgetPays'
  BY <1>12, NothingDeclared DEF DeliverRun, MarkRunProjected, itemVars, attemptVars
<1>13. CASE Clock
  BY <1>13, NothingDeclared
     DEF Clock, LeaseLapse, BecomeEligible, DeadlinePass, LegacyRun, itemVars, attemptVars
<1>14. CASE UNCHANGED vars
  BY <1>14, NothingDeclared DEF vars, itemVars, attemptVars
<1> QED
  BY <1>1, <1>3, <1>4, <1>5, <1>6, <1>7, <1>8, <1>9, <1>10, <1>11, <1>12, <1>13, <1>14
     DEF Next

\* However an item is claimed, deferred, recovered and retried, and whoever its
\* workers are, at most MaxAttempts of its attempts declare a runtime: a deferral
\* gives back only what a planned attempt had spent.
THEOREM RuntimesWithinBudget == Spec => []RuntimeBudget
<1>1. Init => BudgetPays
  <2> SUFFICES ASSUME Init, NEW w \in Work
               PROVE  /\ Declared(w) = {} /\ ~ PlannedNow(w) /\ attempts[w] = 0
    BY FS_EmptySet DEF BudgetPays
  <2> QED
    BY WorkAssumption DEF Init, Declared, PlannedNow
<1>2. TypeOK /\ Fence /\ BudgetPays /\ [Next]_vars => BudgetPays'
  BY BudgetStep
<1>3. ASSUME TypeOK, BudgetPays
      PROVE  RuntimeBudget
  <2> SUFFICES ASSUME NEW w \in Work
               PROVE  Cardinality({r \in Attempts(w) : phase[r] # "planned"}) <= MaxAttempts
    BY DEF RuntimeBudget
  <2>1. {r \in Attempts(w) : phase[r] # "planned"} = Declared(w)
    BY DEF Attempts, Declared
  <2>2. Cardinality(Declared(w)) <= attempts[w] /\ attempts[w] <= MaxAttempts
        /\ attempts[w] \in Nat /\ MaxAttempts \in Nat /\ Cardinality(Declared(w)) \in Nat
    BY <1>3, LimitsAssumption, FS_CardinalityType DEF BudgetPays, TypeOK
  <2> QED
    BY <2>1, <2>2
<1> QED
  BY <1>1, <1>2, <1>3, TypeCorrect, FenceHolds, PTL DEF Spec

=============================================================================
